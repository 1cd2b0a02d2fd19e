----------------------------- MODULE ChipProofs -----------------------------
(***************************************************************************)
(* What holds of the sound chip: of its oscillators and their time (Apu),   *)
(* for every size and whatever the game writes, and of its mixer            *)
(* (StereoBuffer), for any oscillators, amplitudes and volumes and for      *)
(* every rate and size of buffers that a frame fits.  The jumps of the      *)
(* noise's shift register (Lfsr) are those of its clocks, however many.     *)
(***************************************************************************)
EXTENDS StereoBuffer, Apu, Lfsr, WellFoundedInduction, TLAPS

-----------------------------------------------------------------------------
(* Samples and clocks                                                       *)

LEMMA Sizes ==
    /\ FrameClocks \in Nat \ {0} /\ Factor \in Nat \ {0} /\ Accuracy \in Nat \ {0}
    /\ Width \in Nat /\ Extra \in Nat /\ Width <= Extra /\ Size \in Nat /\ Pairs \in Nat \ {0}
    /\ FrameClocks * Factor \in Nat /\ Pairs * Accuracy \in Nat
    /\ FrameClocks * Factor <= Pairs * Accuracy
    /\ Pairs * Accuracy + FrameClocks * Factor <= (Size + 1) * Accuracy
<1>1. /\ FrameClocks \in Nat \ {0} /\ Factor \in Nat \ {0} /\ Accuracy \in Nat \ {0}
      /\ Width \in Nat /\ Extra \in Nat /\ Width <= Extra /\ Size \in Nat /\ Pairs \in Nat \ {0}
      /\ FrameClocks * Factor <= Pairs * Accuracy
      /\ Pairs * Accuracy + FrameClocks * Factor <= (Size + 1) * Accuracy
  BY StereoAssumption
<1>2. \A m, n \in Nat : m * n \in Nat
  OBVIOUS
<1> QED
  BY <1>1, <1>2

\* Division by the accuracy.
LEMMA Samples ==
    /\ \A a \in Nat : a \div Accuracy \in Nat
    /\ \A a, b \in Nat : a <= b => a \div Accuracy <= b \div Accuracy
    /\ \A a, n \in Nat : a \div Accuracy >= n =>
           a - n * Accuracy \in Nat /\ (a - n * Accuracy) \div Accuracy = a \div Accuracy - n
    /\ \A a, n \in Nat : a \div Accuracy < n <=> a < n * Accuracy
<1> DEFINE q(a) == a \div Accuracy
           r(a) == a % Accuracy
<1>1. Accuracy \in Nat \ {0}
  BY Sizes
<1>2. \A a \in Nat : q(a) \in Nat /\ r(a) \in 0 .. Accuracy - 1 /\ a = q(a) * Accuracy + r(a)
  BY <1>1
<1>3. \A m, n \in Nat : m < n => m * Accuracy + Accuracy <= n * Accuracy
  <2> TAKE m, n \in Nat
  <2> HAVE m < n
  <2> DEFINE d == n - m - 1
  <2>1. d \in Nat /\ n = m + 1 + d
    OBVIOUS
  <2> HIDE DEF d
  <2>2. n * Accuracy = m * Accuracy + Accuracy + d * Accuracy
    BY <1>1, <2>1
  <2>3. d * Accuracy \in Nat /\ m * Accuracy \in Nat
    BY <1>1, <2>1
  <2> QED
    BY <1>1, <2>2, <2>3
<1>4. \A m \in Nat : m * Accuracy \in Nat
  BY <1>1
<1>5. \A k \in Nat, s \in 0 .. Accuracy - 1 : (k * Accuracy + s) \div Accuracy = k
  <2> TAKE k \in Nat, s \in 0 .. Accuracy - 1
  <2> DEFINE a == k * Accuracy + s
  <2>1. a \in Nat
    BY <1>1, <1>4
  <2> HIDE DEF a
  <2>2. q(a) \in Nat /\ r(a) \in 0 .. Accuracy - 1 /\ a = q(a) * Accuracy + r(a)
    BY <1>2, <2>1
  <2> HIDE DEF q, r
  <2>3. ~(q(a) < k)
    <3> SUFFICES ASSUME q(a) < k PROVE FALSE
      OBVIOUS
    <3>1. q(a) * Accuracy + Accuracy <= k * Accuracy
      BY <1>3, <2>2
    <3> QED
      BY <1>1, <1>4, <2>2, <3>1 DEF a
  <2>4. ~(k < q(a))
    <3> SUFFICES ASSUME k < q(a) PROVE FALSE
      OBVIOUS
    <3>1. k * Accuracy + Accuracy <= q(a) * Accuracy
      BY <1>3, <2>2
    <3> QED
      BY <1>1, <1>4, <2>2, <3>1 DEF a
  <2>5. q(a) = k
    BY <2>2, <2>3, <2>4
  <2> QED
    BY <2>5 DEF a, q
<1> HIDE DEF q, r
<1>6. \A a \in Nat : q(a) \in Nat
  BY <1>2
<1>7. \A a, b \in Nat : a <= b => q(a) <= q(b)
  <2> TAKE a, b \in Nat
  <2> HAVE a <= b
  <2>1. SUFFICES ASSUME q(b) < q(a) PROVE FALSE
    BY <1>6
  <2>2. q(b) * Accuracy + Accuracy <= q(a) * Accuracy
    BY <1>3, <1>6, <2>1
  <2>3. /\ r(a) \in Nat /\ r(b) < Accuracy /\ r(b) \in Nat
        /\ a = q(a) * Accuracy + r(a) /\ b = q(b) * Accuracy + r(b)
    BY <1>1, <1>2
  <2>4. q(a) * Accuracy \in Nat /\ q(b) * Accuracy \in Nat
    BY <1>4, <1>6
  <2> QED
    BY <1>1, <2>2, <2>3, <2>4
<1>8. \A a, n \in Nat : q(a) >= n =>
        a - n * Accuracy \in Nat /\ (a - n * Accuracy) \div Accuracy = q(a) - n
  <2> TAKE a, n \in Nat
  <2> HAVE q(a) >= n
  <2> DEFINE k == q(a) - n
  <2>1. k \in Nat /\ q(a) = n + k
    BY <1>6
  <2> HIDE DEF k
  <2>2. q(a) * Accuracy = n * Accuracy + k * Accuracy
    BY <1>1, <2>1
  <2>3. r(a) \in 0 .. Accuracy - 1 /\ a = q(a) * Accuracy + r(a)
    BY <1>2
  <2>4. n * Accuracy \in Nat /\ k * Accuracy \in Nat
    BY <1>4, <2>1
  <2>5. a - n * Accuracy = k * Accuracy + r(a)
    BY <1>1, <2>2, <2>3, <2>4
  <2>6. (k * Accuracy + r(a)) \div Accuracy = k
    BY <1>5, <2>1, <2>3
  <2> QED
    BY <1>1, <2>1, <2>3, <2>4, <2>5, <2>6
<1>9. \A a, n \in Nat : q(a) < n <=> a < n * Accuracy
  <2> TAKE a, n \in Nat
  <2>1. /\ r(a) \in 0 .. Accuracy - 1 /\ a = q(a) * Accuracy + r(a) /\ q(a) \in Nat
        /\ q(a) * Accuracy \in Nat /\ n * Accuracy \in Nat
    BY <1>2, <1>4
  <2>2. CASE q(a) < n
    <3>1. q(a) * Accuracy + Accuracy <= n * Accuracy
      BY <1>3, <2>1, <2>2
    <3> QED
      BY <1>1, <2>1, <2>2, <3>1
  <2>3. CASE n = q(a)
    BY <1>1, <2>1, <2>3
  <2>4. CASE n < q(a)
    <3>1. n * Accuracy + Accuracy <= q(a) * Accuracy
      BY <1>3, <2>1, <2>4
    <3> QED
      BY <1>1, <2>1, <2>4, <3>1
  <2> QED
    BY <2>1, <2>2, <2>3, <2>4
<1> QED
  BY <1>6, <1>7, <1>8, <1>9 DEF q

\* The greatest of up to three numbers.
LEMMA Greatest ==
    ASSUME NEW a \in Int, NEW b \in Int, NEW c \in Int, NEW S \in SUBSET {a, b, c}, S # {}
    PROVE  Max(S) \in S /\ \A x \in S : Max(S) >= x
<1> DEFINE G(m) == m \in S /\ \A x \in S : m >= x
<1>1. \E m \in {a, b, c} : G(m)
  <2>1. CASE a \in S /\ (b \in S => a >= b) /\ (c \in S => a >= c)
    <3>1. G(a)
      BY <2>1
    <3> QED
      BY <3>1
  <2>2. CASE b \in S /\ (a \in S => b >= a) /\ (c \in S => b >= c)
    <3>1. G(b)
      BY <2>2
    <3> QED
      BY <3>1
  <2>3. CASE c \in S /\ (a \in S => c >= a) /\ (b \in S => c >= b)
    <3>1. G(c)
      BY <2>3
    <3> QED
      BY <3>1
  <2>4. a \in S \/ b \in S \/ c \in S
    OBVIOUS
  <2> QED
    BY <2>1, <2>2, <2>3, <2>4
<1> QED
  BY <1>1 DEF Max

-----------------------------------------------------------------------------
(* A buffer                                                                 *)

Totals == [Voices -> Int]

Buffers == [offset : Nat, reach : Nat, last_non_silence : Nat, modified : BOOLEAN,
            unsettled : BOOLEAN, level : Totals]

\* At the clock t: what was put in lies before what a delta may touch now, and below
\* last_non_silence unless the buffer is marked.
Buffer(b, t) ==
    /\ b \in Buffers
    /\ b.reach <= (t * Factor + b.offset) \div Accuracy + Extra
    /\ b.modified \/ b.reach <= b.last_non_silence

\* Later more may be touched.
LEMMA Later ==
    ASSUME NEW o \in Nat, NEW t \in Nat, NEW u \in Nat, t <= u
    PROVE  /\ (t * Factor + o) \div Accuracy \in Nat /\ (u * Factor + o) \div Accuracy \in Nat
           /\ (t * Factor + o) \div Accuracy <= (u * Factor + o) \div Accuracy
<1>1. t * Factor \in Nat /\ u * Factor \in Nat /\ t * Factor <= u * Factor
  <2> DEFINE d == u - t
  <2>1. d \in Nat /\ u = t + d
    OBVIOUS
  <2> HIDE DEF d
  <2>2. u * Factor = t * Factor + d * Factor
    BY <2>1, Sizes
  <2>3. t * Factor \in Nat /\ d * Factor \in Nat
    BY <2>1, Sizes
  <2> QED
    BY <2>2, <2>3
<1>2. t * Factor + o \in Nat /\ u * Factor + o \in Nat /\ t * Factor + o <= u * Factor + o
  BY <1>1
<1> QED
  BY <1>2, Samples, Zenon

\* Deltas of one run or write: at most at its first and last clock.
Within(times, u) == \E t1, t2 \in 0 .. u : times \subseteq {t1, t2}

LEMMA PutKeeps ==
    ASSUME NEW b, NEW u \in 0 .. FrameClocks, NEW t \in 0 .. u, Buffer(b, t),
           NEW times, Within(times, u),
           NEW deltas \in Totals
    PROVE  /\ Buffer(Put(b, times, deltas), u) /\ Put(b, times, deltas).offset = b.offset
           /\ Put(b, times, deltas).level = [v \in Voices |-> b.level[v] + deltas[v]]
<1> DEFINE S == {b.reach} \cup {Touched(b, x) : x \in times}
           last == (u * Factor + b.offset) \div Accuracy
           level == [v \in Voices |-> b.level[v] + deltas[v]]
           p == Put(b, times, deltas)
<1>0. PICK t1, t2 \in 0 .. u : times \subseteq {t1, t2}
  BY DEF Within
<1>1. b \in Buffers /\ b.reach \in Nat /\ b.offset \in Nat /\ b.level \in Totals
  BY DEF Buffer, Buffers
<1>2. \A x \in 0 .. u : /\ (x * Factor + b.offset) \div Accuracy \in Nat
                        /\ (x * Factor + b.offset) \div Accuracy <= last
  BY <1>1, Later, Sizes
<1>3. last \in Nat
  <2>1. u \in 0 .. u
    BY Sizes
  <2> QED
    BY <1>2, <2>1
<1>4. b.reach <= last + Extra
  <2>1. b.reach <= (t * Factor + b.offset) \div Accuracy + Extra
    BY DEF Buffer
  <2>2. t \in 0 .. u
    BY Sizes
  <2>3. /\ (t * Factor + b.offset) \div Accuracy \in Nat
        /\ (t * Factor + b.offset) \div Accuracy <= last
    BY <1>2, <2>2
  <2> HIDE DEF last
  <2> QED
    BY <1>1, <1>3, <2>1, <2>3, Sizes
<1>5. \A x \in 0 .. u : Touched(b, x) \in Nat /\ Touched(b, x) <= last + Extra
  <2> TAKE x \in 0 .. u
  <2>1. /\ (x * Factor + b.offset) \div Accuracy \in Nat
        /\ (x * Factor + b.offset) \div Accuracy <= last
    BY <1>2
  <2> HIDE DEF last
  <2> QED
    BY <1>3, <2>1, Sizes DEF Touched
<1> HIDE DEF last
<1>6. S \in SUBSET {b.reach, Touched(b, t1), Touched(b, t2)} /\ S # {}
  BY <1>0
<1>7. Max(S) \in S
  <2>1. b.reach \in Int /\ Touched(b, t1) \in Int /\ Touched(b, t2) \in Int
    BY <1>1, <1>5
  <2> HIDE DEF S
  <2> QED
    BY <1>6, <2>1, Greatest
<1>8. Max(S) \in Nat /\ Max(S) <= last + Extra
  <2>1. \A x \in S : x \in Nat /\ x <= last + Extra
    BY <1>0, <1>1, <1>4, <1>5
  <2> HIDE DEF S
  <2> QED
    BY <1>7, <2>1
<1>9. p = [b EXCEPT !.reach = Max(S), !.level = level, !.modified = TRUE]
  BY DEF Put
<1> HIDE DEF S
<1>10. level \in Totals
  BY <1>1 DEF Totals
<1> HIDE DEF level, p
<1>11. /\ p \in Buffers /\ p.offset = b.offset /\ p.reach = Max(S) /\ p.modified = TRUE
       /\ p.level = level
  BY <1>1, <1>8, <1>9, <1>10 DEF Buffers
<1> QED
  BY <1>8, <1>11 DEF Buffer, p, last, level

LEMMA EndedKeeps ==
    ASSUME NEW b, Buffer(b, FrameClocks)
    PROVE  /\ Buffer(Ended(b), 0) /\ Ended(b).modified = FALSE
           /\ Ended(b).offset = b.offset + FrameClocks * Factor /\ Ended(b).level = b.level
<1> DEFINE o == b.offset + FrameClocks * Factor
           e == [b EXCEPT !.offset = o, !.modified = FALSE]
           n == o \div Accuracy + Extra
           f == [e EXCEPT !.last_non_silence = n]
<1>1. /\ b \in Buffers /\ b.offset \in Nat /\ o \in Nat /\ b.reach \in Nat
      /\ b.last_non_silence \in Nat
  BY Sizes DEF Buffer, Buffers
<1>2. FrameClocks * Factor + b.offset = o /\ 0 * Factor + o = o
  BY <1>1, Sizes
<1>3. b.reach <= n /\ n \in Nat
  <2>1. b.reach <= (FrameClocks * Factor + b.offset) \div Accuracy + Extra
    BY DEF Buffer
  <2>2. o \div Accuracy \in Nat
    BY <1>1, Samples
  <2> QED
    BY <1>2, <2>1, <2>2, Sizes
<1> HIDE DEF o
<1>4. /\ e \in Buffers /\ e.offset = o /\ e.reach = b.reach /\ e.modified = FALSE
      /\ e.level = b.level /\ e.last_non_silence = b.last_non_silence
  BY <1>1 DEF Buffers
<1>5. Ended(b) = IF b.modified THEN f ELSE e
  <2>1. samples_avail(e) + Extra = n
    BY <1>4 DEF samples_avail
  <2> QED
    BY <2>1 DEF Ended, o
<1> HIDE DEF e
<1>6. CASE b.modified
  <2>1. /\ f \in Buffers /\ f.offset = o /\ f.reach = b.reach /\ f.modified = FALSE
        /\ f.level = b.level /\ f.last_non_silence = n
    BY <1>3, <1>4 DEF Buffers
  <2> HIDE DEF f
  <2>2. Buffer(f, 0)
    BY <1>2, <1>3, <2>1 DEF Buffer
  <2> QED
    BY <1>5, <1>6, <2>1, <2>2 DEF o
<1>7. CASE ~b.modified
  <2>1. b.reach <= b.last_non_silence
    BY <1>7 DEF Buffer
  <2>2. Buffer(e, 0)
    BY <1>2, <1>3, <1>4, <2>1 DEF Buffer
  <2> QED
    BY <1>4, <1>5, <1>7, <2>2 DEF o
<1> QED
  BY <1>6, <1>7

\* Removing samples leaves no delta above what is tracked, also in a silent buffer, which
\* is not shifted: it holds none.
LEMMA RemovedKeeps ==
    ASSUME NEW b, Buffer(b, 0), b.modified = FALSE, NEW n \in Nat, n <= samples_avail(b)
    PROVE  /\ Buffer(Removed(b, n), 0) /\ Removed(b, n).modified = FALSE
           /\ Removed(b, n).offset = b.offset - n * Accuracy /\ Removed(b, n).level = b.level
<1> DEFINE o == b.offset - n * Accuracy
           m == IF b.last_non_silence < n THEN 0 ELSE b.last_non_silence - n
           r == remove_silence(b, n)
           remain == samples_avail(r) + Extra
           reach == IF b.reach > n + remain THEN b.reach
                    ELSE IF b.reach > n THEN b.reach - n ELSE 0
           q == [r EXCEPT !.reach = reach]
<1>1. /\ b \in Buffers /\ b.offset \in Nat /\ b.reach \in Nat /\ b.last_non_silence \in Nat
      /\ b.reach <= b.last_non_silence
  BY DEF Buffer, Buffers
<1>2. 0 * Factor + b.offset = b.offset
  BY <1>1, Sizes
<1>3. b.reach <= b.offset \div Accuracy + Extra /\ b.offset \div Accuracy \in Nat
  BY <1>1, <1>2, Samples DEF Buffer
<1>4. o \in Nat /\ o \div Accuracy = b.offset \div Accuracy - n
  BY <1>1, Samples DEF samples_avail
<1>5. m \in Nat
  BY <1>1
<1> HIDE DEF o, m
<1>6. /\ r \in Buffers /\ r.offset = o /\ r.reach = b.reach /\ r.last_non_silence = m
      /\ r.modified = FALSE /\ r.level = b.level
  <2>1. r = [b EXCEPT !.offset = o, !.last_non_silence = m]
    BY DEF remove_silence, o, m
  <2> HIDE DEF r
  <2> QED
    BY <1>1, <1>4, <1>5, <2>1 DEF Buffers
<1> HIDE DEF r
<1>7. 0 * Factor + o = o
  BY <1>4, Sizes
<1>8. CASE non_silent(b)
  <2>1. n + remain = b.offset \div Accuracy + Extra
    BY <1>3, <1>4, <1>6, Sizes DEF samples_avail
  <2> HIDE DEF remain
  <2>2. /\ reach \in Nat /\ reach <= b.offset \div Accuracy - n + Extra
        /\ reach <= m
    BY <1>1, <1>3, <2>1, Sizes DEF m, samples_avail
  <2>3. Removed(b, n) = q
    BY <1>6, <1>8 DEF Removed, remove_samples, r, remain
  <2> HIDE DEF reach
  <2>4. /\ q \in Buffers /\ q.offset = o /\ q.reach = reach /\ q.last_non_silence = m
        /\ q.modified = FALSE /\ q.level = b.level
    BY <1>6, <2>2 DEF Buffers
  <2> HIDE DEF q
  <2>5. Buffer(q, 0)
    BY <1>4, <1>7, <2>2, <2>4 DEF Buffer
  <2> QED
    BY <2>3, <2>4, <2>5 DEF o
<1>9. CASE ~non_silent(b)
  <2>1. b.reach = 0
    BY <1>1, <1>9 DEF non_silent
  <2>2. Removed(b, n) = r
    BY <1>9 DEF Removed, r
  <2>3. o \div Accuracy + Extra \in Nat
    BY <1>4, Samples, Sizes
  <2>4. Buffer(r, 0)
    BY <1>5, <1>6, <1>7, <2>1, <2>3 DEF Buffer
  <2> QED
    BY <1>6, <2>2, <2>4 DEF o
<1> QED
  BY <1>8, <1>9

-----------------------------------------------------------------------------
(* The mixer                                                                *)

\* The three buffers are as long as each other and shorter than a block that is read.
MixInv ==
    /\ volume \in Nat /\ last_time \in 0 .. FrameClocks
    /\ voice \in [Voices -> [output : Sides \cup {"none"}, last_amp : Nat]]
    /\ bufs \in [Sides -> Buffers]
    /\ \A s \in Sides : Buffer(bufs[s], last_time)
    /\ \A s \in Sides : bufs[s].offset = bufs["left"].offset
    /\ bufs["left"].offset < Pairs * Accuracy
    /\ NoResidue

\* A unit of volume weighs the same in every amplitude.
LEMMA Weighs ==
    ASSUME NEW w \in Nat, NEW a \in Int, NEW b \in Int
    PROVE  w * a + w * (b - a) = w * b /\ w * (b - a) \in Int /\ w * 0 = 0
OBVIOUS

LEMMA Starts == ASSUME StereoInit PROVE MixInv
<1> DEFINE b == [offset |-> 0, reach |-> 0, last_non_silence |-> 0, modified |-> FALSE,
                 unsettled |-> FALSE, level |-> [v \in Voices |-> 0]]
<1>1. b \in Buffers /\ b.offset = 0 /\ b.reach = 0 /\ b.last_non_silence = 0
      /\ b.level = [v \in Voices |-> 0]
  BY DEF Buffers, Totals
<1>2. bufs = [s \in Sides |-> b] /\ volume = 1 /\ last_time = 0
      /\ voice = [v \in Voices |-> [output |-> "none", last_amp |-> 0]]
  BY DEF StereoInit
<1> HIDE DEF b
<1>3. bufs \in [Sides -> Buffers] /\ \A s \in Sides : bufs[s] = b
  BY <1>1, <1>2
<1>4. "left" \in Sides /\ "none" \notin Sides
  BY DEF Sides
<1>5. Buffer(b, 0)
  <2>1. 0 * Factor + 0 = 0 /\ 0 \div Accuracy \in Nat
    BY Samples, Sizes
  <2> QED
    BY <1>1, <2>1, Sizes DEF Buffer
<1>6. \A s \in Sides : Buffer(bufs[s], last_time)
  BY <1>2, <1>3, <1>5
<1>7. bufs["left"].offset < Pairs * Accuracy
  <2>1. \A m, n \in Nat \ {0} : m * n > 0
    OBVIOUS
  <2>2. Pairs * Accuracy > 0
    BY <2>1, Sizes
  <2> QED
    BY <1>1, <1>3, <1>4, <2>2
<1>8. NoResidue
  BY <1>1, <1>2, <1>3, <1>4 DEF NoResidue
<1>9. \A s \in Sides : bufs[s].offset = bufs["left"].offset
  BY <1>3, <1>4
<1>10. voice \in [Voices -> [output : Sides \cup {"none"}, last_amp : Nat]]
  BY <1>2
<1> QED
  BY <1>2, <1>3, <1>6, <1>7, <1>8, <1>9, <1>10, Sizes DEF MixInv

LEMMA Keeps == ASSUME MixInv, UNCHANGED stereoVars PROVE MixInv'
BY DEF MixInv, stereoVars, NoResidue, Buffer

\* silence_osc: what the silenced oscillators put in is taken back, at this clock.
LEMMA SilencedKeeps ==
    ASSUME MixInv, NEW vs \in SUBSET Voices, NEW s \in Sides
    PROVE  /\ Buffer(Silenced(vs)[s], last_time)
           /\ Silenced(vs)[s].offset = bufs[s].offset
           /\ \A v \in Voices : Silenced(vs)[s].level[v] =
                                  IF v \in vs THEN 0 ELSE bufs[s].level[v]
<1> DEFINE b == bufs[s]
           loud == {v \in vs : voice[v].output = s /\ voice[v].last_amp # 0}
           zero == [v \in Voices |-> 0]
           deltas == Deltas(loud, zero)
           p == Put(b, {last_time}, deltas)
<1>1. /\ Buffer(b, last_time) /\ b.level \in Totals /\ volume \in Nat
      /\ last_time \in 0 .. FrameClocks
      /\ voice \in [Voices -> [output : Sides \cup {"none"}, last_amp : Nat]]
      /\ \A v \in Voices : b.level[v] = IF voice[v].output = s
                                        THEN volume * voice[v].last_amp ELSE 0
  BY DEF MixInv, NoResidue, Buffers
<1>2. Silenced(vs)[s] = IF loud = {} THEN b ELSE p
  BY DEF Silenced
<1>3. deltas = [v \in Voices |-> IF v \in loud THEN volume * (0 - voice[v].last_amp) ELSE 0]
  BY DEF Deltas
<1>4. \A v \in Voices : voice[v].last_amp \in Nat
  BY <1>1
<1>5. \A v \in vs : v \notin loud => b.level[v] = 0
  <2> TAKE v \in vs
  <2> HAVE v \notin loud
  <2>1. CASE voice[v].output # s
    BY <1>1, <2>1
  <2>2. CASE voice[v].last_amp = 0
    BY <1>1, <2>2, Weighs
  <2> QED
    BY <2>1, <2>2
<1>6. \A v \in loud : b.level[v] + deltas[v] = 0 /\ deltas[v] \in Int
  <2> TAKE v \in loud
  <2>1. v \in Voices /\ deltas[v] = volume * (0 - voice[v].last_amp)
        /\ b.level[v] = volume * voice[v].last_amp
    BY <1>1, <1>3
  <2>2. /\ volume * voice[v].last_amp + volume * (0 - voice[v].last_amp) = volume * 0
        /\ volume * (0 - voice[v].last_amp) \in Int /\ volume * 0 = 0
    BY <1>1, <1>4, <2>1, Weighs
  <2> QED
    BY <2>1, <2>2
<1>7. \A v \in Voices \ loud : deltas[v] = 0
  BY <1>3
<1> HIDE DEF loud, deltas
<1>8. deltas \in Totals
  <2>1. \A v \in Voices : deltas[v] \in Int
    BY <1>6, <1>7
  <2>2. deltas = [v \in Voices |-> deltas[v]]
    BY <1>3
  <2> QED
    BY <2>1, <2>2 DEF Totals
<1>9. /\ Buffer(p, last_time) /\ p.offset = b.offset
      /\ p.level = [v \in Voices |-> b.level[v] + deltas[v]]
  <2>1. last_time \in 0 .. last_time /\ last_time <= last_time
    BY <1>1, Sizes
  <2>2. Within({last_time}, last_time)
    BY <2>1 DEF Within
  <2> HIDE DEF b
  <2> QED
    BY <1>1, <1>8, <2>1, <2>2, PutKeeps
<1>10. CASE loud = {}
  BY <1>1, <1>2, <1>5, <1>10
<1>11. CASE loud # {}
  <2>1. Silenced(vs)[s] = p
    BY <1>2, <1>11
  <2>2. \A v \in Voices : p.level[v] = IF v \in vs THEN 0 ELSE b.level[v]
    <3> TAKE v \in Voices
    <3>1. p.level[v] = b.level[v] + deltas[v] /\ b.level[v] \in Int
      BY <1>1, <1>9
    <3>2. CASE v \in loud
      <4>1. v \in vs
        BY <3>2 DEF loud
      <4> QED
        BY <1>6, <3>1, <3>2, <4>1
    <3>3. CASE v \notin loud
      BY <1>5, <1>7, <3>1, <3>3
    <3> QED
      BY <3>2, <3>3
  <2> HIDE DEF p, b
  <2> QED
    BY <1>9, <2>1, <2>2 DEF b
<1> QED
  BY <1>10, <1>11

\* A write that silences vs and gives the oscillators `next`, whose silenced ones are at
\* amplitude 0 and whose others are as they were unless all are silenced.
LEMMA SilencingKeeps ==
    ASSUME MixInv, NEW vs \in SUBSET Voices,
           bufs' = Silenced(vs), last_time' = last_time, volume' \in Nat,
           voice' \in [Voices -> [output : Sides \cup {"none"}, last_amp : Nat]],
           \A v \in vs : voice'[v].last_amp = 0,
           \A v \in Voices \ vs : voice'[v] = voice[v] /\ volume' = volume
    PROVE  MixInv'
<1>1. \A s \in Sides : /\ Buffer(bufs'[s], last_time') /\ bufs'[s].offset = bufs[s].offset
                       /\ \A v \in Voices : bufs'[s].level[v] =
                                              IF v \in vs THEN 0 ELSE bufs[s].level[v]
  BY SilencedKeeps
<1>2. bufs' \in [Sides -> Buffers]
  <2>1. bufs' = [s \in Sides |-> bufs'[s]]
    BY DEF Silenced
  <2> QED
    BY <1>1, <2>1 DEF Buffer
<1>3. /\ \A s \in Sides : bufs'[s].offset = bufs'["left"].offset
      /\ bufs'["left"].offset < Pairs * Accuracy
  <2>1. "left" \in Sides
    BY DEF Sides
  <2> QED
    BY <1>1, <2>1 DEF MixInv
<1>4. \A s \in Sides, v \in Voices :
        bufs'[s].level[v] = IF voice'[v].output = s THEN volume' * voice'[v].last_amp ELSE 0
  <2> TAKE s \in Sides, v \in Voices
  <2>1. CASE v \in vs
    BY <1>1, <2>1, Weighs
  <2>2. CASE v \notin vs
    BY <1>1, <2>2 DEF MixInv, NoResidue
  <2> QED
    BY <2>1, <2>2
<1>5. NoResidue'
  BY <1>4 DEF NoResidue
<1>6. last_time' \in 0 .. FrameClocks
  BY DEF MixInv
<1> QED
  BY <1>1, <1>2, <1>3, <1>5, <1>6 DEF MixInv

LEMMA RunKeeps == ASSUME MixInv, NEW time \in 1 .. FrameClocks, RunUntil(time) PROVE MixInv'
<1>1. /\ time \in last_time + 1 .. FrameClocks /\ last_time' = time /\ volume' = volume
      /\ volume \in Nat /\ last_time \in 0 .. FrameClocks
      /\ voice \in [Voices -> [output : Sides \cup {"none"}, last_amp : Nat]]
  BY DEF RunUntil, MixInv
<1>2. PICK amp \in [Voices -> Amps],
           changes \in [Voices -> {{}, {last_time}, {time - 1}}] :
        Runs(time, amp, changes) /\ bufs' = [s \in Sides |-> PlayedNow(s, time, amp, changes)]
  BY DEF RunUntil
<1>3. /\ voice' = [v \in Voices |-> [voice[v] EXCEPT !.last_amp = amp[v]]]
      /\ \A v \in Voices : voice[v].last_amp \in Nat /\ amp[v] \in Nat
  BY <1>1, <1>2, StereoAssumption DEF Runs
<1>4. /\ voice' \in [Voices -> [output : Sides \cup {"none"}, last_amp : Nat]]
      /\ \A v \in Voices : voice'[v].output = voice[v].output /\ voice'[v].last_amp = amp[v]
  BY <1>1, <1>3
<1>5. \A s \in Sides :
        /\ Buffer(bufs'[s], time) /\ bufs'[s].offset = bufs[s].offset
        /\ \A v \in Voices : bufs'[s].level[v] = IF voice[v].output = s
                                                 THEN volume * amp[v] ELSE 0
  <2> TAKE s \in Sides
  <2> DEFINE b == bufs[s]
             vs == Routed(s)
             times == UNION {changes[v] : v \in vs}
             deltas == Deltas(vs, amp)
             p == Put(b, times, deltas)
  <2>1. /\ Buffer(b, last_time) /\ b \in Buffers /\ b.level \in Totals
        /\ \A v \in Voices : b.level[v] = IF voice[v].output = s
                                          THEN volume * voice[v].last_amp ELSE 0
    BY DEF MixInv, NoResidue, Buffers
  <2>2. bufs'[s] = IF vs = {} THEN b ELSE p
    BY <1>2 DEF PlayedNow
  <2>3. /\ deltas = [v \in Voices |-> IF v \in vs
                                      THEN volume * (amp[v] - voice[v].last_amp) ELSE 0]
        /\ \A v \in Voices : v \in vs <=> voice[v].output = s
    BY DEF Deltas, Routed
  <2>4. \A v \in Voices : /\ deltas[v] \in Int
                          /\ b.level[v] + deltas[v] = IF v \in vs THEN volume * amp[v] ELSE 0
    <3> TAKE v \in Voices
    <3>1. CASE v \in vs
      <4>1. /\ volume * voice[v].last_amp + volume * (amp[v] - voice[v].last_amp)
                 = volume * amp[v]
            /\ volume * (amp[v] - voice[v].last_amp) \in Int
        BY <1>1, <1>3, Weighs
      <4>2. /\ deltas[v] = volume * (amp[v] - voice[v].last_amp)
            /\ b.level[v] = volume * voice[v].last_amp
        BY <2>1, <2>3, <3>1
      <4> HIDE DEF deltas, b, vs
      <4> QED
        BY <3>1, <4>1, <4>2
    <3>2. CASE v \notin vs
      <4>1. deltas[v] = 0 /\ b.level[v] = 0
        BY <2>1, <2>3, <3>2
      <4> HIDE DEF deltas, b, vs
      <4> QED
        BY <3>2, <4>1
    <3> QED
      BY <3>1, <3>2
  <2>5. CASE vs = {}
    <3>1. \A v \in Voices : voice[v].output # s /\ b.level[v] = 0
      BY <2>1, <2>3, <2>5
    <3>2. Buffer(b, time)
      <4>1. /\ b.offset \in Nat /\ b.reach \in Nat
            /\ b.reach <= (last_time * Factor + b.offset) \div Accuracy + Extra
        BY <2>1 DEF Buffer, Buffers
      <4>2. last_time \in Nat /\ time \in Nat /\ last_time <= time
        BY <1>1, Sizes
      <4>3. /\ (last_time * Factor + b.offset) \div Accuracy \in Nat
            /\ (time * Factor + b.offset) \div Accuracy \in Nat
            /\ (last_time * Factor + b.offset) \div Accuracy
                 <= (time * Factor + b.offset) \div Accuracy
        BY <4>1, <4>2, Later
      <4>4. b.reach <= (time * Factor + b.offset) \div Accuracy + Extra
        BY <4>1, <4>3, Sizes
      <4> QED
        BY <2>1, <4>4 DEF Buffer
    <3> QED
      BY <2>2, <2>5, <3>1, <3>2
  <2>6. CASE vs # {}
    <3>1. times \subseteq {last_time, time - 1}
      BY <1>2 DEF Routed
    <3>2. deltas \in Totals
      BY <2>3, <2>4 DEF Totals
    <3>3. /\ last_time \in 0 .. FrameClocks /\ time \in 0 .. FrameClocks /\ last_time <= time
          /\ last_time \in 0 .. time /\ time - 1 \in 0 .. time
      BY <1>1, Sizes
    <3>7. Within(times, time)
      BY <3>1, <3>3 DEF Within
    <3>4. bufs'[s] = p
      BY <2>2, <2>6
    <3>8. Buffer(b, last_time)
      BY <2>1
    <3> HIDE DEF times, deltas, b, vs
    <3>5. /\ Buffer(p, time) /\ p.offset = b.offset
          /\ p.level = [v \in Voices |-> b.level[v] + deltas[v]]
      BY <3>2, <3>3, <3>7, <3>8, PutKeeps
    <3> HIDE DEF p
    <3>6. \A v \in Voices : p.level[v] = IF v \in vs THEN volume * amp[v] ELSE 0
      BY <2>4, <3>5
    <3> QED
      BY <2>3, <3>4, <3>5, <3>6 DEF b
  <2> QED
    BY <2>5, <2>6
<1>6. bufs' \in [Sides -> Buffers]
  <2>1. bufs' = [s \in Sides |-> bufs'[s]]
    BY <1>2
  <2> QED
    BY <1>5, <2>1 DEF Buffer
<1>7. /\ \A s \in Sides : bufs'[s].offset = bufs'["left"].offset
      /\ bufs'["left"].offset < Pairs * Accuracy
  <2>1. "left" \in Sides
    BY DEF Sides
  <2> QED
    BY <1>5, <2>1 DEF MixInv
<1>8. NoResidue'
  BY <1>1, <1>4, <1>5 DEF NoResidue
<1>9. \A s \in Sides : Buffer(bufs'[s], last_time')
  BY <1>1, <1>5
<1>10. last_time' \in 0 .. FrameClocks
  BY <1>1, Sizes
<1> QED
  BY <1>1, <1>4, <1>6, <1>7, <1>8, <1>9, <1>10 DEF MixInv

LEMMA StereoKeeps ==
    ASSUME MixInv, NEW route \in [Voices -> Sides \cup {"none"}], apply_stereo(route)
    PROVE  MixInv'
<1> DEFINE moved == {v \in Voices : voice[v].output # route[v]}
<1>1. /\ bufs' = Silenced(moved) /\ volume' = volume /\ last_time' = last_time
      /\ voice' = [v \in Voices |->
           IF v \in moved THEN [output |-> route[v], last_amp |-> 0] ELSE voice[v]]
  BY DEF apply_stereo
<1>2. /\ voice \in [Voices -> [output : Sides \cup {"none"}, last_amp : Nat]]
      /\ volume \in Nat /\ moved \in SUBSET Voices
  BY DEF MixInv
<1> HIDE DEF moved
<1>3. voice' \in [Voices -> [output : Sides \cup {"none"}, last_amp : Nat]]
  BY <1>1, <1>2
<1>4. \A v \in moved : voice'[v].last_amp = 0
  BY <1>1, <1>2
<1>5. \A v \in Voices \ moved : voice'[v] = voice[v] /\ volume' = volume
  BY <1>1
<1> QED
  BY <1>1, <1>2, <1>3, <1>4, <1>5, SilencingKeeps

LEMMA VolumeKeeps ==
    ASSUME MixInv, NEW w \in Volumes, master_volume(w)
    PROVE  MixInv'
<1>1. /\ bufs' = Silenced(Voices) /\ volume' = w /\ last_time' = last_time
      /\ voice' = [v \in Voices |-> [voice[v] EXCEPT !.last_amp = 0]]
  BY DEF master_volume
<1>2. voice \in [Voices -> [output : Sides \cup {"none"}, last_amp : Nat]] /\ w \in Nat
  BY StereoAssumption DEF MixInv
<1>3. /\ voice' \in [Voices -> [output : Sides \cup {"none"}, last_amp : Nat]]
      /\ \A v \in Voices : voice'[v].last_amp = 0
  BY <1>1, <1>2
<1> QED
  BY <1>1, <1>2, <1>3, SilencingKeeps

LEMMA PowerKeeps == ASSUME MixInv, power PROVE MixInv'
<1>1. /\ bufs' = Silenced(Voices) /\ volume' = 1 /\ last_time' = last_time
      /\ voice' = [v \in Voices |-> [output |-> "none", last_amp |-> 0]]
  BY DEF power
<1>2. /\ voice' \in [Voices -> [output : Sides \cup {"none"}, last_amp : Nat]]
      /\ \A v \in Voices : voice'[v].last_amp = 0
  BY <1>1
<1> QED
  BY <1>1, <1>2, SilencingKeeps

\* The frame's samples are kept until there are enough for a block, which is then read.
LEMMA FrameKeeps == ASSUME MixInv, end_frame PROVE MixInv'
<1> DEFINE e == [s \in Sides |-> Ended(bufs[s])]
           n == PairsRead(e["left"])
           stereo == non_silent(e["left"]) \/ non_silent(e["right"])
<1>1. /\ last_time = FrameClocks /\ last_time' = 0 /\ voice' = voice /\ volume' = volume
      /\ "left" \in Sides
  BY DEF end_frame, Sides
<1>2. PICK left \in [Sides -> BOOLEAN] :
        bufs' = IF n = 0 THEN e
                ELSE [s \in Sides |-> Read(e[s], stereo \/ s = "center", n, left[s])]
  BY DEF end_frame
<1>3. \A s \in Sides : /\ Buffer(e[s], 0) /\ e[s].modified = FALSE
                       /\ e[s].offset = bufs[s].offset + FrameClocks * Factor
                       /\ e[s].level = bufs[s].level
  BY <1>1, EndedKeeps DEF MixInv
<1> HIDE DEF e
<1>4. \A s \in Sides : e[s].offset = e["left"].offset /\ e[s].offset \in Nat
                       /\ samples_avail(e[s]) = samples_avail(e["left"])
  BY <1>1, <1>3 DEF MixInv, samples_avail, Buffer, Buffers
<1>5. samples_avail(e["left"]) \in Nat
  BY <1>1, <1>4, Samples DEF samples_avail
<1>6. n \in {0, Pairs} /\ n <= samples_avail(e["left"])
      /\ (n = 0 => samples_avail(e["left"]) < Pairs)
  BY <1>5, Sizes DEF PairsRead
<1> HIDE DEF n
<1>7. \A s \in Sides : /\ Buffer(bufs'[s], 0) /\ bufs'[s].level = bufs[s].level
                       /\ bufs'[s].offset = e[s].offset - n * Accuracy
  <2> TAKE s \in Sides
  <2>1. CASE n = 0
    <3>1. bufs'[s] = e[s] /\ n * Accuracy = 0
      BY <1>2, <2>1, Sizes
    <3> QED
      BY <1>3, <1>4, <3>1
  <2>2. CASE n # 0
    <3> DEFINE b == e[s]
               u == IF (stereo \/ s = "center") /\ (b.unsettled \/ b.reach > 0)
                    THEN left[s] ELSE b.unsettled
               d == [b EXCEPT !.unsettled = u]
    <3>1. bufs'[s] = Removed(d, n)
      BY <1>2, <2>2 DEF Read
    <3>2. Buffer(b, 0) /\ b.modified = FALSE /\ b \in Buffers
      BY <1>3 DEF Buffer
    <3>3. u \in BOOLEAN
      BY <1>2, <3>2 DEF Buffers
    <3>4. n <= samples_avail(b) /\ n \in Nat
      BY <1>4, <1>6, Sizes
    <3> HIDE DEF b, u
    <3>5. /\ d \in Buffers /\ d.offset = b.offset /\ d.reach = b.reach
          /\ d.last_non_silence = b.last_non_silence /\ d.modified = b.modified
          /\ d.level = b.level
      BY <3>2, <3>3 DEF Buffers
    <3> HIDE DEF d
    <3>6. Buffer(d, 0) /\ d.modified = FALSE /\ n <= samples_avail(d)
      BY <3>2, <3>4, <3>5 DEF Buffer, samples_avail
    <3>7. /\ Buffer(Removed(d, n), 0)
          /\ Removed(d, n).offset = d.offset - n * Accuracy /\ Removed(d, n).level = d.level
      BY <3>4, <3>6, RemovedKeeps
    <3> QED
      BY <1>3, <3>1, <3>5, <3>7 DEF b
  <2> QED
    BY <2>1, <2>2
<1>8. \A s \in Sides : bufs'[s].offset = bufs'["left"].offset
  BY <1>1, <1>4, <1>7
<1>9. bufs'["left"].offset < Pairs * Accuracy
  <2> DEFINE o == bufs["left"].offset
             x == e["left"].offset
  <2>1. /\ x = o + FrameClocks * Factor /\ o < Pairs * Accuracy /\ x \in Nat /\ o \in Nat
        /\ bufs'["left"].offset = x - n * Accuracy
    BY <1>1, <1>3, <1>4, <1>7 DEF MixInv, Buffers
  <2> HIDE DEF o, x
  <2>2. CASE n = 0
    <3>1. x < Pairs * Accuracy
      <4>1. x \div Accuracy < Pairs
        BY <1>6, <2>2 DEF x, samples_avail
      <4> QED
        BY <2>1, <4>1, Samples, Sizes
    <3>2. n * Accuracy = 0
      BY <2>2, Sizes
    <3> QED
      BY <2>1, <3>1, <3>2
  <2>3. CASE n = Pairs
    BY <2>1, <2>3, Sizes
  <2> QED
    BY <1>6, <2>2, <2>3
<1>10. bufs' \in [Sides -> Buffers]
  <2>1. bufs' = [s \in Sides |-> bufs'[s]]
    BY <1>2 DEF e
  <2> QED
    BY <1>7, <2>1 DEF Buffer
<1>11. NoResidue'
  BY <1>1, <1>7 DEF NoResidue, MixInv
<1>12. \A s \in Sides : Buffer(bufs'[s], last_time')
  BY <1>1, <1>7
<1> QED
  BY <1>1, <1>8, <1>9, <1>10, <1>11, <1>12, Sizes DEF MixInv

THEOREM MixHolds == StereoSpec => []MixInv
<1>1. MixInv /\ [StereoNext]_stereoVars => MixInv'
  <2> SUFFICES ASSUME MixInv, [StereoNext]_stereoVars PROVE MixInv'
    OBVIOUS
  <2>1. CASE \E time \in 1 .. FrameClocks : RunUntil(time)
    BY <2>1, RunKeeps
  <2>2. CASE \E route \in [Voices -> Sides \cup {"none"}] : apply_stereo(route)
    BY <2>2, StereoKeeps
  <2>3. CASE \E w \in Volumes : master_volume(w)
    BY <2>3, VolumeKeeps
  <2>4. CASE power
    BY <2>4, PowerKeeps
  <2>5. CASE end_frame
    BY <2>5, FrameKeeps
  <2>6. CASE UNCHANGED stereoVars
    BY <2>6, Keeps
  <2> QED
    BY <2>1, <2>2, <2>3, <2>4, <2>5, <2>6 DEF StereoNext
<1> QED
  BY <1>1, Starts, PTL DEF StereoSpec

\* Whatever is rerouted, muted or switched off, at any clock, and whichever buffers count as
\* silent, no delta is skipped and none is left behind: each buffer's sum is what the
\* oscillators put out (silence_osc, remove_silence, remove_samples).
THEOREM MixerIsExact == StereoSpec => []MixExact
<1>1. MixInv => MixExact
  BY DEF MixInv, MixExact, SilenceIsEmpty, Buffer
<1> QED
  BY <1>1, MixHolds, PTL

\* The three buffers are equally long for good, a frame fits behind what was not read, and
\* no delta lands past the end of a buffer (samples_avail, end_frame of sound_SDL.cpp).
THEOREM FramesFit == StereoSpec => []MixFits
<1>1. ASSUME MixInv PROVE MixFits
  <2>1. SameLength
    BY <1>1 DEF MixInv, SameLength
  <2>2. \A s \in Sides : bufs[s].offset \in Nat /\ bufs[s].offset < Pairs * Accuracy
    BY <1>1 DEF MixInv, Buffers
  <2>3. \A o \in Nat : o < Pairs * Accuracy =>
          (FrameClocks * Factor + o) \div Accuracy \in Nat
          /\ (FrameClocks * Factor + o) \div Accuracy <= Size
    <3> TAKE o \in Nat
    <3> HAVE o < Pairs * Accuracy
    <3> DEFINE x == FrameClocks * Factor + o
    <3>1. x \in Nat /\ x < (Size + 1) * Accuracy
      BY Sizes
    <3> HIDE DEF x
    <3>2. x \div Accuracy < Size + 1 /\ x \div Accuracy \in Nat
      <4>1. Size + 1 \in Nat
        BY Sizes
      <4> QED
        BY <3>1, <4>1, Samples
    <3>3. x \div Accuracy <= Size
      BY <3>2, Sizes
    <3> QED
      BY <3>2, <3>3 DEF x
  <2>4. samples_avail(Ended(bufs["left"])) <= Size
    <3>1. "left" \in Sides
      BY DEF Sides
    <3> DEFINE b == bufs["left"]
    <3>2. Ended(b).offset = b.offset + FrameClocks * Factor
      <4>1. b \in Buffers
        BY <1>1, <3>1 DEF MixInv
      <4> HIDE DEF b
      <4> QED
        BY <4>1, Sizes DEF Ended, Buffers
    <3>3. b.offset + FrameClocks * Factor = FrameClocks * Factor + b.offset
      BY <2>2, <3>1, Sizes
    <3> QED
      BY <2>2, <2>3, <3>1, <3>2, <3>3 DEF samples_avail
  <2>5. \A s \in Sides : bufs[s].reach <= Size + Extra
    <3> TAKE s \in Sides
    <3> DEFINE b == bufs[s]
               x == (last_time * Factor + b.offset) \div Accuracy
               y == (FrameClocks * Factor + b.offset) \div Accuracy
    <3>1. b.offset \in Nat /\ b.reach \in Nat /\ b.reach <= x + Extra
          /\ last_time \in 0 .. FrameClocks
      BY <1>1 DEF MixInv, Buffer, Buffers
    <3>2. x \in Nat /\ y \in Nat /\ x <= y
      BY <3>1, Later, Sizes
    <3>3. y <= Size
      BY <2>2, <2>3
    <3> HIDE DEF x, y, b
    <3> QED
      BY <3>1, <3>2, <3>3, Sizes DEF b
  <2> QED
    BY <2>1, <2>4, <2>5 DEF MixFits, FrameFits
<1> QED
  BY <1>1, MixHolds, PTL

-----------------------------------------------------------------------------
(* The oscillators.  Their records are not typed field by field: what is    *)
(* told of one rests on eight of its fields.                                *)

Fields == {"dac", "length_on", "low", "high", "period1", "period2", "env", "sweep",
           "length_ctr", "enabled", "phase", "delay", "env_delay", "volume", "env_enabled",
           "sweep_freq", "sweep_delay", "sweep_enabled", "sweep_neg", "divider"}

Ready(o) ==
  /\ DOMAIN o = Fields
  /\ o.low \in 0 .. LowSize - 1 /\ o.high \in 0 .. HighSize - 1
  /\ o.sweep_freq \in 0 .. MaxFrequency
  /\ 2 ^ o.sweep.shift \in Nat \ {0}
  /\ o.length_ctr \in Nat
  /\ o.enabled \in BOOLEAN
  /\ o.enabled => o.length_ctr > 0

\* An oscillator plays only on a chip with power.
Alive(on, v, o) == Ready(o) /\ (o.enabled => on /\ dac_enabled(v, o))

LEMMA ChipSizes ==
  /\ FramePeriod \in Nat \ {0} /\ MaxCycles \in Nat \ {0}
  /\ LowSize \in Nat \ {0} /\ HighSize \in Nat \ {0}
  /\ SquareLength \in Nat \ {0} /\ WaveLength \in Nat \ {0}
  /\ LowSize * HighSize \in Nat \ {0} /\ MaxFrequency \in Nat
  /\ Spent \subseteq 1 .. MaxCycles
<1>1. \A m, n \in Nat \ {0} : m * n \in Nat \ {0}
  OBVIOUS
<1> QED
  BY <1>1, ApuAssumption DEF MaxFrequency

LEMMA FrequencyFits ==
  ASSUME NEW o, o.low \in 0 .. LowSize - 1, o.high \in 0 .. HighSize - 1
  PROVE  frequency(o) \in 0 .. MaxFrequency
<1> DEFINE d == HighSize - 1 - o.high
<1>1. LowSize \in Nat \ {0} /\ HighSize \in Nat \ {0} /\ o.high \in Nat /\ o.low \in Nat /\ d \in Nat
  BY ChipSizes
<1>2. HighSize = o.high + d + 1
  BY <1>1
<1> HIDE DEF d
<1>3. LowSize * HighSize = o.high * LowSize + LowSize * d + LowSize
  BY <1>1, <1>2
<1>4. LowSize * d \in Nat /\ o.high * LowSize \in Nat
  <2>1. \A m, n \in Nat : m * n \in Nat
    OBVIOUS
  <2> QED
    BY <1>1, <2>1
<1> QED
  BY <1>1, <1>3, <1>4 DEF frequency, MaxFrequency

\* Any of the fields that are not told of may change.
LEMMA PhaseAlive ==
  ASSUME NEW on \in BOOLEAN, NEW v, NEW o, Alive(on, v, o), NEW e, NEW f, NEW g
  PROVE  Alive(on, v, [o EXCEPT !.phase = e, !.divider = f, !.delay = g])
BY DEF Alive, Ready, Fields, dac_enabled

LEMMA RunAlive ==
  ASSUME NEW on \in BOOLEAN, NEW v, NEW o, NEW n, Alive(on, v, o)
  PROVE  Alive(on, v, run(v, o, n))
<1>1. Alive(on, v, RunTone(v, o, n))
  BY DEF Alive, Ready, Fields, dac_enabled, RunTone
<1>2. Alive(on, v, RunNoise(o, n))
  BY PhaseAlive DEF RunNoise
<1> QED
  BY <1>1, <1>2 DEF run

LEMMA LengthAlive ==
  ASSUME NEW on \in BOOLEAN, NEW v, NEW o, Alive(on, v, o)
  PROVE  Alive(on, v, clock_length(o))
<1> DEFINE n == o.length_ctr - 1
           left == o.length_ctr > 1
           p == [o EXCEPT !.length_ctr = n, !.enabled = @ /\ left]
<1>1. clock_length(o) = IF o.length_on /\ o.length_ctr > 0 THEN p ELSE o
  BY DEF clock_length
<1>2. o.length_ctr > 0 => n \in Nat /\ (left => n > 0)
  BY DEF Alive, Ready
<1>3. left \in BOOLEAN
  OBVIOUS
<1> HIDE DEF n, left
<1>4. o.length_ctr > 0 => Alive(on, v, p)
  BY <1>2, <1>3 DEF Alive, Ready, Fields, dac_enabled
<1> QED
  BY <1>1, <1>4

LEMMA EnvelopeAlive ==
  ASSUME NEW on \in BOOLEAN, NEW v, NEW o, Alive(on, v, o)
  PROVE  Alive(on, v, clock_envelope(o))
BY DEF Alive, Ready, Fields, dac_enabled, clock_envelope

LEMMA CalcAlive ==
  ASSUME NEW on \in BOOLEAN, NEW v, NEW o, Alive(on, v, o), NEW update \in BOOLEAN
  PROVE  Alive(on, v, calc_sweep(o, update))
<1> DEFINE delta == o.sweep_freq \div 2 ^ o.sweep.shift
           freq == o.sweep_freq + (IF o.sweep.neg THEN -delta ELSE delta)
           p == [o EXCEPT !.sweep_neg = o.sweep.neg]
           low == freq % LowSize
           high == (freq \div LowSize) % HighSize
<1>1. freq \in Nat
  <2>1. \A a \in Nat, d \in Nat \ {0} : a \div d \in 0 .. a
    OBVIOUS
  <2>2. delta \in 0 .. o.sweep_freq
    BY <2>1, ChipSizes DEF Alive, Ready
  <2> HIDE DEF delta
  <2> QED
    BY <2>2, ChipSizes DEF Alive, Ready
<1>2. Alive(on, v, p)
  BY DEF Alive, Ready, Fields, dac_enabled
<1>3. calc_sweep(o, update) =
        IF freq > MaxFrequency THEN [p EXCEPT !.enabled = FALSE]
        ELSE IF o.sweep.shift > 0 /\ update
        THEN [p EXCEPT !.sweep_freq = freq, !.low = low, !.high = high]
        ELSE p
  BY DEF calc_sweep
<1>4. low \in 0 .. LowSize - 1 /\ high \in 0 .. HighSize - 1
  <2>1. \A a \in Nat, d \in Nat \ {0} : a % d \in 0 .. d - 1 /\ a \div d \in Nat
    OBVIOUS
  <2> HIDE DEF freq
  <2> QED
    BY <1>1, <2>1, ChipSizes
<1> HIDE DEF freq, p, low, high
<1>5. CASE freq > MaxFrequency
  <2>1. Alive(on, v, [p EXCEPT !.enabled = FALSE])
    BY <1>2 DEF Alive, Ready, Fields, dac_enabled
  <2> QED
    BY <1>3, <1>5, <2>1
<1>6. CASE ~(freq > MaxFrequency)
  <2>1. freq \in 0 .. MaxFrequency
    BY <1>1, <1>6, ChipSizes
  <2>2. Alive(on, v, [p EXCEPT !.sweep_freq = freq, !.low = low, !.high = high])
    BY <1>2, <1>4, <2>1 DEF Alive, Ready, Fields, dac_enabled
  <2> QED
    BY <1>2, <1>3, <1>6, <2>2
<1> QED
  BY <1>5, <1>6

LEMMA SweepAlive ==
  ASSUME NEW on \in BOOLEAN, NEW v, NEW o, Alive(on, v, o)
  PROVE  Alive(on, v, clock_sweep(o))
<1>1. ASSUME NEW e PROVE Alive(on, v, [o EXCEPT !.sweep_delay = e])
  BY DEF Alive, Ready, Fields, dac_enabled
<1>2. ASSUME NEW p, Alive(on, v, p) PROVE Alive(on, v, calc_sweep(calc_sweep(p, TRUE), FALSE))
  BY <1>2, CalcAlive
<1> QED
  BY <1>1, <1>2 DEF clock_sweep

LEMMA ClockedAlive ==
  ASSUME NEW on \in BOOLEAN, NEW v, NEW o, Alive(on, v, o), NEW phase
  PROVE  Alive(on, v, Clocked(phase, v, o))
BY LengthAlive, EnvelopeAlive, SweepAlive DEF Clocked

-----------------------------------------------------------------------------
(* Writes to their registers                                               *)

LEMMA WriteSweepAlive ==
  ASSUME NEW on \in BOOLEAN, NEW v \in Enveloped \cup {"wave"},
         NEW o, Alive(on, v, o), NEW w \in Sweeps[v]
  PROVE  Alive(on, v, WriteSweep(v, o, w))
<1>1. CASE v = "wave"
  <2>1. w \in BOOLEAN
    BY <1>1, WritesAssumption
  <2> QED
    BY <1>1, <2>1 DEF Alive, Ready, Fields, dac_enabled, WriteSweep
<1>2. CASE v # "wave"
  <2>1. 2 ^ w.shift \in Nat \ {0}
    BY <1>2, WritesAssumption
  <2> DEFINE stopped == o.sweep_enabled /\ o.sweep_neg /\ ~w.neg
             p == [o EXCEPT !.sweep = w, !.enabled = @ /\ ~stopped]
  <2>2. p = WriteSweep(v, o, w)
    BY <1>2 DEF WriteSweep
  <2> HIDE DEF stopped
  <2>3. Alive(on, v, p)
    BY <2>1 DEF Alive, Ready, Fields, dac_enabled
  <2> QED
    BY <2>2, <2>3
<1> QED
  BY <1>1, <1>2

LEMMA WriteLengthAlive ==
  ASSUME NEW on \in BOOLEAN, NEW v \in Enveloped \cup {"wave"},
         NEW o, Alive(on, v, o), NEW w \in Lengths[v]
  PROVE  Alive(on, v, [o EXCEPT !.length_ctr = MaxLength(v) - w])
<1>1. MaxLength(v) - w \in Nat \ {0}
  BY WritesAssumption, ChipSizes DEF MaxLength
<1> QED
  BY <1>1 DEF Alive, Ready, Fields, dac_enabled

LEMMA WriteEnvelopeAlive ==
  ASSUME NEW on \in BOOLEAN, NEW v, NEW o, Alive(on, v, o), NEW w
  PROVE  Alive(on, v, WriteEnvelope(v, o, [o EXCEPT !.env = w]))
<1> DEFINE e == [o EXCEPT !.env = w]
           p == [e EXCEPT !.enabled = @ /\ dac_enabled(v, e)]
           z == zombie_volume(o, p)
<1>1. Ready(e) /\ (e.enabled => on)
  BY DEF Alive, Ready, Fields
<1>2. WriteEnvelope(v, o, e) = IF e.env.period > 0 /\ e.env_delay = Slow
                               THEN clock_envelope([z EXCEPT !.env_delay = 1]) ELSE z
  BY DEF WriteEnvelope
<1> HIDE DEF e
<1>3. dac_enabled(v, p) = dac_enabled(v, e)
  BY <1>1 DEF Ready, Fields, dac_enabled
<1>4. Alive(on, v, p)
  <2>1. Ready(p) /\ p.enabled = (e.enabled /\ dac_enabled(v, e))
    BY <1>1 DEF Ready, Fields
  <2> HIDE DEF p
  <2> QED
    BY <1>1, <1>3, <2>1 DEF Alive
<1> HIDE DEF p
<1>5. ASSUME NEW q, Alive(on, v, q), NEW x PROVE Alive(on, v, [q EXCEPT !.volume = x])
  BY <1>5 DEF Alive, Ready, Fields, dac_enabled
<1>6. ASSUME NEW q, Alive(on, v, q), NEW x PROVE Alive(on, v, [q EXCEPT !.env_delay = x])
  BY <1>6 DEF Alive, Ready, Fields, dac_enabled
<1>7. Alive(on, v, z)
  BY <1>4, <1>5 DEF zombie_volume
<1> HIDE DEF z
<1>8. Alive(on, v, clock_envelope([z EXCEPT !.env_delay = 1]))
  BY <1>6, <1>7, EnvelopeAlive
<1> QED
  BY <1>2, <1>7, <1>8 DEF e

LEMMA WriteLowAlive ==
  ASSUME NEW on \in BOOLEAN, NEW v \in Enveloped \cup {"wave"},
         NEW o, Alive(on, v, o), NEW w \in Lows[v]
  PROVE  Alive(on, v, WriteLow(v, o, w))
<1>1. v # "noise" => w \in 0 .. LowSize - 1
  BY WritesAssumption
<1> QED
  BY <1>1 DEF Alive, Ready, Fields, dac_enabled, WriteLow

\* write_trig enables only what has a length; the DAC is looked at after it.
LEMMA TrigReady ==
  ASSUME NEW c, NEW v \in Enveloped \cup {"wave"}, NEW o, Ready(o), NEW old, NEW w \in Highs[v]
  PROVE  /\ Ready(write_trig(c, v, o, old, w))
         /\ w.trigger = FALSE /\ (o.enabled => dac_enabled(v, o)) =>
              (write_trig(c, v, o, old, w).enabled => dac_enabled(v, write_trig(c, v, o, old, w)))
<1> DEFINE odd == c.frame_phase % 2 = 1
           extra == IF odd /\ ~old.length_on /\ w.length_on /\ o.length_ctr > 0 THEN 1 ELSE 0
           left == o.length_ctr - extra
           full == MaxLength(v) - (IF odd /\ w.length_on THEN 1 ELSE 0)
           length == IF w.trigger /\ left = 0 THEN full ELSE left
           p == [o EXCEPT !.length_ctr = length, !.enabled = (@ \/ w.trigger) /\ length > 0]
<1>0. w.trigger \in BOOLEAN
  BY WritesAssumption
<1>1. length \in Nat
  <2>1. full \in Nat
    BY ChipSizes DEF MaxLength
  <2>2. left \in Nat
    BY DEF Ready
  <2> QED
    BY <2>1, <2>2
<1>2. p = write_trig(c, v, o, old, w)
  BY DEF write_trig
<1> HIDE DEF length
<1>3. (length > 0) \in BOOLEAN /\ o.enabled \in BOOLEAN
  BY <1>1 DEF Ready
<1>4. Ready(p)
  BY <1>0, <1>1 DEF Ready, Fields
<1>5. dac_enabled(v, p) = dac_enabled(v, o)
  BY DEF Ready, Fields, dac_enabled
<1>6. p.enabled = ((o.enabled \/ w.trigger) /\ length > 0)
  BY DEF Ready, Fields
<1> HIDE DEF p
<1>7. w.trigger = FALSE /\ (o.enabled => dac_enabled(v, o)) =>
        (p.enabled => dac_enabled(v, p))
  BY <1>0, <1>5, <1>6
<1> QED
  BY <1>2, <1>4, <1>7

LEMMA EnvTriggeredAlive ==
  ASSUME NEW on \in BOOLEAN, on, NEW c, NEW v \in Enveloped, NEW o, Ready(o)
  PROVE  Alive(on, v, EnvTriggered(c, v, o))
<1> DEFINE d == EnvTimer(o) + (IF c.frame_phase = 7 THEN 1 ELSE 0)
           p == [o EXCEPT !.volume = o.env.volume, !.env_enabled = TRUE,
                   !.env_delay = d, !.enabled = @ /\ dac_enabled(v, o)]
<1>1. p = EnvTriggered(c, v, o)
  BY DEF EnvTriggered
<1> HIDE DEF d
<1>2. dac_enabled(v, p) = dac_enabled(v, o)
  BY DEF Ready, Fields, dac_enabled
<1>3. Ready(p) /\ p.enabled = (o.enabled /\ dac_enabled(v, o))
  BY DEF Ready, Fields
<1> HIDE DEF p
<1> QED
  BY <1>1, <1>2, <1>3 DEF Alive, Ready

LEMMA WaveTriggeredAlive ==
  ASSUME NEW on \in BOOLEAN, on, NEW o, Ready(o)
  PROVE  Alive(on, "wave", WaveTriggered(o))
<1> DEFINE d == period("wave", o) + WaveDelay
           p == [o EXCEPT !.enabled = @ /\ dac_enabled("wave", o), !.phase = 0, !.delay = d]
<1>1. p = WaveTriggered(o)
  BY DEF WaveTriggered
<1> HIDE DEF d
<1>2. dac_enabled("wave", p) = dac_enabled("wave", o)
  BY DEF Ready, Fields, dac_enabled
<1>3. Ready(p) /\ p.enabled = (o.enabled /\ dac_enabled("wave", o))
  BY DEF Ready, Fields
<1> HIDE DEF p
<1> QED
  BY <1>1, <1>2, <1>3 DEF Alive, Ready

LEMMA SweepTriggeredAlive ==
  ASSUME NEW on \in BOOLEAN, NEW v, NEW o, Alive(on, v, o)
  PROVE  Alive(on, v, SweepTriggered(o))
<1> DEFINE used == o.sweep.period > 0 \/ o.sweep.shift > 0
           f == frequency(o)
           t == SweepTimer(o)
           p == [o EXCEPT !.sweep_freq = f, !.sweep_neg = FALSE,
                          !.sweep_delay = t, !.sweep_enabled = used]
<1>1. f \in 0 .. MaxFrequency
  BY FrequencyFits DEF Alive, Ready
<1>2. SweepTriggered(o) = IF o.sweep.shift > 0 THEN calc_sweep(p, FALSE) ELSE p
  BY DEF SweepTriggered
<1> HIDE DEF used, f, t
<1>3. Alive(on, v, p)
  BY <1>1 DEF Alive, Ready, Fields, dac_enabled
<1> HIDE DEF p
<1> QED
  BY <1>2, <1>3, CalcAlive

LEMMA TriggeredAlive ==
  ASSUME NEW on \in BOOLEAN, on, NEW c, NEW v \in Enveloped \cup {"wave"}, NEW o, Ready(o)
  PROVE  Alive(on, v, Triggered(c, v, o))
<1>1. ASSUME NEW p, Alive(on, v, p) PROVE Alive(on, v, SquareTriggered(v, p))
  <2>1. ASSUME NEW e PROVE Alive(on, v, [p EXCEPT !.delay = e])
    BY <1>1 DEF Alive, Ready, Fields, dac_enabled
  <2> QED
    BY <2>1 DEF SquareTriggered
<1>2. ASSUME NEW p, Alive(on, v, p) PROVE Alive(on, v, NoiseTriggered(p))
  <2>1. ASSUME NEW e PROVE Alive(on, v, [p EXCEPT !.phase = 0, !.delay = e])
    BY <1>2 DEF Alive, Ready, Fields, dac_enabled
  <2> QED
    BY <2>1 DEF NoiseTriggered
<1>3. v # "wave" => Alive(on, v, EnvTriggered(c, v, o))
  BY EnvTriggeredAlive
<1>4. CASE v = "square1"
  BY <1>1, <1>3, <1>4, SweepTriggeredAlive DEF Triggered
<1>5. CASE v = "square2"
  BY <1>1, <1>3, <1>5 DEF Triggered
<1>6. CASE v = "noise"
  BY <1>2, <1>3, <1>6 DEF Triggered
<1>7. CASE v = "wave"
  BY <1>7, WaveTriggeredAlive DEF Triggered
<1> QED
  BY <1>4, <1>5, <1>6, <1>7 DEF Enveloped

LEMMA WriteHighAlive ==
  ASSUME NEW on \in BOOLEAN, on, NEW c, NEW v \in Enveloped \cup {"wave"},
         NEW o, Alive(on, v, o), NEW w \in Highs[v]
  PROVE  Alive(on, v, WriteHigh(c, v, o, w))
<1> DEFINE h == [o EXCEPT !.high = w.high, !.length_on = w.length_on]
           p == write_trig(c, v, h, o, w)
<1> HIDE DEF p
<1>1. w.high \in 0 .. HighSize - 1 /\ w.trigger \in BOOLEAN
  BY WritesAssumption
<1>2. Alive(on, v, h)
  BY <1>1 DEF Alive, Ready, Fields, dac_enabled
<1>3. WriteHigh(c, v, o, w) = IF w.trigger THEN Triggered(c, v, p) ELSE p
  BY DEF WriteHigh, p
<1> HIDE DEF h
<1>4. Ready(p) /\ (~w.trigger => Alive(on, v, p))
  <2>1. Ready(h)
    BY <1>2 DEF Alive
  <2>2. w.trigger \in BOOLEAN
    BY <1>1
  <2>3. Ready(p)
    BY <2>1, TrigReady DEF p
  <2>4. w.trigger = FALSE => (p.enabled => dac_enabled(v, p))
    <3>1. h.enabled => dac_enabled(v, h)
      BY <1>2 DEF Alive
    <3> QED
      BY <2>1, <3>1, TrigReady DEF p
  <2> QED
    BY <2>2, <2>3, <2>4 DEF Alive
<1> HIDE DEF p
<1>5. CASE w.trigger
  <2>1. Alive(on, v, Triggered(c, v, p))
    BY <1>4, TriggeredAlive
  <2> QED
    BY <1>3, <1>5, <2>1, Zenon
<1>6. CASE ~w.trigger
  BY <1>3, <1>4, <1>6, Zenon
<1> QED
  BY <1>5, <1>6

LEMMA ResetAlive ==
  ASSUME NEW on \in BOOLEAN, NEW v, NEW e0
  PROVE  Alive(on, v, ResetOsc(v, e0)) /\ ~ResetOsc(v, e0).enabled
<1> DEFINE d == CASE v = "noise" -> Tick [] v = "wave" -> 0 [] OTHER -> Untriggered
           n == MaxLength(v)
           e == [volume |-> 0, up |-> FALSE, period |-> 0]
           w == [period |-> 0, neg |-> FALSE, shift |-> 0]
           p == ResetOsc(v, e0)
<1>1. n \in Nat
  BY ChipSizes DEF MaxLength
<1>2. /\ DOMAIN p = Fields /\ p.low = 0 /\ p.high = 0 /\ p.sweep_freq = 0
      /\ p.sweep = w /\ p.length_ctr = n /\ p.enabled = FALSE
  <2> HIDE DEF d, n, e, w
  <2> QED
    BY DEF ResetOsc, Fields, d, n, e, w
<1>3. w.shift = 0
  OBVIOUS
<1> HIDE DEF n, w, p
<1>4. 2 ^ p.sweep.shift \in Nat \ {0}
  <2>1. 2 ^ p.sweep.shift = 2 ^ 0 /\ 2 ^ 0 = 1
    BY <1>2, <1>3, WritesAssumption, Zenon
  <2>2. 1 \in Nat \ {0}
    OBVIOUS
  <2> QED
    BY <2>1, <2>2, Zenon
<1>5. 0 \in 0 .. LowSize - 1 /\ 0 \in 0 .. HighSize - 1 /\ 0 \in 0 .. MaxFrequency
  BY ChipSizes
<1>6. Ready(p)
  BY <1>1, <1>2, <1>4, <1>5 DEF Ready
<1>7. Alive(on, v, p) /\ ~p.enabled
  BY <1>2, <1>6 DEF Alive
<1> QED
  BY <1>7 DEF p

-----------------------------------------------------------------------------
(* Catching up                                                             *)

Parts == {"last_time", "frame_time", "frame_phase", "power", "osc"}

Whole(c) ==
  /\ DOMAIN c = Parts
  /\ c.last_time \in Int /\ c.frame_time \in Int /\ c.power \in BOOLEAN
  /\ DOMAIN c.osc \subseteq Enveloped \cup {"wave"}
  /\ \A v \in DOMAIN c.osc : Alive(c.power, v, c.osc[v])

\* The oscillators are those of before, with nothing switched on.
LEMMA OscsReplaced ==
  ASSUME NEW c, Whole(c), NEW osc, DOMAIN osc = DOMAIN c.osc,
         \A v \in DOMAIN osc : Alive(c.power, v, osc[v])
  PROVE  Whole([c EXCEPT !.osc = osc])
BY DEF Whole, Parts

LEMMA RunOscsWhole ==
  ASSUME NEW c, Whole(c), NEW time \in Int
  PROVE  LET d == RunOscs(c, time)
         IN  /\ Whole(d) /\ DOMAIN d.osc = DOMAIN c.osc /\ d.power = c.power
             /\ d.last_time = time /\ d.frame_time = c.frame_time
<1> DEFINE osc == [v \in DOMAIN c.osc |-> run(v, c.osc[v], time - c.last_time)]
           d == [c EXCEPT !.osc = osc, !.last_time = time]
<1>1. d = RunOscs(c, time)
  BY DEF RunOscs
<1>2. DOMAIN osc = DOMAIN c.osc /\ \A v \in DOMAIN osc : Alive(c.power, v, osc[v])
  BY RunAlive DEF Whole
<1> HIDE DEF osc
<1>3. /\ DOMAIN d = Parts /\ d.last_time = time /\ d.frame_time = c.frame_time
      /\ d.power = c.power /\ d.osc = osc
  BY DEF Whole, Parts
<1> HIDE DEF d
<1>4. Whole(d)
  BY <1>2, <1>3 DEF Whole
<1> QED
  BY <1>1, <1>2, <1>3, <1>4

LEMMA SequencedWhole ==
  ASSUME NEW c, Whole(c)
  PROVE  LET d == Sequenced(c)
         IN  /\ Whole(d) /\ DOMAIN d.osc = DOMAIN c.osc /\ d.power = c.power
             /\ d.last_time = c.last_time /\ d.frame_time = c.frame_time + FramePeriod
<1> DEFINE osc == [v \in DOMAIN c.osc |-> Clocked(c.frame_phase, v, c.osc[v])]
           next == c.frame_time + FramePeriod
           phase == (c.frame_phase + 1) % 8
           d == [c EXCEPT !.frame_time = next, !.frame_phase = phase, !.osc = osc]
<1>1. d = Sequenced(c)
  BY DEF Sequenced
<1>2. DOMAIN osc = DOMAIN c.osc /\ \A v \in DOMAIN osc : Alive(c.power, v, osc[v])
  BY ClockedAlive DEF Whole
<1>3. next \in Int
  BY ChipSizes DEF Whole
<1> HIDE DEF osc, next, phase
<1>4. /\ DOMAIN d = Parts /\ d.last_time = c.last_time /\ d.frame_time = next
      /\ d.power = c.power /\ d.osc = osc
  BY DEF Whole, Parts
<1> HIDE DEF d
<1>5. Whole(d)
  BY <1>2, <1>3, <1>4 DEF Whole
<1> QED
  BY <1>1, <1>2, <1>4, <1>5 DEF next

\* A step of the sequencer with the run up to it.
StepOf(c) == Sequenced(RunOscs(c, c.frame_time))

LEMMA StepWhole ==
  ASSUME NEW c, Whole(c)
  PROVE  /\ Whole(StepOf(c)) /\ DOMAIN StepOf(c).osc = DOMAIN c.osc
         /\ StepOf(c).power = c.power /\ StepOf(c).frame_time = c.frame_time + FramePeriod
<1> DEFINE d == RunOscs(c, c.frame_time)
<1>1. c.frame_time \in Int
  BY DEF Whole
<1>2. /\ Whole(d) /\ DOMAIN d.osc = DOMAIN c.osc /\ d.power = c.power
      /\ d.frame_time = c.frame_time
  BY <1>1, RunOscsWhole
<1> HIDE DEF d
<1>3. /\ Whole(Sequenced(d)) /\ DOMAIN Sequenced(d).osc = DOMAIN d.osc
      /\ Sequenced(d).power = d.power /\ Sequenced(d).frame_time = d.frame_time + FramePeriod
  BY <1>2, SequencedWhole
<1> QED
  BY <1>2, <1>3 DEF StepOf, d
\* Induction on the natural numbers, for a set instead of a predicate.
LEMMA SetInduction ==
    ASSUME NEW S, 0 \in S, \A n \in Nat : n \in S => n + 1 \in S
    PROVE  Nat \subseteq S
<1> DEFINE T == Nat \ S
           R == OpToRel(<, Nat)
<1>1. IsWellFoundedOn(R, Nat)
  BY NatLessThanWellFounded, Zenon
<1>2. \A x, y \in Nat : <<x, y>> \in R <=> x < y
  BY DEF OpToRel
<1> HIDE DEF R
<1>3. ASSUME T # {} PROVE FALSE
  <2>1. PICK x \in T : \A y \in T : ~(<<y, x>> \in R)
    BY <1>1, <1>3, WFMin, Zenon
  <2>2. x \in Nat /\ x # 0 /\ x - 1 \in Nat /\ x = (x - 1) + 1
    BY <2>1
  <2>3. <<x - 1, x>> \in R
    BY <1>2, <2>2
  <2>4. x - 1 \notin T
    BY <2>1, <2>3
  <2> QED
    BY <2>1, <2>2, <2>4
<1> QED
  BY <1>3


IsRun(c, n, g) == g = [k \in 0 .. n |-> IF k = 0 THEN c ELSE StepOf(g[k - 1])]

\* The recursion of run_until defines a function.
LEMMA RunExists ==
  ASSUME NEW c, NEW n \in Nat
  PROVE  \E g : IsRun(c, n, g)
<1> DEFINE S == {m \in Nat : \E g : IsRun(c, m, g)}
<1>1. 0 \in S
  <2> DEFINE g == [k \in 0 .. 0 |-> c]
  <2>1. g = [k \in 0 .. 0 |-> IF k = 0 THEN c ELSE StepOf(g[k - 1])]
    OBVIOUS
  <2> QED
    BY <2>1 DEF IsRun
<1>2. ASSUME NEW m \in Nat, m \in S PROVE m + 1 \in S
  <2>1. PICK g : IsRun(c, m, g)
    BY <1>2
  <2> DEFINE h == [k \in 0 .. m + 1 |-> IF k = m + 1 THEN StepOf(g[m]) ELSE g[k]]
             F(k) == IF k = 0 THEN c ELSE StepOf(h[k - 1])
  <2>2. ASSUME NEW k \in 0 .. m + 1 PROVE h[k] = F(k)
    <3>1. CASE k = m + 1
      <4>1. h[k] = StepOf(g[m]) /\ k - 1 = m /\ k # 0 /\ h[m] = g[m]
        BY <3>1
      <4> QED
        BY <4>1
    <3>2. CASE k # m + 1
      <4>1. k \in 0 .. m
        BY <3>2
      <4>2. h[k] = g[k] /\ g[k] = IF k = 0 THEN c ELSE StepOf(g[k - 1])
        BY <2>1, <3>2, <4>1 DEF IsRun
      <4>3. k # 0 => h[k - 1] = g[k - 1]
        BY <4>1
      <4> QED
        BY <4>2, <4>3
    <3> QED
      BY <3>1, <3>2
  <2>3. h = [k \in 0 .. m + 1 |-> h[k]]
    OBVIOUS
  <2> HIDE DEF h
  <2>4. h = [k \in 0 .. m + 1 |-> F(k)]
    BY <2>2, <2>3
  <2>5. IsRun(c, m + 1, h)
    BY <2>4 DEF IsRun
  <2> QED
    BY <2>5
<1> HIDE DEF S
<1>3. Nat \subseteq S
  BY <1>1, <1>2, SetInduction
<1> QED
  BY <1>3 DEF S

\* Every step of it keeps what is told of the chip and is one period later.
LEMMA RunWhole ==
  ASSUME NEW c, Whole(c), NEW n \in Nat, NEW g, IsRun(c, n, g)
  PROVE  /\ Whole(g[n]) /\ DOMAIN g[n].osc = DOMAIN c.osc
         /\ g[n].power = c.power /\ g[n].frame_time = c.frame_time + n * FramePeriod
<1> DEFINE Kept(k) == /\ Whole(g[k]) /\ DOMAIN g[k].osc = DOMAIN c.osc
                      /\ g[k].power = c.power
                      /\ g[k].frame_time = c.frame_time + k * FramePeriod
           S == {k \in Nat : k <= n => Kept(k)}
<1>1. c.frame_time \in Int /\ FramePeriod \in Nat
  BY ChipSizes DEF Whole
<1>2. 0 \in S
  <2>1. g[0] = c
    BY DEF IsRun
  <2> QED
    BY <1>1, <2>1
<1>3. ASSUME NEW k \in Nat, k \in S PROVE k + 1 \in S
  <2>1. SUFFICES ASSUME k + 1 <= n PROVE Kept(k + 1)
    OBVIOUS
  <2>2. Kept(k)
    BY <1>3, <2>1
  <2>3. g[k + 1] = StepOf(g[k])
    <3>1. k + 1 \in 0 .. n /\ k + 1 # 0 /\ (k + 1) - 1 = k
      BY <2>1
    <3> QED
      BY <3>1 DEF IsRun
  <2>4. /\ Whole(g[k + 1]) /\ DOMAIN g[k + 1].osc = DOMAIN g[k].osc
        /\ g[k + 1].power = g[k].power /\ g[k + 1].frame_time = g[k].frame_time + FramePeriod
    BY <2>2, <2>3, StepWhole
  <2>5. (k + 1) * FramePeriod = k * FramePeriod + FramePeriod /\ k * FramePeriod \in Nat
    BY <1>1
  <2>6. g[k + 1].frame_time = c.frame_time + (k + 1) * FramePeriod
    BY <1>1, <2>2, <2>4, <2>5
  <2> QED
    BY <2>2, <2>4, <2>6
<1> HIDE DEF S
<1>4. Nat \subseteq S
  BY <1>2, <1>3, SetInduction
<1> QED
  BY <1>4 DEF S

\* How many steps lie before a time, and where the one after it is.
LEMMA StepsTo ==
  ASSUME NEW a \in Int, NEW b \in Int, NEW d \in Nat \ {0}, b > a
  PROVE  LET n == (b - a + d - 1) \div d
         IN  n \in Nat /\ a + n * d \in b .. b + d - 1
<1> DEFINE x == b - a + d - 1
           q == x \div d
           r == x % d
<1>1. x \in Nat
  OBVIOUS
<1>2. q \in Nat /\ r \in 0 .. d - 1 /\ x = q * d + r
  <2> HIDE DEF x
  <2> QED
    BY <1>1
<1> HIDE DEF q, r
<1>3. q * d \in Int
  BY <1>2
<1>4. a + q * d \in b .. b + d - 1
  BY <1>2, <1>3
<1> QED
  BY <1>2, <1>4 DEF q

LEMMA RunUntilWhole ==
  ASSUME NEW c, Whole(c), NEW time \in Int, c.last_time <= time,
         c.frame_time \in c.last_time .. c.last_time + FramePeriod - 1
  PROVE  LET d == run_until(c, time)
         IN  /\ Whole(d) /\ DOMAIN d.osc = DOMAIN c.osc /\ d.power = c.power
             /\ d.last_time = time /\ d.frame_time \in time .. time + FramePeriod - 1
<1> DEFINE n == IF time <= c.frame_time THEN 0
                ELSE (time - c.frame_time + FramePeriod - 1) \div FramePeriod
           a == CHOOSE g : g = [k \in 0 .. n |-> IF k = 0 THEN c ELSE
                                  Sequenced(RunOscs(g[k - 1], g[k - 1].frame_time))]
           b == CHOOSE g : IsRun(c, n, g)
<1>1. /\ c.frame_time \in Int /\ c.last_time \in Int /\ FramePeriod \in Nat \ {0}
      /\ time >= c.last_time
  BY ChipSizes DEF Whole
<1>2. n \in Nat /\ c.frame_time + n * FramePeriod \in time .. time + FramePeriod - 1
  <2>1. CASE time <= c.frame_time
    <3>1. n = 0
      BY <2>1
    <3>2. 0 * FramePeriod = 0
      BY <1>1
    <3> HIDE DEF n
    <3> QED
      BY <1>1, <2>1, <3>1, <3>2
  <2>2. CASE ~(time <= c.frame_time)
    <3>1. time > c.frame_time
      BY <1>1, <2>2
    <3>2. n = (time - c.frame_time + FramePeriod - 1) \div FramePeriod
      BY <2>2
    <3> HIDE DEF n
    <3> QED
      <4>1. n \in Nat /\ c.frame_time + n * FramePeriod \in time .. time + FramePeriod - 1
        BY <1>1, <3>1, <3>2, StepsTo
      <4> DEFINE x == n * FramePeriod
      <4>2. x \in Int
        BY <1>1, <4>1
      <4> HIDE DEF x
      <4> QED
        BY <1>1, <4>1, <4>2 DEF x
  <2> QED
    BY <2>1, <2>2
<1>3. run_until(c, time) = RunOscs(a[n], time)
  BY DEF run_until
<1>4. a = b
  BY DEF IsRun, StepOf
<1> HIDE DEF n, a, b
<1>5. IsRun(c, n, b)
  BY <1>2, RunExists DEF b
<1>6. /\ Whole(b[n]) /\ DOMAIN b[n].osc = DOMAIN c.osc
      /\ b[n].power = c.power /\ b[n].frame_time = c.frame_time + n * FramePeriod
  BY <1>2, <1>5, RunWhole
<1>7. LET d == RunOscs(b[n], time)
      IN  /\ Whole(d) /\ DOMAIN d.osc = DOMAIN b[n].osc /\ d.power = b[n].power
          /\ d.last_time = time /\ d.frame_time = b[n].frame_time
  BY <1>6, RunOscsWhole
<1> QED
  BY <1>2, <1>3, <1>4, <1>6, <1>7

-----------------------------------------------------------------------------
(* The invariant                                                           *)

\* The chip is not ahead of the game's cycles, nor the sequencer behind the chip.
Timed(c, now) ==
  /\ c.last_time \in 0 .. now
  /\ c.frame_time \in c.last_time .. c.last_time + FramePeriod - 1

ChipInv ==
  /\ Whole(chip) /\ cycles \in 0 .. MaxCycles - 1 /\ Timed(chip, cycles)

LEMMA CaughtUp ==
  ASSUME ChipInv
  PROVE  LET d == run_until(chip, cycles)
         IN  /\ Whole(d) /\ Timed(d, cycles) /\ DOMAIN d.osc = DOMAIN chip.osc
             /\ d.power = chip.power
<1> DEFINE d == run_until(chip, cycles)
<1>1. /\ Whole(chip) /\ cycles \in Nat /\ chip.last_time <= cycles
      /\ chip.frame_time \in chip.last_time .. chip.last_time + FramePeriod - 1
  BY ChipSizes DEF ChipInv, Timed
<1>2. /\ Whole(d) /\ DOMAIN d.osc = DOMAIN chip.osc /\ d.power = chip.power
      /\ d.last_time = cycles /\ d.frame_time \in cycles .. cycles + FramePeriod - 1
  BY <1>1, RunUntilWhole
<1> HIDE DEF d
<1>3. Timed(d, cycles)
  BY <1>1, <1>2 DEF Timed
<1> QED
  BY <1>2, <1>3 DEF d

LEMMA FrameEnded ==
  ASSUME ChipInv
  PROVE  LET d == EndFrame(chip)
         IN  Whole(d) /\ d.last_time = 0 /\ d.frame_time \in 0 .. FramePeriod - 1
<1> DEFINE end == IF MaxCycles > chip.last_time THEN MaxCycles ELSE chip.last_time
           d == run_until(chip, end)
           e == [d EXCEPT !.frame_time = @ - MaxCycles, !.last_time = @ - MaxCycles]
<1>1. /\ Whole(chip) /\ MaxCycles \in Nat /\ chip.last_time < MaxCycles /\ chip.last_time \in Nat
      /\ chip.frame_time \in chip.last_time .. chip.last_time + FramePeriod - 1
      /\ FramePeriod \in Nat
  BY ChipSizes DEF ChipInv, Timed
<1>2. end = MaxCycles
  BY <1>1
<1>3. e = EndFrame(chip)
  BY DEF EndFrame
<1> HIDE DEF end
<1>4. /\ Whole(d) /\ d.last_time = MaxCycles
      /\ d.frame_time \in MaxCycles .. MaxCycles + FramePeriod - 1
  BY <1>1, <1>2, RunUntilWhole
<1> HIDE DEF d
<1>5. /\ DOMAIN e = Parts /\ e.last_time = d.last_time - MaxCycles
      /\ e.frame_time = d.frame_time - MaxCycles /\ e.power = d.power /\ e.osc = d.osc
  BY <1>4 DEF Whole, Parts
<1> HIDE DEF e
<1>6. e.last_time = 0 /\ e.frame_time \in 0 .. FramePeriod - 1
  BY <1>1, <1>4, <1>5
<1>7. Whole(e)
  <2>1. e.last_time \in Int /\ e.frame_time \in Int
    BY <1>1, <1>6
  <2> QED
    BY <1>4, <1>5, <2>1 DEF Whole
<1> QED
  BY <1>3, <1>6, <1>7

\* One oscillator is written.
Written(c, v, p) == [c EXCEPT !.osc[v] = p]

LEMMA OneWritten ==
  ASSUME NEW c, Whole(c), NEW v \in DOMAIN c.osc, NEW p, Alive(c.power, v, p)
  PROVE  /\ Whole(Written(c, v, p)) /\ Written(c, v, p).last_time = c.last_time
         /\ Written(c, v, p).frame_time = c.frame_time
<1> DEFINE osc == [c.osc EXCEPT ![v] = p]
           d == Written(c, v, p)
<1>1. d = [c EXCEPT !.osc = osc]
  BY DEF Written
<1>2. DOMAIN osc = DOMAIN c.osc /\ \A u \in DOMAIN osc : Alive(c.power, u, osc[u])
  BY DEF Whole
<1> HIDE DEF osc
<1>3. /\ DOMAIN d = Parts /\ d.last_time = c.last_time /\ d.frame_time = c.frame_time
      /\ d.power = c.power /\ d.osc = osc
  BY <1>1 DEF Whole, Parts
<1> HIDE DEF d
<1>4. Whole(d)
  BY <1>2, <1>3 DEF Whole
<1> QED
  BY <1>3, <1>4 DEF d

\* On a chip with power, where every oscillator can be written.
LEMMA WriteKeepsChip ==
  ASSUME ChipInv, NEW v \in DOMAIN chip.osc, chip.power,
         WriteReg0(v) \/ WriteReg1(v) \/ WriteReg2(v) \/ WriteReg3(v) \/ WriteReg4(v)
  PROVE  ChipInv'
<1> DEFINE c == run_until(chip, cycles)
           o == c.osc[v]
<1>1. /\ Whole(c) /\ Timed(c, cycles) /\ DOMAIN c.osc = DOMAIN chip.osc /\ c.power = chip.power
  BY CaughtUp
<1>2. cycles' = cycles
  BY DEF WriteReg0, WriteReg1, WriteReg2, WriteReg3, WriteReg4, WriteOsc
<1> HIDE DEF c
<1>3. /\ v \in Enveloped \cup {"wave"} /\ v \in DOMAIN c.osc /\ Alive(c.power, v, o)
      /\ c.power \in BOOLEAN /\ c.power
  BY <1>1 DEF Whole
<1> HIDE DEF o
<1>4. SUFFICES \E p : Alive(c.power, v, p) /\ chip' = Written(c, v, p)
  <2>1. PICK p : Alive(c.power, v, p) /\ chip' = Written(c, v, p)
    BY <1>4
  <2>2. Whole(chip') /\ chip'.last_time = c.last_time /\ chip'.frame_time = c.frame_time
    <3>1. Whole(c) /\ v \in DOMAIN c.osc
      BY <1>1, <1>3
    <3>2. /\ Whole(Written(c, v, p)) /\ Written(c, v, p).last_time = c.last_time
          /\ Written(c, v, p).frame_time = c.frame_time
      BY <2>1, <3>1, OneWritten
    <3> QED
      BY <2>1, <3>2
  <2> QED
    BY <1>1, <1>2, <2>2 DEF ChipInv, Timed
<1>5. CASE WriteReg0(v)
  <2>1. PICK w \in Sweeps[v] : chip' = Written(c, v, WriteSweep(v, o, w))
    BY <1>5 DEF WriteReg0, WriteOsc, Written, c, o
  <2>2. Alive(c.power, v, WriteSweep(v, o, w))
    BY <1>3, WriteSweepAlive
  <2> QED
    BY <2>1, <2>2
<1>6. CASE WriteReg1(v)
  <2>1. PICK w \in Lengths[v] :
          chip' = Written(c, v, [o EXCEPT !.length_ctr = MaxLength(v) - w])
    BY <1>6 DEF WriteReg1, WriteOsc, Written, c, o
  <2>2. Alive(c.power, v, [o EXCEPT !.length_ctr = MaxLength(v) - w])
    BY <1>3, WriteLengthAlive
  <2> QED
    BY <2>1, <2>2
<1>7. CASE WriteReg2(v)
  <2>1. PICK w \in Envelopes[v] :
          chip' = Written(c, v, WriteEnvelope(v, o, [o EXCEPT !.env = w]))
    BY <1>7 DEF WriteReg2, WriteOsc, Written, c, o
  <2>2. Alive(c.power, v, WriteEnvelope(v, o, [o EXCEPT !.env = w]))
    BY <1>3, WriteEnvelopeAlive
  <2> QED
    BY <2>1, <2>2
<1>8. CASE WriteReg3(v)
  <2>1. PICK w \in Lows[v] : chip' = Written(c, v, WriteLow(v, o, w))
    BY <1>8 DEF WriteReg3, WriteOsc, Written, c, o
  <2>2. Alive(c.power, v, WriteLow(v, o, w))
    BY <1>3, WriteLowAlive
  <2> QED
    BY <2>1, <2>2
<1>9. CASE WriteReg4(v)
  <2>1. PICK w \in Highs[v] : chip' = Written(c, v, WriteHigh(c, v, o, w))
    BY <1>9 DEF WriteReg4, WriteOsc, Written, c, o
  <2>2. Alive(c.power, v, WriteHigh(c, v, o, w))
    BY <1>3, WriteHighAlive
  <2> QED
    BY <2>1, <2>2
<1> QED
  BY <1>5, <1>6, <1>7, <1>8, <1>9

LEMMA PowerKeepsChip ==
  ASSUME ChipInv, NEW on \in BOOLEAN, WritePower(on)
  PROVE  ChipInv'
<1> DEFINE c == run_until(chip, cycles)
           osc == [v \in DOMAIN c.osc |-> ResetOsc(v, c.osc[v].env_enabled)]
           d == [c EXCEPT !.power = on, !.frame_phase = 0, !.osc = osc]
<1>1. /\ Whole(c) /\ Timed(c, cycles)
  BY CaughtUp
<1>2. cycles' = cycles /\ chip' \in {c, d}
  BY DEF WritePower, PowerSwitched
<1> HIDE DEF c
<1>3. DOMAIN osc = DOMAIN c.osc /\ \A v \in DOMAIN osc : Alive(on, v, osc[v])
  BY ResetAlive
<1> HIDE DEF osc
<1>4. /\ DOMAIN d = Parts /\ d.last_time = c.last_time /\ d.frame_time = c.frame_time
      /\ d.power = on /\ d.osc = osc
  BY <1>1 DEF Whole, Parts
<1> HIDE DEF d
<1>5. Whole(d)
  BY <1>1, <1>3, <1>4 DEF Whole
<1>6. /\ Whole(chip') /\ chip'.last_time = c.last_time /\ chip'.frame_time = c.frame_time
  BY <1>1, <1>2, <1>4, <1>5
<1> QED
  BY <1>1, <1>2, <1>6 DEF ChipInv, Timed

LEMMA CyclesKeepChip ==
  ASSUME ChipInv, NEW c \in Spent, sound_add_cycles(c)
  PROVE  ChipInv'
<1>1. c \in 1 .. MaxCycles /\ MaxCycles \in Nat \ {0} /\ cycles \in 0 .. MaxCycles - 1
  BY ChipSizes DEF ChipInv
<1>2. CASE cycles + c >= MaxCycles
  <2>1. cycles' = cycles + c - MaxCycles /\ chip' = EndFrame(chip)
    BY <1>2 DEF sound_add_cycles
  <2>2. Whole(chip') /\ chip'.last_time = 0 /\ chip'.frame_time \in 0 .. FramePeriod - 1
    BY <2>1, FrameEnded
  <2>3. cycles' \in 0 .. MaxCycles - 1
    BY <1>1, <1>2, <2>1
  <2> QED
    BY <1>1, <2>2, <2>3, ChipSizes DEF ChipInv, Timed
<1>3. CASE ~(cycles + c >= MaxCycles)
  <2>1. cycles' = cycles + c /\ chip' = chip
    BY <1>3 DEF sound_add_cycles
  <2> QED
    BY <1>1, <1>3, <2>1 DEF ChipInv, Timed
<1> QED
  BY <1>2, <1>3

LEMMA ChipInvHolds == ApuSpec => []ChipInv
<1>1. Init => ChipInv
  <2> SUFFICES ASSUME Init PROVE ChipInv
    OBVIOUS
  <2>1. PICK voices \in Played : chip = reset(voices)
    BY DEF Init
  <2> DEFINE osc == [v \in voices |-> ResetOsc(v, FALSE)]
  <2>2. voices \subseteq Enveloped \cup {"wave"}
    BY ApuAssumption DEF Enveloped
  <2>3. DOMAIN osc = voices /\ \A v \in voices, on \in BOOLEAN : Alive(on, v, osc[v])
    BY ResetAlive
  <2>4. /\ DOMAIN chip = Parts /\ chip.last_time = 0 /\ chip.frame_time = 0
        /\ chip.power = FALSE /\ chip.osc = osc
    <3> HIDE DEF osc
    <3> QED
      BY <2>1 DEF reset, Parts, osc
  <2> HIDE DEF osc
  <2>5. Whole(chip)
    <3>1. \A v \in voices : Alive(chip.power, v, osc[v])
      <4>1. chip.power \in BOOLEAN
        BY <2>4
      <4> QED
        BY <2>3, <4>1, Zenon
    <3>2. DOMAIN chip.osc = voices /\ \A v \in DOMAIN chip.osc : chip.osc[v] = osc[v]
      BY <2>3, <2>4
    <3>3. \A v \in DOMAIN chip.osc : Alive(chip.power, v, chip.osc[v])
      BY <3>1, <3>2
    <3>4. chip.last_time \in Int /\ chip.frame_time \in Int
      BY <2>4
    <3>5. chip.power \in BOOLEAN
      BY <2>4
    <3> QED
      BY <2>2, <2>4, <3>2, <3>3, <3>4, <3>5, Zenon DEF Whole
  <2> QED
    BY <2>4, <2>5, ChipSizes DEF Init, ChipInv, Timed
<1>2. ChipInv /\ [Next]_apuVars => ChipInv'
  <2> SUFFICES ASSUME ChipInv, [Next]_apuVars PROVE ChipInv'
    OBVIOUS
  <2>1. ASSUME Cycles PROVE ChipInv'
    BY <2>1, CyclesKeepChip DEF Cycles
  <2>2. ASSUME Write PROVE ChipInv'
    <3>1. PICK v \in DOMAIN chip.osc :
            WriteReg0(v) \/ WriteReg1(v) \/ WriteReg2(v) \/ WriteReg3(v) \/ WriteReg4(v)
      BY <2>2 DEF Write
    <3>2. chip.power
      BY <3>1 DEF WriteReg0, WriteReg1, WriteReg2, WriteReg3, WriteReg4, WriteOsc
    <3> QED
      BY <3>1, <3>2, WriteKeepsChip
  <2>3. ASSUME NEW on \in BOOLEAN, WritePower(on) PROVE ChipInv'
    BY <2>3, PowerKeepsChip
  <2>4. ASSUME read_register PROVE ChipInv'
    <3>1. Whole(chip') /\ Timed(chip', cycles) /\ cycles' = cycles
      BY <2>4, CaughtUp DEF read_register
    <3> QED
      BY <3>1 DEF ChipInv, Timed
  <2>5. ASSUME UNCHANGED apuVars PROVE ChipInv'
    BY <2>5 DEF ChipInv, Timed, apuVars
  <2> QED
    BY <2>1, <2>2, <2>3, <2>4, <2>5 DEF Next
<1> QED
  BY <1>1, <1>2, PTL DEF ApuSpec

\* For any sizes and registers, and however the game reads, writes and switches: the chip
\* is never asked to run backwards, plays only what has power, a DAC and length, and
\* writes back only frequencies that fit (Gb_Apu.cpp, Gb_Oscs.cpp).
THEOREM ChipIsExact == ApuSpec => []ChipExact
<1>1. ChipInv => ChipExact
  <2> SUFFICES ASSUME ChipInv PROVE ChipExact
    OBVIOUS
  <2>1. TimeInOrder
    <3>1. EndFrame(chip).last_time >= 0 /\ EndFrame(chip).frame_time >= 0
      BY FrameEnded, ChipSizes
    <3> QED
      BY <3>1, ChipSizes DEF ChipInv, Timed, TimeInOrder
  <2>2. AliveIfEnabled
    <3> SUFFICES ASSUME NEW v \in DOMAIN chip.osc, chip.osc[v].enabled
                 PROVE  /\ chip.power /\ dac_enabled(v, chip.osc[v])
                        /\ chip.osc[v].length_ctr > 0
      BY DEF AliveIfEnabled
    <3>1. Alive(chip.power, v, chip.osc[v])
      BY DEF ChipInv, Whole
    <3> QED
      BY <3>1 DEF Alive, Ready
  <2>3. SweepFits
    BY FrequencyFits DEF ChipInv, Whole, Alive, Ready, SweepFits
  <2> QED
    BY <2>1, <2>2, <2>3 DEF ChipExact
<1> QED
  BY <1>1, ChipInvHolds, PTL

-----------------------------------------------------------------------------
(* Division                                                                *)

\* Multiples of p are p apart.
LEMMA Multiples ==
  ASSUME NEW p \in Nat \ {0}, NEW m \in Int, NEW n \in Int
  PROVE  /\ m * p \in Int /\ (m + 1) * p = m * p + p /\ (m - 1) * p = m * p - p
         /\ (m + n) * p = m * p + n * p
         /\ m <= n => m * p <= n * p
         /\ m < n => m * p + p <= n * p
<1>1. \A a, b \in Int : (a + b) * p = a * p + b * p
  OBVIOUS
<1>2. ASSUME NEW d \in Nat PROVE d * p >= 0
  OBVIOUS
<1>3. m * p \in Int /\ n * p \in Int /\ (m + 1) * p = m * p + p /\ (m - 1) * p = m * p - p
  OBVIOUS
<1>4. m <= n => m * p <= n * p
  <2> SUFFICES ASSUME m <= n PROVE m * p <= n * p
    OBVIOUS
  <2> DEFINE d == n - m
  <2>1. d \in Nat /\ n = m + d
    OBVIOUS
  <2> HIDE DEF d
  <2>2. n * p = m * p + d * p /\ d * p >= 0 /\ d * p \in Int
    BY <1>1, <1>2, <2>1
  <2> QED
    BY <1>3, <2>2
<1>5. m < n => m * p + p <= n * p
  <2> SUFFICES ASSUME m < n PROVE m * p + p <= n * p
    OBVIOUS
  <2> DEFINE d == n - m - 1
  <2>1. d \in Nat /\ n = m + 1 + d
    OBVIOUS
  <2> HIDE DEF d
  <2>2. n * p = (m + 1) * p + d * p /\ d * p >= 0 /\ d * p \in Int
    BY <1>1, <1>2, <2>1
  <2> QED
    BY <1>3, <2>2
<1> QED
  BY <1>1, <1>3, <1>4, <1>5

\* What the remainder is, and that nothing else is.
LEMMA Remainder ==
  ASSUME NEW p \in Nat \ {0}, NEW a \in Int
  PROVE  /\ a \div p \in Int /\ a % p \in 0 .. p - 1 /\ a = (a \div p) * p + (a % p)
         /\ \A q \in Int, r \in 0 .. p - 1 : a = q * p + r => a % p = r /\ a \div p = q
<1> DEFINE K == a \div p
           S == a % p
<1>1. K \in Int /\ S \in 0 .. p - 1 /\ a = K * p + S
  OBVIOUS
<1>2. ASSUME NEW k \in Int, NEW q \in Int, NEW s \in 0 .. p - 1, NEW r \in 0 .. p - 1,
             k * p + s = q * p + r
      PROVE  s = r /\ k = q
  <2>1. k * p \in Int /\ q * p \in Int
    BY Multiples
  <2>2. ~(k < q) /\ ~(q < k)
    <3>1. k < q => k * p + p <= q * p
      BY Multiples
    <3>2. q < k => q * p + p <= k * p
      BY Multiples
    <3> QED
      BY <1>2, <2>1, <3>1, <3>2
  <2>3. k = q
    BY <2>2
  <2> QED
    BY <1>2, <2>1, <2>3
<1> HIDE DEF K, S
<1>3. ASSUME NEW q \in Int, NEW r \in 0 .. p - 1, a = q * p + r PROVE S = r /\ K = q
  <2>1. K * p + S = q * p + r
    BY <1>1, <1>3
  <2> QED
    BY <1>1, <1>2, <2>1
<1>4. \A q \in Int, r \in 0 .. p - 1 : a = q * p + r => S = r /\ K = q
  BY <1>3
<1>5. /\ K \in Int /\ S \in 0 .. p - 1 /\ a = K * p + S
      /\ \A q \in Int, r \in 0 .. p - 1 : a = q * p + r => S = r /\ K = q
  BY <1>1, <1>4
<1> QED
  BY <1>5 DEF K, S

LEMMA RemainderIs ==
  ASSUME NEW p \in Nat \ {0}, NEW q \in Int, NEW r \in 0 .. p - 1
  PROVE  (q * p + r) % p = r
<1> DEFINE a == q * p + r
<1>1. a \in Int /\ a = q * p + r
  BY Multiples
<1> HIDE DEF a
<1>2. \A k \in Int, s \in 0 .. p - 1 : a = k * p + s => a % p = s /\ a \div p = k
  BY <1>1, Remainder
<1>3. a % p = r
  BY <1>1, <1>2
<1> QED
  BY <1>1, <1>3

LEMMA RemainderSum ==
  ASSUME NEW p \in Nat \ {0}, NEW a \in Int, NEW b \in Int
  PROVE  ((a % p) + b) % p = (a + b) % p
<1> DEFINE k == a \div p
           s == a % p
           j == (s + b) \div p
           t == (s + b) % p
<1>1. k \in Int /\ s \in 0 .. p - 1 /\ a = k * p + s
  BY Remainder
<1> HIDE DEF k, s
<1>2. j \in Int /\ t \in 0 .. p - 1 /\ s + b = j * p + t
  BY <1>1, Remainder
<1> HIDE DEF j, t
<1>3. (k + j) * p = k * p + j * p /\ k * p \in Int /\ j * p \in Int
  BY <1>1, <1>2, Multiples
<1>4. a + b = (k + j) * p + t
  BY <1>1, <1>2, <1>3
<1>5. (a + b) % p = t
  <2> DEFINE c == a + b
             i == k + j
  <2>1. c \in Int /\ i \in Int /\ c = i * p + t
    BY <1>1, <1>2, <1>4
  <2> HIDE DEF c, i
  <2>2. c % p = t
    BY <1>2, <2>1, RemainderIs
  <2> QED
    BY <2>2 DEF c
<1> QED
  BY <1>5 DEF s, t

\* Nothing is added to what is in range.
LEMMA Unwrapped == ASSUME NEW p \in Nat \ {0}, NEW a \in 0 .. p - 1 PROVE a % p = a
<1>1. a = 0 * p + a
  OBVIOUS
<1> QED
  BY <1>1, Remainder

-----------------------------------------------------------------------------
(* Timers                                                                  *)

\* How often a timer expired by n: a time after delay, but no sooner.
Expired(delay, per, n, e) ==
  /\ e \in Nat /\ delay + e * per >= n
  /\ e = 0 \/ delay + (e - 1) * per < n

LEMMA ExpiriesAre ==
  ASSUME NEW d \in Nat, NEW p \in Nat \ {0}, NEW n \in Nat
  PROVE  \A e : Expired(d, p, n, e) <=> e = Expiries(d, p, n)
<1> DEFINE x == n - d + p - 1
           E == Expiries(d, p, n)
<1>1. Expired(d, p, n, E)
  <2>1. CASE n > d
    <3>1. E = x \div p
      BY <2>1 DEF Expiries
    <3>2. x \in Int
      OBVIOUS
    <3> HIDE DEF E
    <3>3. E \in Int /\ x % p \in 0 .. p - 1 /\ x = E * p + (x % p)
      BY <3>1, <3>2, Remainder
    <3>4. E * p \in Int /\ (E - 1) * p = E * p - p
      BY <3>3, Multiples
    <3>5. x >= p
      BY <2>1
    <3>6. d + E * p >= n /\ d + (E - 1) * p < n /\ E * p > 0
      BY <3>3, <3>4, <3>5
    <3>7. E \in Nat
      <4>1. E < 0 => E * p <= 0 * p
        BY <3>3, Multiples
      <4>2. 0 * p = 0
        OBVIOUS
      <4> QED
        BY <3>3, <3>4, <3>6, <4>1, <4>2
    <3> QED
      BY <3>6, <3>7 DEF Expired
  <2>2. CASE ~(n > d)
    <3>1. E = 0 /\ 0 * p = 0
      BY <2>2 DEF Expiries
    <3> HIDE DEF E
    <3> QED
      BY <2>2, <3>1 DEF Expired
  <2> QED
    BY <2>1, <2>2
<1> HIDE DEF E
<1>2. ASSUME NEW e, NEW f, Expired(d, p, n, e), Expired(d, p, n, f), e < f PROVE FALSE
  <2>1. e \in Nat /\ f \in Nat /\ f # 0
    BY <1>2 DEF Expired
  <2>2. e * p <= (f - 1) * p /\ e * p \in Int /\ (f - 1) * p \in Int
    <3>1. f - 1 \in Int /\ e <= f - 1
      BY <1>2, <2>1
    <3> QED
      BY <2>1, <3>1, Multiples
  <2>3. d + e * p >= n /\ d + (f - 1) * p < n
    BY <1>2, <2>1 DEF Expired
  <2> QED
    BY <2>2, <2>3
<1>3. \A e, f : Expired(d, p, n, e) /\ Expired(d, p, n, f) => e \in Nat /\ f \in Nat
  BY DEF Expired
<1>4. \A e, f \in Nat : ~(e < f) /\ ~(f < e) => e = f
  OBVIOUS
<1> QED
  BY <1>1, <1>2, <1>3, <1>4, Zenon DEF E

\* The timer expires again where it runs out.
LEMMA ExpiriesNext ==
  ASSUME NEW d \in Nat, NEW p \in Nat \ {0}, NEW n \in Nat
  PROVE  LET e == Expiries(d, p, n)
         IN  /\ e \in Nat /\ e * p \in Int /\ d + e * p - n \in Nat
             /\ e > 0 => d + e * p - n < p
             /\ Expiries(d, p, n + 1) = IF d + e * p = n THEN e + 1 ELSE e
<1> DEFINE e == Expiries(d, p, n)
           f == IF d + e * p = n THEN e + 1 ELSE e
<1>1. Expired(d, p, n, e)
  BY ExpiriesAre
<1> HIDE DEF e
<1>2. e \in Nat /\ e * p \in Int /\ (e - 1) * p = e * p - p /\ (e + 1) * p = e * p + p
  BY <1>1, Multiples DEF Expired
<1>3. d + e * p - n \in Nat /\ (e > 0 => d + e * p - n < p)
  BY <1>1, <1>2 DEF Expired
<1>4. Expired(d, p, n + 1, f)
  <2>1. CASE d + e * p = n
    <3>1. f = e + 1 /\ f - 1 = e
      BY <1>2, <2>1
    <3> HIDE DEF f
    <3> QED
      BY <1>2, <2>1, <3>1 DEF Expired
  <2>2. CASE d + e * p # n
    <3>1. f = e
      BY <2>2
    <3> HIDE DEF f
    <3> QED
      BY <1>1, <1>2, <1>3, <2>2, <3>1 DEF Expired
  <2> QED
    BY <2>1, <2>2
<1> HIDE DEF f
<1>5. f = Expiries(d, p, n + 1)
  BY <1>4, ExpiriesAre
<1> QED
  BY <1>2, <1>3, <1>5 DEF e, f

LEMMA NoExpiries ==
  ASSUME NEW d \in Nat, NEW p PROVE Expiries(d, p, 0) = 0
BY DEF Expiries

\* Of a timer that a timer drives.
LEMMA ExpiriesCompose ==
  ASSUME NEW d \in Nat, NEW r \in Nat, NEW p \in Nat \ {0}, NEW m \in Nat \ {0}, NEW n \in Nat
  PROVE  Expiries(d + r * p, m * p, n) = Expiries(r, m, Expiries(d, p, n))
<1> DEFINE e == Expiries(d, p, n)
           f == Expiries(r, m, e)
<1>1. e \in Nat /\ d + e * p >= n /\ (e # 0 => d + (e - 1) * p < n)
  BY ExpiriesAre DEF Expired
<1> HIDE DEF e
<1>2. f \in Nat /\ r + f * m >= e /\ (f # 0 => r + (f - 1) * m < e)
  BY <1>1, ExpiriesAre DEF Expired
<1> HIDE DEF f
<1>3. ASSUME NEW k \in Nat
      PROVE  /\ (d + r * p) + k * (m * p) = d + (r + k * m) * p
             /\ r + k * m \in Nat /\ (r + k * m) * p \in Nat
  <2>1. \A i, j \in Nat : i * j \in Nat
    OBVIOUS
  <2>2. \A i, j, l \in Nat : (i + j) * l = i * l + j * l /\ i * (j * l) = (i * j) * l
    OBVIOUS
  <2>3. k * m \in Nat /\ r * p \in Nat
    BY <2>1
  <2>4. (r + k * m) * p = r * p + (k * m) * p /\ k * (m * p) = (k * m) * p
    BY <2>2, <2>3
  <2>5. (k * m) * p \in Nat
    BY <2>1, <2>3
  <2> QED
    BY <2>3, <2>4, <2>5
<1>4. d + r * p \in Nat /\ m * p \in Nat \ {0}
  <2>1. \A i, j \in Nat \ {0} : i * j \in Nat \ {0}
    OBVIOUS
  <2>2. \A i, j \in Nat : i * j \in Nat
    OBVIOUS
  <2>3. r * p \in Nat /\ m * p \in Nat \ {0}
    BY <2>1, <2>2
  <2> QED
    BY <2>3
<1>5. (d + r * p) + f * (m * p) >= n
  <2>1. e * p <= (r + f * m) * p /\ e * p \in Int
    BY <1>1, <1>2, <1>3, Multiples
  <2> QED
    BY <1>1, <1>2, <1>3, <2>1
<1>6. ASSUME f # 0 PROVE (d + r * p) + (f - 1) * (m * p) < n
  <2>1. f - 1 \in Nat
    BY <1>2, <1>6
  <2>2. r + (f - 1) * m \in Nat /\ r + (f - 1) * m <= e - 1 /\ e - 1 \in Int /\ e # 0
    <3>1. r + (f - 1) * m \in Nat
      BY <1>3, <2>1
    <3> QED
      BY <1>1, <1>2, <1>6, <3>1
  <2>3. (r + (f - 1) * m) * p <= (e - 1) * p /\ (e - 1) * p \in Int
    BY <2>2, Multiples
  <2>4. (d + r * p) + (f - 1) * (m * p) = d + (r + (f - 1) * m) * p
    BY <1>3, <2>1
  <2>5. (r + (f - 1) * m) * p \in Nat
    BY <1>3, <2>1
  <2> QED
    BY <1>1, <2>2, <2>3, <2>4, <2>5
<1>7. Expired(d + r * p, m * p, n, f)
  BY <1>2, <1>5, <1>6 DEF Expired
<1> QED
  BY <1>1, <1>4, <1>7, ExpiriesAre DEF e, f

-----------------------------------------------------------------------------
(* The divider of the noise                                                *)

\* Half the period p, how far the divider a is from passing it, and the divider b after
\* e clocks.
Divided(D, p, a, e, h, r, b) ==
  /\ h = p \div 2
  /\ r = (a + h) % p
  /\ b = (a + e * (D - 1)) % D

\* The divider passes half its period where its timer before the register expires.
LEMMA DividerPasses ==
  ASSUME NEW D \in Nat \ {0}, NEW p \in Nat \ {0}, p % 2 = 0, D % p = 0,
         NEW a \in 0 .. D - 1, NEW e \in Nat, NEW h, NEW r, NEW b, Divided(D, p, a, e, h, r, b)
  PROVE  r + Expiries(r, p, e) * p = e <=> b % p = h
<1> DEFINE j == (a + h) \div p
           k == D \div p
           q == (a + e * (D - 1)) \div D
           c == Expiries(r, p, e)
           y == r + c * p - e
           s == b \div p
           u == b % p
<1>1. h \in Nat \ {0} /\ p = 2 * h
  BY DEF Divided
<1>2. j \in Int /\ r \in 0 .. p - 1 /\ a + h = j * p + r
  <2>1. a + h \in Int /\ r = (a + h) % p
    BY <1>1 DEF Divided
  <2> QED
    BY <2>1, Remainder
<1>3. k \in Int /\ D = k * p
  BY Remainder
<1>4. q \in Int /\ b \in 0 .. D - 1 /\ a + e * (D - 1) = q * D + b
  <2> DEFINE x == a + e * (D - 1)
  <2>1. x \in Int
    OBVIOUS
  <2> HIDE DEF x
  <2>2. x \div D \in Int /\ x % D \in 0 .. D - 1 /\ x = (x \div D) * D + (x % D)
    BY <2>1, Remainder
  <2>3. b = x % D
    BY DEF Divided, x
  <2> QED
    BY <2>2, <2>3 DEF x
<1> HIDE DEF k, q, j
<1>5. s \in Int /\ u \in 0 .. p - 1 /\ b = s * p + u
  <2>1. b \in Int
    BY <1>4
  <2> QED
    BY <2>1, Remainder
<1> HIDE DEF s, u
<1>6. c \in Nat /\ y \in Nat /\ (c > 0 => y < p) /\ c * p \in Int
  <2>1. r \in Nat
    BY <1>2
  <2>2. c \in Nat /\ c * p \in Int /\ r + c * p - e \in Nat /\ (c > 0 => r + c * p - e < p)
    BY <2>1, ExpiriesNext
  <2> QED
    BY <2>2
<1>7. y \in 0 .. p - 1
  <2>1. CASE c = 0
    <3>1. y = r - e
      <4>1. 0 * p = 0
        OBVIOUS
      <4> HIDE DEF c
      <4> QED
        BY <1>2, <2>1, <4>1
    <3> HIDE DEF y
    <3> QED
      BY <1>2, <1>6, <3>1
  <2>2. CASE c # 0
    BY <1>6, <2>2
  <2> QED
    BY <2>1, <2>2
<1> HIDE DEF c
\* The divider is as far from the passing as the timer.
<1>8. PICK i \in Int : b + h = i * p + y
  <2> DEFINE i == (e - q) * k + j - c
  <2>1. e * (D - 1) = e * D - e /\ e * D \in Int /\ q * D \in Int
    BY <1>4
  <2>2. e * D = (e * k) * p /\ q * D = (q * k) * p /\ e * k \in Int /\ q * k \in Int
    BY <1>3, <1>4
  <2>3. (e - q) * k = e * k - q * k
    BY <1>3, <1>4
  <2>4. i \in Int /\ i = e * k - q * k + j - c
    BY <1>2, <1>6, <2>2, <2>3
  <2>5. i * p = (e * k) * p - (q * k) * p + j * p - c * p
    <3> DEFINE x == e * k
               z == q * k
    <3>1. x \in Int /\ z \in Int /\ i = x - z + j - c /\ j \in Int /\ c \in Int
      BY <1>2, <1>6, <2>2, <2>4
    <3> HIDE DEF x, z, i
    <3>2. i * p = x * p - z * p + j * p - c * p
      BY <3>1
    <3> QED
      BY <3>2 DEF x, z
  <2> HIDE DEF i
  <2>6. j * p \in Int /\ (e * k) * p \in Int /\ (q * k) * p \in Int
    BY <1>2, <2>2, Multiples
  <2>7. b = a + (e * k) * p - e - (q * k) * p
    <3> DEFINE E == e * D
               Q == q * D
    <3>1. E \in Int /\ Q \in Int /\ e * (D - 1) = E - e
      BY <2>1
    <3>2. a + e * (D - 1) = Q + b
      BY <1>4
    <3>3. b \in Int
      BY <1>4
    <3>4. E = (e * k) * p /\ Q = (q * k) * p
      BY <2>2
    <3> HIDE DEF E, Q
    <3>5. b = a + E - e - Q
      BY <3>1, <3>2, <3>3
    <3> QED
      BY <3>4, <3>5
  <2>8. b + h = i * p + y
    <3> DEFINE A == (e * k) * p
               Q == (q * k) * p
               J == j * p
               C == c * p
               I == i * p
    <3>1. /\ A \in Int /\ Q \in Int /\ J \in Int /\ C \in Int
          /\ I = A - Q + J - C /\ b = a + A - e - Q /\ a + h = J + r
      BY <1>2, <1>6, <2>5, <2>6, <2>7
    <3>2. y = r + C - e
      OBVIOUS
    <3> HIDE DEF A, Q, J, C, I, y
    <3> QED
      BY <1>1, <1>2, <3>1, <3>2 DEF I
  <2> QED
    BY <2>4, <2>8
<1>9. y = 0 <=> u = h
  <2>1. CASE u + h < p
    <3> DEFINE x == u + h
               z == b + h
    <3>1. z = s * p + x /\ x \in 0 .. p - 1 /\ z = i * p + y
      BY <1>1, <1>4, <1>5, <1>8, <2>1, Multiples
    <3>2. x = 0 <=> u + h = 0
      OBVIOUS
    <3> HIDE DEF x, z, y
    <3>3. (s * p + x) % p = x
      BY <1>5, <3>1, RemainderIs
    <3>4. (i * p + y) % p = y
      BY <1>7, <1>8, RemainderIs
    <3>5. y = x
      BY <3>1, <3>3, <3>4
    <3>6. u + h # 0 /\ u # h
      BY <1>1, <1>5, <2>1
    <3> QED
      BY <3>2, <3>5, <3>6
  <2>2. CASE ~(u + h < p)
    <3> DEFINE x == u - h
               z == b + h
               t == s + 1
    <3>1. z = t * p + x /\ x \in 0 .. p - 1 /\ z = i * p + y /\ t \in Int
      BY <1>1, <1>4, <1>5, <1>8, <2>2, Multiples
    <3>2. x = 0 <=> u = h
      BY <1>1, <1>5
    <3> HIDE DEF x, z, y, t
    <3>3. (t * p + x) % p = x
      BY <3>1, RemainderIs
    <3>4. (i * p + y) % p = y
      BY <1>7, <1>8, RemainderIs
    <3> QED
      BY <3>1, <3>2, <3>3, <3>4
  <2> QED
    BY <2>1, <2>2
<1>10. r + c * p = e <=> y = 0
  BY <1>2, <1>6
<1> HIDE DEF y
<1>11. (r + c * p = e) <=> (u = h)
  BY <1>9, <1>10
<1> QED
  BY <1>11 DEF c, u

-----------------------------------------------------------------------------
(* Running an oscillator                                                   *)

PhaseSize(v) ==
  CASE v = "noise" -> NoiseSteps [] v = "wave" -> WaveSteps [] OTHER -> DutySteps

\* The record has these fields and is nothing more.
Record(o) == o = [f \in Fields |-> o[f]]

\* What running an oscillator rests on.
Regular(v, o) ==
  /\ Record(o)
  /\ o.delay \in Nat /\ o.length_ctr <= MaxLength(v)
  /\ o.phase \in 0 .. PhaseSize(v) - 1
  /\ o.divider \in 0 .. DividerSize - 1
  /\ o.period1 \in Nat \ {0} /\ (v = "noise" => DividerFits(o.period2))

\* Its timer, and with the divider of the noise, were moved.
Moved(o, phase, delay) == [o EXCEPT !.phase = phase, !.delay = delay]
MovedNoise(o, phase, divider, delay) ==
  [o EXCEPT !.phase = phase, !.divider = divider, !.delay = delay]

LEMMA MovedAre ==
  ASSUME NEW o, Record(o), NEW p, NEW d
  PROVE  /\ Record(Moved(o, p, d)) /\ Moved(o, p, d).phase = p /\ Moved(o, p, d).delay = d
         /\ \A f \in Fields \ {"phase", "delay"} : Moved(o, p, d)[f] = o[f]
BY DEF Moved, Fields, Record

LEMMA MovedAgain ==
  ASSUME NEW o, Record(o), NEW p, NEW d, NEW e, NEW g
  PROVE  Moved(Moved(o, p, d), g, e) = Moved(o, g, e)
BY DEF Moved, Fields, Record

LEMMA ClockTimerMoves ==
  ASSUME NEW o, Record(o), NEW per, NEW size
  PROVE  ClockTimer(o, per, size) =
           IF o.delay = 0 THEN Moved(o, (o.phase + 1) % size, per - 1)
           ELSE Moved(o, o.phase, o.delay - 1)
BY DEF ClockTimer, Moved, Fields, Record

LEMMA MovedNoiseAre ==
  ASSUME NEW o, Record(o), NEW p, NEW h, NEW d
  PROVE  /\ Record(MovedNoise(o, p, h, d)) /\ MovedNoise(o, p, h, d).phase = p
         /\ MovedNoise(o, p, h, d).divider = h /\ MovedNoise(o, p, h, d).delay = d
         /\ \A f \in Fields \ {"phase", "divider", "delay"} : MovedNoise(o, p, h, d)[f] = o[f]
BY DEF MovedNoise, Fields, Record

LEMMA MovedNoiseAgain ==
  ASSUME NEW o, Record(o), NEW p, NEW h, NEW d, NEW e, NEW g, NEW i
  PROVE  MovedNoise(MovedNoise(o, p, h, d), i, g, e) = MovedNoise(o, i, g, e)
BY DEF MovedNoise, Fields, Record

LEMMA OscSizes ==
  /\ DividerSize \in Nat \ {0} /\ NoiseSteps \in Nat \ {0} /\ WaveSteps \in Nat \ {0}
  /\ DutySteps \in Nat \ {0} /\ Tick \in Nat \ {0} /\ Tick \div 2 \in Nat \ {0}
  /\ \A v : PhaseSize(v) \in Nat \ {0} /\ MaxLength(v) \in Nat \ {0}
<1>1. /\ DividerSize \in Nat \ {0} /\ NoiseSteps \in Nat \ {0} /\ WaveSteps \in Nat \ {0}
      /\ DutySteps \in Nat \ {0} /\ Tick \in Nat \ {0} /\ Tick % 2 = 0
      /\ SquareLength \in Nat \ {0} /\ WaveLength \in Nat \ {0}
  BY ApuAssumption
<1>2. \A t \in Nat \ {0} : t % 2 = 0 => t \div 2 \in Nat \ {0}
  OBVIOUS
<1>3. \A v : PhaseSize(v) \in {NoiseSteps, WaveSteps, DutySteps}
  BY DEF PhaseSize
<1> QED
  BY <1>1, <1>2, <1>3 DEF MaxLength

LEMMA PeriodFits ==
  ASSUME NEW v, NEW o, o.low \in 0 .. LowSize - 1, o.high \in 0 .. HighSize - 1
  PROVE  period(v, o) \in Nat \ {0}
<1>1. frequency(o) \in 0 .. MaxFrequency /\ MaxFrequency \in Nat
  BY FrequencyFits, ChipSizes
<1>2. MaxFrequency + 1 - frequency(o) \in Nat \ {0}
  BY <1>1
<1>3. \A a, b \in Nat \ {0} : a * b \in Nat \ {0}
  OBVIOUS
<1> QED
  BY <1>2, <1>3, OscSizes DEF period

\* A clock more.
LEMMA RunToneNext ==
  ASSUME NEW v, NEW o, Ready(o), Regular(v, o), v # "noise", NEW n \in Nat
  PROVE  ClockTimer(RunTone(v, o, n), period(v, RunTone(v, o, n)), PhaseSize(v)) =
           RunTone(v, o, n + 1)
<1> DEFINE per == period(v, o)
           size == PhaseSize(v)
           e == Expiries(o.delay, per, n)
           f == Expiries(o.delay, per, n + 1)
           left == o.delay + e * per - n
           phase == (o.phase + e) % size
           q == Moved(o, phase, left)
<1>1. per \in Nat \ {0} /\ size \in Nat \ {0}
  BY PeriodFits, OscSizes DEF Ready
<1>2. size = IF v = "wave" THEN WaveSteps ELSE DutySteps
  BY DEF PhaseSize
<1>3. /\ RunTone(v, o, n) = q
      /\ RunTone(v, o, n + 1) = Moved(o, (o.phase + f) % size, o.delay + f * per - (n + 1))
  <2> HIDE DEF e, f, per, size
  <2> QED
    BY <1>2 DEF RunTone, Moved, e, f, per
<1>4. o.delay \in Nat /\ o.phase \in 0 .. size - 1
  BY DEF Regular
<1> HIDE DEF per, size
<1>5. /\ e \in Nat /\ e * per \in Int /\ left \in Nat
      /\ f = IF left = 0 THEN e + 1 ELSE e
  <2>1. /\ e \in Nat /\ e * per \in Int /\ left \in Nat
        /\ f = IF o.delay + e * per = n THEN e + 1 ELSE e
    BY <1>1, <1>4, ExpiriesNext
  <2>2. left = 0 <=> o.delay + e * per = n
    <3> HIDE DEF e
    <3> QED
      BY <1>4, <2>1
  <2> QED
    BY <2>1, <2>2
<1> HIDE DEF e, f
<1>6. Record(o)
  BY DEF Regular
<1>7. left \in Int
  BY <1>5
<1> HIDE DEF phase, left
<1>8. Record(q) /\ q.phase = phase /\ q.delay = left /\ q.low = o.low /\ q.high = o.high
  <2>1. "low" \in Fields \ {"phase", "delay"} /\ "high" \in Fields \ {"phase", "delay"}
    BY DEF Fields
  <2>2. Record(q) /\ q.phase = phase /\ q.delay = left
    BY <1>6, MovedAre
  <2>3. \A g \in Fields \ {"phase", "delay"} : q[g] = o[g]
    BY <1>6, MovedAre
  <2> HIDE DEF q
  <2> QED
    BY <2>1, <2>2, <2>3
<1>12. \A a, b : Moved(q, a, b) = Moved(o, a, b)
  BY <1>6, MovedAgain
<1> HIDE DEF q
<1>11. period(v, q) = per
  BY <1>8 DEF period, frequency, per
<1>9. CASE left = 0
  <2>1. f = e + 1 /\ o.delay + f * per - (n + 1) = per - 1
    <3>1. f = e + 1
      BY <1>5, <1>9
    <3>2. f * per = e * per + per
      BY <1>1, <1>5, <3>1, Multiples
    <3> QED
      BY <1>1, <1>4, <1>5, <1>9, <3>1, <3>2 DEF left
  <2>2. (phase + 1) % size = (o.phase + f) % size
    <3>1. o.phase + e \in Int /\ o.phase + f = (o.phase + e) + 1
      BY <1>4, <1>5, <2>1
    <3> QED
      BY <1>1, <3>1, RemainderSum DEF phase
  <2>3. ClockTimer(q, per, size) = Moved(q, (phase + 1) % size, per - 1)
    BY <1>8, <1>9, ClockTimerMoves
  <2>4. ClockTimer(q, per, size) = Moved(o, (o.phase + f) % size, per - 1)
    BY <1>12, <2>2, <2>3
  <2> QED
    BY <1>3, <1>11, <2>1, <2>4 DEF size
<1>10. CASE left # 0
  <2>1. f = e /\ o.delay + f * per - (n + 1) = left - 1
    BY <1>4, <1>5, <1>10 DEF left
  <2>2. ClockTimer(q, per, size) = Moved(q, phase, left - 1)
    BY <1>8, <1>10, ClockTimerMoves
  <2>3. ClockTimer(q, per, size) = Moved(o, phase, left - 1)
    BY <1>12, <2>2
  <2> QED
    BY <1>3, <1>11, <2>1, <2>3 DEF size, phase
<1> QED
  BY <1>9, <1>10

Passes(o) == o.period2 < DividerSize /\ o.divider % o.period2 = o.period2 \div 2

LEMMA ClockNoiseMoves ==
  ASSUME NEW o, Record(o)
  PROVE  ClockNoise(o) =
           IF o.delay > 0 THEN MovedNoise(o, o.phase, o.divider, o.delay - 1)
           ELSE MovedNoise(o, IF Passes(o) THEN (o.phase + 1) % NoiseSteps ELSE o.phase,
                           (o.divider + DividerSize - 1) % DividerSize, o.period1 - 1)
<1> DEFINE p == o.delay - 1
           a == o.period1 - 1
           b == (o.divider + DividerSize - 1) % DividerSize
           c == (o.phase + 1) % NoiseSteps
<1>1. ClockNoise(o) = IF o.delay > 0 THEN [o EXCEPT !.delay = p]
                      ELSE [o EXCEPT !.delay = a, !.divider = b,
                                     !.phase = IF Passes(o) THEN c ELSE o.phase]
  BY DEF ClockNoise, Passes, Record, Fields
<1> HIDE DEF p, a, b, c
<1>2. [o EXCEPT !.delay = p] = MovedNoise(o, o.phase, o.divider, p)
  BY DEF MovedNoise, Fields, Record
<1>3. ASSUME NEW d PROVE [o EXCEPT !.delay = a, !.divider = b, !.phase = d] = MovedNoise(o, d, b, a)
  BY DEF MovedNoise, Fields, Record
<1> QED
  BY <1>1, <1>2, <1>3 DEF p, a, b, c

LEMMA RunNoiseNext ==
  ASSUME NEW o, Regular("noise", o), NEW n \in Nat
  PROVE  ClockNoise(RunNoise(o, n)) = RunNoise(o, n + 1)
<1> DEFINE per == o.period1
           p == o.period2
           D == DividerSize
           r == (o.divider + p \div 2) % p
           e == Expiries(o.delay, per, n)
           f == Expiries(o.delay, per, n + 1)
           Clocks(k) == IF p < D THEN Expiries(r, p, k) ELSE 0
           left == o.delay + e * per - n
           divider == (o.divider + e * (D - 1)) % D
           phase == (o.phase + Clocks(e)) % NoiseSteps
           q == MovedNoise(o, phase, divider, left)
<1>1. /\ per \in Nat \ {0} /\ D \in Nat \ {0} /\ NoiseSteps \in Nat \ {0}
      /\ p \in Nat \ {0} /\ p % 2 = 0 /\ (p < D => D % p = 0)
      /\ o.delay \in Nat /\ o.divider \in 0 .. D - 1 /\ o.phase \in 0 .. NoiseSteps - 1
      /\ Record(o)
  BY OscSizes DEF Regular, DividerFits, PhaseSize
<1>2. r \in Nat
  <2> DEFINE x == o.divider + p \div 2
  <2>1. x \in Int
    BY <1>1
  <2> HIDE DEF x
  <2>2. x % p \in 0 .. p - 1
    BY <1>1, <2>1, Remainder
  <2> QED
    BY <1>1, <2>2 DEF x
<1>A. per \in Nat \ {0} /\ p \in Nat \ {0} /\ o.delay \in Nat
  BY <1>1
<1>3. ASSUME NEW m \in Nat
      PROVE  RunNoise(o, m) = MovedNoise(o,
               (o.phase + Clocks(Expiries(o.delay, per, m))) % NoiseSteps,
               (o.divider + Expiries(o.delay, per, m) * (D - 1)) % D,
               o.delay + Expiries(o.delay, per, m) * per - m)
  <2>1. Expiries(o.delay + r * per, p * per, m) = Expiries(r, p, Expiries(o.delay, per, m))
    <3> DEFINE d == o.delay
    <3>1. d \in Nat
      BY <1>A
    <3> HIDE DEF r, per, p, d
    <3>2. Expiries(d + r * per, p * per, m) = Expiries(r, p, Expiries(d, per, m))
      BY <1>2, <1>A, <3>1, ExpiriesCompose
    <3> QED
      BY <3>2 DEF d
  <2>2. Clocks(Expiries(o.delay, per, m)) =
          IF p < D THEN Expiries(o.delay + r * per, p * per, m) ELSE 0
    BY <2>1
  <2> DEFINE k == Expiries(o.delay, per, m)
             c == IF p < D THEN Expiries(o.delay + r * per, p * per, m) ELSE 0
  <2>3. RunNoise(o, m) = [o EXCEPT !.phase = (@ + c) % NoiseSteps,
                !.divider = (@ + k * (D - 1)) % D, !.delay = o.delay + k * per - m]
    BY DEF RunNoise
  <2> HIDE DEF c, k, Clocks
  <2>4. RunNoise(o, m) = MovedNoise(o, (o.phase + c) % NoiseSteps,
                           (o.divider + k * (D - 1)) % D, o.delay + k * per - m)
    BY <1>1, <2>3 DEF MovedNoise, Record, Fields
  <2>5. Clocks(k) = c
    BY <2>2 DEF k, c
  <2> QED
    BY <2>4, <2>5 DEF k
<1>4. RunNoise(o, n) = q
  <2> HIDE DEF Clocks
  <2> QED
    BY <1>3
<1>5. n + 1 \in Nat
  OBVIOUS
<1>6. RunNoise(o, n + 1) = MovedNoise(o, (o.phase + Clocks(f)) % NoiseSteps,
                             (o.divider + f * (D - 1)) % D, o.delay + f * per - (n + 1))
  <2> HIDE DEF Clocks
  <2> QED
    BY <1>3, <1>5
<1>7. /\ e \in Nat /\ e * per \in Int /\ left \in Nat
      /\ f = IF left = 0 THEN e + 1 ELSE e
  <2>1. /\ e \in Nat /\ e * per \in Int /\ left \in Nat
        /\ f = IF o.delay + e * per = n THEN e + 1 ELSE e
    <3> DEFINE d == o.delay
    <3>1. d \in Nat
      BY <1>A
    <3> HIDE DEF d, per
    <3>2. LET k == Expiries(d, per, n)
          IN  /\ k \in Nat /\ k * per \in Int /\ d + k * per - n \in Nat
              /\ Expiries(d, per, n + 1) = IF d + k * per = n THEN k + 1 ELSE k
      BY <1>A, <3>1, ExpiriesNext
    <3> QED
      BY <3>2 DEF d
  <2>2. left = 0 <=> o.delay + e * per = n
    <3> HIDE DEF e
    <3> QED
      BY <1>1, <2>1
  <2> QED
    BY <2>1, <2>2
<1> HIDE DEF e, f
<1>8. Clocks(e) \in Nat
  BY <1>1, <1>2, <1>7, ExpiriesNext
\* The divider passes where its own timer expires.
<1>9. /\ Clocks(e + 1) = IF p < D /\ divider % p = p \div 2 THEN Clocks(e) + 1 ELSE Clocks(e)
  <2>1. CASE p < D
    <3>1. Clocks(e + 1) = IF r + Expiries(r, p, e) * p = e THEN Expiries(r, p, e) + 1
                          ELSE Expiries(r, p, e)
      <4>1. Clocks(e + 1) = Expiries(r, p, e + 1)
        BY <2>1
      <4> HIDE DEF Clocks, r, p
      <4> QED
        BY <1>2, <1>7, <1>A, <4>1, ExpiriesNext
    <3>2. r + Expiries(r, p, e) * p = e <=> divider % p = p \div 2
      <4> DEFINE a == o.divider
                 h == p \div 2
      <4>1. /\ D \in Nat \ {0} /\ p \in Nat \ {0} /\ p % 2 = 0 /\ D % p = 0
            /\ a \in 0 .. D - 1 /\ e \in Nat
        BY <1>1, <1>7, <2>1
      <4>2. Divided(D, p, a, e, h, r, divider)
        BY DEF Divided
      <4> HIDE DEF a, h, r, divider, D, p
      <4>3. r + Expiries(r, p, e) * p = e <=> divider % p = h
        BY <4>1, <4>2, DividerPasses
      <4> QED
        BY <4>3 DEF h
    <3> QED
      BY <2>1, <3>1, <3>2
  <2>2. CASE ~(p < D)
    BY <2>2
  <2> QED
    BY <2>1, <2>2
<1> HIDE DEF Clocks, r
<1>10. (divider + D - 1) % D = (o.divider + (e + 1) * (D - 1)) % D
  <2> DEFINE x == o.divider + e * (D - 1)
             y == D - 1
  <2>1. e * (D - 1) \in Int /\ (e + 1) * (D - 1) = e * (D - 1) + (D - 1)
    BY <1>1, <1>7
  <2>2. x \in Int /\ y \in Int /\ x + y = o.divider + (e + 1) * (D - 1) /\ x % D \in Int
    BY <1>1, <2>1
  <2>3. divider = x % D
    OBVIOUS
  <2> HIDE DEF x, y, divider
  <2>4. ((x % D) + y) % D = (x + y) % D
    BY <1>1, <2>2, RemainderSum
  <2>5. divider + D - 1 = (x % D) + y
    BY <1>1, <2>2, <2>3 DEF y
  <2> QED
    BY <2>2, <2>4, <2>5
<1>11. (phase + 1) % NoiseSteps = (o.phase + (Clocks(e) + 1)) % NoiseSteps
  <2> DEFINE x == o.phase + Clocks(e)
  <2>1. x \in Int /\ o.phase + (Clocks(e) + 1) = x + 1 /\ phase = x % NoiseSteps
    BY <1>1, <1>8
  <2> HIDE DEF x, phase
  <2> QED
    BY <1>1, <2>1, RemainderSum
<1>12. left \in Int /\ (left = 0 => o.delay + (e + 1) * per - (n + 1) = per - 1)
       /\ (left # 0 => o.delay + e * per - (n + 1) = left - 1)
  <2> HIDE DEF per
  <2>1. (e + 1) * per = e * per + per
    BY <1>1, <1>7, Multiples
  <2> QED
    BY <1>1, <1>7, <2>1
<1>13. left > 0 <=> left # 0
  BY <1>7
<1>14. phase = (o.phase + Clocks(e)) % NoiseSteps /\ divider = (o.divider + e * (D - 1)) % D
  OBVIOUS
<1> HIDE DEF phase, divider, left
<1>15. /\ Record(q) /\ q.phase = phase /\ q.divider = divider /\ q.delay = left
       /\ q.period1 = per /\ q.period2 = p
  <2>1. {"period1", "period2"} \subseteq Fields \ {"phase", "divider", "delay"}
    BY DEF Fields
  <2>2. Record(q) /\ q.phase = phase /\ q.divider = divider /\ q.delay = left
    BY <1>1, MovedNoiseAre
  <2>3. \A g \in Fields \ {"phase", "divider", "delay"} : q[g] = o[g]
    BY <1>1, MovedNoiseAre
  <2> HIDE DEF q
  <2> QED
    BY <2>1, <2>2, <2>3
<1>16. \A a, b, c : MovedNoise(q, a, b, c) = MovedNoise(o, a, b, c)
  BY <1>1, MovedNoiseAgain
<1> HIDE DEF q
<1>17. Passes(q) <=> p < D /\ divider % p = p \div 2
  BY <1>15 DEF Passes
<1> DEFINE next == IF Passes(q) THEN (phase + 1) % NoiseSteps ELSE phase
<1>18. ClockNoise(q) = IF left > 0 THEN MovedNoise(q, phase, divider, left - 1)
                       ELSE MovedNoise(q, next, (divider + D - 1) % D, per - 1)
  BY <1>15, ClockNoiseMoves
<1>19. next = (o.phase + Clocks(e + 1)) % NoiseSteps
  BY <1>9, <1>11, <1>14, <1>17
<1> HIDE DEF next
<1>20. CASE left = 0
  <2>1. f = e + 1
    BY <1>7, <1>20
  <2>2. RunNoise(o, n + 1) = MovedNoise(o, next, (divider + D - 1) % D, per - 1)
    BY <1>6, <1>10, <1>12, <1>19, <1>20, <2>1
  <2> QED
    BY <1>4, <1>13, <1>16, <1>18, <1>20, <2>2
<1>21. CASE left # 0
  <2>1. f = e
    BY <1>7, <1>21
  <2>2. RunNoise(o, n + 1) = MovedNoise(o, phase, divider, left - 1)
    BY <1>6, <1>12, <1>14, <1>21, <2>1
  <2> QED
    BY <1>4, <1>13, <1>16, <1>18, <1>21, <2>2
<1> QED
  BY <1>20, <1>21

LEMMA MovedNot ==
  ASSUME NEW o, Record(o)
  PROVE  Moved(o, o.phase, o.delay) = o /\ MovedNoise(o, o.phase, o.divider, o.delay) = o
BY DEF Moved, MovedNoise, Record, Fields

\* In no time nothing moves.
LEMMA RunNot ==
  ASSUME NEW v, NEW o, Ready(o), Regular(v, o)
  PROVE  run(v, o, 0) = o
<1>1. /\ o.delay \in Nat /\ o.phase \in 0 .. PhaseSize(v) - 1 /\ PhaseSize(v) \in Nat \ {0}
      /\ o.divider \in 0 .. DividerSize - 1 /\ DividerSize \in Nat \ {0} /\ Record(o)
  BY OscSizes DEF Regular
<1>2. \A p : Expiries(o.delay, p, 0) = 0
  BY <1>1, NoExpiries
<1>3. (o.phase + 0) % PhaseSize(v) = o.phase /\ (o.divider + 0) % DividerSize = o.divider
  <2> DEFINE x == o.phase
             y == o.divider
             s == PhaseSize(v)
  <2>1. /\ x \in 0 .. s - 1 /\ y \in 0 .. DividerSize - 1 /\ x + 0 = x /\ y + 0 = y
        /\ s \in Nat \ {0} /\ DividerSize \in Nat \ {0}
    BY <1>1
  <2> HIDE DEF x, y, s
  <2>2. x % s = x /\ y % DividerSize = y
    BY <2>1, Unwrapped
  <2>3. (x + 0) % s = x /\ (y + 0) % DividerSize = y
    BY <2>1, <2>2
  <2> QED
    BY <2>3 DEF x, y, s
<1>4. CASE v # "noise"
  <2> DEFINE per == period(v, o)
             size == IF v = "wave" THEN WaveSteps ELSE DutySteps
             phase == (o.phase + 0) % size
             left == o.delay + 0 * per - 0
  <2>1. size = PhaseSize(v)
    BY <1>4 DEF PhaseSize
  <2>2. per \in Nat \ {0}
    BY PeriodFits DEF Ready
  <2>3. run(v, o, 0) = [o EXCEPT !.phase = phase, !.delay = left]
    <3> HIDE DEF size
    <3> QED
      BY <1>2, <1>4 DEF run, RunTone, size
  <2>4. left = o.delay
    <3> HIDE DEF per
    <3> QED
      BY <1>1, <2>2
  <2>5. phase = o.phase
    BY <1>3, <2>1
  <2> HIDE DEF phase, left
  <2>6. run(v, o, 0) = Moved(o, phase, left)
    BY <2>3 DEF Moved
  <2> QED
    BY <1>1, <2>4, <2>5, <2>6, MovedNot
<1>5. CASE v = "noise"
  <2> DEFINE first == o.delay + ((o.divider + o.period2 \div 2) % o.period2) * o.period1
             expiries == Expiries(o.delay, o.period1, 0)
             clocks == IF o.period2 < DividerSize
                       THEN Expiries(first, o.period2 * o.period1, 0) ELSE 0
             phase == (o.phase + clocks) % NoiseSteps
             divider == (o.divider + expiries * (DividerSize - 1)) % DividerSize
             left == o.delay + expiries * o.period1 - 0
  <2>1. /\ o.period1 \in Nat \ {0} /\ o.period2 \in Nat \ {0} /\ o.period2 % 2 = 0
        /\ PhaseSize(v) = NoiseSteps
    BY <1>5 DEF Regular, DividerFits, PhaseSize
  <2>2. first \in Nat
    <3> DEFINE x == o.divider + o.period2 \div 2
               p == o.period2
               q == o.period1
    <3>1. x \in Int /\ p \in Nat \ {0} /\ q \in Nat \ {0}
      BY <1>1, <2>1
    <3> HIDE DEF x, p, q
    <3>2. x % p \in Nat
      BY <3>1, Remainder
    <3>3. \A a, b \in Nat : a * b \in Nat
      OBVIOUS
    <3>4. (x % p) * q \in Nat
      BY <3>1, <3>2, <3>3
    <3> QED
      BY <1>1, <3>4 DEF x, p, q
  <2>3. RunNoise(o, 0) = [o EXCEPT !.phase = phase, !.divider = divider, !.delay = left]
    BY DEF RunNoise
  <2> HIDE DEF first
  <2>4. expiries = 0 /\ clocks = 0
    BY <1>2, <2>2, NoExpiries
  <2>5. divider = o.divider
    <3>1. 0 * (DividerSize - 1) = 0
      BY <1>1
    <3> HIDE DEF expiries
    <3> QED
      BY <1>3, <2>4, <3>1
  <2>6. left = o.delay
    <3>1. 0 * o.period1 = 0
      BY <2>1
    <3> HIDE DEF expiries
    <3> QED
      BY <1>1, <2>4, <3>1
  <2>7. phase = o.phase
    <3> HIDE DEF clocks
    <3> QED
      BY <1>3, <2>1, <2>4
  <2> HIDE DEF phase, divider, left
  <2>8. RunNoise(o, 0) = MovedNoise(o, phase, divider, left)
    BY <2>3 DEF MovedNoise
  <2> QED
    BY <1>1, <1>5, <2>5, <2>6, <2>7, <2>8, MovedNot DEF run
<1> QED
  BY <1>4, <1>5

\* Running a clock more is clocking once more.
LEMMA RunNext ==
  ASSUME NEW v, NEW o, Ready(o), Regular(v, o), NEW n \in Nat
  PROVE  ClockOsc(v, run(v, o, n)) = run(v, o, n + 1)
<1>1. CASE v = "noise"
  BY <1>1, RunNoiseNext DEF ClockOsc, run
<1>2. CASE v # "noise"
  <2> DEFINE q == RunTone(v, o, n)
  <2>1. ClockOsc(v, q) = ClockTimer(q, period(v, q), PhaseSize(v))
    BY <1>2 DEF ClockOsc, PhaseSize
  <2>2. ClockTimer(q, period(v, q), PhaseSize(v)) = RunTone(v, o, n + 1)
    BY <1>2, RunToneNext
  <2> QED
    BY <1>2, <2>1, <2>2 DEF run
<1> QED
  BY <1>1, <1>2

\* The fields that say nothing of it may change.
LEMMA RegularStill ==
  ASSUME NEW v, NEW o, Regular(v, o), NEW q, Record(q),
         \A f \in {"delay", "length_ctr", "phase", "divider", "period1", "period2"} : q[f] = o[f]
  PROVE  Regular(v, q)
BY DEF Regular

\* The timer and the divider stay in range.
LEMMA RunRegular ==
  ASSUME NEW v, NEW o, Ready(o), Regular(v, o), NEW n \in Nat
  PROVE  /\ Regular(v, run(v, o, n))
         /\ \A f \in Fields \ {"phase", "divider", "delay"} : run(v, o, n)[f] = o[f]
<1>1. /\ o.delay \in Nat /\ o.phase \in 0 .. PhaseSize(v) - 1 /\ PhaseSize(v) \in Nat \ {0}
      /\ o.divider \in 0 .. DividerSize - 1 /\ DividerSize \in Nat \ {0} /\ Record(o)
  BY OscSizes DEF Regular
<1>2. ASSUME NEW per \in Nat \ {0}
      PROVE  Expiries(o.delay, per, n) \in Nat /\ o.delay + Expiries(o.delay, per, n) * per - n \in Nat
  <2> DEFINE d == o.delay
  <2>1. d \in Nat
    BY <1>1
  <2> HIDE DEF d
  <2>2. Expiries(d, per, n) \in Nat /\ d + Expiries(d, per, n) * per - n \in Nat
    BY <2>1, ExpiriesNext
  <2> QED
    BY <2>2 DEF d
<1>3. ASSUME NEW k \in Int PROVE (o.phase + k) % PhaseSize(v) \in 0 .. PhaseSize(v) - 1
  <2> DEFINE x == o.phase + k
             s == PhaseSize(v)
  <2>1. x \in Int /\ s \in Nat \ {0}
    BY <1>1
  <2> HIDE DEF x, s
  <2>2. x % s \in 0 .. s - 1
    BY <2>1, Remainder
  <2> QED
    BY <2>2 DEF x, s
<1>4. CASE v # "noise"
  <2> DEFINE per == period(v, o)
             size == IF v = "wave" THEN WaveSteps ELSE DutySteps
             e == Expiries(o.delay, per, n)
             phase == (o.phase + e) % size
             left == o.delay + e * per - n
             q == Moved(o, phase, left)
  <2>1. size = PhaseSize(v)
    BY <1>4 DEF PhaseSize
  <2>2. per \in Nat \ {0}
    BY PeriodFits DEF Ready
  <2>3. e \in Nat /\ left \in Nat /\ phase \in 0 .. PhaseSize(v) - 1
    BY <1>2, <1>3, <2>1, <2>2
  <2>4. run(v, o, n) = q
    <3> HIDE DEF size, per, e
    <3> QED
      BY <1>4 DEF run, RunTone, Moved, size, per, e
  <2> HIDE DEF phase, left
  <2>5. Record(q) /\ q.phase = phase /\ q.delay = left
    BY <1>1, MovedAre
  <2>6. \A f \in Fields \ {"phase", "delay"} : q[f] = o[f]
    BY <1>1, MovedAre
  <2> HIDE DEF q
  <2>7. {"length_ctr", "divider", "period1", "period2"} \subseteq Fields \ {"phase", "delay"}
    BY DEF Fields
  <2>8. Regular(v, q)
    BY <2>3, <2>5, <2>6, <2>7 DEF Regular
  <2> QED
    BY <2>4, <2>6, <2>8
<1>5. CASE v = "noise"
  <2> DEFINE first == o.delay + ((o.divider + o.period2 \div 2) % o.period2) * o.period1
             e == Expiries(o.delay, o.period1, n)
             clocks == IF o.period2 < DividerSize
                       THEN Expiries(first, o.period2 * o.period1, n) ELSE 0
             phase == (o.phase + clocks) % NoiseSteps
             divider == (o.divider + e * (DividerSize - 1)) % DividerSize
             left == o.delay + e * o.period1 - n
             q == MovedNoise(o, phase, divider, left)
  <2>1. /\ o.period1 \in Nat \ {0} /\ o.period2 \in Nat \ {0} /\ o.period2 % 2 = 0
        /\ PhaseSize(v) = NoiseSteps
    BY <1>5 DEF Regular, DividerFits, PhaseSize
  <2>2. run(v, o, n) = q
    <3> HIDE DEF first
    <3> QED
      BY <1>5 DEF run, RunNoise, MovedNoise, first
  <2>3. clocks \in Nat
    <3>1. first \in Nat /\ o.period2 * o.period1 \in Nat \ {0}
      <4> DEFINE x == o.divider + o.period2 \div 2
                 p == o.period2
                 k == o.period1
      <4>1. x \in Int /\ p \in Nat \ {0} /\ k \in Nat \ {0}
        BY <1>1, <2>1
      <4> HIDE DEF x, p, k
      <4>2. x % p \in Nat
        BY <4>1, Remainder
      <4>3. \A a, b \in Nat : a * b \in Nat
        OBVIOUS
      <4>4. \A a, b \in Nat \ {0} : a * b \in Nat \ {0}
        OBVIOUS
      <4>5. (x % p) * k \in Nat /\ p * k \in Nat \ {0}
        BY <4>1, <4>2, <4>3, <4>4
      <4> QED
        BY <1>1, <4>5 DEF x, p, k
    <3> DEFINE m == o.period2 * o.period1
    <3>2. clocks = IF o.period2 < DividerSize THEN Expiries(first, m, n) ELSE 0
      OBVIOUS
    <3> HIDE DEF first, clocks, m
    <3>3. Expiries(first, m, n) \in Nat
      <4>1. m \in Nat \ {0}
        BY <3>1 DEF m
      <4> QED
        BY <3>1, <4>1, ExpiriesNext
    <3> QED
      BY <3>2, <3>3
  <2> HIDE DEF clocks
  <2>4. e \in Nat /\ left \in Nat
    BY <1>2, <2>1
  <2>5. phase \in 0 .. PhaseSize(v) - 1
    BY <1>3, <2>1, <2>3
  <2>6. divider \in 0 .. DividerSize - 1
    <3> HIDE DEF e
    <3> DEFINE x == o.divider + e * (DividerSize - 1)
    <3>1. x \in Int /\ DividerSize \in Nat \ {0}
      BY <1>1, <2>4
    <3> HIDE DEF x
    <3>2. x % DividerSize \in 0 .. DividerSize - 1
      BY <3>1, Remainder
    <3> QED
      BY <3>2 DEF x
  <2> HIDE DEF phase, divider, left
  <2>7. Record(q) /\ q.phase = phase /\ q.divider = divider /\ q.delay = left
    BY <1>1, MovedNoiseAre
  <2>8. \A f \in Fields \ {"phase", "divider", "delay"} : q[f] = o[f]
    BY <1>1, MovedNoiseAre
  <2> HIDE DEF q
  <2>9. {"length_ctr", "period1", "period2"} \subseteq Fields \ {"phase", "divider", "delay"}
    BY DEF Fields
  <2>10. Regular(v, q)
    BY <2>4, <2>5, <2>6, <2>7, <2>8, <2>9 DEF Regular
  <2> QED
    BY <2>2, <2>8, <2>10
<1> QED
  BY <1>4, <1>5

-----------------------------------------------------------------------------
(* What the sequencer leaves of an oscillator                              *)

\* What the sequencer leaves of an oscillator, lengths aside.
Kept(q, o) ==
  /\ Record(q)
  /\ \A f \in {"delay", "phase", "divider", "period1", "period2", "length_on"} : q[f] = o[f]
  /\ q.enabled => o.enabled

LEMMA KeptTwice ==
  ASSUME NEW o, NEW p, NEW q, Kept(p, o), Kept(q, p) PROVE Kept(q, o)
BY DEF Kept

LEMMA EnvelopeKept ==
  ASSUME NEW o, Record(o)
  PROVE  Kept(clock_envelope(o), o) /\ clock_envelope(o).length_ctr = o.length_ctr
BY DEF clock_envelope, Kept, Record, Fields

LEMMA CalcKept ==
  ASSUME NEW o, Record(o), NEW update \in BOOLEAN
  PROVE  Kept(calc_sweep(o, update), o) /\ calc_sweep(o, update).length_ctr = o.length_ctr
<1> DEFINE delta == o.sweep_freq \div 2 ^ o.sweep.shift
           freq == o.sweep_freq + (IF o.sweep.neg THEN -delta ELSE delta)
           p == [o EXCEPT !.sweep_neg = o.sweep.neg]
           low == freq % LowSize
           high == (freq \div LowSize) % HighSize
<1>1. calc_sweep(o, update) =
        IF freq > MaxFrequency THEN [p EXCEPT !.enabled = FALSE]
        ELSE IF o.sweep.shift > 0 /\ update
        THEN [p EXCEPT !.sweep_freq = freq, !.low = low, !.high = high]
        ELSE p
  BY DEF calc_sweep
<1>2. Record(p) /\ Kept(p, o) /\ p.length_ctr = o.length_ctr
  BY DEF Kept, Record, Fields
<1> HIDE DEF freq, p, low, high
<1>3. Kept([p EXCEPT !.enabled = FALSE], p) /\ [p EXCEPT !.enabled = FALSE].length_ctr = p.length_ctr
  BY <1>2 DEF Kept, Record, Fields
<1>4. /\ Kept([p EXCEPT !.sweep_freq = freq, !.low = low, !.high = high], p)
      /\ [p EXCEPT !.sweep_freq = freq, !.low = low, !.high = high].length_ctr = p.length_ctr
  BY <1>2 DEF Kept, Record, Fields
<1> DEFINE a == [p EXCEPT !.enabled = FALSE]
           b == [p EXCEPT !.sweep_freq = freq, !.low = low, !.high = high]
<1>5. \A q \in {a, b, p} : Kept(q, o) /\ q.length_ctr = o.length_ctr
  <2> HIDE DEF a, b
  <2>1. Kept(a, p) /\ a.length_ctr = p.length_ctr /\ Kept(b, p) /\ b.length_ctr = p.length_ctr
    BY <1>3, <1>4 DEF a, b
  <2> QED
    BY <1>2, <2>1, KeptTwice
<1>6. calc_sweep(o, update) \in {a, b, p}
  BY <1>1
<1> QED
  BY <1>5, <1>6

LEMMA SweepKept ==
  ASSUME NEW o, Record(o)
  PROVE  Kept(clock_sweep(o), o) /\ clock_sweep(o).length_ctr = o.length_ctr
<1>1. ASSUME NEW e
      PROVE  LET p == [o EXCEPT !.sweep_delay = e]
             IN  Record(p) /\ Kept(p, o) /\ p.length_ctr = o.length_ctr
  BY DEF Kept, Record, Fields
<1>2. ASSUME NEW p, Record(p), Kept(p, o), p.length_ctr = o.length_ctr
      PROVE  LET q == calc_sweep(calc_sweep(p, TRUE), FALSE)
             IN  Kept(q, o) /\ q.length_ctr = o.length_ctr
  <2> DEFINE s == calc_sweep(p, TRUE)
             q == calc_sweep(s, FALSE)
  <2>1. Kept(s, p) /\ s.length_ctr = p.length_ctr
    BY <1>2, CalcKept
  <2> HIDE DEF s
  <2>2. Record(s) /\ Kept(q, s) /\ q.length_ctr = s.length_ctr
    BY <2>1, CalcKept DEF Kept
  <2> HIDE DEF q
  <2>3. Kept(q, p) /\ q.length_ctr = o.length_ctr
    BY <1>2, <2>1, <2>2, KeptTwice
  <2>4. Kept(q, o)
    BY <1>2, <2>3, KeptTwice
  <2> QED
    BY <2>3, <2>4 DEF q, s
<1> DEFINE a == [o EXCEPT !.sweep_delay = @ - 1]
           r == [o EXCEPT !.sweep_delay = SweepTimer(o)]
           b == calc_sweep(calc_sweep(r, TRUE), FALSE)
<1>3. clock_sweep(o) \in {a, r, b}
  BY DEF clock_sweep
<1>4. Kept(a, o) /\ a.length_ctr = o.length_ctr
  BY <1>1
<1>5. Record(r) /\ Kept(r, o) /\ r.length_ctr = o.length_ctr
  BY <1>1
<1> HIDE DEF r
<1>6. Kept(b, o) /\ b.length_ctr = o.length_ctr
  BY <1>2, <1>5
<1> HIDE DEF a, b
<1> QED
  BY <1>3, <1>4, <1>5, <1>6

\* A length counter that is on comes down by one, at the end of which the oscillator stops.
LEMMA LengthKept ==
  ASSUME NEW o, Record(o), Ready(o)
  PROVE  /\ Kept(clock_length(o), o) /\ clock_length(o).length_ctr <= o.length_ctr
         /\ o.length_on /\ o.enabled => clock_length(o).length_ctr = o.length_ctr - 1
<1> DEFINE n == o.length_ctr - 1
           left == o.length_ctr > 1
           p == [o EXCEPT !.length_ctr = n, !.enabled = @ /\ left]
<1>1. clock_length(o) = IF o.length_on /\ o.length_ctr > 0 THEN p ELSE o
  BY DEF clock_length
<1>2. o.length_ctr \in Nat /\ n \in Int /\ n = o.length_ctr - 1 /\ left \in BOOLEAN
      /\ (o.enabled => o.length_ctr > 0)
  BY DEF Ready
<1> HIDE DEF n, left
<1>3. Kept(p, o) /\ p.length_ctr = n
  BY DEF Kept, Record, Fields
<1>4. Kept(o, o)
  BY DEF Kept
<1> HIDE DEF p
<1>5. CASE o.length_on /\ o.length_ctr > 0
  <2>1. clock_length(o) = p
    BY <1>1, <1>5
  <2> QED
    BY <1>2, <1>3, <2>1
<1>6. CASE ~(o.length_on /\ o.length_ctr > 0)
  <2>1. clock_length(o) = o
    BY <1>1, <1>6
  <2> QED
    BY <1>2, <1>4, <1>6, <2>1
<1> QED
  BY <1>5, <1>6

LEMMA ClockedKept ==
  ASSUME NEW phase \in 0 .. 7, NEW v, NEW on \in BOOLEAN, NEW o, Record(o), Alive(on, v, o)
  PROVE  LET q == Clocked(phase, v, o)
         IN  /\ Kept(q, o) /\ q.length_ctr <= o.length_ctr
             /\ q.enabled /\ o.length_on =>
                  q.length_ctr = o.length_ctr - (IF phase % 2 = 0 THEN 1 ELSE 0)
<1> DEFINE p == IF phase \in {2, 6} /\ v = "square1" THEN clock_sweep(o) ELSE o
           q == Clocked(phase, v, o)
<1>1. Kept(o, o) /\ o.length_ctr \in Nat
  BY DEF Kept, Alive, Ready
<1>2. Alive(on, v, p) /\ Kept(p, o) /\ p.length_ctr = o.length_ctr
  BY <1>1, SweepAlive, SweepKept
<1>3. phase \in {0, 2, 4, 6} => q = clock_length(p)
  BY DEF Clocked
<1> HIDE DEF p
<1>4. CASE phase \in {0, 2, 4, 6}
  <2>1. Record(p) /\ Ready(p)
    BY <1>2 DEF Kept, Alive
  <2>2. /\ Kept(q, p) /\ q.length_ctr <= p.length_ctr
        /\ p.length_on /\ p.enabled => q.length_ctr = p.length_ctr - 1
    BY <1>3, <1>4, <2>1, LengthKept
  <2>3. phase % 2 = 0
    BY <1>4
  <2> HIDE DEF q
  <2>4. (q.enabled => p.enabled) /\ p.length_on = o.length_on
    BY <1>2, <2>2 DEF Kept
  <2>5. Kept(q, o)
    BY <1>2, <2>2, KeptTwice
  <2> QED
    BY <1>2, <2>2, <2>3, <2>4, <2>5 DEF q
<1>5. CASE phase \notin {0, 2, 4, 6}
  <2>1. q = IF phase = 7 /\ v \in Enveloped THEN clock_envelope(o) ELSE o
    BY <1>5 DEF Clocked
  <2>2. Kept(q, o) /\ q.length_ctr = o.length_ctr
    <3> HIDE DEF q
    <3> QED
      BY <1>1, <2>1, EnvelopeKept
  <2>3. phase % 2 # 0
    BY <1>5
  <2> HIDE DEF q
  <2> QED
    BY <1>1, <2>2, <2>3 DEF q
<1> QED
  BY <1>4, <1>5

LEMMA KeptRegular ==
  ASSUME NEW v, NEW o, Regular(v, o), NEW q, Kept(q, o), o.length_ctr \in Nat, q.length_ctr \in Int,
         q.length_ctr <= o.length_ctr
  PROVE  Regular(v, q)
<1>1. q.length_ctr <= MaxLength(v)
  BY OscSizes DEF Regular
<1> QED
  BY <1>1 DEF Regular, Kept

-----------------------------------------------------------------------------
(* What a register leaves of an oscillator                                 *)

LEMMA WriteSweepRegular ==
  ASSUME NEW v, NEW o, Regular(v, o), NEW w
  PROVE  Regular(v, WriteSweep(v, o, w))
<1> DEFINE q == WriteSweep(v, o, w)
           a == [o EXCEPT !.dac = w, !.enabled = @ /\ w]
           stopped == o.sweep_enabled /\ o.sweep_neg /\ ~w.neg
           b == [o EXCEPT !.sweep = w, !.enabled = @ /\ ~stopped]
           Rest == {"delay", "length_ctr", "phase", "divider", "period1", "period2"}
<1>1. q \in {a, b} /\ Record(o)
  BY DEF WriteSweep, Regular
<1>2. Record(a) /\ \A f \in Rest : a[f] = o[f]
  BY <1>1 DEF Record, Fields
<1>3. Record(b) /\ \A f \in Rest : b[f] = o[f]
  <2> HIDE DEF stopped
  <2> QED
    BY <1>1 DEF Record, Fields
<1> HIDE DEF a, b, q
<1>4. Record(q) /\ \A f \in Rest : q[f] = o[f]
  BY <1>1, <1>2, <1>3
<1>5. Regular(v, q)
  BY <1>4, RegularStill
<1> QED
  BY <1>5 DEF q

LEMMA WriteLengthRegular ==
  ASSUME NEW v \in Enveloped \cup {"wave"}, NEW o, Regular(v, o), NEW w \in Lengths[v]
  PROVE  Regular(v, [o EXCEPT !.length_ctr = MaxLength(v) - w])
<1> DEFINE n == MaxLength(v) - w
           q == [o EXCEPT !.length_ctr = n]
<1>1. n <= MaxLength(v)
  BY WritesAssumption, OscSizes
<1> HIDE DEF n
<1>2. /\ Record(q) /\ q.length_ctr = n
      /\ \A f \in {"delay", "phase", "divider", "period1", "period2"} : q[f] = o[f]
  BY DEF Regular, Record, Fields
<1> HIDE DEF q
<1>3. Regular(v, q)
  BY <1>1, <1>2 DEF Regular
<1> QED
  BY <1>3 DEF q, n

LEMMA WriteEnvelopeRegular ==
  ASSUME NEW v, NEW o, Regular(v, o), NEW w
  PROVE  Regular(v, WriteEnvelope(v, o, [o EXCEPT !.env = w]))
<1> DEFINE e == [o EXCEPT !.env = w]
           p == [e EXCEPT !.enabled = @ /\ dac_enabled(v, e)]
           z == zombie_volume(o, p)
           q == [z EXCEPT !.env_delay = 1]
           Same(x, y) == /\ Record(x)
                         /\ \A f \in {"delay", "length_ctr", "phase", "divider",
                                      "period1", "period2"} : x[f] = y[f]
<1>1. Record(o)
  BY DEF Regular
<1>2. Same(e, o)
  BY <1>1 DEF Record, Fields
<1>3. WriteEnvelope(v, o, e) = IF e.env.period > 0 /\ e.env_delay = Slow
                               THEN clock_envelope(q) ELSE z
  BY DEF WriteEnvelope
<1> HIDE DEF e
<1>4. Same(p, e)
  <2> DEFINE d == dac_enabled(v, e)
  <2> HIDE DEF d
  <2> QED
    BY <1>2 DEF Record, Fields, d
<1> HIDE DEF p
<1>5. Same(z, p)
  <2>1. \A x : Same([p EXCEPT !.volume = x], p)
    BY <1>4 DEF Record, Fields
  <2> HIDE DEF Same
  <2> QED
    BY <2>1 DEF zombie_volume
<1> HIDE DEF z
<1>6. Same(q, z)
  BY <1>5 DEF Record, Fields
<1> HIDE DEF q
<1>7. Same(clock_envelope(q), q)
  BY <1>6, EnvelopeKept DEF Kept
<1>8. \A x, y, u : Same(x, y) /\ Same(y, u) => Same(x, u)
  OBVIOUS
<1> DEFINE c == clock_envelope(q)
<1>9. WriteEnvelope(v, o, e) \in {c, z}
  BY <1>3
<1>10. Same(c, o) /\ Same(z, o)
  <2> HIDE DEF Same, c
  <2>1. Same(z, o)
    BY <1>2, <1>4, <1>5, <1>8
  <2>2. Same(c, o)
    BY <1>6, <1>7, <1>8, <2>1 DEF c
  <2> QED
    BY <2>1, <2>2
<1> HIDE DEF c
<1>11. Regular(v, c) /\ Regular(v, z)
  BY <1>10, RegularStill
<1> QED
  BY <1>9, <1>11 DEF e

LEMMA WriteLowRegular ==
  ASSUME NEW v \in Enveloped \cup {"wave"}, NEW o, Regular(v, o), NEW w \in Lows[v]
  PROVE  Regular(v, WriteLow(v, o, w))
<1>1. Record(o)
  BY DEF Regular
<1>2. CASE v = "noise"
  <2> DEFINE a == w.period1
             b == w.period2
             q == [o EXCEPT !.period1 = a, !.period2 = b]
  <2>1. a \in Nat \ {0} /\ DividerFits(b)
    BY <1>2, WritesAssumption
  <2>2. WriteLow(v, o, w) = q
    BY <1>2 DEF WriteLow
  <2> HIDE DEF a, b
  <2>3. /\ Record(q) /\ q.period1 = a /\ q.period2 = b
        /\ \A f \in {"delay", "length_ctr", "phase", "divider"} : q[f] = o[f]
    BY <1>1 DEF Record, Fields
  <2> HIDE DEF q
  <2> QED
    BY <2>1, <2>2, <2>3 DEF Regular
<1>3. CASE v # "noise"
  <2> DEFINE q == [o EXCEPT !.low = w]
             Rest == {"delay", "length_ctr", "phase", "divider", "period1", "period2"}
  <2>1. WriteLow(v, o, w) = q
    BY <1>3 DEF WriteLow
  <2>2. Record(q) /\ \A f \in Rest : q[f] = o[f]
    BY <1>1 DEF Record, Fields
  <2> HIDE DEF q
  <2> QED
    BY <2>1, <2>2, RegularStill
<1> QED
  BY <1>2, <1>3

\* A length is never longer than the longest.
LEMMA TrigRegular ==
  ASSUME NEW c, NEW v \in Enveloped \cup {"wave"}, NEW o, Ready(o), Regular(v, o),
         NEW old, NEW w \in Highs[v]
  PROVE  Regular(v, write_trig(c, v, o, old, w))
<1> DEFINE odd == c.frame_phase % 2 = 1
           extra == IF odd /\ ~old.length_on /\ w.length_on /\ o.length_ctr > 0 THEN 1 ELSE 0
           left == o.length_ctr - extra
           full == MaxLength(v) - (IF odd /\ w.length_on THEN 1 ELSE 0)
           length == IF w.trigger /\ left = 0 THEN full ELSE left
           p == [o EXCEPT !.length_ctr = length, !.enabled = (@ \/ w.trigger) /\ length > 0]
<1>1. length <= MaxLength(v)
  <2>1. full <= MaxLength(v)
    BY OscSizes
  <2>2. left <= MaxLength(v)
    BY OscSizes DEF Ready, Regular
  <2> QED
    BY <2>1, <2>2
<1>2. p = write_trig(c, v, o, old, w)
  BY DEF write_trig
<1> HIDE DEF length
<1>3. /\ Record(p) /\ p.length_ctr = length
      /\ \A f \in {"delay", "phase", "divider", "period1", "period2"} : p[f] = o[f]
  BY DEF Regular, Record, Fields
<1> HIDE DEF p
<1> QED
  BY <1>1, <1>2, <1>3 DEF Regular

LEMMA EnvTriggeredRegular ==
  ASSUME NEW c, NEW v, NEW o, Regular(v, o)
  PROVE  Regular(v, EnvTriggered(c, v, o))
<1> DEFINE d == EnvTimer(o) + (IF c.frame_phase = 7 THEN 1 ELSE 0)
           t == dac_enabled(v, o)
           q == [o EXCEPT !.volume = o.env.volume, !.env_enabled = TRUE,
                   !.env_delay = d, !.enabled = @ /\ t]
           Rest == {"delay", "length_ctr", "phase", "divider", "period1", "period2"}
<1>1. q = EnvTriggered(c, v, o)
  BY DEF EnvTriggered
<1> HIDE DEF d, t
<1>2. Record(q) /\ \A f \in Rest : q[f] = o[f]
  BY DEF Regular, Record, Fields
<1> HIDE DEF q
<1> QED
  BY <1>1, <1>2, RegularStill

\* A trigger starts the timer.
LEMMA Restarted ==
  ASSUME NEW v, NEW o, Regular(v, o), NEW p \in 0 .. PhaseSize(v) - 1, NEW d \in Nat
  PROVE  Regular(v, Moved(o, p, d))
<1> DEFINE q == Moved(o, p, d)
<1>1. Record(o)
  BY DEF Regular
<1>2. Record(q) /\ q.phase = p /\ q.delay = d
  BY <1>1, MovedAre
<1>3. \A f \in Fields \ {"phase", "delay"} : q[f] = o[f]
  BY <1>1, MovedAre
<1>4. {"length_ctr", "divider", "period1", "period2"} \subseteq Fields \ {"phase", "delay"}
  BY DEF Fields
<1> HIDE DEF q
<1>5. Regular(v, q)
  BY <1>2, <1>3, <1>4 DEF Regular
<1> QED
  BY <1>5 DEF q

LEMMA SquareTriggeredRegular ==
  ASSUME NEW v, NEW o, Ready(o), Regular(v, o)
  PROVE  Regular(v, SquareTriggered(v, o))
<1> DEFINE d == (o.delay % Tick) + period(v, o)
<1>1. d \in Nat
  <2> DEFINE x == o.delay
             y == period(v, o)
  <2>1. x \in Nat /\ y \in Nat \ {0} /\ Tick \in Nat \ {0}
    BY PeriodFits, OscSizes DEF Ready, Regular
  <2> HIDE DEF x, y
  <2>2. x % Tick \in Nat
    BY <2>1, Remainder
  <2> QED
    BY <2>1, <2>2 DEF x, y
<1>2. SquareTriggered(v, o) = [o EXCEPT !.delay = d]
  BY DEF SquareTriggered
<1> HIDE DEF d
<1>3. [o EXCEPT !.delay = d] = Moved(o, o.phase, d)
  BY DEF Moved, Regular, Record, Fields
<1>4. o.phase \in 0 .. PhaseSize(v) - 1
  BY DEF Regular
<1> QED
  BY <1>1, <1>2, <1>3, <1>4, Restarted

LEMMA WaveTriggeredRegular ==
  ASSUME NEW o, Ready(o), Regular("wave", o)
  PROVE  Regular("wave", WaveTriggered(o))
<1> DEFINE d == period("wave", o) + WaveDelay
           t == dac_enabled("wave", o)
           p == [o EXCEPT !.enabled = @ /\ t]
           q == [o EXCEPT !.enabled = @ /\ t, !.phase = 0, !.delay = d]
           Rest == {"delay", "length_ctr", "phase", "divider", "period1", "period2"}
<1>1. d \in Nat
  BY PeriodFits, ApuAssumption DEF Ready
<1>2. q = WaveTriggered(o)
  BY DEF WaveTriggered
<1> HIDE DEF d, t
<1>3. Record(p) /\ (\A f \in Rest : p[f] = o[f]) /\ q = Moved(p, 0, d)
  BY DEF Regular, Record, Fields, Moved
<1> HIDE DEF p, q
<1>4. Regular("wave", p) /\ 0 \in 0 .. PhaseSize("wave") - 1
  BY <1>3, RegularStill, OscSizes
<1> QED
  BY <1>1, <1>2, <1>3, <1>4, Restarted

LEMMA SweepTriggeredRegular ==
  ASSUME NEW v, NEW o, Ready(o), Regular(v, o)
  PROVE  Regular(v, SweepTriggered(o))
<1> DEFINE used == o.sweep.period > 0 \/ o.sweep.shift > 0
           f == frequency(o)
           t == SweepTimer(o)
           p == [o EXCEPT !.sweep_freq = f, !.sweep_neg = FALSE,
                          !.sweep_delay = t, !.sweep_enabled = used]
           q == calc_sweep(p, FALSE)
           Rest == {"delay", "length_ctr", "phase", "divider", "period1", "period2"}
<1>1. SweepTriggered(o) \in {p, q}
  BY DEF SweepTriggered
<1> HIDE DEF used, f, t
<1>2. Record(p) /\ \A g \in Rest : p[g] = o[g]
  BY DEF Regular, Record, Fields
<1> HIDE DEF p
<1>3. Record(q) /\ \A g \in Rest : q[g] = p[g]
  <2>1. Kept(q, p) /\ q.length_ctr = p.length_ctr
    BY <1>2, CalcKept
  <2> HIDE DEF q
  <2> QED
    BY <2>1 DEF Kept
<1> HIDE DEF q
<1>4. Regular(v, p)
  BY <1>2, RegularStill
<1>5. Regular(v, q)
  BY <1>3, <1>4, RegularStill
<1> QED
  BY <1>1, <1>4, <1>5

LEMMA TriggeredRegular ==
  ASSUME NEW c, NEW v \in Enveloped \cup {"wave"}, NEW o, Ready(o), Regular(v, o)
  PROVE  Regular(v, Triggered(c, v, o))
<1> DEFINE e == EnvTriggered(c, v, o)
<1>1. v # "wave" => Alive(TRUE, v, e) /\ Regular(v, e)
  BY EnvTriggeredAlive, EnvTriggeredRegular
<1> HIDE DEF e
<1>2. v # "wave" => Ready(e)
  BY <1>1 DEF Alive
<1> DEFINE q == SquareTriggered(v, e)
<1>3. v # "wave" => Regular(v, q)
  BY <1>1, <1>2, SquareTriggeredRegular
<1>4. v # "wave" => Ready(q)
  <2>1. ASSUME NEW d, Ready(e) PROVE Ready([e EXCEPT !.delay = d])
    BY <2>1 DEF Ready, Fields
  <2> QED
    BY <1>2, <2>1 DEF SquareTriggered
<1> HIDE DEF q
<1>5. CASE v = "square1"
  <2>1. Regular(v, SweepTriggered(q))
    BY <1>3, <1>4, <1>5, SweepTriggeredRegular
  <2> QED
    BY <1>5, <2>1 DEF Triggered, q, e
<1>6. CASE v = "square2"
  BY <1>3, <1>6 DEF Triggered, q, e
<1>7. CASE v = "noise"
  <2> DEFINE d == e.delay + NoiseDelay
  <2>1. d \in Nat
    BY <1>1, <1>7, ApuAssumption DEF Regular
  <2>2. NoiseTriggered(e) = Moved(e, 0, d) /\ 0 \in 0 .. PhaseSize(v) - 1
    BY OscSizes DEF NoiseTriggered, Moved
  <2> HIDE DEF d
  <2>3. Regular(v, NoiseTriggered(e))
    BY <1>1, <1>7, <2>1, <2>2, Restarted
  <2> QED
    BY <1>7, <2>3 DEF Triggered, e
<1>8. CASE v = "wave"
  BY <1>8, WaveTriggeredRegular DEF Triggered
<1> QED
  BY <1>5, <1>6, <1>7, <1>8 DEF Enveloped

LEMMA WriteHighRegular ==
  ASSUME NEW c, NEW v \in Enveloped \cup {"wave"}, NEW o, Ready(o), Regular(v, o),
         NEW w \in Highs[v]
  PROVE  Regular(v, WriteHigh(c, v, o, w))
<1> DEFINE h == [o EXCEPT !.high = w.high, !.length_on = w.length_on]
           p == write_trig(c, v, h, o, w)
           Rest == {"delay", "length_ctr", "phase", "divider", "period1", "period2"}
<1> HIDE DEF p
<1>1. w.high \in 0 .. HighSize - 1
  BY WritesAssumption
<1>2. Ready(h)
  BY <1>1 DEF Ready, Fields
<1>3. Record(h) /\ \A f \in Rest : h[f] = o[f]
  BY DEF Regular, Record, Fields
<1>4. WriteHigh(c, v, o, w) \in {Triggered(c, v, p), p}
  BY DEF WriteHigh, p
<1> HIDE DEF h
<1>5. Regular(v, h)
  BY <1>3, RegularStill
<1>6. Ready(p) /\ Regular(v, p)
  BY <1>2, <1>5, TrigReady, TrigRegular DEF p
<1>7. Regular(v, Triggered(c, v, p))
  BY <1>6, TriggeredRegular
<1> QED
  BY <1>4, <1>6, <1>7

LEMMA ResetRegular ==
  ASSUME NEW v, NEW e0 PROVE Regular(v, ResetOsc(v, e0))
<1> DEFINE d == CASE v = "noise" -> Tick [] v = "wave" -> 0 [] OTHER -> Untriggered
           n == MaxLength(v)
           e == [volume |-> 0, up |-> FALSE, period |-> 0]
           w == [period |-> 0, neg |-> FALSE, shift |-> 0]
           p == ResetOsc(v, e0)
<1>1. n \in Nat /\ n <= MaxLength(v) /\ PhaseSize(v) \in Nat \ {0} /\ DividerSize \in Nat \ {0}
  BY OscSizes
<1>2. d \in Nat
  BY ApuAssumption
<1> HIDE DEF d, n, e, w
<1>3. /\ Record(p) /\ p.delay = d /\ p.length_ctr = n /\ p.phase = 0 /\ p.divider = 0
      /\ p.period1 = 1 /\ p.period2 = NoisePeriod
  BY DEF ResetOsc, Fields, Record, d, n, e, w
<1>4. DividerFits(NoisePeriod)
  BY ApuAssumption
<1> HIDE DEF p
<1>5. Regular(v, p)
  BY <1>1, <1>2, <1>3, <1>4 DEF Regular
<1> QED
  BY <1>5 DEF p

-----------------------------------------------------------------------------
(* Running the chip                                                        *)

\* The chip is a record of these parts, its oscillators run.
Formed(c) ==
  /\ c = [f \in Parts |-> c[f]] /\ c.osc = [v \in DOMAIN c.osc |-> c.osc[v]]
  /\ c.frame_phase \in 0 .. 7
  /\ \A v \in DOMAIN c.osc : Regular(v, c.osc[v])

Sound(c) == Whole(c) /\ Formed(c)

Advanced(c, osc, time) == [c EXCEPT !.osc = osc, !.last_time = time]

Ticked(c) == Advanced(c, [v \in DOMAIN c.osc |-> ClockOsc(v, c.osc[v])], c.last_time + 1)

LEMMA AdvancedIs ==
  ASSUME NEW c, c = [f \in Parts |-> c[f]], NEW osc, NEW time
  PROVE  /\ Advanced(c, osc, time) = [f \in Parts |-> Advanced(c, osc, time)[f]]
         /\ Advanced(c, osc, time).osc = osc /\ Advanced(c, osc, time).last_time = time
         /\ Advanced(c, osc, time).frame_time = c.frame_time
         /\ Advanced(c, osc, time).frame_phase = c.frame_phase
         /\ Advanced(c, osc, time).power = c.power
         /\ Advanced(c, c.osc, c.last_time) = c
BY DEF Advanced, Parts

LEMMA AdvancedAgain ==
  ASSUME NEW c, c = [f \in Parts |-> c[f]], NEW osc, NEW time, NEW os, NEW tim
  PROVE  Advanced(Advanced(c, osc, time), os, tim) = Advanced(c, os, tim)
BY DEF Advanced, Parts

LEMMA RunOscsSound ==
  ASSUME NEW c, Sound(c), NEW time \in Int, c.last_time <= time
  PROVE  LET d == RunOscs(c, time)
         IN  /\ Sound(d) /\ DOMAIN d.osc = DOMAIN c.osc /\ d.power = c.power
             /\ d.last_time = time /\ d.frame_time = c.frame_time
             /\ d.frame_phase = c.frame_phase
             /\ \A v \in DOMAIN c.osc : \A f \in Fields \ {"phase", "divider", "delay"} :
                  d.osc[v][f] = c.osc[v][f]
<1> DEFINE n == time - c.last_time
           osc == [v \in DOMAIN c.osc |-> run(v, c.osc[v], n)]
           d == Advanced(c, osc, time)
<1>1. n \in Nat
  BY DEF Sound, Whole
<1>2. d = RunOscs(c, time)
  BY DEF RunOscs, Advanced
<1> HIDE DEF n
<1>3. ASSUME NEW v \in DOMAIN c.osc
      PROVE  /\ Regular(v, osc[v])
             /\ \A f \in Fields \ {"phase", "divider", "delay"} : osc[v][f] = c.osc[v][f]
  <2> DEFINE o == c.osc[v]
             q == run(v, o, n)
  <2>1. Ready(o) /\ Regular(v, o) /\ osc[v] = q
    BY DEF Sound, Whole, Formed, Alive
  <2> HIDE DEF o, osc, q
  <2>2. /\ Regular(v, q) /\ \A f \in Fields \ {"phase", "divider", "delay"} : q[f] = o[f]
    BY <1>1, <2>1, RunRegular DEF q
  <2> QED
    BY <2>1, <2>2 DEF o
<1>4. DOMAIN osc = DOMAIN c.osc /\ osc = [v \in DOMAIN osc |-> osc[v]]
  OBVIOUS
<1>5. c = [f \in Parts |-> c[f]]
  BY DEF Sound, Formed
<1> HIDE DEF osc
<1>6. /\ d = [f \in Parts |-> d[f]] /\ d.osc = osc /\ d.last_time = time
      /\ d.frame_time = c.frame_time /\ d.frame_phase = c.frame_phase /\ d.power = c.power
  BY <1>5, AdvancedIs
<1>7. Whole(d)
  <2>1. Whole(c)
    BY DEF Sound
  <2> QED
    BY <1>2, <2>1, RunOscsWhole
<1> HIDE DEF d
<1>8. Formed(d)
  BY <1>3, <1>4, <1>6 DEF Formed, Sound
<1> QED
  BY <1>2, <1>3, <1>4, <1>6, <1>7, <1>8 DEF Sound

LEMMA RunOscsNot ==
  ASSUME NEW c, Sound(c)
  PROVE  RunOscs(c, c.last_time) = c
<1> DEFINE osc == [v \in DOMAIN c.osc |-> run(v, c.osc[v], c.last_time - c.last_time)]
<1>1. c.last_time - c.last_time = 0
  BY DEF Sound, Whole
<1>2. ASSUME NEW v \in DOMAIN c.osc PROVE run(v, c.osc[v], 0) = c.osc[v]
  BY RunNot DEF Sound, Whole, Formed, Alive
<1>3. osc = c.osc
  <2>1. osc = [v \in DOMAIN c.osc |-> c.osc[v]]
    BY <1>1, <1>2
  <2> QED
    BY <2>1 DEF Sound, Formed
<1>4. RunOscs(c, c.last_time) = Advanced(c, osc, c.last_time)
  BY DEF RunOscs, Advanced
<1> HIDE DEF osc
<1>5. Advanced(c, c.osc, c.last_time) = c
  BY AdvancedIs DEF Sound, Formed
<1> QED
  BY <1>3, <1>4, <1>5

\* Running to a clock later is running, then clocking.
LEMMA RunOscsNext ==
  ASSUME NEW c, Sound(c), NEW time \in Int, c.last_time <= time
  PROVE  Ticked(RunOscs(c, time)) = RunOscs(c, time + 1)
<1> DEFINE n == time - c.last_time
           osc == [v \in DOMAIN c.osc |-> run(v, c.osc[v], n)]
           nosc == [v \in DOMAIN c.osc |-> run(v, c.osc[v], n + 1)]
           d == Advanced(c, osc, time)
           tosc == [v \in DOMAIN d.osc |-> ClockOsc(v, d.osc[v])]
<1>1. n \in Nat /\ (time + 1) - c.last_time = n + 1
  BY DEF Sound, Whole
<1>2. d = RunOscs(c, time)
  BY DEF RunOscs, Advanced
<1>3. RunOscs(c, time + 1) = Advanced(c, nosc, time + 1)
  <2> HIDE DEF n
  <2> QED
    BY <1>1 DEF RunOscs, Advanced
<1> HIDE DEF n
<1>4. ASSUME NEW v \in DOMAIN c.osc PROVE ClockOsc(v, run(v, c.osc[v], n)) = run(v, c.osc[v], n + 1)
  BY <1>1, RunNext DEF Sound, Whole, Formed, Alive
<1>5. c = [f \in Parts |-> c[f]]
  BY DEF Sound, Formed
<1>6. d.osc = osc /\ d.last_time = time
  <2> HIDE DEF osc
  <2> QED
    BY <1>5, AdvancedIs
<1>7. tosc = nosc
  <2> HIDE DEF d
  <2> QED
    BY <1>4, <1>6
<1>8. Ticked(d) = Advanced(d, tosc, d.last_time + 1)
  BY DEF Ticked
<1> HIDE DEF tosc, nosc, osc
<1>9. \A os, tim : Advanced(d, os, tim) = Advanced(c, os, tim)
  BY <1>5, AdvancedAgain
<1> QED
  BY <1>2, <1>3, <1>6, <1>7, <1>8, <1>9

\* A step of the sequencer, and what it does to lengths.
LEMMA SequencedSound ==
  ASSUME NEW c, Sound(c)
  PROVE  LET d == Sequenced(c)
         IN  /\ Sound(d) /\ DOMAIN d.osc = DOMAIN c.osc /\ d.power = c.power
             /\ d.last_time = c.last_time /\ d.frame_time = c.frame_time + FramePeriod
             /\ d.frame_phase = (c.frame_phase + 1) % 8
             /\ \A v \in DOMAIN c.osc :
                  LET q == d.osc[v]
                      o == c.osc[v]
                  IN  /\ q.length_on = o.length_on /\ (q.enabled => o.enabled)
                      /\ q.enabled /\ o.length_on =>
                           q.length_ctr = o.length_ctr -
                             (IF c.frame_phase % 2 = 0 THEN 1 ELSE 0)
<1> DEFINE osc == [v \in DOMAIN c.osc |-> Clocked(c.frame_phase, v, c.osc[v])]
           next == c.frame_time + FramePeriod
           phase == (c.frame_phase + 1) % 8
           d == [c EXCEPT !.frame_time = next, !.frame_phase = phase, !.osc = osc]
<1>1. d = Sequenced(c)
  BY DEF Sequenced
<1>2. ASSUME NEW v \in DOMAIN c.osc
      PROVE  LET q == osc[v]
                 o == c.osc[v]
             IN  /\ Regular(v, q)
                 /\ q.length_on = o.length_on /\ (q.enabled => o.enabled)
                 /\ q.enabled /\ o.length_on =>
                      q.length_ctr = o.length_ctr - (IF c.frame_phase % 2 = 0 THEN 1 ELSE 0)
  <2> DEFINE o == c.osc[v]
             q == Clocked(c.frame_phase, v, o)
  <2>1. osc[v] = q
    OBVIOUS
  <2>2. /\ Alive(c.power, v, o) /\ Regular(v, o) /\ Record(o) /\ c.power \in BOOLEAN
        /\ c.frame_phase \in 0 .. 7
    BY DEF Sound, Whole, Formed, Regular
  <2> HIDE DEF o, osc
  <2>3. /\ Kept(q, o) /\ q.length_ctr <= o.length_ctr
        /\ q.enabled /\ o.length_on =>
             q.length_ctr = o.length_ctr - (IF c.frame_phase % 2 = 0 THEN 1 ELSE 0)
    BY <2>2, ClockedKept
  <2>4. Alive(c.power, v, q)
    BY <2>2, ClockedAlive
  <2> HIDE DEF q
  <2>5. o.length_ctr \in Nat /\ q.length_ctr \in Int
    BY <2>2, <2>4 DEF Alive, Ready
  <2>6. Regular(v, q)
    BY <2>2, <2>3, <2>5, KeptRegular
  <2>7. q.length_on = o.length_on /\ (q.enabled => o.enabled)
    BY <2>3 DEF Kept
  <2> QED
    BY <2>1, <2>3, <2>6, <2>7 DEF o
<1>3. DOMAIN osc = DOMAIN c.osc /\ osc = [v \in DOMAIN osc |-> osc[v]]
  OBVIOUS
<1>4. phase \in 0 .. 7
  BY DEF Sound, Formed
<1>5. c = [f \in Parts |-> c[f]]
  BY DEF Sound, Formed
<1> HIDE DEF osc, next, phase
<1>6. /\ d = [f \in Parts |-> d[f]] /\ d.last_time = c.last_time /\ d.frame_time = next
      /\ d.frame_phase = phase /\ d.power = c.power /\ d.osc = osc
  BY <1>5 DEF Parts
<1>7. Whole(d)
  <2>1. Whole(c)
    BY DEF Sound
  <2> QED
    BY <1>1, <2>1, SequencedWhole
<1> HIDE DEF d
<1>8. Formed(d)
  BY <1>2, <1>3, <1>4, <1>6 DEF Formed
<1> QED
  BY <1>1, <1>2, <1>3, <1>6, <1>7, <1>8 DEF Sound, next, phase

\* The chip after n steps of the sequencer.
StepsFrom(c, n) == (CHOOSE g : IsRun(c, n, g))[n]

LEMMA RunAgrees ==
  ASSUME NEW c, NEW m \in Nat, NEW n \in Nat, NEW g, NEW h, IsRun(c, m, g), IsRun(c, n, h)
  PROVE  \A k \in Nat : k <= m /\ k <= n => g[k] = h[k]
<1> DEFINE S == {k \in Nat : k <= m /\ k <= n => g[k] = h[k]}
<1>1. 0 \in S
  BY DEF IsRun
<1>2. ASSUME NEW k \in Nat, k \in S PROVE k + 1 \in S
  <2>1. SUFFICES ASSUME k + 1 <= m, k + 1 <= n PROVE g[k + 1] = h[k + 1]
    OBVIOUS
  <2>2. g[k] = h[k]
    BY <1>2, <2>1
  <2>3. /\ k + 1 \in 0 .. m /\ k + 1 \in 0 .. n /\ k + 1 # 0 /\ (k + 1) - 1 = k
    BY <2>1
  <2>4. g[k + 1] = StepOf(g[k]) /\ h[k + 1] = StepOf(h[k])
    BY <2>3 DEF IsRun
  <2> QED
    BY <2>2, <2>4
<1> HIDE DEF S
<1>3. Nat \subseteq S
  BY <1>1, <1>2, SetInduction
<1> QED
  BY <1>3 DEF S

LEMMA StepsAre ==
  ASSUME NEW c, NEW n \in Nat
  PROVE  /\ \A g : IsRun(c, n, g) => g[n] = StepsFrom(c, n)
         /\ StepsFrom(c, 0) = c /\ StepsFrom(c, n + 1) = StepOf(StepsFrom(c, n))
<1>1. ASSUME NEW m \in Nat PROVE \E g : IsRun(c, m, g) /\ g[m] = StepsFrom(c, m)
  <2> DEFINE g == CHOOSE g : IsRun(c, m, g)
  <2>1. IsRun(c, m, g)
    BY RunExists
  <2> QED
    BY <2>1 DEF StepsFrom
<1>2. ASSUME NEW g, IsRun(c, n, g) PROVE g[n] = StepsFrom(c, n)
  <2>1. PICK h : IsRun(c, n, h) /\ h[n] = StepsFrom(c, n)
    BY <1>1
  <2>2. g[n] = h[n]
    BY <1>2, <2>1, RunAgrees
  <2> QED
    BY <2>1, <2>2
<1>3. StepsFrom(c, 0) = c
  <2>1. PICK h : IsRun(c, 0, h) /\ h[0] = StepsFrom(c, 0)
    BY <1>1
  <2> QED
    BY <2>1 DEF IsRun
<1>4. StepsFrom(c, n + 1) = StepOf(StepsFrom(c, n))
  <2>1. n + 1 \in Nat
    OBVIOUS
  <2>2. PICK h : IsRun(c, n + 1, h) /\ h[n + 1] = StepsFrom(c, n + 1)
    BY <1>1, <2>1
  <2>3. PICK g : IsRun(c, n, g) /\ g[n] = StepsFrom(c, n)
    BY <1>1
  <2>4. g[n] = h[n]
    <3>1. n <= n /\ n <= n + 1
      OBVIOUS
    <3> QED
      BY <2>1, <2>2, <2>3, <3>1, RunAgrees
  <2>5. n + 1 \in 0 .. n + 1 /\ n + 1 # 0 /\ (n + 1) - 1 = n
    OBVIOUS
  <2>6. h[n + 1] = StepOf(h[n])
    BY <2>2, <2>5 DEF IsRun
  <2> QED
    BY <2>2, <2>3, <2>4, <2>6
<1> QED
  BY <1>2, <1>3, <1>4

\* What length is left, and what steps it takes: each step in an even phase is one of it.
Lasting(v, o, phase, n) ==
  o.enabled /\ o.length_on => 2 * o.length_ctr + n + (phase % 2) <= 2 * MaxLength(v) + 1

LEMMA LastingNext ==
  ASSUME NEW v, NEW o, NEW q, NEW phase \in 0 .. 7, NEW n \in Nat, Lasting(v, o, phase, n),
         o.length_ctr \in Nat,
         q.length_on = o.length_on, q.enabled => o.enabled,
         q.enabled /\ o.length_on => q.length_ctr = o.length_ctr - (IF phase % 2 = 0 THEN 1 ELSE 0)
  PROVE  Lasting(v, q, (phase + 1) % 8, n + 1)
<1> SUFFICES ASSUME q.enabled, q.length_on
             PROVE  2 * q.length_ctr + (n + 1) + (((phase + 1) % 8) % 2) <= 2 * MaxLength(v) + 1
  BY DEF Lasting
<1>1. /\ 2 * o.length_ctr + n + (phase % 2) <= 2 * MaxLength(v) + 1
      /\ q.length_ctr = o.length_ctr - (IF phase % 2 = 0 THEN 1 ELSE 0)
  BY DEF Lasting
<1>2. ((phase + 1) % 8) % 2 = 1 - (phase % 2) /\ phase % 2 \in 0 .. 1
  OBVIOUS
<1> DEFINE a == phase % 2
           b == ((phase + 1) % 8) % 2
           l == MaxLength(v)
           x == o.length_ctr
           y == q.length_ctr
<1>3. /\ 2 * x + n + a <= 2 * l + 1 /\ y = x - (IF a = 0 THEN 1 ELSE 0)
      /\ b = 1 - a /\ a \in 0 .. 1 /\ x \in Nat /\ l \in Nat
  BY <1>1, <1>2, OscSizes
<1> HIDE DEF a, b, l, x, y
<1>4. 2 * y + (n + 1) + b <= 2 * l + 1
  BY <1>3
<1> QED
  BY <1>4 DEF a, b, l, x, y

LEMMA StepSound ==
  ASSUME NEW c, Sound(c), c.last_time <= c.frame_time, NEW n \in Nat,
         \A v \in DOMAIN c.osc : Lasting(v, c.osc[v], c.frame_phase, n)
  PROVE  LET d == StepOf(c)
         IN  /\ Sound(d) /\ DOMAIN d.osc = DOMAIN c.osc /\ d.power = c.power
             /\ d.frame_time = c.frame_time + FramePeriod /\ d.last_time = c.frame_time
             /\ \A v \in DOMAIN c.osc : /\ d.osc[v].length_on = c.osc[v].length_on
                                        /\ Lasting(v, d.osc[v], d.frame_phase, n + 1)
<1> DEFINE b == RunOscs(c, c.frame_time)
           d == Sequenced(b)
<1>1. c.frame_time \in Int /\ c.last_time <= c.frame_time /\ c.frame_phase \in 0 .. 7
  BY DEF Sound, Whole, Formed
<1>2. /\ Sound(b) /\ DOMAIN b.osc = DOMAIN c.osc /\ b.power = c.power
      /\ b.last_time = c.frame_time /\ b.frame_time = c.frame_time
      /\ b.frame_phase = c.frame_phase
      /\ \A v \in DOMAIN c.osc : \A f \in Fields \ {"phase", "divider", "delay"} :
           b.osc[v][f] = c.osc[v][f]
  BY <1>1, RunOscsSound
<1> HIDE DEF b
<1>3. /\ Sound(d) /\ DOMAIN d.osc = DOMAIN b.osc /\ d.power = b.power
      /\ d.last_time = b.last_time /\ d.frame_time = b.frame_time + FramePeriod
      /\ d.frame_phase = (b.frame_phase + 1) % 8
      /\ \A v \in DOMAIN b.osc :
           /\ d.osc[v].length_on = b.osc[v].length_on /\ (d.osc[v].enabled => b.osc[v].enabled)
           /\ d.osc[v].enabled /\ b.osc[v].length_on =>
                d.osc[v].length_ctr = b.osc[v].length_ctr -
                  (IF b.frame_phase % 2 = 0 THEN 1 ELSE 0)
  BY <1>2, SequencedSound
<1> HIDE DEF d
<1>4. ASSUME NEW v \in DOMAIN c.osc
      PROVE  /\ d.osc[v].length_on = c.osc[v].length_on
             /\ Lasting(v, d.osc[v], d.frame_phase, n + 1)
  <2> DEFINE o == c.osc[v]
             p == b.osc[v]
             q == d.osc[v]
  <2>1. {"length_on", "enabled", "length_ctr"} \subseteq Fields \ {"phase", "divider", "delay"}
    BY DEF Fields
  <2>2. p.length_on = o.length_on /\ p.enabled = o.enabled /\ p.length_ctr = o.length_ctr
    BY <1>2, <2>1
  <2>3. Lasting(v, o, c.frame_phase, n)
    OBVIOUS
  <2>4. Alive(c.power, v, o)
    BY DEF Sound, Whole
  <2>5. /\ q.length_on = p.length_on /\ (q.enabled => p.enabled)
        /\ q.enabled /\ p.length_on =>
             q.length_ctr = p.length_ctr - (IF c.frame_phase % 2 = 0 THEN 1 ELSE 0)
    BY <1>2, <1>3
  <2> HIDE DEF o, p, q
  <2>6. Lasting(v, p, c.frame_phase, n)
    BY <2>2, <2>3 DEF Lasting
  <2>7. p.length_ctr \in Nat
    BY <2>2, <2>4 DEF Alive, Ready
  <2>8. Lasting(v, q, (c.frame_phase + 1) % 8, n + 1)
    BY <1>1, <2>5, <2>6, <2>7, LastingNext
  <2>9. q.length_on = o.length_on
    BY <2>2, <2>5
  <2> QED
    BY <1>2, <1>3, <2>8, <2>9 DEF o, q
<1> QED
  BY <1>2, <1>3, <1>4 DEF StepOf, d, b

LEMMA StepsSound ==
  ASSUME NEW c, Sound(c), c.last_time <= c.frame_time, NEW n \in Nat
  PROVE  LET d == StepsFrom(c, n)
         IN  /\ Sound(d) /\ DOMAIN d.osc = DOMAIN c.osc /\ d.power = c.power
             /\ d.frame_time = c.frame_time + n * FramePeriod /\ d.last_time <= d.frame_time
             /\ (n # 0 => d.last_time = d.frame_time - FramePeriod) /\ (n = 0 => d = c)
             /\ \A v \in DOMAIN c.osc : /\ d.osc[v].length_on = c.osc[v].length_on
                                        /\ Lasting(v, d.osc[v], d.frame_phase, n)
<1> DEFINE Good(k) ==
             LET d == StepsFrom(c, k)
             IN  /\ Sound(d) /\ DOMAIN d.osc = DOMAIN c.osc /\ d.power = c.power
                 /\ d.frame_time = c.frame_time + k * FramePeriod /\ d.last_time <= d.frame_time
                 /\ (k # 0 => d.last_time = d.frame_time - FramePeriod) /\ (k = 0 => d = c)
                 /\ \A v \in DOMAIN c.osc : /\ d.osc[v].length_on = c.osc[v].length_on
                                            /\ Lasting(v, d.osc[v], d.frame_phase, k)
           S == {k \in Nat : Good(k)}
<1>1. c.frame_time \in Int /\ FramePeriod \in Nat \ {0}
  BY ChipSizes DEF Sound, Whole
<1>2. 0 \in S
  <2>1. StepsFrom(c, 0) = c
    BY StepsAre
  <2>2. c.frame_time = c.frame_time + 0 * FramePeriod
    BY <1>1
  <2>3. ASSUME NEW v \in DOMAIN c.osc PROVE Lasting(v, c.osc[v], c.frame_phase, 0)
    <3> DEFINE x == c.osc[v].length_ctr
               p == c.frame_phase
               l == MaxLength(v)
    <3>1. x \in Nat /\ x <= l /\ p \in 0 .. 7 /\ l \in Nat
      BY OscSizes DEF Sound, Whole, Formed, Regular, Alive, Ready
    <3> HIDE DEF x, p, l
    <3>2. 2 * x + 0 + (p % 2) <= 2 * l + 1
      BY <3>1
    <3> QED
      BY <3>2 DEF Lasting, x, p, l
  <2>4. Good(0)
    BY <2>1, <2>2, <2>3
  <2> QED
    BY <2>4
<1>3. ASSUME NEW k \in Nat, k \in S PROVE k + 1 \in S
  <2> DEFINE d == StepsFrom(c, k)
             e == StepsFrom(c, k + 1)
  <2>1. Good(k)
    BY <1>3
  <2>2. e = StepOf(d)
    BY StepsAre
  <2> HIDE DEF e
  <2>3. /\ Sound(d) /\ d.last_time <= d.frame_time /\ DOMAIN d.osc = DOMAIN c.osc
        /\ d.power = c.power /\ d.frame_time = c.frame_time + k * FramePeriod
        /\ \A v \in DOMAIN c.osc : /\ d.osc[v].length_on = c.osc[v].length_on
                                   /\ Lasting(v, d.osc[v], d.frame_phase, k)
    BY <2>1
  <2> HIDE DEF d, Good
  <2>4. /\ Sound(e) /\ DOMAIN e.osc = DOMAIN d.osc /\ e.power = d.power
        /\ e.frame_time = d.frame_time + FramePeriod /\ e.last_time = d.frame_time
        /\ \A v \in DOMAIN d.osc : /\ e.osc[v].length_on = d.osc[v].length_on
                                   /\ Lasting(v, e.osc[v], e.frame_phase, k + 1)
    BY <2>2, <2>3, StepSound
  <2>5. (k + 1) * FramePeriod = k * FramePeriod + FramePeriod /\ k * FramePeriod \in Int
    BY <1>1
  <2>6. /\ e.frame_time = c.frame_time + (k + 1) * FramePeriod /\ e.last_time <= e.frame_time
        /\ e.last_time = e.frame_time - FramePeriod
    BY <1>1, <2>3, <2>4, <2>5
  <2>7. k + 1 # 0 /\ k + 1 \in Nat
    OBVIOUS
  <2>8. Good(k + 1)
    BY <2>3, <2>4, <2>6, <2>7 DEF Good, e
  <2> QED
    BY <2>7, <2>8
<1> HIDE DEF S
<1>4. Nat \subseteq S
  BY <1>2, <1>3, SetInduction
<1>5. n \in S
  BY <1>4
<1> QED
  BY <1>5 DEF S

\* How far a chip that catches up to a time steps.
Reaches(c, n, time) == n \in Nat /\ c.frame_time + n * FramePeriod \in time .. time + FramePeriod - 1

LEMMA ReachesOnce ==
  ASSUME NEW c, c.frame_time \in Int, NEW time \in Int, NEW m, NEW n,
         Reaches(c, m, time), Reaches(c, n, time)
  PROVE  m = n
<1>1. FramePeriod \in Nat \ {0} /\ m \in Nat /\ n \in Nat
  BY ChipSizes DEF Reaches
<1>2. m * FramePeriod \in Int /\ n * FramePeriod \in Int
  BY <1>1, Multiples
<1>3. /\ m < n => m * FramePeriod + FramePeriod <= n * FramePeriod
      /\ n < m => n * FramePeriod + FramePeriod <= m * FramePeriod
  BY <1>1, Multiples
<1> DEFINE a == m * FramePeriod
           b == n * FramePeriod
           f == c.frame_time
<1>4. /\ a \in Int /\ b \in Int /\ f \in Int /\ (m < n => a + FramePeriod <= b)
      /\ (n < m => b + FramePeriod <= a)
      /\ f + a \in time .. time + FramePeriod - 1 /\ f + b \in time .. time + FramePeriod - 1
  BY <1>2, <1>3 DEF Reaches
<1> HIDE DEF a, b, f
<1>5. ~(m < n) /\ ~(n < m)
  BY <1>1, <1>4
<1> QED
  BY <1>1, <1>5

LEMMA RunUntilIs ==
  ASSUME NEW c, Sound(c), NEW time \in Int, c.last_time <= time,
         c.frame_time \in c.last_time .. c.last_time + FramePeriod - 1
  PROVE  \E n : Reaches(c, n, time) /\ run_until(c, time) = RunOscs(StepsFrom(c, n), time)
<1> DEFINE n == IF time <= c.frame_time THEN 0
                ELSE (time - c.frame_time + FramePeriod - 1) \div FramePeriod
           a == CHOOSE g : g = [k \in 0 .. n |-> IF k = 0 THEN c ELSE
                                  Sequenced(RunOscs(g[k - 1], g[k - 1].frame_time))]
           b == CHOOSE g : IsRun(c, n, g)
<1>1. /\ c.frame_time \in Int /\ c.last_time \in Int /\ FramePeriod \in Nat \ {0}
      /\ time >= c.last_time
  BY ChipSizes DEF Sound, Whole
<1>2. Reaches(c, n, time)
  <2>1. CASE time <= c.frame_time
    <3>1. n = 0
      BY <2>1
    <3>2. 0 * FramePeriod = 0
      BY <1>1
    <3> HIDE DEF n
    <3> QED
      BY <1>1, <2>1, <3>1, <3>2 DEF Reaches
  <2>2. CASE ~(time <= c.frame_time)
    <3>1. time > c.frame_time
      BY <1>1, <2>2
    <3>2. n = (time - c.frame_time + FramePeriod - 1) \div FramePeriod
      BY <2>2
    <3> HIDE DEF n
    <3>3. n \in Nat /\ c.frame_time + n * FramePeriod \in time .. time + FramePeriod - 1
      BY <1>1, <3>1, <3>2, StepsTo
    <3> QED
      BY <3>3 DEF Reaches
  <2> QED
    BY <2>1, <2>2
<1>3. run_until(c, time) = RunOscs(a[n], time)
  BY DEF run_until
<1>4. a = b
  BY DEF IsRun, StepOf
<1>5. b[n] = StepsFrom(c, n)
  BY DEF StepsFrom
<1> HIDE DEF n, a, b
<1> QED
  BY <1>2, <1>3, <1>4, <1>5

LEMMA RunUntilSound ==
  ASSUME NEW c, Sound(c), NEW time \in Int, c.last_time <= time,
         c.frame_time \in c.last_time .. c.last_time + FramePeriod - 1
  PROVE  LET d == run_until(c, time)
         IN  /\ Sound(d) /\ DOMAIN d.osc = DOMAIN c.osc /\ d.power = c.power
             /\ d.last_time = time /\ d.frame_time \in time .. time + FramePeriod - 1
<1>1. PICK n : Reaches(c, n, time) /\ run_until(c, time) = RunOscs(StepsFrom(c, n), time)
  BY RunUntilIs
<1> DEFINE b == StepsFrom(c, n)
           d == RunOscs(b, time)
<1>2. /\ n \in Nat /\ c.frame_time + n * FramePeriod \in time .. time + FramePeriod - 1
      /\ c.frame_time \in Int /\ c.last_time \in Int /\ FramePeriod \in Nat \ {0}
      /\ c.last_time <= c.frame_time
  BY <1>1, ChipSizes DEF Reaches, Sound, Whole
<1>3. /\ Sound(b) /\ DOMAIN b.osc = DOMAIN c.osc /\ b.power = c.power
      /\ b.frame_time = c.frame_time + n * FramePeriod
      /\ (n # 0 => b.last_time = b.frame_time - FramePeriod) /\ (n = 0 => b = c)
  BY <1>2, StepsSound
<1> HIDE DEF b
<1>4. b.frame_time \in time .. time + FramePeriod - 1
  BY <1>2, <1>3
<1>5. b.last_time <= time
  <2>1. CASE n = 0
    BY <1>3, <2>1
  <2>2. CASE n # 0
    BY <1>2, <1>3, <1>4, <2>2
  <2> QED
    BY <2>1, <2>2
<1>6. /\ Sound(d) /\ DOMAIN d.osc = DOMAIN b.osc /\ d.power = b.power
      /\ d.last_time = time /\ d.frame_time = b.frame_time
  BY <1>3, <1>5, RunOscsSound
<1> HIDE DEF d
<1> QED
  BY <1>1, <1>3, <1>4, <1>6 DEF d, b

-----------------------------------------------------------------------------
(* Clocking the chip                                                       *)

\* The sequencer steps between two clocks, where the chip's time is its own.
LEMMA ClockTicks ==
  ASSUME NEW c, Sound(c)
  PROVE  Clock(c) = IF c.last_time = c.frame_time THEN Ticked(Sequenced(c)) ELSE Ticked(c)
BY DEF Clock, Ticked, Advanced

\* Catching up to a clock later is catching up, then clocking.
LEMMA RunUntilNext ==
  ASSUME NEW c, Sound(c), NEW time \in Int, c.last_time <= time,
         c.frame_time \in c.last_time .. c.last_time + FramePeriod - 1
  PROVE  run_until(c, time + 1) = Clock(run_until(c, time))
<1>1. PICK n : Reaches(c, n, time) /\ run_until(c, time) = RunOscs(StepsFrom(c, n), time)
  BY RunUntilIs
<1>2. /\ c.frame_time \in Int /\ c.last_time \in Int /\ FramePeriod \in Nat \ {0} /\ n \in Nat
      /\ c.last_time <= time + 1 /\ time + 1 \in Int /\ c.last_time <= c.frame_time
      /\ c.frame_time + n * FramePeriod \in time .. time + FramePeriod - 1
  BY <1>1, ChipSizes DEF Reaches, Sound, Whole
<1>3. PICK m : Reaches(c, m, time + 1) /\ run_until(c, time + 1) = RunOscs(StepsFrom(c, m), time + 1)
  BY <1>2, RunUntilIs
<1> DEFINE b == StepsFrom(c, n)
           d == RunOscs(b, time)
<1>4. /\ Sound(b) /\ b.frame_time = c.frame_time + n * FramePeriod
      /\ (n # 0 => b.last_time = b.frame_time - FramePeriod) /\ (n = 0 => b = c)
      /\ b.last_time <= b.frame_time
  BY <1>2, StepsSound
<1>5. StepsFrom(c, n + 1) = StepOf(b)
  BY <1>2, StepsAre
<1> HIDE DEF b
<1>6. b.last_time <= time
  <2>1. CASE n = 0
    BY <1>4, <2>1
  <2>2. CASE n # 0
    BY <1>2, <1>4, <2>2
  <2> QED
    BY <2>1, <2>2
<1>7. Sound(d) /\ d.last_time = time /\ d.frame_time = b.frame_time
  BY <1>4, <1>6, RunOscsSound
<1>8. CASE b.frame_time # time
  <2>1. Reaches(c, n, time + 1)
    <3> DEFINE x == n * FramePeriod
    <3>1. x \in Int
      BY <1>2
    <3>2. c.frame_time + x \in time .. time + FramePeriod - 1 /\ c.frame_time + x # time
      BY <1>2, <1>4, <1>8
    <3> HIDE DEF x
    <3>3. c.frame_time + x \in time + 1 .. (time + 1) + FramePeriod - 1
      BY <1>2, <3>1, <3>2
    <3> QED
      BY <1>2, <3>3 DEF Reaches, x
  <2>2. m = n
    BY <1>2, <1>3, <2>1, ReachesOnce
  <2>3. Ticked(d) = RunOscs(b, time + 1)
    BY <1>4, <1>6, RunOscsNext
  <2>4. Clock(d) = Ticked(d)
    <3> HIDE DEF d
    <3> QED
      BY <1>7, <1>8, ClockTicks
  <2> QED
    BY <1>1, <1>3, <2>2, <2>3, <2>4 DEF b
<1>9. CASE b.frame_time = time
  <2>1. Reaches(c, n + 1, time + 1)
    <3>1. (n + 1) * FramePeriod = n * FramePeriod + FramePeriod /\ n * FramePeriod \in Int
      BY <1>2
    <3> DEFINE x == n * FramePeriod
               y == (n + 1) * FramePeriod
    <3>2. x \in Int /\ y = x + FramePeriod /\ c.frame_time + x = time
      BY <1>4, <1>9, <3>1
    <3> HIDE DEF x, y
    <3>3. c.frame_time + y \in time + 1 .. (time + 1) + FramePeriod - 1
      BY <1>2, <3>2
    <3> QED
      BY <1>2, <3>3 DEF Reaches, y
  <2>2. m = n + 1
    BY <1>2, <1>3, <2>1, ReachesOnce
  <2> DEFINE e == Sequenced(d)
  <2>3. StepOf(b) = e
    BY <1>9 DEF StepOf
  <2>4. Clock(d) = Ticked(e)
    <3> HIDE DEF d
    <3> QED
      BY <1>7, <1>9, ClockTicks
  <2>5. Sound(e) /\ e.last_time = time
    <3> HIDE DEF d
    <3> QED
      BY <1>7, SequencedSound
  <2> HIDE DEF e
  <2>6. RunOscs(e, time) = e
    BY <2>5, RunOscsNot
  <2>7. Ticked(RunOscs(e, time)) = RunOscs(e, time + 1)
    <3>1. e.last_time <= time
      BY <2>5
    <3> QED
      BY <2>5, <3>1, RunOscsNext
  <2> QED
    BY <1>1, <1>3, <1>5, <2>2, <2>3, <2>4, <2>6, <2>7 DEF b
<1> QED
  BY <1>8, <1>9

LEMMA RunUntilNot ==
  ASSUME NEW c, Sound(c), c.frame_time \in c.last_time .. c.last_time + FramePeriod - 1
  PROVE  run_until(c, c.last_time) = c
<1>1. c.last_time \in Int /\ c.frame_time \in Int /\ FramePeriod \in Nat \ {0}
  BY ChipSizes DEF Sound, Whole
<1>2. PICK n : Reaches(c, n, c.last_time) /\
               run_until(c, c.last_time) = RunOscs(StepsFrom(c, n), c.last_time)
  BY <1>1, RunUntilIs
<1>3. Reaches(c, 0, c.last_time)
  BY <1>1 DEF Reaches
<1>4. n = 0
  BY <1>1, <1>2, <1>3, ReachesOnce
<1>5. StepsFrom(c, 0) = c
  BY StepsAre
<1> QED
  BY <1>2, <1>4, <1>5, RunOscsNot

IsClocking(c, n, g) == g = [k \in 0 .. n |-> IF k = 0 THEN c ELSE Clock(g[k - 1])]

LEMMA ClockedToIs ==
  ASSUME NEW c, Sound(c), NEW time \in Int, c.last_time <= time,
         c.frame_time \in c.last_time .. c.last_time + FramePeriod - 1
  PROVE  ClockedTo(c, time) = run_until(c, time)
<1> DEFINE n == time - c.last_time
           Run(k) == run_until(c, c.last_time + k)
           h == [k \in 0 .. n |-> Run(k)]
           b == CHOOSE g : IsClocking(c, n, g)
<1>1. c.last_time \in Int /\ n \in Nat /\ c.last_time + n = time
  BY DEF Sound, Whole
<1>2. ClockedTo(c, time) = b[n]
  BY DEF ClockedTo, IsClocking
<1>3. Run(0) = c
  <2>1. c.last_time + 0 = c.last_time
    BY <1>1
  <2> QED
    BY <2>1, RunUntilNot
<1>4. ASSUME NEW k \in Nat PROVE Run(k + 1) = Clock(Run(k))
  <2> DEFINE t == c.last_time + k
  <2>1. t \in Int /\ c.last_time <= t /\ c.last_time + (k + 1) = t + 1
    BY <1>1
  <2> HIDE DEF t
  <2>2. run_until(c, t + 1) = Clock(run_until(c, t))
    BY <2>1, RunUntilNext
  <2> QED
    BY <2>1, <2>2 DEF t
<1> HIDE DEF n, Run
<1>5. IsClocking(c, n, h)
  <2>1. ASSUME NEW k \in 0 .. n PROVE h[k] = IF k = 0 THEN c ELSE Clock(h[k - 1])
    <3>1. h[k] = Run(k)
      OBVIOUS
    <3>2. CASE k = 0
      BY <1>3, <3>1, <3>2
    <3>3. CASE k # 0
      <4>1. k - 1 \in Nat /\ k - 1 \in 0 .. n /\ (k - 1) + 1 = k
        BY <1>1, <3>3
      <4>2. Run((k - 1) + 1) = Clock(Run(k - 1))
        BY <1>4, <4>1
      <4>3. h[k - 1] = Run(k - 1)
        BY <4>1
      <4> QED
        BY <3>1, <3>3, <4>1, <4>2, <4>3
    <3> QED
      BY <3>2, <3>3
  <2>2. h = [k \in 0 .. n |-> h[k]]
    OBVIOUS
  <2> HIDE DEF h
  <2>3. h = [k \in 0 .. n |-> IF k = 0 THEN c ELSE Clock(h[k - 1])]
    BY <2>1, <2>2
  <2> QED
    BY <2>3 DEF IsClocking
<1>6. IsClocking(c, n, b)
  <2> HIDE DEF h
  <2> QED
    BY <1>5
<1> HIDE DEF b, h
<1> DEFINE S == {k \in Nat : k <= n => b[k] = Run(k)}
<1>7. 0 \in S
  BY <1>1, <1>3, <1>6 DEF IsClocking
<1>8. ASSUME NEW k \in Nat, k \in S PROVE k + 1 \in S
  <2>1. SUFFICES ASSUME k + 1 <= n PROVE b[k + 1] = Run(k + 1)
    OBVIOUS
  <2>2. k + 1 \in 0 .. n /\ k + 1 # 0 /\ (k + 1) - 1 = k /\ k <= n
    BY <1>1, <2>1
  <2>3. b[k + 1] = Clock(b[k])
    BY <1>6, <2>2 DEF IsClocking
  <2>4. b[k] = Run(k)
    BY <1>8, <2>2
  <2> QED
    BY <1>4, <2>3, <2>4
<1> HIDE DEF S
<1>9. Nat \subseteq S
  BY <1>7, <1>8, SetInduction
<1>10. b[n] = Run(n)
  BY <1>1, <1>9 DEF S
<1> QED
  BY <1>1, <1>2, <1>10 DEF Run

LEMMA SilentInTheEnd ==
  ASSUME NEW c, Sound(c), NEW now \in Int, c.last_time <= now,
         c.frame_time \in c.last_time .. c.last_time + FramePeriod - 1,
         NEW v \in DOMAIN c.osc
  PROVE  LET o == run_until(c, now + 2 * MaxLength(v) * FramePeriod).osc[v]
         IN  o.length_on => ~o.enabled
<1> DEFINE l == MaxLength(v)
           time == now + 2 * l * FramePeriod
<1>1. /\ c.frame_time \in Int /\ c.last_time \in Int /\ FramePeriod \in Nat \ {0}
      /\ l \in Nat \ {0} /\ c.last_time <= c.frame_time
  BY ChipSizes, OscSizes DEF Sound, Whole
<1> HIDE DEF l
<1>2. 2 * l * FramePeriod = (2 * l) * FramePeriod /\ (2 * l) * FramePeriod \in Nat
  <2>1. \A i, j \in Nat : i * j \in Nat
    OBVIOUS
  <2>2. 2 * l \in Nat
    BY <1>1
  <2> QED
    BY <1>1, <2>1, <2>2
<1>3. time \in Int /\ now <= time /\ c.last_time <= time /\ time = now + (2 * l) * FramePeriod
  BY <1>1, <1>2
<1> HIDE DEF time
<1>4. PICK n : Reaches(c, n, time) /\ run_until(c, time) = RunOscs(StepsFrom(c, n), time)
  BY <1>3, RunUntilIs
<1>5. n \in Nat /\ c.frame_time + n * FramePeriod \in time .. time + FramePeriod - 1
  BY <1>4 DEF Reaches
<1> DEFINE b == StepsFrom(c, n)
           d == RunOscs(b, time)
<1>6. /\ Sound(b) /\ DOMAIN b.osc = DOMAIN c.osc
      /\ b.frame_time = c.frame_time + n * FramePeriod
      /\ (n # 0 => b.last_time = b.frame_time - FramePeriod) /\ (n = 0 => b = c)
      /\ Lasting(v, b.osc[v], b.frame_phase, n)
  BY <1>1, <1>5, StepsSound
<1> HIDE DEF b
<1>7. b.last_time <= time
  <2>1. CASE n = 0
    BY <1>3, <1>6, <2>1
  <2>2. CASE n # 0
    BY <1>1, <1>3, <1>5, <1>6, <2>2
  <2> QED
    BY <2>1, <2>2
<1>8. /\ \A f \in Fields \ {"phase", "divider", "delay"} : d.osc[v][f] = b.osc[v][f]
      /\ Sound(d) /\ DOMAIN d.osc = DOMAIN b.osc
  BY <1>3, <1>6, <1>7, RunOscsSound
\* It took the steps its longest length takes.
<1>9. n >= 2 * l
  <2> SUFFICES ASSUME n < 2 * l PROVE FALSE
    BY <1>1, <1>5
  <2>1. n * FramePeriod + FramePeriod <= (2 * l) * FramePeriod /\ n * FramePeriod \in Int
    <3>1. 2 * l \in Int
      BY <1>1
    <3> QED
      BY <1>1, <1>5, <3>1, Multiples
  <2> DEFINE x == n * FramePeriod
             y == (2 * l) * FramePeriod
  <2>2. /\ x \in Int /\ y \in Int /\ x + FramePeriod <= y /\ time = now + y
        /\ c.frame_time + x >= time
    BY <1>2, <1>3, <1>5, <2>1
  <2> HIDE DEF x, y
  <2> QED
    BY <1>1, <2>2
<1>10. /\ d.osc[v].enabled = b.osc[v].enabled /\ d.osc[v].length_on = b.osc[v].length_on
  <2>1. {"length_on", "enabled"} \subseteq Fields \ {"phase", "divider", "delay"}
    BY DEF Fields
  <2> HIDE DEF d
  <2> QED
    BY <1>8, <2>1
<1>11. ASSUME b.osc[v].enabled, b.osc[v].length_on PROVE FALSE
  <2> DEFINE x == b.osc[v].length_ctr
             p == b.frame_phase
  <2>1. x \in Nat /\ x > 0 /\ p \in 0 .. 7
    BY <1>6, <1>11 DEF Sound, Whole, Formed, Alive, Ready
  <2>2. 2 * x + n + (p % 2) <= 2 * l + 1
    BY <1>6, <1>11 DEF Lasting, l
  <2> HIDE DEF x, p
  <2> QED
    BY <1>1, <1>5, <1>9, <2>1, <2>2
<1> HIDE DEF d
<1> QED
  BY <1>4, <1>10, <1>11 DEF d, b, time, l

-----------------------------------------------------------------------------
(* The chip is always of that form                                         *)

\* With the invariant above, a chip of registers and records that running rests on.
Steady == ChipInv /\ Formed(chip)

LEMMA ChipSound ==
  ASSUME Steady
  PROVE  /\ Sound(chip) /\ cycles \in 0 .. MaxCycles - 1
         /\ chip.last_time \in 0 .. cycles
         /\ chip.frame_time \in chip.last_time .. chip.last_time + FramePeriod - 1
BY DEF Steady, ChipInv, Sound, Timed

LEMMA CaughtUpSound ==
  ASSUME Steady PROVE Sound(run_until(chip, cycles))
<1>1. /\ Sound(chip) /\ cycles \in Int /\ chip.last_time <= cycles
      /\ chip.frame_time \in chip.last_time .. chip.last_time + FramePeriod - 1
  BY ChipSound
<1> QED
  BY <1>1, RunUntilSound

\* Chips of parts that are formed.
LEMMA StartFormed ==
  ASSUME Init PROVE Formed(chip)
<1>1. PICK voices \in Played : chip = reset(voices)
  BY DEF Init
<1> DEFINE osc == [v \in voices |-> ResetOsc(v, FALSE)]
<1>2. osc = [v \in DOMAIN osc |-> osc[v]] /\ \A v \in DOMAIN osc : Regular(v, osc[v])
  BY ResetRegular
<1> HIDE DEF osc
<1>3. /\ chip = [f \in Parts |-> chip[f]] /\ chip.osc = osc /\ chip.frame_phase = 0
  BY <1>1 DEF reset, Parts, osc
<1> QED
  BY <1>2, <1>3 DEF Formed

LEMMA WrittenFormed ==
  ASSUME NEW c, Formed(c), NEW v \in DOMAIN c.osc, NEW p, Regular(v, p)
  PROVE  Formed(Written(c, v, p))
<1> DEFINE osc == [c.osc EXCEPT ![v] = p]
           d == [c EXCEPT !.osc = osc]
<1>1. d = Written(c, v, p)
  BY DEF Written
<1>2. osc = [u \in DOMAIN osc |-> osc[u]] /\ \A u \in DOMAIN osc : Regular(u, osc[u])
  BY DEF Formed
<1> HIDE DEF osc
<1>3. c = [f \in Parts |-> c[f]] /\ c.frame_phase \in 0 .. 7
  BY DEF Formed
<1>4. d = [f \in Parts |-> d[f]] /\ d.osc = osc /\ d.frame_phase = c.frame_phase
  BY <1>3 DEF Parts
<1> HIDE DEF d
<1> QED
  BY <1>1, <1>2, <1>3, <1>4 DEF Formed

LEMMA WriteKeepsFormed ==
  ASSUME Steady, NEW v \in DOMAIN chip.osc, chip.power,
         WriteReg0(v) \/ WriteReg1(v) \/ WriteReg2(v) \/ WriteReg3(v) \/ WriteReg4(v)
  PROVE  Formed(chip')
<1> DEFINE c == run_until(chip, cycles)
           o == c.osc[v]
<1>1. Sound(c) /\ DOMAIN c.osc = DOMAIN chip.osc
  BY CaughtUpSound, CaughtUp DEF Steady
<1> HIDE DEF c
<1>2. /\ v \in Enveloped \cup {"wave"} /\ v \in DOMAIN c.osc /\ Ready(o) /\ Regular(v, o)
      /\ Formed(c)
  BY <1>1 DEF Sound, Whole, Formed, Alive
<1> HIDE DEF o
<1>3. SUFFICES \E p : Regular(v, p) /\ chip' = Written(c, v, p)
  BY <1>2, WrittenFormed
<1>4. CASE WriteReg0(v)
  <2>1. PICK w \in Sweeps[v] : chip' = Written(c, v, WriteSweep(v, o, w))
    BY <1>4 DEF WriteReg0, WriteOsc, Written, c, o
  <2>2. Regular(v, WriteSweep(v, o, w))
    BY <1>2, WriteSweepRegular
  <2> QED
    BY <2>1, <2>2
<1>5. CASE WriteReg1(v)
  <2>1. PICK w \in Lengths[v] :
          chip' = Written(c, v, [o EXCEPT !.length_ctr = MaxLength(v) - w])
    BY <1>5 DEF WriteReg1, WriteOsc, Written, c, o
  <2>2. Regular(v, [o EXCEPT !.length_ctr = MaxLength(v) - w])
    BY <1>2, WriteLengthRegular
  <2> QED
    BY <2>1, <2>2
<1>6. CASE WriteReg2(v)
  <2>1. PICK w \in Envelopes[v] :
          chip' = Written(c, v, WriteEnvelope(v, o, [o EXCEPT !.env = w]))
    BY <1>6 DEF WriteReg2, WriteOsc, Written, c, o
  <2>2. Regular(v, WriteEnvelope(v, o, [o EXCEPT !.env = w]))
    BY <1>2, WriteEnvelopeRegular
  <2> QED
    BY <2>1, <2>2
<1>7. CASE WriteReg3(v)
  <2>1. PICK w \in Lows[v] : chip' = Written(c, v, WriteLow(v, o, w))
    BY <1>7 DEF WriteReg3, WriteOsc, Written, c, o
  <2>2. Regular(v, WriteLow(v, o, w))
    BY <1>2, WriteLowRegular
  <2> QED
    BY <2>1, <2>2
<1>8. CASE WriteReg4(v)
  <2>1. PICK w \in Highs[v] : chip' = Written(c, v, WriteHigh(c, v, o, w))
    BY <1>8 DEF WriteReg4, WriteOsc, Written, c, o
  <2>2. Regular(v, WriteHigh(c, v, o, w))
    BY <1>2, WriteHighRegular
  <2> QED
    BY <2>1, <2>2
<1> QED
  BY <1>4, <1>5, <1>6, <1>7, <1>8

LEMMA PowerKeepsFormed ==
  ASSUME Steady, NEW on \in BOOLEAN, WritePower(on)
  PROVE  Formed(chip')
<1> DEFINE c == run_until(chip, cycles)
           osc == [v \in DOMAIN c.osc |-> ResetOsc(v, c.osc[v].env_enabled)]
           d == [c EXCEPT !.power = on, !.frame_phase = 0, !.osc = osc]
<1>1. Formed(c)
  BY CaughtUpSound DEF Sound
<1>2. chip' \in {c, d}
  BY DEF WritePower, PowerSwitched
<1> HIDE DEF c
<1>3. osc = [v \in DOMAIN osc |-> osc[v]] /\ \A v \in DOMAIN osc : Regular(v, osc[v])
  BY ResetRegular
<1> HIDE DEF osc
<1>4. d = [f \in Parts |-> d[f]] /\ d.frame_phase = 0 /\ d.osc = osc
  <2>1. c = [f \in Parts |-> c[f]]
    BY <1>1 DEF Formed
  <2> QED
    BY <2>1 DEF Parts
<1> HIDE DEF d
<1>5. Formed(d)
  BY <1>3, <1>4 DEF Formed
<1> QED
  BY <1>1, <1>2, <1>5

LEMMA FrameEndedFormed ==
  ASSUME Steady PROVE Formed(EndFrame(chip))
<1> DEFINE end == IF MaxCycles > chip.last_time THEN MaxCycles ELSE chip.last_time
           d == run_until(chip, end)
           ft == d.frame_time - MaxCycles
           lt == d.last_time - MaxCycles
           e == [d EXCEPT !.frame_time = ft, !.last_time = lt]
<1>1. /\ Sound(chip) /\ end \in Int /\ chip.last_time <= end
      /\ chip.frame_time \in chip.last_time .. chip.last_time + FramePeriod - 1
  BY ChipSound, ChipSizes
<1>2. e = EndFrame(chip)
  BY DEF EndFrame
<1> HIDE DEF end
<1>3. Formed(d)
  BY <1>1, RunUntilSound DEF Sound
<1> HIDE DEF d, ft, lt
<1>4. d = [f \in Parts |-> d[f]] /\ d.frame_phase \in 0 .. 7
  BY <1>3 DEF Formed
<1>5. e = [f \in Parts |-> e[f]] /\ e.frame_phase = d.frame_phase /\ e.osc = d.osc
  BY <1>4 DEF Parts
<1> HIDE DEF e
<1> QED
  BY <1>2, <1>3, <1>5 DEF Formed

LEMMA SteadyHolds == ApuSpec => []Steady
<1>1. Init => Formed(chip)
  BY StartFormed
<1>2. Steady /\ [Next]_apuVars => Formed(chip)'
  <2> SUFFICES ASSUME Steady, [Next]_apuVars PROVE Formed(chip')
    OBVIOUS
  <2>1. ASSUME NEW c \in Spent, sound_add_cycles(c) PROVE Formed(chip')
    BY <2>1, FrameEndedFormed DEF sound_add_cycles, Steady
  <2>2. ASSUME Write PROVE Formed(chip')
    <3>1. PICK v \in DOMAIN chip.osc :
            WriteReg0(v) \/ WriteReg1(v) \/ WriteReg2(v) \/ WriteReg3(v) \/ WriteReg4(v)
      BY <2>2 DEF Write
    <3>2. chip.power
      BY <3>1 DEF WriteReg0, WriteReg1, WriteReg2, WriteReg3, WriteReg4, WriteOsc
    <3> QED
      BY <3>1, <3>2, WriteKeepsFormed
  <2>3. ASSUME NEW on \in BOOLEAN, WritePower(on) PROVE Formed(chip')
    BY <2>3, PowerKeepsFormed
  <2>4. ASSUME read_register PROVE Formed(chip')
    BY <2>4, CaughtUpSound DEF read_register, Sound
  <2>5. ASSUME UNCHANGED apuVars PROVE Formed(chip')
    BY <2>5 DEF Steady, apuVars
  <2> QED
    BY <2>1, <2>2, <2>3, <2>4, <2>5 DEF Next, Cycles
<1> QED
  BY <1>1, <1>2, ChipInvHolds, PTL DEF ApuSpec, Steady

\* Between two reads or writes Gb_Apu::run_until_ runs every oscillator over the whole
\* interval at once (Gb_Square::run, Gb_Wave::run, Gb_Noise::run) and stops only at the
\* sequencer's steps.  For any sizes, registers and intervals this gives the chip that
\* clocking it all along would have given, and within the steps of its longest length
\* every oscillator with its length counter on is silent.
THEOREM RunIsClocking == ApuSpec => []RunsAsClocked
<1>1. Steady => RunsAsClocked
  <2> SUFFICES ASSUME Steady PROVE RunsAsClocked
    OBVIOUS
  <2>1. /\ Sound(chip) /\ cycles \in Int /\ chip.last_time <= cycles
        /\ chip.frame_time \in chip.last_time .. chip.last_time + FramePeriod - 1
    BY ChipSound
  <2>2. CatchesUp
    BY <2>1, ClockedToIs DEF CatchesUp
  <2>3. SilentInTime
    BY <2>1, SilentInTheEnd DEF SilentInTime
  <2> QED
    BY <2>2, <2>3 DEF RunsAsClocked
<1> QED
  BY <1>1, SteadyHolds, PTL

-----------------------------------------------------------------------------
(* The shift register of the noise: sequences of bits                      *)

\* A sequence of bits is the set of the places where it is 1.  Each bit is the exclusive
\* or of those i and j places after the one p places before.
Sums(A, p, i, j) ==
  \A n \in Nat : (n + p \in A) <=> ~((n + i \in A) <=> (n + j \in A))

LEMMA Doubled ==
  ASSUME NEW A, NEW p \in Nat, NEW i \in Nat, NEW j \in Nat, Sums(A, p, i, j)
  PROVE  Sums(A, p + p, i + i, j + j)
<1> SUFFICES ASSUME NEW n \in Nat
             PROVE  (n + (p + p) \in A) <=> ~((n + (i + i) \in A) <=> (n + (j + j) \in A))
  BY DEF Sums
<1>1. /\ ((n + p) + p \in A) <=> ~(((n + p) + i \in A) <=> ((n + p) + j \in A))
      /\ ((n + i) + p \in A) <=> ~(((n + i) + i \in A) <=> ((n + i) + j \in A))
      /\ ((n + j) + p \in A) <=> ~(((n + j) + i \in A) <=> ((n + j) + j \in A))
  <2>1. n + p \in Nat /\ n + i \in Nat /\ n + j \in Nat
    OBVIOUS
  <2> QED
    BY <2>1 DEF Sums
<1>2. /\ (n + p) + p = n + (p + p) /\ (n + p) + i = (n + i) + p /\ (n + p) + j = (n + j) + p
      /\ (n + i) + i = n + (i + i) /\ (n + i) + j = (n + j) + i /\ (n + j) + j = n + (j + j)
  OBVIOUS
<1> QED
  BY <1>1, <1>2

LEMMA Shifted ==
  ASSUME NEW A, NEW p \in Nat, NEW i \in Nat, NEW j \in Nat, Sums(A, p, i, j), NEW k \in Nat
  PROVE  Sums(A, p + k, i + k, j + k)
<1> SUFFICES ASSUME NEW n \in Nat
             PROVE  (n + (p + k) \in A) <=> ~((n + (i + k) \in A) <=> (n + (j + k) \in A))
  BY DEF Sums
<1>1. ((n + k) + p \in A) <=> ~(((n + k) + i \in A) <=> ((n + k) + j \in A))
  <2>1. n + k \in Nat
    OBVIOUS
  <2> QED
    BY <2>1 DEF Sums
<1>2. (n + k) + p = n + (p + k) /\ (n + k) + i = n + (i + k) /\ (n + k) + j = n + (j + k)
  OBVIOUS
<1> QED
  BY <1>1, <1>2

\* What two sums share cancels.
LEMMA Cancelled ==
  ASSUME NEW A, NEW p, NEW i, NEW j, NEW a, NEW b, NEW c,
         Sums(A, p, i, j), Sums(A, i, a, b), Sums(A, j, b, c)
  PROVE  Sums(A, p, a, c)
BY DEF Sums

\* The recurrence of 15 bits, and what follows for the jumps and the period.
LEMMA LongSums ==
  ASSUME NEW A, Sums(A, 15, 0, 1)
  PROVE  /\ Sums(A, 255, 0, 3)
         /\ \A n \in Nat : (n + 32767 \in A) <=> (n \in A)
<1>1. Sums(A, 16, 1, 2) /\ Sums(A, 31, 16, 17) /\ Sums(A, 17, 2, 3)
  BY Shifted, 15 + 1 = 16, 0 + 1 = 1, 1 + 1 = 2, 15 + 16 = 31, 0 + 16 = 16, 1 + 16 = 17,
     15 + 2 = 17, 0 + 2 = 2, 1 + 2 = 3
<1>2. Sums(A, 30, 0, 2)
  BY Doubled, 15 + 15 = 30, 0 + 0 = 0, 1 + 1 = 2
<1>3. Sums(A, 60, 0, 4)
  BY <1>2, Doubled, 30 + 30 = 60, 0 + 0 = 0, 2 + 2 = 4
<1>4. Sums(A, 120, 0, 8)
  BY <1>3, Doubled, 60 + 60 = 120, 0 + 0 = 0, 4 + 4 = 8
<1>5. Sums(A, 240, 0, 16)
  BY <1>4, Doubled, 120 + 120 = 240, 0 + 0 = 0, 8 + 8 = 16
<1>6. Sums(A, 255, 15, 31)
  <2> DEFINE k == 15
  <2>1. k \in Nat /\ 240 \in Nat /\ 0 \in Nat /\ 16 \in Nat
    OBVIOUS
  <2>2. 240 + k = 255 /\ 0 + k = 15 /\ 16 + k = 31
    OBVIOUS
  <2> HIDE DEF k
  <2>3. Sums(A, 240 + k, 0 + k, 16 + k)
    BY <1>5, <2>1, Shifted, Zenon
  <2> QED
    BY <2>2, <2>3
<1>7. Sums(A, 31, 1, 3)
  BY <1>1, Cancelled
<1>8. Sums(A, 255, 0, 3)
  BY <1>6, <1>7, Cancelled
<1>9. Sums(A, 32, 2, 4)
  BY <1>1, Doubled, 16 + 16 = 32, 1 + 1 = 2, 2 + 2 = 4
<1>10. Sums(A, 64, 4, 8)
  BY <1>9, Doubled, 32 + 32 = 64, 2 + 2 = 4, 4 + 4 = 8
<1>11. Sums(A, 128, 8, 16)
  BY <1>10, Doubled, 64 + 64 = 128, 4 + 4 = 8, 8 + 8 = 16
<1>12. Sums(A, 256, 16, 32)
  BY <1>11, Doubled, 128 + 128 = 256, 8 + 8 = 16, 16 + 16 = 32
<1>13. Sums(A, 256, 1, 4)
  BY <1>1, <1>9, <1>12, Cancelled
<1>14. Sums(A, 512, 2, 8)
  BY <1>13, Doubled, 256 + 256 = 512, 1 + 1 = 2, 4 + 4 = 8
<1>15. Sums(A, 1024, 4, 16)
  BY <1>14, Doubled, 512 + 512 = 1024, 2 + 2 = 4, 8 + 8 = 16
<1>16. Sums(A, 2048, 8, 32)
  BY <1>15, Doubled, 1024 + 1024 = 2048, 4 + 4 = 8, 16 + 16 = 32
<1>17. Sums(A, 4096, 16, 64)
  BY <1>16, Doubled, 2048 + 2048 = 4096, 8 + 8 = 16, 32 + 32 = 64
<1>18. Sums(A, 8192, 32, 128)
  BY <1>17, Doubled, 4096 + 4096 = 8192, 16 + 16 = 32, 64 + 64 = 128
<1>19. Sums(A, 16384, 64, 256)
  BY <1>18, Doubled, 8192 + 8192 = 16384, 32 + 32 = 64, 128 + 128 = 256
<1>20. Sums(A, 32768, 128, 512)
  BY <1>19, Doubled, 16384 + 16384 = 32768, 64 + 64 = 128, 256 + 256 = 512
<1>21. \A n \in Nat : (n + 32768 \in A) <=> (n + 1 \in A)
  BY <1>1, <1>11, <1>14, <1>20 DEF Sums
<1>22. ASSUME NEW n \in Nat PROVE (n + 32767 \in A) <=> (n \in A)
  <2>1. /\ (n + 32782 \in A) <=> (n + 15 \in A)
        /\ (n + 32768 \in A) <=> (n + 1 \in A)
    <3>1. n + 14 \in Nat /\ (n + 14) + 32768 = n + 32782 /\ (n + 14) + 1 = n + 15
      OBVIOUS
    <3> QED
      BY <1>21, <3>1
  <2>2. (n + 15 \in A) <=> ~((n \in A) <=> (n + 1 \in A))
    BY n + 0 = n DEF Sums
  <2>3. (n + 32782 \in A) <=> ~((n + 32767 \in A) <=> (n + 32768 \in A))
    <3> DEFINE k == n + 32767
    <3>1. k \in Nat /\ k + 15 = n + 32782 /\ k + 0 = k /\ k + 1 = n + 32768
      OBVIOUS
    <3> HIDE DEF k
    <3>2. (k + 15 \in A) <=> ~((k + 0 \in A) <=> (k + 1 \in A))
      BY <3>1 DEF Sums
    <3> QED
      BY <3>1, <3>2 DEF k
  <2> QED
    BY <2>1, <2>2, <2>3
<1> QED
  BY <1>8, <1>22

\* The recurrence of 7 bits, and its period.
LEMMA ShortSums ==
  ASSUME NEW A, Sums(A, 7, 0, 1)
  PROVE  \A n \in Nat : (n + 127 \in A) <=> (n \in A)
<1>1. Sums(A, 8, 1, 2)
  BY Shifted, 7 + 1 = 8, 0 + 1 = 1, 1 + 1 = 2
<1>2. Sums(A, 16, 2, 4)
  BY <1>1, Doubled, 8 + 8 = 16, 1 + 1 = 2, 2 + 2 = 4
<1>3. Sums(A, 32, 4, 8)
  BY <1>2, Doubled, 16 + 16 = 32, 2 + 2 = 4, 4 + 4 = 8
<1>4. Sums(A, 64, 8, 16)
  BY <1>3, Doubled, 32 + 32 = 64, 4 + 4 = 8, 8 + 8 = 16
<1>5. Sums(A, 128, 16, 32)
  BY <1>4, Doubled, 64 + 64 = 128, 8 + 8 = 16, 16 + 16 = 32
<1>6. \A n \in Nat : (n + 128 \in A) <=> (n + 1 \in A)
  BY <1>1, <1>2, <1>3, <1>5 DEF Sums
<1>7. ASSUME NEW n \in Nat PROVE (n + 127 \in A) <=> (n \in A)
  <2>1. /\ (n + 134 \in A) <=> (n + 7 \in A)
        /\ (n + 128 \in A) <=> (n + 1 \in A)
    <3>1. n + 6 \in Nat /\ (n + 6) + 128 = n + 134 /\ (n + 6) + 1 = n + 7
      OBVIOUS
    <3> QED
      BY <1>6, <3>1
  <2>2. (n + 7 \in A) <=> ~((n \in A) <=> (n + 1 \in A))
    BY n + 0 = n DEF Sums
  <2>3. (n + 134 \in A) <=> ~((n + 127 \in A) <=> (n + 128 \in A))
    <3> DEFINE k == n + 127
    <3>1. k \in Nat /\ k + 7 = n + 134 /\ k + 0 = k /\ k + 1 = n + 128
      OBVIOUS
    <3> HIDE DEF k
    <3>2. (k + 7 \in A) <=> ~((k + 0 \in A) <=> (k + 1 \in A))
      BY <3>1 DEF Sums
    <3> QED
      BY <3>1, <3>2 DEF k
  <2> QED
    BY <2>1, <2>2, <2>3
<1> QED
  BY <1>7

-----------------------------------------------------------------------------
(* The shift register of the noise: what a step does to its bits            *)

LEMMA FedBits ==
  ASSUME NEW x \in SUBSET Word, NEW taps, NEW n \in Nat, NEW k \in Nat
  PROVE  /\ Fed(x, taps, n, k) \subseteq Word
         /\ \A b \in Word : b \in Fed(x, taps, n, k) <=>
              ~(~((b - n \in x /\ b - n \in taps) <=> (b - (n + 1) \in x /\ b - (n + 1) \in taps))
                  <=> b + k \in x)
BY DEF Fed, SymDiff, ShiftedLeft, ShiftedRight

LEMMA LongFed ==
  ASSUME NEW x \in SUBSET Word, NEW b \in Word
  PROVE  b \in Fed(x, {1}, 13, 1) <=>
            IF b <= 13 THEN b + 1 \in x
            ELSE IF b = 14 THEN ~(1 \in x <=> 15 \in x) ELSE 1 \in x
<1>1. b \in Fed(x, {1}, 13, 1) <=>
        ~(~((b - 13 \in x /\ b - 13 \in {1}) <=> (b - 14 \in x /\ b - 14 \in {1})) <=> b + 1 \in x)
  <2> DEFINE n == 13
             taps == {1}
  <2>1. n \in Nat /\ 1 \in Nat /\ n + 1 = 14
    OBVIOUS
  <2> HIDE DEF n, taps
  <2>2. b \in Fed(x, taps, n, 1) <=>
          ~(~((b - n \in x /\ b - n \in taps) <=> (b - (n + 1) \in x /\ b - (n + 1) \in taps))
              <=> b + 1 \in x)
    BY <2>1, FedBits
  <2> QED
    BY <2>1, <2>2 DEF n, taps
<1>2. 16 \notin x
  BY DEF Word
<1>3. CASE b <= 13
  <2>1. b - 13 \notin {1} /\ b - 14 \notin {1}
    BY <1>3 DEF Word
  <2> QED
    BY <1>1, <1>3, <2>1
<1>4. CASE b = 14
  <2>1. b - 13 = 1 /\ b - 14 = 0 /\ b + 1 = 15 /\ ~(b <= 13)
    BY <1>4
  <2> QED
    BY <1>1, <1>4, <2>1
<1>5. CASE b = 15
  <2>1. b - 13 = 2 /\ b - 14 = 1 /\ b + 1 = 16 /\ ~(b <= 13) /\ b # 14
    BY <1>5
  <2> QED
    BY <1>1, <1>2, <2>1
<1> QED
  BY <1>3, <1>4, <1>5 DEF Word

LEMMA LongFedThrice ==
  ASSUME NEW x \in SUBSET Word, NEW b \in Word
  PROVE  b \in Fed(x, {1, 2, 3}, 11, 3) <=>
            IF b <= 11 THEN b + 3 \in x
            ELSE IF b = 12 THEN ~(1 \in x <=> 15 \in x)
            ELSE IF b = 15 THEN 3 \in x ELSE ~(b - 11 \in x <=> b - 12 \in x)
<1>1. b \in Fed(x, {1, 2, 3}, 11, 3) <=>
        ~(~((b - 11 \in x /\ b - 11 \in {1, 2, 3}) <=> (b - 12 \in x /\ b - 12 \in {1, 2, 3}))
             <=> b + 3 \in x)
  <2> DEFINE n == 11
             taps == {1, 2, 3}
  <2>1. n \in Nat /\ 3 \in Nat /\ n + 1 = 12
    OBVIOUS
  <2> HIDE DEF n, taps
  <2>2. b \in Fed(x, taps, n, 3) <=>
          ~(~((b - n \in x /\ b - n \in taps) <=> (b - (n + 1) \in x /\ b - (n + 1) \in taps))
              <=> b + 3 \in x)
    BY <2>1, FedBits
  <2> QED
    BY <2>1, <2>2 DEF n, taps
<1>2. 16 \notin x /\ 17 \notin x /\ 18 \notin x
  BY DEF Word
<1>3. CASE b <= 11
  <2>1. b - 11 \notin {1, 2, 3} /\ b - 12 \notin {1, 2, 3}
    BY <1>3 DEF Word
  <2> QED
    BY <1>1, <1>3, <2>1
<1>4. CASE b = 12
  <2>1. b - 11 = 1 /\ b - 12 = 0 /\ b + 3 = 15 /\ ~(b <= 11)
    BY <1>4
  <2> QED
    BY <1>1, <1>4, <2>1
<1>5. CASE b = 13
  <2>1. b - 11 = 2 /\ b - 12 = 1 /\ b + 3 = 16 /\ ~(b <= 11) /\ b # 12 /\ b # 15
    BY <1>5
  <2> QED
    BY <1>1, <1>2, <2>1
<1>6. CASE b = 14
  <2>1. b - 11 = 3 /\ b - 12 = 2 /\ b + 3 = 17 /\ ~(b <= 11) /\ b # 12 /\ b # 15
    BY <1>6
  <2> QED
    BY <1>1, <1>2, <2>1
<1>7. CASE b = 15
  <2>1. b - 11 = 4 /\ b - 12 = 3 /\ b + 3 = 18 /\ ~(b <= 11) /\ b # 12
    BY <1>7
  <2> QED
    BY <1>1, <1>2, <1>7, <2>1
<1> QED
  BY <1>3, <1>4, <1>5, <1>6, <1>7 DEF Word

LEMMA ShortFed ==
  ASSUME NEW x \in SUBSET (0 .. 8), NEW b \in Word
  PROVE  b \in Fed(x, {2}, 5, 1) <=>
            IF b <= 6 THEN b + 1 \in x
            ELSE IF b = 7 THEN ~(2 \in x <=> 8 \in x) ELSE b = 8 /\ 2 \in x
<1>0. x \in SUBSET Word
  BY DEF Word
<1>1. b \in Fed(x, {2}, 5, 1) <=>
        ~(~((b - 5 \in x /\ b - 5 \in {2}) <=> (b - 6 \in x /\ b - 6 \in {2})) <=> b + 1 \in x)
  <2>1. 5 \in Nat /\ 1 \in Nat /\ 5 + 1 = 6
    OBVIOUS
  <2> QED
    BY <1>0, <2>1, FedBits
<1>2. \A i \in Nat : i > 8 => i \notin x
  OBVIOUS
<1>3. CASE b <= 6
  <2>1. b - 5 \notin {2} /\ b - 6 \notin {2}
    BY <1>3 DEF Word
  <2> QED
    BY <1>1, <1>3, <2>1
<1>4. CASE b = 7
  <2>1. b - 5 = 2 /\ b - 6 = 1 /\ b + 1 = 8 /\ ~(b <= 6)
    BY <1>4
  <2> QED
    BY <1>1, <1>4, <2>1
<1>5. CASE b = 8
  <2>1. b - 5 = 3 /\ b - 6 = 2 /\ b + 1 = 9 /\ ~(b <= 6) /\ b # 7 /\ 9 \notin x
    BY <1>2, <1>5
  <2> QED
    BY <1>1, <1>5, <2>1
<1>6. CASE b > 8
  <2>1. b - 5 # 2 /\ b - 6 # 2 /\ b + 1 \notin x /\ ~(b <= 6) /\ b # 7 /\ b # 8
    BY <1>2, <1>6 DEF Word
  <2> QED
    BY <1>1, <2>1
<1> QED
  BY <1>3, <1>4, <1>5, <1>6 DEF Word

\* The steps, by name.
LEMMA StepBodies ==
  ASSUME NEW x
  PROVE  /\ Step(Long, 255, x) = SymDiff(x, Fed(x, {1, 2, 3}, 11, 3))
         /\ Step(Long, 15, x) = SymDiff(x, Fed(x, {1}, 13, 1))
         /\ Step(Long, 1, x) = Fed(x, {1}, 13, 1)
         /\ Step(Short, 7, x) = SymDiff(x, Fed(x, {2}, 5, 1))
         /\ Step(Short, 1, x) = Fed(x, {2}, 5, 1)
         /\ \A m : Step(m, 0, x) = ClockSlowly(x, m)
<1>1. Long # Short
  <2>1. 6 \in Short /\ 6 \notin Long
    BY DEF Long, Short
  <2> QED
    BY <2>1
<1> HIDE DEF Long, Short
<1> QED
  BY <1>1 DEF Step

\* The register of 16 bits holds the sequence from t on, with bit 0 again as bit 15.
LongAt(x, A, t) ==
  /\ x \in SUBSET Word
  /\ \A b \in 0 .. 14 : b \in x <=> t + b \in A
  /\ 15 \in x <=> t \in A

LEMMA LongSteps ==
  ASSUME NEW A, Sums(A, 15, 0, 1), NEW t \in Nat, NEW x, LongAt(x, A, t)
  PROVE  /\ LongAt(Step(Long, 1, x), A, t + 1)
         /\ LongAt(Step(Long, 15, x), A, t + 15)
         /\ LongAt(Step(Long, 255, x), A, t + 255)
<1> DEFINE f == Fed(x, {1}, 13, 1)
           g == Fed(x, {1, 2, 3}, 11, 3)
<1>0. /\ x \in SUBSET Word /\ 0 \in Word /\ 15 \in Word /\ 0 .. 14 \subseteq Word
      /\ \A b \in Word : b \in 0 .. 14 \/ b = 15
  BY DEF LongAt, Word
<1>1. /\ \A b \in 0 .. 14 : b \in x <=> t + b \in A
      /\ 15 \in x <=> t + 0 \in A
      /\ 0 \in x <=> t + 0 \in A
  <2>1. t + 0 = t /\ 0 \in 0 .. 14
    OBVIOUS
  <2> QED
    BY <2>1 DEF LongAt
\* The places of the sequence a step looks at.
<1>2. \A n \in Nat : (n + 15 \in A) <=> ~((n \in A) <=> (n + 1 \in A))
  <2>1. \A n \in Nat : n + 0 = n
    OBVIOUS
  <2> QED
    BY <2>1 DEF Sums
<1>3. f \in SUBSET Word /\ g \in SUBSET Word
  BY <1>0, FedBits
<1>4. \A b \in 0 .. 14 : b \in f <=> t + (b + 1) \in A
  <2> SUFFICES ASSUME NEW b \in 0 .. 14 PROVE b \in f <=> t + (b + 1) \in A
    OBVIOUS
  <2>1. CASE b <= 13
    <3>1. b \in f <=> b + 1 \in x
      BY <1>0, <2>1, LongFed
    <3> QED
      BY <1>1, <2>1, <3>1
  <2>2. CASE b = 14
    <3>1. b \in f <=> ~(1 \in x <=> 15 \in x)
      BY <1>0, <2>2, LongFed
    <3>2. 1 \in x <=> t + 1 \in A
      BY <1>1
    <3>3. t + (b + 1) = t + 15 /\ t + 0 = t
      BY <2>2
    <3> QED
      BY <1>1, <1>2, <3>1, <3>2, <3>3
  <2> QED
    BY <2>1, <2>2
<1>5. 15 \in f <=> t + 1 \in A
  BY <1>0, <1>1, LongFed
<1>6. LongAt(f, A, t + 1)
  <2>1. \A b \in 0 .. 14 : t + (b + 1) = (t + 1) + b
    OBVIOUS
  <2> HIDE DEF f
  <2> QED
    BY <1>3, <1>4, <1>5, <2>1 DEF LongAt
<1>7. LongAt(SymDiff(x, f), A, t + 15)
  <2>1. \A b \in 0 .. 14 : b \in SymDiff(x, f) <=> (t + 15) + b \in A
    <3> SUFFICES ASSUME NEW b \in 0 .. 14 PROVE b \in SymDiff(x, f) <=> (t + 15) + b \in A
      OBVIOUS
    <3>1. b \in SymDiff(x, f) <=> ~(b \in x <=> b \in f)
      BY DEF SymDiff
    <3>2. (t + b) + 15 = (t + 15) + b /\ (t + b) + 1 = t + (b + 1) /\ t + b \in Nat
      OBVIOUS
    <3> HIDE DEF f
    <3> QED
      BY <1>1, <1>2, <1>4, <3>1, <3>2
  <2>2. 15 \in SymDiff(x, f) <=> t + 15 \in A
    <3>1. 15 \in SymDiff(x, f) <=> ~(15 \in x <=> 15 \in f)
      BY DEF SymDiff
    <3>2. t + 0 = t
      OBVIOUS
    <3> HIDE DEF f
    <3> QED
      BY <1>1, <1>2, <1>5, <3>1, <3>2
  <2>3. SymDiff(x, f) \in SUBSET Word
    BY <1>0, <1>3 DEF SymDiff
  <2> QED
    BY <2>1, <2>2, <2>3 DEF LongAt
<1>8. /\ \A b \in 0 .. 14 : b \in g <=> t + (b + 3) \in A
      /\ 15 \in g <=> t + 3 \in A
  <2>1. ASSUME NEW b \in 0 .. 14 PROVE b \in g <=> t + (b + 3) \in A
    <3>1. CASE b <= 11
      <4>1. b \in g <=> b + 3 \in x
        BY <1>0, <3>1, LongFedThrice
      <4> QED
        BY <1>1, <3>1, <4>1
    <3>2. CASE b = 12
      <4>1. b \in g <=> ~(1 \in x <=> 15 \in x)
        BY <1>0, <3>2, LongFedThrice
      <4>2. 1 \in x <=> t + 1 \in A
        BY <1>1
      <4>3. t + (b + 3) = t + 15 /\ t + 0 = t
        BY <3>2
      <4> QED
        BY <1>1, <1>2, <4>1, <4>2, <4>3
    <3>3. CASE b > 12
      <4>1. b \in g <=> ~(b - 11 \in x <=> b - 12 \in x)
        BY <1>0, <3>3, LongFedThrice
      <4>2. (b - 11 \in x <=> t + (b - 11) \in A) /\ (b - 12 \in x <=> t + (b - 12) \in A)
        BY <1>1, <3>3
      <4> DEFINE n == t + (b - 12)
      <4>3. n \in Nat /\ n + 15 = t + (b + 3) /\ n + 1 = t + (b - 11)
        BY <3>3
      <4>4. (n + 15 \in A) <=> ~((n \in A) <=> (n + 1 \in A))
        BY <1>2, <4>3
      <4> QED
        BY <4>1, <4>2, <4>3, <4>4
    <3> QED
      BY <3>1, <3>2, <3>3
  <2>2. 15 \in g <=> t + 3 \in A
    BY <1>0, <1>1, LongFedThrice
  <2> QED
    BY <2>1, <2>2
<1>9. LongAt(SymDiff(x, g), A, t + 255)
  <2>0. \A n \in Nat : (n + 255 \in A) <=> ~((n \in A) <=> (n + 3 \in A))
    <3>1. \A n \in Nat : n + 0 = n
      OBVIOUS
    <3>2. Sums(A, 255, 0, 3)
      BY LongSums
    <3> QED
      BY <3>1, <3>2 DEF Sums
  <2>1. \A b \in 0 .. 14 : b \in SymDiff(x, g) <=> (t + 255) + b \in A
    <3> SUFFICES ASSUME NEW b \in 0 .. 14 PROVE b \in SymDiff(x, g) <=> (t + 255) + b \in A
      OBVIOUS
    <3>1. b \in SymDiff(x, g) <=> ~(b \in x <=> b \in g)
      BY DEF SymDiff
    <3>2. (t + b) + 255 = (t + 255) + b /\ (t + b) + 3 = t + (b + 3) /\ t + b \in Nat
      OBVIOUS
    <3> HIDE DEF g
    <3> QED
      BY <1>1, <1>8, <2>0, <3>1, <3>2
  <2>2. 15 \in SymDiff(x, g) <=> t + 255 \in A
    <3>1. 15 \in SymDiff(x, g) <=> ~(15 \in x <=> 15 \in g)
      BY DEF SymDiff
    <3>2. t + 0 = t
      OBVIOUS
    <3> HIDE DEF g
    <3> QED
      BY <1>1, <1>8, <2>0, <3>1, <3>2
  <2>3. SymDiff(x, g) \in SUBSET Word
    BY <1>0, <1>3 DEF SymDiff
  <2> QED
    BY <2>1, <2>2, <2>3 DEF LongAt
<1> HIDE DEF f, g
<1> QED
  BY <1>6, <1>7, <1>9, StepBodies DEF f, g

-----------------------------------------------------------------------------
(* The loops                                                               *)

IsLoop(m, n, times, x, g) ==
  g = [k \in 0 .. times |-> IF k = 0 THEN x ELSE Step(m, n, g[k - 1])]

LEMMA LoopExists ==
  ASSUME NEW m, NEW n, NEW x, NEW times \in Nat
  PROVE  \E g : IsLoop(m, n, times, x, g)
<1> DEFINE S == {t \in Nat : \E g : IsLoop(m, n, t, x, g)}
<1>1. 0 \in S
  <2> DEFINE g == [k \in 0 .. 0 |-> x]
  <2>1. g = [k \in 0 .. 0 |-> IF k = 0 THEN x ELSE Step(m, n, g[k - 1])]
    OBVIOUS
  <2> QED
    BY <2>1 DEF IsLoop
<1>2. ASSUME NEW t \in Nat, t \in S PROVE t + 1 \in S
  <2>1. PICK g : IsLoop(m, n, t, x, g)
    BY <1>2
  <2> DEFINE h == [k \in 0 .. t + 1 |-> IF k = t + 1 THEN Step(m, n, g[t]) ELSE g[k]]
             F(k) == IF k = 0 THEN x ELSE Step(m, n, h[k - 1])
  <2>2. ASSUME NEW k \in 0 .. t + 1 PROVE h[k] = F(k)
    <3>1. CASE k = t + 1
      <4>1. h[k] = Step(m, n, g[t]) /\ k - 1 = t /\ k # 0 /\ h[t] = g[t]
        BY <3>1
      <4> QED
        BY <4>1
    <3>2. CASE k # t + 1
      <4>1. k \in 0 .. t
        BY <3>2
      <4>2. h[k] = g[k] /\ g[k] = IF k = 0 THEN x ELSE Step(m, n, g[k - 1])
        BY <2>1, <3>2, <4>1 DEF IsLoop
      <4>3. k # 0 => h[k - 1] = g[k - 1]
        BY <4>1
      <4> QED
        BY <4>2, <4>3
    <3> QED
      BY <3>1, <3>2
  <2>3. h = [k \in 0 .. t + 1 |-> h[k]]
    OBVIOUS
  <2> HIDE DEF h
  <2>4. h = [k \in 0 .. t + 1 |-> F(k)]
    BY <2>2, <2>3
  <2>5. IsLoop(m, n, t + 1, x, h)
    BY <2>4 DEF IsLoop
  <2> QED
    BY <2>5
<1> HIDE DEF S
<1>3. Nat \subseteq S
  BY <1>1, <1>2, SetInduction
<1> QED
  BY <1>3 DEF S

LEMMA LoopsAgree ==
  ASSUME NEW m, NEW n, NEW x, NEW s \in Nat, NEW t \in Nat, NEW g, NEW h,
         IsLoop(m, n, s, x, g), IsLoop(m, n, t, x, h)
  PROVE  \A k \in Nat : k <= s /\ k <= t => g[k] = h[k]
<1> DEFINE S == {k \in Nat : k <= s /\ k <= t => g[k] = h[k]}
<1>1. 0 \in S
  BY DEF IsLoop
<1>2. ASSUME NEW k \in Nat, k \in S PROVE k + 1 \in S
  <2>1. SUFFICES ASSUME k + 1 <= s, k + 1 <= t PROVE g[k + 1] = h[k + 1]
    OBVIOUS
  <2>2. g[k] = h[k]
    BY <1>2, <2>1
  <2>3. /\ k + 1 \in 0 .. s /\ k + 1 \in 0 .. t /\ k + 1 # 0 /\ (k + 1) - 1 = k
    BY <2>1
  <2>4. g[k + 1] = Step(m, n, g[k]) /\ h[k + 1] = Step(m, n, h[k])
    BY <2>3 DEF IsLoop
  <2> QED
    BY <2>2, <2>4
<1> HIDE DEF S
<1>3. Nat \subseteq S
  BY <1>1, <1>2, SetInduction
<1> QED
  BY <1>3 DEF S

\* A loop runs its body once more each time.
LEMMA LoopSteps ==
  ASSUME NEW m, NEW n, NEW x, NEW times \in Nat
  PROVE  /\ Loop(m, n, 0, x) = x
         /\ Loop(m, n, times + 1, x) = Step(m, n, Loop(m, n, times, x))
<1>1. ASSUME NEW t \in Nat PROVE \E g : IsLoop(m, n, t, x, g) /\ g[t] = Loop(m, n, t, x)
  <2> DEFINE g == CHOOSE g : IsLoop(m, n, t, x, g)
  <2>1. IsLoop(m, n, t, x, g)
    BY LoopExists
  <2> QED
    BY <2>1 DEF Loop, IsLoop
<1>2. Loop(m, n, 0, x) = x
  <2>1. PICK h : IsLoop(m, n, 0, x, h) /\ h[0] = Loop(m, n, 0, x)
    BY <1>1
  <2> QED
    BY <2>1 DEF IsLoop
<1>3. Loop(m, n, times + 1, x) = Step(m, n, Loop(m, n, times, x))
  <2>1. times + 1 \in Nat
    OBVIOUS
  <2>2. PICK h : IsLoop(m, n, times + 1, x, h) /\ h[times + 1] = Loop(m, n, times + 1, x)
    BY <1>1, <2>1
  <2>3. PICK g : IsLoop(m, n, times, x, g) /\ g[times] = Loop(m, n, times, x)
    BY <1>1
  <2>4. g[times] = h[times]
    <3>1. times <= times /\ times <= times + 1
      OBVIOUS
    <3> QED
      BY <2>1, <2>2, <2>3, <3>1, LoopsAgree
  <2>5. times + 1 \in 0 .. times + 1 /\ times + 1 # 0 /\ (times + 1) - 1 = times
    OBVIOUS
  <2>6. h[times + 1] = Step(m, n, h[times])
    BY <2>2, <2>5 DEF IsLoop
  <2> QED
    BY <2>2, <2>3, <2>4, <2>6
<1> QED
  BY <1>2, <1>3

\* Every body moves the long register on in the sequence.
LEMMA LongLoops ==
  ASSUME NEW A, Sums(A, 15, 0, 1), NEW t \in Nat, NEW x, LongAt(x, A, t), NEW n \in {1, 15, 255},
         NEW times \in Nat
  PROVE  LongAt(Loop(Long, n, times, x), A, t + n * times)
<1> DEFINE S == {k \in Nat : LongAt(Loop(Long, n, k, x), A, t + n * k)}
<1>1. 0 \in S
  <2>1. t + n * 0 = t /\ Loop(Long, n, 0, x) = x
    BY LoopSteps
  <2> QED
    BY <2>1
<1>2. ASSUME NEW k \in Nat, k \in S PROVE k + 1 \in S
  <2> DEFINE y == Loop(Long, n, k, x)
             u == t + n * k
  <2>1. Loop(Long, n, k + 1, x) = Step(Long, n, y)
    BY LoopSteps
  <2>2. LongAt(y, A, u) /\ u \in Nat /\ u + n = t + n * (k + 1)
    BY <1>2
  <2> HIDE DEF y, u
  <2>3. LongAt(Step(Long, n, y), A, u + n)
    BY <2>2, LongSteps
  <2> QED
    BY <2>1, <2>2, <2>3
<1> HIDE DEF S
<1>3. Nat \subseteq S
  BY <1>1, <1>2, SetInduction
<1> QED
  BY <1>3 DEF S

\* How often the loops run.
LEMMA RoundsLeft ==
  ASSUME NEW n \in Nat, n > 0, NEW c \in Nat
  PROVE  /\ Rounds(n, c) \in Nat /\ Left(n, c) \in Nat
         /\ n * Rounds(n, c) + Left(n, c) = c
         /\ c > 0 => Left(n, c) > 0
<1>1. CASE c = 0
  BY <1>1 DEF Rounds, Left
<1>2. CASE c > 0
  <2> DEFINE q == (c - 1) \div n
  <2>1. q \in Nat /\ n * q <= c - 1
    BY <1>2
  <2>2. Rounds(n, c) = q /\ Left(n, c) = c - n * q
    BY <1>2 DEF Rounds, Left
  <2> HIDE DEF q
  <2>3. n * q \in Nat
    BY <2>1
  <2> QED
    BY <2>1, <2>2, <2>3
<1> QED
  BY <1>1, <1>2

LEMMA LongRunsAt ==
  ASSUME NEW A, Sums(A, 15, 0, 1), NEW x, LongAt(x, A, 0), NEW c \in Nat
  PROVE  LongRuns(x, c) = {b \in Register : c + b \in A}
<1> DEFINE a == Loop(Long, 255, Rounds(255, c), x)
           c2 == Left(255, c)
           y == Loop(Long, 15, Rounds(15, c2), a)
           z == Loop(Long, 1, Left(15, c2), y)
           t1 == 255 * Rounds(255, c)
           t2 == t1 + 15 * Rounds(15, c2)
<1>1. /\ Rounds(255, c) \in Nat /\ c2 \in Nat /\ t1 + c2 = c
      /\ t1 \in Nat /\ 0 + t1 = t1
  <2> DEFINE n == 255
  <2>1. n \in Nat /\ n > 0
    OBVIOUS
  <2> HIDE DEF n
  <2>2. Rounds(n, c) \in Nat /\ Left(n, c) \in Nat /\ n * Rounds(n, c) + Left(n, c) = c
    BY <2>1, RoundsLeft
  <2>3. n * Rounds(n, c) \in Nat
    BY <2>1, <2>2
  <2> QED
    BY <2>2, <2>3 DEF n
<1>2. LongAt(a, A, t1)
  <2>1. LongAt(a, A, 0 + t1)
    BY <1>1, LongLoops
  <2> QED
    BY <1>1, <2>1
<1> HIDE DEF a, c2, t1
<1>3. /\ Rounds(15, c2) \in Nat /\ Left(15, c2) \in Nat
      /\ t2 \in Nat /\ t2 + 1 * Left(15, c2) = c
  <2> DEFINE n == 15
  <2>1. n \in Nat /\ n > 0
    OBVIOUS
  <2> HIDE DEF n
  <2>2. Rounds(n, c2) \in Nat /\ Left(n, c2) \in Nat /\ n * Rounds(n, c2) + Left(n, c2) = c2
    BY <1>1, <2>1, RoundsLeft
  <2>3. n * Rounds(n, c2) \in Nat
    BY <2>1, <2>2
  <2> QED
    BY <1>1, <2>2, <2>3 DEF n
<1>4. LongAt(y, A, t2)
  BY <1>1, <1>2, <1>3, LongLoops
<1> HIDE DEF y, t2
<1>5. LongAt(z, A, c)
  <2>1. LongAt(z, A, t2 + 1 * Left(15, c2))
    BY <1>3, <1>4, LongLoops
  <2> QED
    BY <1>3, <2>1
<1> HIDE DEF z
<1>6. LongRuns(x, c) = z \cap Register
  BY DEF LongRuns, a, c2, y, z
<1> QED
  BY <1>5, <1>6 DEF LongAt, Register

\* The short register: bit 8 is bit 1 again, and bit 0 the history of one clock.
ShortAt(x, A, t) ==
  /\ x \in SUBSET (0 .. 8)
  /\ \A b \in 1 .. 7 : b \in x <=> t + (b - 1) \in A
  /\ 8 \in x <=> t \in A

LEMMA ShortSteps ==
  ASSUME NEW A, Sums(A, 7, 0, 1), NEW t \in Nat, NEW x, ShortAt(x, A, t)
  PROVE  /\ ShortAt(Step(Short, 1, x), A, t + 1)
         /\ 0 \in Step(Short, 1, x) <=> t \in A
         /\ ShortAt(Step(Short, 7, x), A, t + 7)
<1> DEFINE f == Fed(x, {2}, 5, 1)
<1>0. /\ x \in SUBSET (0 .. 8) /\ x \in SUBSET Word /\ 0 .. 8 \subseteq Word
      /\ 0 \in Word /\ 8 \in Word
  BY DEF ShortAt, Word
<1>1. /\ \A b \in 1 .. 7 : b \in x <=> t + (b - 1) \in A
      /\ 8 \in x <=> t \in A
      /\ 1 \in x <=> t \in A
      /\ 2 \in x <=> t + 1 \in A
  <2>1. t + (1 - 1) = t /\ 1 \in 1 .. 7 /\ t + (2 - 1) = t + 1 /\ 2 \in 1 .. 7
    OBVIOUS
  <2> QED
    BY <2>1 DEF ShortAt
<1>2. \A n \in Nat : (n + 7 \in A) <=> ~((n \in A) <=> (n + 1 \in A))
  <2>1. \A n \in Nat : n + 0 = n
    OBVIOUS
  <2> QED
    BY <2>1 DEF Sums
<1>3. f \in SUBSET (0 .. 8)
  <2>1. f \in SUBSET Word
    BY <1>0, FedBits
  <2>2. ASSUME NEW b \in Word, b > 8 PROVE b \notin f
    <3>1. ~(b <= 6) /\ b # 7 /\ b # 8
      BY <2>2 DEF Word
    <3> QED
      BY <1>0, <3>1, ShortFed
  <2> HIDE DEF f
  <2> QED
    BY <2>1, <2>2 DEF Word
<1>4. \A b \in 1 .. 7 : b \in f <=> t + b \in A
  <2> SUFFICES ASSUME NEW b \in 1 .. 7 PROVE b \in f <=> t + b \in A
    OBVIOUS
  <2>0. b \in Word
    BY DEF Word
  <2>1. CASE b <= 6
    <3>1. b \in f <=> b + 1 \in x
      BY <1>0, <2>0, <2>1, ShortFed
    <3>2. b + 1 \in 1 .. 7 /\ (b + 1) - 1 = b
      BY <2>1
    <3> QED
      BY <1>1, <3>1, <3>2
  <2>2. CASE b = 7
    <3>1. b \in f <=> ~(2 \in x <=> 8 \in x)
      BY <1>0, <2>0, <2>2, ShortFed
    <3> QED
      BY <1>1, <1>2, <2>2, <3>1
  <2> QED
    BY <2>1, <2>2
<1>5. (8 \in f <=> t + 1 \in A) /\ (0 \in f <=> t \in A)
  BY <1>0, <1>1, ShortFed
<1> HIDE DEF f
<1>6. ShortAt(f, A, t + 1)
  <2>1. \A b \in 1 .. 7 : (t + 1) + (b - 1) = t + b
    OBVIOUS
  <2> QED
    BY <1>3, <1>4, <1>5, <2>1 DEF ShortAt
<1>7. ShortAt(SymDiff(x, f), A, t + 7)
  <2>1. \A b \in 1 .. 7 : b \in SymDiff(x, f) <=> (t + 7) + (b - 1) \in A
    <3> SUFFICES ASSUME NEW b \in 1 .. 7 PROVE b \in SymDiff(x, f) <=> (t + 7) + (b - 1) \in A
      OBVIOUS
    <3>1. b \in SymDiff(x, f) <=> ~(b \in x <=> b \in f)
      BY DEF SymDiff
    <3> DEFINE n == t + (b - 1)
    <3>2. n \in Nat /\ n + 7 = (t + 7) + (b - 1) /\ n + 1 = t + b
      OBVIOUS
    <3>3. (n + 7 \in A) <=> ~((n \in A) <=> (n + 1 \in A))
      BY <1>2, <3>2
    <3>4. b \in x <=> n \in A
      BY <1>1
    <3>5. b \in f <=> t + b \in A
      BY <1>4
    <3> HIDE DEF n
    <3> QED
      BY <3>1, <3>2, <3>3, <3>4, <3>5
  <2>2. 8 \in SymDiff(x, f) <=> t + 7 \in A
    <3>1. 8 \in SymDiff(x, f) <=> ~(8 \in x <=> 8 \in f)
      BY DEF SymDiff
    <3> QED
      BY <1>1, <1>2, <1>5, <3>1
  <2>3. SymDiff(x, f) \in SUBSET (0 .. 8)
    BY <1>0, <1>3 DEF SymDiff
  <2> QED
    BY <2>1, <2>2, <2>3 DEF ShortAt
<1> QED
  BY <1>5, <1>6, <1>7, StepBodies DEF f

LEMMA ShortLoops ==
  ASSUME NEW A, Sums(A, 7, 0, 1), NEW t \in Nat, NEW x, ShortAt(x, A, t), NEW n \in {1, 7},
         NEW times \in Nat
  PROVE  ShortAt(Loop(Short, n, times, x), A, t + n * times)
<1> DEFINE S == {k \in Nat : ShortAt(Loop(Short, n, k, x), A, t + n * k)}
<1>1. 0 \in S
  <2>1. t + n * 0 = t /\ Loop(Short, n, 0, x) = x
    BY LoopSteps
  <2> QED
    BY <2>1
<1>2. ASSUME NEW k \in Nat, k \in S PROVE k + 1 \in S
  <2> DEFINE y == Loop(Short, n, k, x)
             u == t + n * k
  <2>1. Loop(Short, n, k + 1, x) = Step(Short, n, y)
    BY LoopSteps
  <2>2. ShortAt(y, A, u) /\ u \in Nat /\ u + n = t + n * (k + 1)
    BY <1>2
  <2> HIDE DEF y, u
  <2>3. ShortAt(Step(Short, n, y), A, u + n)
    BY <2>2, ShortSteps
  <2> QED
    BY <2>1, <2>2, <2>3
<1> HIDE DEF S
<1>3. Nat \subseteq S
  BY <1>1, <1>2, SetInduction
<1> QED
  BY <1>3 DEF S

LEMMA Periodic ==
  ASSUME NEW A, NEW p \in Nat, \A n \in Nat : (n + p \in A) <=> (n \in A), NEW q \in Nat
  PROVE  \A n \in Nat : (n + q * p \in A) <=> (n \in A)
<1> DEFINE S == {k \in Nat : \A n \in Nat : (n + k * p \in A) <=> (n \in A)}
<1>1. 0 \in S
  <2>1. \A n \in Nat : n + 0 * p = n
    OBVIOUS
  <2> QED
    BY <2>1
<1>2. ASSUME NEW k \in Nat, k \in S PROVE k + 1 \in S
  <2> SUFFICES ASSUME NEW n \in Nat PROVE (n + (k + 1) * p \in A) <=> (n \in A)
    OBVIOUS
  <2> DEFINE u == n + k * p
  <2>1. u \in Nat /\ u + p = n + (k + 1) * p
    OBVIOUS
  <2>2. (u \in A) <=> (n \in A)
    BY <1>2
  <2> HIDE DEF u
  <2> QED
    BY <2>1, <2>2
<1> HIDE DEF S
<1>3. Nat \subseteq S
  BY <1>1, <1>2, SetInduction
<1> QED
  BY <1>3 DEF S

-----------------------------------------------------------------------------
(* Clocking one by one                                                     *)

\* A mask that feeds back into the last of w bits and none below.
Wide(m, w) ==
  \/ m = Long /\ w = 15
  \/ m = Short /\ w = 7

\* Both loops of single clocks are the same.
LEMMA SlowlyIsOnce ==
  ASSUME NEW x \in SUBSET Register, NEW m \in {Long, Short}
  PROVE  /\ ClockSlowly(x, m) = ClockOnce(x, m)
         /\ ClockOnce(x, m) \in SUBSET Register
         /\ \A b \in Register : b \in ClockOnce(x, m) <=>
              IF b \in m THEN ~(0 \in x <=> 1 \in x) ELSE b + 1 \in x
<1>1. m \subseteq Register /\ 14 \in m
  BY DEF Long, Short, Register
<1>2. ShiftedRight(x, 1) = {b \in Register : b + 1 \in x}
  BY DEF ShiftedRight, Word, Register
<1> DEFINE rest == ShiftedRight(x, 1)
<1>3. ClockSlowly(x, m) = SymDiff(rest \cup m, IF (0 \in x) = (1 \in x) THEN m ELSE {})
  BY DEF ClockSlowly
<1>4. ClockOnce(x, m) = IF (0 \in x) # (1 \in x) THEN (rest \ m) \cup m ELSE rest \ m
  BY DEF ClockOnce
<1> DEFINE same == (0 \in x <=> 1 \in x)
<1>5. ((0 \in x) = (1 \in x)) <=> same
  OBVIOUS
<1>6. CASE same
  <2>1. ClockOnce(x, m) = rest \ m /\ ClockSlowly(x, m) = SymDiff(rest \cup m, m)
    BY <1>3, <1>4, <1>5, <1>6, Zenon
  <2> QED
    BY <1>1, <1>2, <1>6, <2>1 DEF SymDiff
<1>7. CASE ~same
  <2>1. ClockOnce(x, m) = (rest \ m) \cup m /\ ClockSlowly(x, m) = SymDiff(rest \cup m, {})
    BY <1>3, <1>4, <1>5, <1>7, Zenon
  <2> QED
    BY <1>1, <1>2, <1>7, <2>1 DEF SymDiff
<1> QED
  BY <1>6, <1>7

AfterClocks(r, m, n) == Loop(m, 0, n, r)

LEMMA ClockedOnce ==
  ASSUME NEW r \in SUBSET Register, NEW m \in {Long, Short}, NEW n \in Nat
  PROVE  /\ AfterClocks(r, m, 0) = r
         /\ AfterClocks(r, m, n) \in SUBSET Register
         /\ AfterClocks(r, m, n + 1) = ClockOnce(AfterClocks(r, m, n), m)
<1>1. ASSUME NEW k \in Nat
      PROVE  AfterClocks(r, m, 0) = r /\ AfterClocks(r, m, k + 1) = ClockSlowly(AfterClocks(r, m, k), m)
  <2> DEFINE x == Loop(m, 0, k, r)
  <2>1. Loop(m, 0, 0, r) = r /\ Loop(m, 0, k + 1, r) = Step(m, 0, x)
    BY LoopSteps
  <2>2. Step(m, 0, x) = ClockSlowly(x, m)
    BY StepBodies
  <2> QED
    BY <2>1, <2>2 DEF AfterClocks
<1> DEFINE S == {k \in Nat : AfterClocks(r, m, k) \in SUBSET Register}
<1>2. 0 \in S
  BY <1>1
<1>3. ASSUME NEW k \in Nat, k \in S PROVE k + 1 \in S
  BY <1>1, <1>3, SlowlyIsOnce
<1> HIDE DEF S
<1>4. Nat \subseteq S
  BY <1>2, <1>3, SetInduction
<1> QED
  BY <1>1, <1>4, SlowlyIsOnce DEF S

\* The low bits the register goes through, one a clock.
LowBits(r, m) == {n \in Nat : 0 \in AfterClocks(r, m, n)}

\* The low bits of the register are the next of the sequence, of which each is the
\* exclusive or of two before.
LEMMA ClockedBits ==
  ASSUME NEW r \in SUBSET Register, NEW m, NEW w, Wide(m, w)
  PROVE  /\ \A b \in 0 .. w - 1 : \A n \in Nat :
              b \in AfterClocks(r, m, n) <=> n + b \in LowBits(r, m)
         /\ Sums(LowBits(r, m), w, 0, 1)
<1> DEFINE L(n) == AfterClocks(r, m, n)
           A == LowBits(r, m)
<1>1. /\ m \in {Long, Short} /\ w \in {7, 15}
      /\ w - 1 \in Register /\ w - 1 \in m
      /\ \A b \in 0 .. w - 2 : b \notin m
  BY DEF Wide, Long, Short, Register
<1>2. ASSUME NEW n \in Nat, NEW b \in Register
      PROVE  b \in L(n + 1) <=> IF b \in m THEN ~(0 \in L(n) <=> 1 \in L(n)) ELSE b + 1 \in L(n)
  <2> DEFINE x == L(n)
  <2>1. x \in SUBSET Register /\ L(n + 1) = ClockOnce(x, m)
    BY <1>1, ClockedOnce
  <2> HIDE DEF x
  <2>2. b \in ClockOnce(x, m) <=> IF b \in m THEN ~(0 \in x <=> 1 \in x) ELSE b + 1 \in x
    BY <1>1, <2>1, SlowlyIsOnce
  <2> QED
    BY <2>1, <2>2 DEF x
<1>3. \A n \in Nat : 0 \in L(n) <=> n \in A
  BY DEF LowBits
<1> HIDE DEF L, A
<1> DEFINE S == {b \in Nat : b <= w - 1 => \A n \in Nat : b \in L(n) <=> n + b \in A}
<1>4. 0 \in S
  <2>1. \A n \in Nat : n + 0 = n
    OBVIOUS
  <2> QED
    BY <1>3, <2>1
<1>5. ASSUME NEW b \in Nat, b \in S PROVE b + 1 \in S
  <2> SUFFICES ASSUME b + 1 <= w - 1, NEW n \in Nat PROVE b + 1 \in L(n) <=> n + (b + 1) \in A
    OBVIOUS
  <2>1. b <= w - 1 /\ b \in 0 .. w - 2 /\ b \in Register
    BY <1>1 DEF Register
  <2>2. b \in L(n + 1) <=> b + 1 \in L(n)
    BY <1>1, <1>2, <2>1
  <2>3. b \in L(n + 1) <=> (n + 1) + b \in A
    BY <1>5, <2>1
  <2>4. (n + 1) + b = n + (b + 1)
    OBVIOUS
  <2> QED
    BY <2>2, <2>3, <2>4
<1> HIDE DEF S
<1>6. Nat \subseteq S
  BY <1>4, <1>5, SetInduction
<1>7. \A b \in 0 .. w - 1 : \A n \in Nat : b \in L(n) <=> n + b \in A
  BY <1>1, <1>6 DEF S
<1>8. ASSUME NEW n \in Nat PROVE n + w \in A <=> ~(n + 0 \in A <=> n + 1 \in A)
  <2>1. w - 1 \in L(n + 1) <=> ~(0 \in L(n) <=> 1 \in L(n))
    BY <1>1, <1>2
  <2>2. w - 1 \in 0 .. w - 1 /\ 0 \in 0 .. w - 1 /\ 1 \in 0 .. w - 1 /\ n + 1 \in Nat
        /\ (n + 1) + (w - 1) = n + w
    BY <1>1
  <2>3. /\ w - 1 \in L(n + 1) <=> (n + 1) + (w - 1) \in A
        /\ 0 \in L(n) <=> n + 0 \in A
        /\ 1 \in L(n) <=> n + 1 \in A
    BY <1>7, <2>2
  <2> QED
    BY <2>1, <2>2, <2>3
<1> QED
  BY <1>7, <1>8 DEF Sums, L, A

\* The short register repeats its seven bits, and the one before them, above.
LEMMA UpperBits ==
  ASSUME NEW r \in SUBSET Register, NEW c \in Nat, c >= 8, NEW b \in 7 .. 14
  PROVE  b \in AfterClocks(r, Short, c) <=> c + (b - 8) \in LowBits(r, Short)
<1> DEFINE L(n) == AfterClocks(r, Short, n)
           A == LowBits(r, Short)
<1>0. Wide(Short, 7) /\ Short \in {Long, Short} /\ 14 \in Short /\ 6 \in Short
      /\ \A i \in 7 .. 13 : i \notin Short
  BY DEF Wide, Short
<1>1. ASSUME NEW n \in Nat, NEW i \in Register
      PROVE  i \in L(n + 1) <=>
               IF i \in Short THEN ~(0 \in L(n) <=> 1 \in L(n)) ELSE i + 1 \in L(n)
  <2> DEFINE x == L(n)
  <2>1. x \in SUBSET Register /\ L(n + 1) = ClockOnce(x, Short)
    BY <1>0, ClockedOnce
  <2> HIDE DEF x
  <2>2. i \in ClockOnce(x, Short) <=>
          IF i \in Short THEN ~(0 \in x <=> 1 \in x) ELSE i + 1 \in x
    BY <1>0, <2>1, SlowlyIsOnce
  <2> QED
    BY <2>1, <2>2 DEF x
<1>2. \A n \in Nat : 6 \in L(n) <=> n + 6 \in A
  <2> DEFINE w == 7
  <2>1. Wide(Short, w) /\ 6 \in 0 .. w - 1
    BY <1>0
  <2> HIDE DEF w
  <2> QED
    BY <2>1, ClockedBits
<1> HIDE DEF L, A
<1> DEFINE S == {k \in Nat : k <= 7 => \A n \in Nat : n > k => (14 - k \in L(n) <=> n + (6 - k) \in A)}
<1>3. 0 \in S
  <2> SUFFICES ASSUME NEW n \in Nat, n > 0 PROVE 14 \in L(n) <=> n + 6 \in A
    OBVIOUS
  <2>1. PICK k \in Nat : n = k + 1
    <3>1. n - 1 \in Nat /\ n = (n - 1) + 1
      OBVIOUS
    <3> QED
      BY <3>1
  <2>2. 14 \in L(k + 1) <=> 6 \in L(k + 1)
    BY <1>0, <1>1 DEF Register
  <2> QED
    BY <1>2, <2>1, <2>2
<1>4. ASSUME NEW k \in Nat, k \in S PROVE k + 1 \in S
  <2> SUFFICES ASSUME k + 1 <= 7, NEW n \in Nat, n > k + 1
               PROVE  14 - (k + 1) \in L(n) <=> n + (6 - (k + 1)) \in A
    OBVIOUS
  <2>1. PICK i \in Nat : n = i + 1 /\ i > k
    <3>1. n - 1 \in Nat /\ n = (n - 1) + 1 /\ n - 1 > k
      OBVIOUS
    <3> QED
      BY <3>1
  <2>2. k <= 7 /\ 14 - (k + 1) \in 7 .. 13 /\ 14 - (k + 1) \in Register
        /\ (14 - (k + 1)) + 1 = 14 - k
    BY DEF Register
  <2>3. 14 - (k + 1) \in L(i + 1) <=> 14 - k \in L(i)
    BY <1>0, <1>1, <2>2
  <2>4. 14 - k \in L(i) <=> i + (6 - k) \in A
    BY <1>4, <2>1, <2>2
  <2>5. i + (6 - k) = n + (6 - (k + 1))
    BY <2>1
  <2> QED
    BY <2>1, <2>3, <2>4, <2>5
<1> HIDE DEF S
<1>5. Nat \subseteq S
  BY <1>3, <1>4, SetInduction
<1>6. 14 - b \in Nat /\ 14 - b <= 7 /\ c > 14 - b /\ 14 - (14 - b) = b /\ 6 - (14 - b) = b - 8
  OBVIOUS
<1>7. 14 - (14 - b) \in L(c) <=> c + (6 - (14 - b)) \in A
  BY <1>5, <1>6 DEF S
<1> QED
  BY <1>6, <1>7 DEF L, A

\* Both conversions start at the first place of the sequence.
LEMMA LongJumps ==
  ASSUME NEW r \in SUBSET Register, NEW c \in Nat
  PROVE  LongJump(r, c) = AfterClocks(r, Long, c)
<1> DEFINE A == LowBits(r, Long)
           x == SymDiff(r, IF 0 \in r THEN {15} ELSE {})
           c1 == LongCount(c)
<1>1. /\ \A b \in Register : \A n \in Nat : b \in AfterClocks(r, Long, n) <=> n + b \in A
      /\ Sums(A, 15, 0, 1)
  <2> DEFINE w == 15
  <2>1. Wide(Long, w) /\ 0 .. w - 1 = Register
    BY DEF Wide, Register
  <2> HIDE DEF w
  <2>2. /\ \A b \in 0 .. w - 1 : \A n \in Nat : b \in AfterClocks(r, Long, n) <=> n + b \in A
        /\ Sums(A, w, 0, 1)
    BY <2>1, ClockedBits
  <2> QED
    BY <2>1, <2>2 DEF w
<1>2. Long \in {Long, Short}
  OBVIOUS
<1>3. AfterClocks(r, Long, 0) = r /\ AfterClocks(r, Long, c) \in SUBSET Register
  BY <1>2, ClockedOnce
<1> HIDE DEF A
<1>4. LongAt(x, A, 0)
  <2>1. \A b \in Register : b \in r <=> 0 + b \in A
    BY <1>1, <1>3
  <2>2. x \in SUBSET Word /\ (15 \in x <=> 0 \in r) /\ \A b \in Register : b \in x <=> b \in r
    BY DEF SymDiff, Word, Register
  <2>3. 0 + 0 = 0 /\ 0 \in Register
    BY DEF Register
  <2> HIDE DEF x
  <2> QED
    BY <2>1, <2>2, <2>3 DEF LongAt, Register
<1>5. c1 \in Nat /\ \A b \in Register : (c + b \in A) <=> (c1 + b \in A)
  <2>1. CASE c >= 32767
    <3> DEFINE p == 32767
               d == c % p
               q == c \div p
    <3>1. p \in Nat /\ p > 0 /\ \A n \in Nat : (n + p \in A) <=> (n \in A)
      BY <1>1, LongSums
    <3>2. c1 = d
      BY <2>1 DEF LongCount
    <3> HIDE DEF p
    <3>3. q \in Nat /\ d \in Nat /\ c = d + q * p
      BY <3>1
    <3> HIDE DEF q, d
    <3>4. \A n \in Nat : (n + q * p \in A) <=> (n \in A)
      BY <3>1, <3>3, Periodic
    <3>5. ASSUME NEW b \in Register PROVE (c + b \in A) <=> (d + b \in A)
      <4>1. d + b \in Nat /\ q * p \in Nat
        BY <3>1, <3>3 DEF Register
      <4>2. c + b = (d + b) + q * p
        BY <3>3, <4>1 DEF Register
      <4> QED
        BY <3>4, <4>1, <4>2
    <3> QED
      BY <3>2, <3>3, <3>5
  <2>2. CASE c < 32767
    BY <2>2 DEF LongCount
  <2> QED
    BY <2>1, <2>2
<1> HIDE DEF x, c1
<1>6. LongRuns(x, c1) = {b \in Register : c1 + b \in A}
  BY <1>1, <1>4, <1>5, LongRunsAt
<1>7. LongJump(r, c) = LongRuns(x, c1)
  BY DEF LongJump, x, c1
<1> QED
  BY <1>1, <1>3, <1>5, <1>6, <1>7

LEMMA ShortRunsAt ==
  ASSUME NEW A, Sums(A, 7, 0, 1), NEW x, ShortAt(x, A, 0), NEW c \in Nat, c > 0,
         NEW y, y = Loop(Short, 1, Left(7, c), Loop(Short, 7, Rounds(7, c), x))
  PROVE  ShortAt(y, A, c) /\ (0 \in y <=> c - 1 \in A)
<1> DEFINE a == Loop(Short, 7, Rounds(7, c), x)
           t == 7 * Rounds(7, c)
           k == Left(7, c)
<1>1. Rounds(7, c) \in Nat /\ k \in Nat /\ t \in Nat /\ t + k = c /\ k > 0 /\ 0 + t = t
  <2> DEFINE n == 7
  <2>1. n \in Nat /\ n > 0
    OBVIOUS
  <2> HIDE DEF n
  <2>2. Rounds(n, c) \in Nat /\ Left(n, c) \in Nat /\ n * Rounds(n, c) + Left(n, c) = c /\ Left(n, c) > 0
    BY <2>1, RoundsLeft
  <2>3. n * Rounds(n, c) \in Nat
    BY <2>1, <2>2
  <2> QED
    BY <2>2, <2>3 DEF n
<1>2. ShortAt(a, A, t)
  <2>1. ShortAt(a, A, 0 + t)
    BY <1>1, ShortLoops
  <2> QED
    BY <1>1, <2>1
<1>3. y = Loop(Short, 1, k, a)
  OBVIOUS
<1> HIDE DEF a, t, k
<1> DEFINE j == k - 1
           z == Loop(Short, 1, j, a)
           u == t + 1 * j
<1>4. j \in Nat /\ j + 1 = k /\ u \in Nat /\ u + 1 = c /\ u = c - 1
  BY <1>1
<1> HIDE DEF j
<1>5. ShortAt(z, A, u)
  BY <1>1, <1>2, <1>4, ShortLoops
<1>6. y = Step(Short, 1, z)
  BY <1>3, <1>4, LoopSteps
<1> HIDE DEF z, u
<1>7. ShortAt(Step(Short, 1, z), A, u + 1) /\ (0 \in Step(Short, 1, z) <=> u \in A)
  BY <1>4, <1>5, ShortSteps
<1> QED
  BY <1>4, <1>6, <1>7

LEMMA ShortJumps ==
  ASSUME NEW r \in SUBSET Register, NEW c \in Nat, c >= 8
  PROVE  ShortJump(r, c) = AfterClocks(r, Short, c)
<1> DEFINE A == LowBits(r, Short)
           c1 == IF c > 127 THEN (IF c % 127 = 0 THEN 127 ELSE c % 127) ELSE c
           history == ShiftedLeft(r, 1) \cap 0 .. 7
           x == SymDiff(history, IF 1 \in history THEN {8} ELSE {})
           y == Loop(Short, 1, Left(7, c1), Loop(Short, 7, Rounds(7, c1), x))
<1>1. /\ \A b \in 0 .. 6 : \A n \in Nat : b \in AfterClocks(r, Short, n) <=> n + b \in A
      /\ Sums(A, 7, 0, 1)
  <2> DEFINE w == 7
  <2>1. Wide(Short, w) /\ 0 .. w - 1 = 0 .. 6
    BY DEF Wide
  <2> HIDE DEF w
  <2>2. /\ \A b \in 0 .. w - 1 : \A n \in Nat : b \in AfterClocks(r, Short, n) <=> n + b \in A
        /\ Sums(A, w, 0, 1)
    BY <2>1, ClockedBits
  <2> QED
    BY <2>1, <2>2 DEF w
<1>2. Short \in {Long, Short}
  OBVIOUS
<1>3. AfterClocks(r, Short, 0) = r /\ AfterClocks(r, Short, c) \in SUBSET Register
  BY <1>2, ClockedOnce
<1>4. \A b \in 7 .. 14 : b \in AfterClocks(r, Short, c) <=> c + (b - 8) \in A
  BY UpperBits
<1>5. ShortJump(r, c) = (ShiftedLeft(y, 7) \cap 7 .. 14) \cup (ShiftedRight(y, 1) \cap 0 .. 6)
  BY DEF ShortJump
<1> HIDE DEF A
<1>6. ShortAt(x, A, 0)
  <2>1. \A b \in 0 .. 6 : b \in r <=> 0 + b \in A
    BY <1>1, <1>3
  <2>2. history = {b \in 0 .. 7 : b - 1 \in r}
    BY DEF ShiftedLeft, Word
  <2> HIDE DEF history
  <2>3. /\ x \in SUBSET (0 .. 8) /\ (8 \in x <=> 1 \in history)
        /\ \A b \in 1 .. 7 : b \in x <=> b \in history
    BY <2>2 DEF SymDiff
  <2> HIDE DEF x
  <2>4. ASSUME NEW b \in 1 .. 7 PROVE b \in history <=> 0 + (b - 1) \in A
    <3>1. b - 1 \in 0 .. 6 /\ b \in 0 .. 7
      OBVIOUS
    <3> QED
      BY <2>1, <2>2, <3>1
  <2>5. 1 \in history <=> 0 \in A
    <3>1. 1 \in 1 .. 7 /\ 0 + (1 - 1) = 0
      OBVIOUS
    <3> QED
      BY <2>4, <3>1
  <2> QED
    BY <2>3, <2>4, <2>5 DEF ShortAt
<1> HIDE DEF history, x
<1>7. /\ c1 \in Nat /\ c1 > 0
      /\ \A b \in 0 .. 7 : (c + (b - 1) \in A) <=> (c1 + (b - 1) \in A)
  <2>1. CASE c > 127
    <3> DEFINE p == 127
    <3>0. p \in Nat /\ p > 0
      OBVIOUS
    <3>1. \A n \in Nat : (n + p \in A) <=> (n \in A)
      BY <1>1, ShortSums
    <3>2. c1 = IF c % p = 0 THEN p ELSE c % p
      BY <2>1
    <3>3. c > p
      BY <2>1
    <3> HIDE DEF p, c1
    <3>4. PICK q \in Nat : c = c1 + q * p /\ c1 \in Nat /\ c1 > 0
      <4> DEFINE d == c % p
                 e == c \div p
      <4>1. e \in Nat /\ d \in Nat /\ c = d + e * p
        BY <3>0
      <4> HIDE DEF d, e
      <4>2. CASE d = 0
        <5>1. e # 0
          BY <3>0, <3>3, <4>1, <4>2
        <5>2. e - 1 \in Nat /\ c = p + (e - 1) * p /\ c1 = p
          BY <3>0, <3>2, <4>1, <4>2, <5>1 DEF d
        <5> QED
          BY <3>0, <5>2
      <4>3. CASE d # 0
        <5>1. c1 = d /\ d > 0
          BY <3>2, <4>1, <4>3 DEF d
        <5> QED
          BY <4>1, <5>1
      <4> QED
        BY <4>2, <4>3
    <3>5. \A n \in Nat : (n + q * p \in A) <=> (n \in A)
      BY <3>0, <3>1, Periodic
    <3>6. ASSUME NEW b \in 0 .. 7 PROVE (c + (b - 1) \in A) <=> (c1 + (b - 1) \in A)
      <4>1. q * p \in Nat
        BY <3>0
      <4>2. c1 + (b - 1) \in Nat /\ c + (b - 1) = (c1 + (b - 1)) + q * p
        BY <3>4, <4>1
      <4> QED
        BY <3>5, <4>2
    <3> QED
      BY <3>4, <3>6
  <2>2. CASE c <= 127
    <3>1. c1 = c
      BY <2>2
    <3> QED
      BY <3>1
  <2> QED
    BY <2>1, <2>2
<1> HIDE DEF c1
<1>8. ShortAt(y, A, c1) /\ (0 \in y <=> c1 - 1 \in A)
  BY <1>1, <1>6, <1>7, ShortRunsAt
<1> HIDE DEF y
<1>9. \A b \in 0 .. 7 : b \in y <=> c + (b - 1) \in A
  <2>1. 0 \in y <=> c1 + (0 - 1) \in A
    <3>1. c1 + (0 - 1) = c1 - 1
      BY <1>7
    <3> QED
      BY <1>8, <3>1
  <2>2. \A b \in 1 .. 7 : b \in y <=> c1 + (b - 1) \in A
    BY <1>8 DEF ShortAt
  <2>3. \A b \in 0 .. 7 : b \in y <=> c1 + (b - 1) \in A
    <3>1. \A b \in 0 .. 7 : b = 0 \/ b \in 1 .. 7
      OBVIOUS
    <3> QED
      BY <2>1, <2>2, <3>1
  <2> QED
    BY <1>7, <2>3
<1>10. ASSUME NEW b \in Register PROVE b \in ShortJump(r, c) <=> b \in AfterClocks(r, Short, c)
  <2>1. CASE b <= 6
    <3>1. b \in 0 .. 6 /\ b \notin 7 .. 14 /\ b \in Word /\ b + 1 \in 0 .. 7 /\ (b + 1) - 1 = b
      BY <2>1 DEF Register, Word
    <3>2. b \in ShortJump(r, c) <=> b + 1 \in y
      BY <1>5, <3>1 DEF ShiftedRight
    <3>3. b + 1 \in y <=> c + ((b + 1) - 1) \in A
      BY <1>9, <3>1
    <3>4. b \in AfterClocks(r, Short, c) <=> c + b \in A
      BY <1>1, <3>1
    <3> QED
      BY <3>1, <3>2, <3>3, <3>4
  <2>2. CASE b > 6
    <3>1. b \in 7 .. 14 /\ b \notin 0 .. 6 /\ b \in Word /\ b - 7 \in 0 .. 7 /\ (b - 7) - 1 = b - 8
      BY <2>2 DEF Register, Word
    <3>2. b \in ShortJump(r, c) <=> b - 7 \in y
      BY <1>5, <3>1 DEF ShiftedLeft
    <3>3. b - 7 \in y <=> c + ((b - 7) - 1) \in A
      BY <1>9, <3>1
    <3>4. b \in AfterClocks(r, Short, c) <=> c + (b - 8) \in A
      BY <1>4, <3>1
    <3> QED
      BY <3>1, <3>2, <3>3, <3>4
  <2> QED
    BY <2>1, <2>2 DEF Register
<1>11. ShortJump(r, c) \in SUBSET Register
  BY <1>5 DEF Register
<1> QED
  BY <1>3, <1>10, <1>11

\* However many clocks it jumps over, run_lfsr clocks the register so often.
LEMMA RunClocks ==
  ASSUME NEW r \in SUBSET Register, NEW m \in {Long, Short}, NEW c \in Nat
  PROVE  run_lfsr(r, m, c) = AfterClocks(r, m, c)
<1>1. CASE m = Long
  BY <1>1, LongJumps DEF run_lfsr
<1>2. CASE m # Long /\ c < 8
  BY <1>2 DEF run_lfsr, AfterClocks
<1>3. CASE m # Long /\ ~(c < 8)
  <2>1. c >= 8 /\ m = Short
    BY <1>3
  <2>2. run_lfsr(r, m, c) = ShortJump(r, c)
    BY <1>3 DEF run_lfsr
  <2> QED
    BY <2>1, <2>2, ShortJumps
<1> QED
  BY <1>1, <1>2, <1>3

\* The bits are what as many single clocks leave.
LfsrInv ==
  /\ seed \in SUBSET Register /\ mask \in {Long, Short} /\ count \in Nat
  /\ bits = AfterClocks(seed, mask, count)

\* From any 15 bits, in both widths and over any number of clocks, jumping leaves the
\* register of the noise as the loop of single clocks would have: run_lfsr and the
\* oscillator may take over from each other at any time.
THEOREM JumpsAreClocking == LfsrSpec => []JumpsAgree
<1>1. LfsrInit => LfsrInv
  <2> SUFFICES ASSUME LfsrInit PROVE LfsrInv
    OBVIOUS
  <2>1. seed \in SUBSET Register /\ mask \in {Long, Short} /\ count = 0 /\ bits = seed
    BY LfsrAssumption DEF LfsrInit
  <2>2. 0 \in Nat
    OBVIOUS
  <2> QED
    BY <2>1, <2>2, ClockedOnce DEF LfsrInv
<1>2. LfsrInv /\ [LfsrNext]_lfsrVars => LfsrInv'
  <2> SUFFICES ASSUME LfsrInv, [LfsrNext]_lfsrVars PROVE LfsrInv'
    OBVIOUS
  <2>1. CASE LfsrNext
    <3>1. seed' = seed /\ mask' = mask /\ count' = count + 1 /\ bits' = ClockOnce(bits, mask)
      BY <2>1 DEF LfsrNext
    <3>2. AfterClocks(seed, mask, count + 1) = ClockOnce(bits, mask)
      BY ClockedOnce DEF LfsrInv
    <3>3. count + 1 \in Nat
      BY DEF LfsrInv
    <3> QED
      BY <3>1, <3>2, <3>3 DEF LfsrInv
  <2>2. CASE UNCHANGED lfsrVars
    BY <2>2 DEF LfsrInv, lfsrVars
  <2> QED
    BY <2>1, <2>2
<1>3. LfsrInv => JumpsAgree
  BY RunClocks DEF LfsrInv, JumpsAgree
<1> QED
  BY <1>1, <1>2, <1>3, PTL DEF LfsrSpec
=============================================================================


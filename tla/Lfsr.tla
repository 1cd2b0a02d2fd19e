-------------------------------- MODULE Lfsr --------------------------------
(***************************************************************************)
(* The shift register of the noise oscillator (src/core/audio/Gb_Oscs.cpp): *)
(* the loop that clocks it while the noise is heard, and run_lfsr, which    *)
(* jumps over many clocks at once while it is not.  Both leave the register *)
(* to the other when the noise is switched on or off.                       *)
(*                                                                         *)
(* A register is the set of its bits that are 1, so the exclusive or of two *)
(* is their symmetric difference.                                           *)
(***************************************************************************)
EXTENDS Integers, FiniteSetsExt

CONSTANTS
  Seeds,      \* states of the register to start from
  MaxCount    \* bound: clocks counted

Register == 0 .. 14

ASSUME LfsrAssumption == Seeds \subseteq SUBSET Register /\ MaxCount \in Nat

VARIABLES
  seed, mask, \* the state the register had, and the bits its feedback sets
  count, bits \* clocks since then, and the state they led to

lfsrVars == <<seed, mask, count, bits>>

Long == {14}       \* 0x4000: 15 bits
Short == {14, 6}   \* 0x4040: feedback into bit 6 too, 7 bits matter

\* x >> n and x << n; no bit of run_lfsr is past the 16th.
Word == 0 .. 15
ShiftedRight(x, n) == {b \in Word : b + n \in x}
ShiftedLeft(x, n) == {b \in Word : b - n \in x}

\* The loop of Gb_Noise::run: the feedback is set where the two low bits differ, which
\* is where bit 1 of the register plus one is.
ClockOnce(r, m) ==
  LET rest == ShiftedRight(r, 1) \ m
  IN  IF (0 \in r) # (1 \in r) THEN rest \cup m ELSE rest

-----------------------------------------------------------------------------
(* run_lfsr. *)

\* Bit 1 of the register minus one is where the two low bits are the same.
ClockSlowly(x, m) ==
  SymDiff(ShiftedRight(x, 1) \cup m, IF (0 \in x) = (1 \in x) THEN m ELSE {})

\* (x & taps) * (3 << n), which is two shifts, with the register shifted by k.
Fed(x, taps, n, k) ==
  SymDiff(SymDiff(ShiftedLeft(x \cap taps, n), ShiftedLeft(x \cap taps, n + 1)),
          ShiftedRight(x, k))

\* The bodies of the loops, each for n clocks at once.
Step(m, n, x) ==
  CASE m = Long /\ n = 255 -> SymDiff(x, Fed(x, {1, 2, 3}, 11, 3))
    [] m = Long /\ n = 15 -> SymDiff(x, Fed(x, {1}, 13, 1))
    [] m = Long /\ n = 1 -> Fed(x, {1}, 13, 1)
    [] m = Short /\ n = 7 -> SymDiff(x, Fed(x, {2}, 5, 1))
    [] m = Short /\ n = 1 -> Fed(x, {2}, 5, 1)
    [] n = 0 -> ClockSlowly(x, m)

\* A loop that runs a body so often.
Loop(m, n, times, x) ==
  LET after[k \in 0 .. times] == IF k = 0 THEN x ELSE Step(m, n, after[k - 1])
  IN  after[times]

\* Loops of the form "while ( (count -= n) > 0 )" run this often ...
Rounds(n, c) == IF c > 0 THEN (c - 1) \div n ELSE 0

\* ... and leave this many clocks after "count += n".
Left(n, c) == c - n * Rounds(n, c)

\* 15 bits, in steps of 255, 15 and 1.
LongRuns(x, c) ==
  LET a == Loop(Long, 255, Rounds(255, c), x)
      c2 == Left(255, c)
      b == Loop(Long, 15, Rounds(15, c2), a)
  IN  Loop(Long, 1, Left(15, c2), b) \cap Register

LongCount(c) == IF c >= 32767 THEN c % 32767 ELSE c

\* Faulty variant: the register is not converted to the Galois form first.
LongJumpUnconverted(r, c) == LongRuns(r, LongCount(c))

\* The Galois form has bit 0 again as bit 15.
LongJump(r, c) ==
  LongRuns(SymDiff(r, IF 0 \in r THEN {15} ELSE {}), LongCount(c))

\* 7 bits and one of history, in steps of 7 and 1; the last bits repeat as the upper.
ShortJump(r, c) ==
  LET c1 == IF c > 127 THEN (IF c % 127 = 0 THEN 127 ELSE c % 127) ELSE c
      history == ShiftedLeft(r, 1) \cap 0 .. 7
      galois == SymDiff(history, IF 1 \in history THEN {8} ELSE {})
      a == Loop(Short, 7, Rounds(7, c1), galois)
      b == Loop(Short, 1, Left(7, c1), a)
  IN  (ShiftedLeft(b, 7) \cap 7 .. 14) \cup (ShiftedRight(b, 1) \cap 0 .. 6)

run_lfsr(r, m, c) ==
  IF m = Long THEN LongJump(r, c)
  ELSE IF c < 8 THEN Loop(m, 0, c, r)
  ELSE ShortJump(r, c)

-----------------------------------------------------------------------------
LfsrInit ==
  /\ seed \in Seeds /\ mask \in {Long, Short}
  /\ count = 0 /\ bits = seed

\* One more clock.
LfsrNext ==
  /\ count < MaxCount
  /\ count' = count + 1
  /\ bits' = ClockOnce(bits, mask)
  /\ UNCHANGED <<seed, mask>>

LfsrSpec == LfsrInit /\ [][LfsrNext]_lfsrVars

\* Jumping over any number of clocks leaves the register as clocking it would
\* have, for both widths, from states the other width left behind too.
JumpsAgree == run_lfsr(seed, mask, count) = bits

=============================================================================

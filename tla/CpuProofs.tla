------------------------------ MODULE CpuProofs ------------------------------
(***************************************************************************)
(* Proofs about the arithmetic of the CPU and about the machine around it.  *)
(***************************************************************************)
EXTENDS Cpu, TLAPS

-----------------------------------------------------------------------------
(* Flags                                                                   *)

LEMMA FlagIsBit == ASSUME NEW c \in BOOLEAN PROVE Flag(c) \in 0 .. 1
BY DEF Flag

LEMMA SetFlags ==
    ASSUME NEW z \in 0 .. 1, NEW n \in 0 .. 1, NEW h \in 0 .. 1, NEW c \in 0 .. 1
    PROVE  /\ Set(z, n, h, c) \in FlagValues
           /\ Set(z, n, h, c).Z = z /\ Set(z, n, h, c).N = n
           /\ Set(z, n, h, c).H = h /\ Set(z, n, h, c).C = c
BY DEF Set, FlagValues

LEMMA Results ==
    ASSUME NEW v, NEW f PROVE Result(v, f).val = v /\ Result(v, f).flags = f
BY DEF Result

-----------------------------------------------------------------------------
(* 8-bit sums and differences                                              *)

\* The carry of a sum, found from the wrapped value as ADC_8 does.
LEMMA CarryOfSum ==
    ASSUME NEW a \in Byte, NEW b \in Byte, NEW c \in 0 .. 1, NEW v, v = (a + b + c) % 256
    PROVE  v \in Byte /\ v + 256 * Flag(v < b \/ (c = 1 /\ v = b)) = a + b + c
<1>1. v \in Byte BY DEF Byte
<1>2. v + 256 * Flag(v < b \/ (c = 1 /\ v = b)) = a + b + c BY DEF Byte, Flag
<1> QED BY <1>1, <1>2

LEMMA HalfCarryOfSum ==
    ASSUME NEW a \in Byte, NEW b \in Byte, NEW c \in 0 .. 1, NEW v, v = (a + b + c) % 256
    PROVE  Nibble(v) + 16 * Flag(Nibble(a) + Nibble(b) + c > 15) = Nibble(a) + Nibble(b) + c
BY DEF Byte, Flag, Nibble

LEMMA BorrowOfDifference ==
    ASSUME NEW a \in Byte, NEW b \in Byte, NEW c \in 0 .. 1, NEW v, v = (a - b - c) % 256
    PROVE  v \in Byte /\ v - 256 * Flag(a - b - c < 0) = a - b - c
<1>1. v \in Byte BY DEF Byte
<1>2. v - 256 * Flag(a - b - c < 0) = a - b - c BY DEF Byte, Flag
<1> QED BY <1>1, <1>2

LEMMA HalfBorrowOfDifference ==
    ASSUME NEW a \in Byte, NEW b \in Byte, NEW c \in 0 .. 1, NEW v, v = (a - b - c) % 256
    PROVE  Nibble(v) - 16 * Flag(Nibble(a) - Nibble(b) - c < 0) = Nibble(a) - Nibble(b) - c
BY DEF Byte, Flag, Nibble

\* ADD and ADC return the exact sum, carry and half carry included.
Added(r, a, b, c) ==
    /\ r.val \in Byte /\ r.flags \in FlagValues /\ r.flags.N = 0
    /\ r.val + 256 * r.flags.C = a + b + c
    /\ Nibble(r.val) + 16 * r.flags.H = Nibble(a) + Nibble(b) + c
    /\ r.flags.Z = 1 <=> r.val = 0

LEMMA SumWithCarryIsExact ==
    ASSUME NEW a \in Byte, NEW b \in Byte, NEW f \in FlagValues
    PROVE  Added(ADC_8(a, b, f), a, b, f.C)
<1> DEFINE v == (a + b + f.C) % 256
           h == Flag(Nibble(a) + Nibble(b) + f.C > 15)
           c == Flag(v < b \/ (f.C = 1 /\ v = b))
           r == ADC_8(a, b, f)
<1>1. f.C \in 0 .. 1 BY DEF FlagValues
<1>2. v \in Byte /\ v + 256 * c = a + b + f.C BY <1>1, CarryOfSum
<1>3. Nibble(v) + 16 * h = Nibble(a) + Nibble(b) + f.C BY <1>1, HalfCarryOfSum
<1>4. r.val = v /\ r.flags = Set(Zero(v), 0, h, c) BY Results DEF ADC_8
<1>5. Zero(v) \in 0 .. 1 /\ h \in 0 .. 1 /\ c \in 0 .. 1 BY DEF Zero, Flag
<1>6. /\ r.flags \in FlagValues /\ r.flags.Z = Zero(v) /\ r.flags.N = 0
      /\ r.flags.H = h /\ r.flags.C = c
  BY <1>4, <1>5, SetFlags
<1>7. Zero(v) = 1 <=> v = 0 BY DEF Zero, Flag
<1> QED BY <1>2, <1>3, <1>4, <1>6, <1>7 DEF Added

LEMMA SumIsExact ==
    ASSUME NEW a \in Byte, NEW b \in Byte, NEW f \in FlagValues
    PROVE  Added(ADD_8(a, b, f), a, b, 0)
<1> DEFINE g == Set(0, 0, 0, 0)
<1>1. g \in FlagValues /\ g.C = 0 BY SetFlags
<1>2. Added(ADC_8(a, b, g), a, b, 0) BY <1>1, SumWithCarryIsExact
<1>3. ADD_8(a, b, f) = ADC_8(a, b, g) BY <1>1 DEF ADD_8, ADC_8, Byte, Nibble
<1> QED BY <1>2, <1>3

\* SUB and SBC return the exact difference.
Subtracted(r, a, b, c) ==
    /\ r.val \in Byte /\ r.flags \in FlagValues /\ r.flags.N = 1
    /\ r.val - 256 * r.flags.C = a - b - c
    /\ Nibble(r.val) - 16 * r.flags.H = Nibble(a) - Nibble(b) - c
    /\ r.flags.Z = 1 <=> r.val = 0

LEMMA DifferenceWithBorrowIsExact ==
    ASSUME NEW a \in Byte, NEW b \in Byte, NEW f \in FlagValues
    PROVE  Subtracted(SBC_8(a, b, f), a, b, f.C)
<1> DEFINE v == (a - b - f.C) % 256
           h == Flag(Nibble(a) - Nibble(b) - f.C < 0)
           c == Flag(a - b - f.C < 0)
           r == SBC_8(a, b, f)
<1>1. f.C \in 0 .. 1 BY DEF FlagValues
<1>2. v \in Byte /\ v - 256 * c = a - b - f.C BY <1>1, BorrowOfDifference
<1>3. Nibble(v) - 16 * h = Nibble(a) - Nibble(b) - f.C BY <1>1, HalfBorrowOfDifference
<1>4. r.val = v /\ r.flags = Set(Zero(v), 1, h, c) BY Results DEF SBC_8
<1>5. Zero(v) \in 0 .. 1 /\ h \in 0 .. 1 /\ c \in 0 .. 1 BY DEF Zero, Flag
<1>6. /\ r.flags \in FlagValues /\ r.flags.Z = Zero(v) /\ r.flags.N = 1
      /\ r.flags.H = h /\ r.flags.C = c
  BY <1>4, <1>5, SetFlags
<1>7. Zero(v) = 1 <=> v = 0 BY DEF Zero, Flag
<1> QED BY <1>2, <1>3, <1>4, <1>6, <1>7 DEF Subtracted

LEMMA DifferenceIsExact ==
    ASSUME NEW a \in Byte, NEW b \in Byte, NEW f \in FlagValues
    PROVE  Subtracted(SUB_8(a, b, f), a, b, 0)
<1> DEFINE g == Set(0, 0, 0, 0)
<1>1. g \in FlagValues /\ g.C = 0 BY SetFlags
<1>2. Subtracted(SBC_8(a, b, g), a, b, 0) BY <1>1, DifferenceWithBorrowIsExact
<1>3. /\ Zero((a - b - 0) % 256) = Flag(a = b) /\ (a - b - 0) % 256 = (a - b) % 256
      /\ Flag(a - b - 0 < 0) = Flag(a < b)
      /\ Flag(Nibble(a) - Nibble(b) - 0 < 0) = Flag(Nibble(a) < Nibble(b))
  <2>1. (a - b) % 256 = 0 <=> a = b
    <3>1. CASE a < b
      <4>1. a - b + 256 \in 1 .. 255 /\ a - b = (a - b + 256) - 256 BY <3>1 DEF Byte
      <4>2. (a - b) % 256 = a - b + 256 BY <4>1 DEF Byte
      <4> QED BY <3>1, <4>1, <4>2 DEF Byte
    <3>2. CASE a >= b
      <4>1. (a - b) % 256 = a - b BY <3>2 DEF Byte
      <4> QED BY <4>1 DEF Byte
    <3> QED BY <3>1, <3>2 DEF Byte
  <2>2. a - b - 0 = a - b BY DEF Byte
  <2>3. a - b < 0 <=> a < b BY DEF Byte
  <2>4. Nibble(a) - Nibble(b) - 0 < 0 <=> Nibble(a) < Nibble(b) BY DEF Byte, Nibble
  <2> QED BY <2>1, <2>2, <2>3, <2>4 DEF Zero, Flag
<1>4. SUB_8(a, b, f) = SBC_8(a, b, g) BY <1>1, <1>3 DEF SUB_8, SBC_8
<1> QED BY <1>2, <1>4

-----------------------------------------------------------------------------
(* 16-bit sums                                                             *)

LEMMA WordSumIsExact ==
    ASSUME NEW a \in Word, NEW b \in Word, NEW f \in FlagValues
    PROVE  LET r == ADD_16(a, b, f)
           IN  /\ r.val \in Word /\ r.flags \in FlagValues
               /\ r.val + 65536 * r.flags.C = a + b
               /\ (r.val % 4096) + 4096 * r.flags.H = (a % 4096) + (b % 4096)
<1> DEFINE v == (a + b) % 65536
           h == Flag((a % 4096) + (b % 4096) > 4095)
           c == Flag(65535 - a < b)
           r == ADD_16(a, b, f)
<1>1. v \in Word BY DEF Word
<1>2. v + 65536 * c = a + b BY DEF Word, Flag
<1>3. (v % 4096) + 4096 * h = (a % 4096) + (b % 4096) BY DEF Word, Flag
<1>4. r.val = v /\ r.flags = Set(f.Z, 0, h, c) BY Results DEF ADD_16
<1>5. f.Z \in 0 .. 1 /\ h \in 0 .. 1 /\ c \in 0 .. 1 BY DEF FlagValues, Flag
<1>6. r.flags \in FlagValues /\ r.flags.H = h /\ r.flags.C = c BY <1>4, <1>5, SetFlags
<1> QED BY <1>1, <1>2, <1>3, <1>4, <1>6

\* Why the exclusive or works: bit k of it is the carry into bit k, and a signed byte
\* and the byte itself are equal modulo 256, so bits 4 and 8 are the carries of the
\* unsigned sum of the low bytes.
LEMMA OffsetIsExact ==
    ASSUME NEW sp \in Word, NEW n \in Byte, NEW f \in FlagValues
    PROVE  LET r == OffsetSP(sp, n, f)
           IN  /\ r.val \in Word /\ r.flags \in FlagValues
               /\ (r.val % 256) + 256 * r.flags.C = (sp % 256) + n
               /\ (r.val % 16) + 16 * r.flags.H = (sp % 16) + (n % 16)
<1> DEFINE s == SIGNED_IM_8_BIT(n)
           v == (sp + s) % 65536
           h == Parity(16, sp, s % 65536, v)
           c == Parity(256, sp, s % 65536, v)
           r == OffsetSP(sp, n, f)
<1>1. s \in -128 .. 127 /\ s % 256 = n BY DEF Byte, SIGNED_IM_8_BIT
<1>2. s % 16 = n % 16
  <2>1. n < 128 => s = n BY DEF Byte, SIGNED_IM_8_BIT
  <2>2. n >= 128 => s = n - 256 BY DEF Byte, SIGNED_IM_8_BIT
  <2> QED BY <2>1, <2>2 DEF Byte
<1> HIDE DEF s
<1>3. v \in Word BY <1>1 DEF Word
<1>4. c = (IF (sp % 256) + (s % 256) > 255 THEN 1 ELSE 0) BY <1>1 DEF Word, Parity
<1>5. h = (IF (sp % 16) + (s % 16) > 15 THEN 1 ELSE 0) BY <1>1 DEF Word, Parity
<1>6. (v % 256) + 256 * c = (sp % 256) + (s % 256) BY <1>1, <1>4 DEF Word
<1>7. (v % 16) + 16 * h = (sp % 16) + (s % 16) BY <1>1, <1>5 DEF Word
<1>8. r.val = v /\ r.flags = Set(0, 0, h, c) BY Results DEF OffsetSP, s
<1>9. h \in 0 .. 1 /\ c \in 0 .. 1 BY <1>4, <1>5
<1>10. r.flags \in FlagValues /\ r.flags.H = h /\ r.flags.C = c BY <1>8, <1>9, SetFlags
<1> QED BY <1>1, <1>2, <1>3, <1>6, <1>7, <1>8, <1>10

-----------------------------------------------------------------------------
(* Decimal arithmetic                                                      *)

LEMMA Digits ==
    ASSUME NEW q \in 0 .. 9, NEW r \in 0 .. 9
    PROVE  (16 * q + r) % 16 = r /\ (16 * q + r) \div 16 = q
OBVIOUS

\* DAA after an exact sum of two decimal numbers.
LEMMA DecimalSum ==
    ASSUME NEW a \in Byte, NEW b \in Byte, NEW c \in 0 .. 1, IsBcd(a), IsBcd(b),
           NEW v \in Byte, NEW f \in FlagValues, f.N = 0,
           v + 256 * f.C = a + b + c, Nibble(v) + 16 * f.H = Nibble(a) + Nibble(b) + c
    PROVE  LET d == DAA(v, f)
           IN  /\ d.val \in Byte /\ d.flags \in FlagValues /\ d.flags.N = 0
               /\ IsBcd(d.val)
               /\ Decimal(d.val) + 100 * d.flags.C = Decimal(a) + Decimal(b) + c
<1> DEFINE low == Nibble(a) + Nibble(b) + c
           high == (a \div 16) + (b \div 16)
           tens == f.C = 1 \/ v > 153
           w == IF tens THEN (v + 96) % 256 ELSE v
           ones == f.H = 1 \/ Nibble(w) > 9
           x == IF ones THEN (w + 6) % 256 ELSE w
           d == DAA(v, f)
<1>1. low \in 0 .. 19 /\ high \in 0 .. 18 BY DEF IsBcd, Nibble, Byte
<1>2. v + 256 * f.C = 16 * high + low BY DEF Nibble, Byte
<1>3. f.C \in 0 .. 1 /\ f.H \in 0 .. 1 BY DEF FlagValues
<1>4. d.val = x /\ d.flags = Set(Zero(x), 0, 0, IF tens THEN 1 ELSE f.C) BY Results DEF DAA
<1>5. d.flags \in FlagValues /\ d.flags.N = 0 /\ d.flags.C = IF tens THEN 1 ELSE f.C
  BY <1>3, <1>4, SetFlags DEF Zero, Flag
<1>6. Decimal(a) + Decimal(b) + c = 10 * high + low BY DEF Decimal, Nibble, Byte
<1>7. Nibble(v) + 16 * f.H = low OBVIOUS
<1> HIDE DEF low, high
<1>8. Nibble(w) = Nibble(v) BY DEF Nibble, Byte
<1>9. ones <=> low > 9 BY <1>1, <1>3, <1>7, <1>8 DEF Nibble, Byte
<1>10. tens <=> 10 * high + low > 99
  BY <1>1, <1>2, <1>3 DEF Byte
<1>11. x \in Byte BY DEF Byte
<1>12. x + 160 * (IF tens THEN 1 ELSE f.C) = 16 * high + low + (IF ones THEN 6 ELSE 0)
  BY <1>1, <1>2, <1>3, <1>9, <1>10 DEF Byte
<1>13. CASE low > 9
  <2>1. x % 16 = low - 10 /\ x \div 16 = IF tens THEN high - 9 ELSE high + 1
    <3>1. CASE tens
      <4>1. x = 16 * (high - 9) + (low - 10) BY <1>1, <1>9, <1>11, <1>12, <1>13, <3>1 DEF Byte
      <4> QED BY <1>1, <1>13, <3>1, <4>1
    <3>2. CASE ~tens
      <4>1. f.C = 0 BY <1>3, <3>2
      <4>2. x = 16 * (high + 1) + (low - 10)
        BY <1>1, <1>9, <1>11, <1>12, <1>13, <3>2, <4>1 DEF Byte
      <4> QED BY <1>1, <1>13, <3>2, <4>2
    <3> QED BY <3>1, <3>2
  <2> QED BY <2>1, <1>1, <1>3, <1>4, <1>5, <1>6, <1>10, <1>11, <1>13 DEF IsBcd, Decimal
<1>14. CASE low <= 9
  <2>1. x % 16 = low /\ x \div 16 = IF tens THEN high - 10 ELSE high
    <3>1. CASE tens
      <4>1. x = 16 * (high - 10) + low BY <1>1, <1>9, <1>11, <1>12, <1>14, <3>1 DEF Byte
      <4> QED BY <1>1, <1>14, <3>1, <4>1
    <3>2. CASE ~tens
      <4>1. f.C = 0 BY <1>3, <3>2
      <4>2. x = 16 * high + low BY <1>1, <1>9, <1>11, <1>12, <1>14, <3>2, <4>1 DEF Byte
      <4> QED BY <1>1, <1>14, <3>2, <4>2
    <3> QED BY <3>1, <3>2
  <2> QED BY <2>1, <1>1, <1>3, <1>4, <1>5, <1>6, <1>10, <1>11, <1>14 DEF IsBcd, Decimal
<1> QED BY <1>1, <1>13, <1>14

\* DAA after an exact difference: the borrows say what to take back.
LEMMA DecimalDifference ==
    ASSUME NEW a \in Byte, NEW b \in Byte, NEW c \in 0 .. 1, IsBcd(a), IsBcd(b),
           NEW v \in Byte, NEW f \in FlagValues, f.N = 1,
           v - 256 * f.C = a - b - c, Nibble(v) - 16 * f.H = Nibble(a) - Nibble(b) - c
    PROVE  LET d == DAA(v, f)
           IN  /\ d.val \in Byte /\ d.flags \in FlagValues /\ d.flags.N = 1
               /\ IsBcd(d.val)
               /\ Decimal(d.val) - 100 * d.flags.C = Decimal(a) - Decimal(b) - c
<1> DEFINE low == Nibble(a) - Nibble(b) - c
           high == (a \div 16) - (b \div 16)
           back == IF f.H = 1 /\ f.C = 1 THEN 154
                   ELSE IF f.C = 1 THEN 160 ELSE IF f.H = 1 THEN 250 ELSE 0
           x == (v + back) % 256
           d == DAA(v, f)
<1>1. low \in -10 .. 9 /\ high \in -9 .. 9 BY DEF IsBcd, Nibble, Byte
<1>2. v - 256 * f.C = 16 * high + low BY DEF Nibble, Byte
<1>3. f.C \in 0 .. 1 /\ f.H \in 0 .. 1 BY DEF FlagValues
<1>4. d.val = x /\ d.flags = Set(Zero(x), 1, 0, f.C) BY Results DEF DAA
<1>5. d.flags \in FlagValues /\ d.flags.N = 1 /\ d.flags.C = f.C
  BY <1>3, <1>4, SetFlags DEF Zero, Flag
<1>6. Decimal(a) - Decimal(b) - c = 10 * high + low BY DEF Decimal, Nibble, Byte
<1>7. Nibble(v) - 16 * f.H = low OBVIOUS
<1> HIDE DEF low, high
<1>8. f.H = 1 <=> low < 0 BY <1>1, <1>3, <1>7 DEF Nibble, Byte
<1>9. f.C = 1 <=> 16 * high + low < 0 BY <1>1, <1>2, <1>3 DEF Byte
<1>10. x \in Byte BY DEF Byte
<1>11. x = 16 * high + low + 160 * f.C - 6 * f.H
  BY <1>1, <1>2, <1>3, <1>8, <1>9 DEF Byte
<1>12. CASE low < 0
  <2>1. x = 16 * (high - 1 + 10 * f.C) + (low + 10) BY <1>1, <1>3, <1>8, <1>11, <1>12
  <2>2. low + 10 \in 0 .. 9 /\ high - 1 + 10 * f.C \in 0 .. 9
    BY <1>1, <1>3, <1>9, <1>12
  <2>3. x % 16 = low + 10 /\ x \div 16 = high - 1 + 10 * f.C BY <2>1, <2>2, Digits
  <2> QED BY <2>2, <2>3, <1>1, <1>3, <1>4, <1>5, <1>6, <1>10 DEF IsBcd, Decimal
<1>13. CASE low >= 0
  <2>1. x = 16 * (high + 10 * f.C) + low BY <1>1, <1>3, <1>8, <1>11, <1>13
  <2>2. low \in 0 .. 9 /\ high + 10 * f.C \in 0 .. 9 BY <1>1, <1>3, <1>9, <1>13
  <2>3. x % 16 = low /\ x \div 16 = high + 10 * f.C BY <2>1, <2>2, Digits
  <2> QED BY <2>2, <2>3, <1>1, <1>3, <1>4, <1>5, <1>6, <1>10 DEF IsBcd, Decimal
<1> QED BY <1>1, <1>12, <1>13

-----------------------------------------------------------------------------
(* Every operation returns a byte and flags                                *)

IsResult(r) == r.val \in Byte /\ r.flags \in FlagValues

LEMMA ByteAndFlags ==
    ASSUME NEW v \in Byte, NEW z \in 0 .. 1, NEW n \in 0 .. 1, NEW h \in 0 .. 1, NEW c \in 0 .. 1
    PROVE  IsResult(Result(v, Set(z, n, h, c)))
BY SetFlags, Results DEF IsResult

LEMMA BitsOfFlags ==
    ASSUME NEW f \in FlagValues
    PROVE  f.Z \in 0 .. 1 /\ f.N \in 0 .. 1 /\ f.H \in 0 .. 1 /\ f.C \in 0 .. 1
BY DEF FlagValues

LEMMA OfBitsType == ASSUME NEW bits PROVE OfBits(bits) \in Byte
<1> DEFINE w(i) == IF i \in bits THEN Weights[i + 1] ELSE 0
<1>1. /\ w(0) \in {0, 1} /\ w(1) \in {0, 2} /\ w(2) \in {0, 4} /\ w(3) \in {0, 8}
      /\ w(4) \in {0, 16} /\ w(5) \in {0, 32} /\ w(6) \in {0, 64} /\ w(7) \in {0, 128}
  BY DEF Weights
<1>2. OfBits(bits) = w(0) + w(1) + w(2) + w(3) + w(4) + w(5) + w(6) + w(7) BY DEF OfBits
<1> HIDE DEF w
<1> QED BY <1>1, <1>2 DEF Byte

LEMMA StepType ==
    ASSUME NEW v \in Byte, NEW f \in FlagValues
    PROVE  IsResult(INC_8(v, f)) /\ IsResult(DEC_8(v, f))
<1>1. (v + 1) % 256 \in Byte /\ (v - 1) % 256 \in Byte BY DEF Byte
<1> QED BY <1>1, BitsOfFlags, ByteAndFlags, FlagIsBit DEF INC_8, DEC_8, Zero, Flag

LEMMA ShiftedType ==
    ASSUME NEW v \in Byte, NEW c \in 0 .. 1 PROVE IsResult(Shifted(v, c))
BY ByteAndFlags DEF Shifted, Zero, Flag

LEMMA RotationType ==
    ASSUME NEW v \in Byte, NEW f \in FlagValues
    PROVE  /\ IsResult(RLC_N(v, f)) /\ IsResult(RL_N(v, f)) /\ IsResult(RRC_N(v, f))
           /\ IsResult(RR_N(v, f)) /\ IsResult(SLA_N(v, f)) /\ IsResult(SRA_N(v, f))
           /\ IsResult(SRL_N(v, f)) /\ IsResult(SWAP_n(v, f))
<1>1. f.C \in 0 .. 1 BY BitsOfFlags
<1>2. /\ ((2 * v) % 256) + v \div 128 \in Byte /\ ((2 * v) % 256) + f.C \in Byte
      /\ v \div 2 + 128 * (v % 2) \in Byte /\ v \div 2 + 128 * f.C \in Byte
      /\ (2 * v) % 256 \in Byte /\ v \div 2 + 128 * (v \div 128) \in Byte
      /\ v \div 2 \in Byte /\ v \div 128 \in 0 .. 1 /\ v % 2 \in 0 .. 1
  BY <1>1, SMTT(40) DEF Byte
<1>3. 16 * Nibble(v) + v \div 16 \in Byte BY DEF Byte, Nibble
<1>4. Flag(v > 127) \in 0 .. 1 BY DEF Flag
<1> QED BY <1>2, <1>3, <1>4, ShiftedType
         DEF RLC_N, RL_N, RRC_N, RR_N, SLA_N, SRA_N, SRL_N, SWAP_n

LEMMA LogicType ==
    ASSUME NEW a \in Byte, NEW b \in Byte, NEW f \in FlagValues, NEW i
    PROVE  /\ IsResult(AND_8(a, b, f)) /\ IsResult(OR_8(a, b, f)) /\ IsResult(XOR_8(a, b, f))
           /\ IsResult(CP_8(a, b, f))
           /\ BIT_b_r(a, i, f).flags \in FlagValues
           /\ IsResult(SET_b_r(a, i, f)) /\ IsResult(RES_b_r(a, i, f))
<1>1. IsResult(AND_8(a, b, f)) BY OfBitsType, ByteAndFlags DEF AND_8, Zero, Flag
<1>2. IsResult(OR_8(a, b, f)) BY OfBitsType, ByteAndFlags DEF OR_8, Zero, Flag
<1>3. IsResult(XOR_8(a, b, f)) BY OfBitsType, ByteAndFlags DEF XOR_8, Zero, Flag
<1>4. IsResult(CP_8(a, b, f))
  BY DifferenceIsExact, Results DEF CP_8, IsResult, Subtracted
<1>5. BIT_b_r(a, i, f).flags \in FlagValues
  BY BitsOfFlags, SetFlags, Results DEF BIT_b_r, Flag
<1>6. IsResult(SET_b_r(a, i, f)) BY OfBitsType, Results DEF SET_b_r, IsResult
<1>7. IsResult(RES_b_r(a, i, f)) BY OfBitsType, Results DEF RES_b_r, IsResult
<1> QED BY <1>1, <1>2, <1>3, <1>4, <1>5, <1>6, <1>7

LEMMA AdjustType ==
    ASSUME NEW a \in Byte, NEW f \in FlagValues
    PROVE  /\ IsResult(DAA(a, f)) /\ IsResult(CPL(a, f)) /\ IsResult(SCF(a, f))
           /\ IsResult(CCF(a, f))
<1>1. IsResult(DAA(a, f))
  <2> DEFINE tens == f.C = 1 \/ a > 153
             high == IF tens THEN (a + 96) % 256 ELSE a
             ones == f.H = 1 \/ Nibble(high) > 9
             added == IF ones THEN (high + 6) % 256 ELSE high
             taken1 == (a + (IF f.H = 1 /\ f.C = 1 THEN 154 ELSE
                             IF f.C = 1 THEN 160 ELSE IF f.H = 1 THEN 250 ELSE 0)) % 256
  <2>1. high \in Byte BY DEF Byte
  <2>2. added \in Byte BY <2>1 DEF Byte
  <2>3. taken1 \in Byte BY DEF Byte
  <2>4. f.C \in 0 .. 1 /\ (IF tens THEN 1 ELSE f.C) \in 0 .. 1 BY BitsOfFlags
  <2>5. Zero(added) \in 0 .. 1 /\ Zero(taken1) \in 0 .. 1 BY DEF Zero, Flag
  <2>6. DAA(a, f) = IF f.N = 0
                    THEN Result(added, Set(Zero(added), 0, 0, IF tens THEN 1 ELSE f.C))
                    ELSE Result(taken1, Set(Zero(taken1), 1, 0, f.C))
    BY DEF DAA
  <2> HIDE DEF tens, added, taken1
  <2> QED BY <2>2, <2>3, <2>4, <2>5, <2>6, ByteAndFlags
<1>2. 255 - a \in Byte /\ 1 - f.C \in 0 .. 1 BY BitsOfFlags DEF Byte
<1> QED BY <1>1, <1>2, BitsOfFlags, ByteAndFlags DEF CPL, SCF, CCF

\* The operations that instructions choose from.
LEMMA Alu8Type ==
    ASSUME NEW i \in 0 .. 7, NEW x \in Byte, NEW y \in Byte, flags \in FlagValues
    PROVE  IsResult(Alu8(i, x, y))
<1>1. /\ IsResult(ADD_8(x, y, flags)) /\ IsResult(ADC_8(x, y, flags))
      /\ IsResult(SUB_8(x, y, flags)) /\ IsResult(SBC_8(x, y, flags))
  BY SumIsExact, SumWithCarryIsExact, DifferenceIsExact, DifferenceWithBorrowIsExact
     DEF IsResult, Added, Subtracted
<1>2. /\ IsResult(AND_8(x, y, flags)) /\ IsResult(XOR_8(x, y, flags))
      /\ IsResult(OR_8(x, y, flags)) /\ IsResult(CP_8(x, y, flags))
  BY LogicType
<1> QED BY <1>1, <1>2 DEF Alu8

LEMMA RotatedType ==
    ASSUME NEW n \in 0 .. 7, NEW v \in Byte, flags \in FlagValues
    PROVE  IsResult(Rotated(n, v))
BY RotationType DEF Rotated

-----------------------------------------------------------------------------
(* Memory and operands                                                     *)

MemOK(m) == DOMAIN m \subseteq Word /\ \A a \in DOMAIN m : m[a] \in Byte

LEMMA ByteBounds == \A v : v \in Byte <=> v \in Nat /\ v < 256
BY DEF Byte

LEMMA WordOfBytes ==
    ASSUME NEW h \in Byte, NEW l \in Byte PROVE 256 * h + l \in Word
BY DEF Byte, Word

LEMMA BytesOfWord ==
    ASSUME NEW w \in Word PROVE w \div 256 \in Byte /\ w % 256 \in Byte
BY DEF Byte, Word

LEMMA Wraps == ASSUME NEW n \in Int PROVE n % 65536 \in Word
BY DEF Word

LEMMA GetType ==
    ASSUME NEW m, MemOK(m), NEW addr \in Int
    PROVE  get_mem(m, addr) \in Byte /\ get_mem_16(m, addr) \in Word
<1>1. \A n : get_mem(m, n) \in Byte BY DEF get_mem, MemOK, Byte
<1> QED BY <1>1, WordOfBytes DEF get_mem_16

LEMMA SetType ==
    ASSUME NEW m, MemOK(m), NEW addr \in Int, NEW v \in Byte
    PROVE  MemOK(set_mem(m, addr, v))
<1> DEFINE a == addr % 65536
           n == [x \in DOMAIN m \cup {a} |-> IF x = a THEN v ELSE m[x]]
<1>1. a \in Word BY Wraps
<1>2. MemOK(n) BY <1>1 DEF MemOK
<1>3. set_mem(m, addr, v) = IF a < RomEnd THEN m ELSE n BY DEF set_mem
<1> QED BY <1>2, <1>3

LEMMA Set16Type ==
    ASSUME NEW m, MemOK(m), NEW addr \in Int, NEW w \in Word
    PROVE  MemOK(set_mem_16(m, addr, w))
<1>1. MemOK(set_mem(m, addr + 1, w \div 256)) BY BytesOfWord, SetType
<1> QED BY <1>1, BytesOfWord, SetType DEF set_mem_16

Machine ==
    /\ reg \in [Names -> Byte] /\ flags \in FlagValues /\ SP \in Word /\ PC \in Word
    /\ MemOK(mem)

LEMMA OperandTypes ==
    ASSUME Machine
    PROVE  /\ Op \in Byte /\ PairOf \in 0 .. 3 /\ After \in Word
           /\ Imm8 \in Byte /\ Ext \in Byte /\ HL \in Word
           /\ \A m : MemOK(m) => Imm16(m) \in Word
           /\ \A i \in 0 .. 7 : Get(i) \in Byte
           /\ \A i \in 0 .. 3 : Get16(i) \in Word
<1>1. Op \in Byte BY GetType DEF Machine, Op, Word
<1>2. PairOf \in 0 .. 3 BY <1>1 DEF PairOf, Byte
<1>3. words \in 1 .. 3 BY DEF words
<1>4. After \in Word
  <2>1. PC - Flag(skip_bug) + words \in Int BY <1>3 DEF Machine, Word, Flag
  <2> QED BY <2>1, Wraps DEF After
<1>5. After - 1 \in Int /\ After - 2 \in Int BY <1>4 DEF Word
<1>6. Imm8 \in Byte /\ Ext \in Byte BY <1>5, GetType DEF Machine, Imm8, Ext
<1>7. \A m : MemOK(m) => Imm16(m) \in Word BY <1>5, GetType, WordOfBytes DEF Imm16
<1>8. \A h \in Names, l \in Names : Pair(h, l) \in Word BY WordOfBytes DEF Machine, Pair
<1>9. HL \in Word BY <1>8 DEF HL, Names
<1>10. \A i \in 0 .. 7 : Get(i) \in Byte
  <2> TAKE i \in 0 .. 7
  <2>1. CASE i = Memory BY <2>1, <1>9, GetType DEF Get, Machine, Word
  <2>2. CASE i # Memory
    <3>1. Operands[i + 1] \in Names BY <2>2 DEF Operands, Names, Memory
    <3> QED BY <3>1, <2>2 DEF Get, Machine
  <2> QED BY <2>1, <2>2
<1>11. \A i \in 0 .. 3 : Get16(i) \in Word
  <2> TAKE i \in 0 .. 3
  <2>1. i # 3 => HighOf[i + 1] \in Names /\ LowOf[i + 1] \in Names
    BY DEF HighOf, LowOf, Names
  <2> QED BY <2>1, <1>8 DEF Get16, Machine
<1> QED BY <1>1, <1>2, <1>4, <1>6, <1>7, <1>9, <1>10, <1>11

LEMMA PutType ==
    ASSUME Machine, NEW i \in 0 .. 7, NEW v \in Byte, Put(i, v)
    PROVE  reg' \in [Names -> Byte] /\ MemOK(mem')
<1>1. CASE i = Memory BY <1>1, OperandTypes, SetType DEF Put, Machine, Word
<1>2. CASE i # Memory
  <2>1. reg' \in [Names -> Byte] /\ mem' = mem BY <1>2 DEF Put, Machine
  <2> QED BY <2>1 DEF Machine
<1> QED BY <1>1, <1>2

LEMMA PairTypes ==
    ASSUME Machine, NEW w \in Word
    PROVE  /\ \A h \in Names, l \in Names : WithPair(h, l, w) \in [Names -> Byte]
           /\ \A i \in 0 .. 3 : Put16(i, w) => reg' \in [Names -> Byte] /\ SP' \in Word
<1>1. \A h \in Names, l \in Names : WithPair(h, l, w) \in [Names -> Byte]
  BY BytesOfWord DEF WithPair, Machine
<1>2. \A i \in 0 .. 2 : HighOf[i + 1] \in Names /\ LowOf[i + 1] \in Names
  BY DEF HighOf, LowOf, Names
<1>3. ASSUME NEW i \in 0 .. 3, Put16(i, w) PROVE reg' \in [Names -> Byte] /\ SP' \in Word
  <2>1. CASE i = 3 BY <1>3, <2>1 DEF Put16, Machine
  <2>2. CASE i # 3
    <3>1. i \in 0 .. 2 BY <2>2
    <3>2. reg' = WithPair(HighOf[i + 1], LowOf[i + 1], w) /\ SP' = SP
      BY <1>3, <2>2 DEF Put16
    <3> QED BY <3>1, <3>2, <1>1, <1>2 DEF Machine
  <2> QED BY <2>1, <2>2
<1> QED BY <1>1, <1>3

LEMMA StackTypes ==
    ASSUME Machine
    PROVE  /\ \A w \in Word : Pushed(w) => SP' \in Word /\ MemOK(mem')
           /\ Popped => SP' \in Word
           /\ get_mem_16(mem, SP) \in Word
<1>1. SP \in Int /\ SP - 2 \in Int /\ SP + 2 \in Int BY DEF Machine, Word
<1>2. (SP - 2) % 65536 \in Word /\ (SP + 2) % 65536 \in Word BY <1>1, Wraps
<1> QED BY <1>1, <1>2, Set16Type, GetType DEF Machine, Pushed, Popped

-----------------------------------------------------------------------------
(* Every instruction leaves a machine                                      *)

LEMMA LoadSteps ==
    ASSUME Machine, Loads
    PROVE  Machine' /\ cycles' = cycles
<1> USE OperandTypes
<1>0. PC' = After /\ cycles' = cycles
  BY DEF Loads, LD_r_r, LD_8_IM, LD_A_mem, LD_A_nn, LD_16_IM, LD_nn_SP, LD_SP_HL, PUSH, POP,
         INC_DEC_16, Straight
<1>1. CASE LD_r_r
  <2>1. (Op \div 8) % 8 \in 0 .. 7 /\ Op % 8 \in 0 .. 7 BY DEF Byte
  <2>2. Get(Op % 8) \in Byte BY <2>1
  <2> QED BY <1>0, <1>1, <2>1, <2>2, PutType DEF LD_r_r, Machine, MemOK
<1>2. CASE LD_8_IM
  <2>1. (Op \div 8) % 8 \in 0 .. 7 BY DEF Byte
  <2> QED BY <1>0, <1>2, <2>1, PutType DEF LD_8_IM, Machine, MemOK
<1>3. CASE LD_A_mem
  <2> DEFINE addr == IF PairOf < 2 THEN Get16(PairOf) ELSE HL
             moved == CASE PairOf = 2 -> WithPair("H", "L", (HL + 1) % 65536)
                        [] PairOf = 3 -> WithPair("H", "L", (HL - 1) % 65536)
                        [] OTHER -> reg
  <2>1. addr \in Word OBVIOUS
  <2>2. (HL + 1) % 65536 \in Word /\ (HL - 1) % 65536 \in Word BY Wraps DEF Word
  <2>3. moved \in [Names -> Byte] BY <2>2, PairTypes DEF Names, Machine
  <2> HIDE DEF addr, moved
  <2>4. reg["A"] \in Byte BY DEF Machine, Names
  <2>5. CASE Op % 16 = 2
    <3>1. mem' = set_mem(mem, addr, reg["A"]) /\ reg' = moved
      BY <1>3, <2>5 DEF LD_A_mem, addr, moved
    <3>2. MemOK(mem') BY <3>1, <2>1, <2>4, SetType DEF Machine, Word
    <3> QED BY <1>0, <1>3, <2>3, <3>1, <3>2 DEF LD_A_mem, Machine
  <2>6. CASE Op % 16 # 2
    <3>1. reg' = [moved EXCEPT !["A"] = get_mem(mem, addr)] /\ mem' = mem
      BY <1>3, <2>6 DEF LD_A_mem, addr, moved
    <3>2. get_mem(mem, addr) \in Byte BY <2>1, GetType DEF Machine, Word
    <3>3. reg' \in [Names -> Byte] BY <2>3, <3>1, <3>2
    <3>4. MemOK(mem') BY <3>1 DEF Machine
    <3> QED BY <1>0, <1>3, <3>3, <3>4 DEF LD_A_mem, Machine
  <2> QED BY <2>5, <2>6
<1>4. CASE LD_A_nn
  <2> DEFINE addr == CASE Op \in {\hEA, \hFA} -> Imm16(mem)
                       [] Op \in {\hE0, \hF0} -> \hFF00 + Imm8
                       [] OTHER -> \hFF00 + reg["C"]
  <2>1. reg["A"] \in Byte /\ reg["C"] \in Byte BY DEF Machine, Names
  <2>2. Imm16(mem) \in Int BY DEF Machine, Word
  <2>3. addr \in Int
    <3>1. \hFF00 + reg["C"] \in Int BY <2>1, SMT DEF Byte
    <3>2. \hFF00 + Imm8 \in Int BY SMT DEF Byte
    <3> QED BY <2>2, <3>1, <3>2, SMTT(30)
  <2>4. get_mem(mem, addr) \in Byte
    BY <2>3, GetType DEF Machine
  <2>5. MemOK(set_mem(mem, addr, reg["A"])) BY <2>1, <2>3, SetType DEF Machine
  <2>6. \/ mem' = set_mem(mem, addr, reg["A"]) /\ reg' = reg
        \/ reg' = [reg EXCEPT !["A"] = get_mem(mem, addr)] /\ mem' = mem
    BY <1>4 DEF LD_A_nn
  <2> HIDE DEF addr
  <2> QED BY <1>0, <1>4, <2>4, <2>5, <2>6 DEF LD_A_nn, Machine
<1>5. CASE LD_16_IM
  <2>1. Imm16(mem) \in Word BY DEF Machine
  <2> QED BY <1>0, <1>5, <2>1, PairTypes DEF LD_16_IM, Machine, MemOK
<1>6. CASE LD_nn_SP
  <2>1. MemOK(mem') BY <1>6, Set16Type DEF LD_nn_SP, Machine, Word
  <2> QED BY <1>0, <1>6, <2>1 DEF LD_nn_SP, Machine
<1>7. CASE LD_SP_HL
  BY <1>0, <1>7 DEF LD_SP_HL, Machine, MemOK
<1>8. CASE PUSH
  <2>1. 256 * reg["A"] + FByte \in Word
    <3>1. FByte \in Byte BY BitsOfFlags DEF FByte, Machine, Byte
    <3> QED BY <3>1, WordOfBytes DEF Machine, Names
  <2>2. PICK w \in Word : Pushed(w) BY <1>8, <2>1 DEF PUSH
  <2> QED BY <1>0, <1>8, <2>2, StackTypes DEF PUSH, Machine
<1>9. CASE POP
  <2> DEFINE val == get_mem_16(mem, SP)
  <2>1. val \in Word /\ SP' \in Word BY <1>9, StackTypes DEF POP
  <2>2. val \div 256 \in Byte /\ val % 256 \in Byte BY <2>1, BytesOfWord
  <2>3. OfFByte(val % 256) \in FlagValues
    <3>1. \A b \in Byte : /\ b \div 128 \in 0 .. 1 /\ (b \div 64) % 2 \in 0 .. 1
                          /\ (b \div 32) % 2 \in 0 .. 1 /\ (b \div 16) % 2 \in 0 .. 1
      BY DEF Byte
    <3> QED BY <2>2, <3>1 DEF OfFByte, FlagValues
  <2>4. Op # \hF1 => PairOf + 1 \in 1 .. 3
    <3>1. In(\hC1, 16, \hF1) BY <1>9 DEF POP
    <3>2. Op \in 193 .. 241 /\ (Op - 193) % 16 = 0 BY <3>1 DEF In
    <3> QED BY <3>2 DEF PairOf
  <2>5. Op # \hF1 => HighOf[PairOf + 1] \in Names /\ LowOf[PairOf + 1] \in Names
    BY <2>4 DEF HighOf, LowOf, Names
  <2>6. reg' \in [Names -> Byte] /\ flags' \in FlagValues
    <3>1. CASE Op = \hF1 BY <1>9, <2>2, <2>3, <3>1 DEF POP, Machine
    <3>2. CASE Op # \hF1 BY <1>9, <2>1, <2>5, <3>2, PairTypes DEF POP, Machine
    <3> QED BY <3>1, <3>2
  <2> QED BY <1>0, <1>9, <2>1, <2>6 DEF POP, Machine, MemOK
<1>10. CASE INC_DEC_16
  <2> DEFINE w == (Get16(PairOf) + (IF Op % 16 = 3 THEN 1 ELSE -1)) % 65536
  <2>1. Get16(PairOf) \in Word OBVIOUS
  <2>2. w \in Word BY <2>1, Wraps DEF Word
  <2>3. Put16(PairOf, w) BY <1>10 DEF INC_DEC_16
  <2> HIDE DEF w
  <2> QED BY <1>0, <1>10, <2>2, <2>3, PairTypes DEF INC_DEC_16, Machine, MemOK
<1> QED BY <1>1, <1>2, <1>3, <1>4, <1>5, <1>6, <1>7, <1>8, <1>9, <1>10 DEF Loads

LEMMA ExtendedSteps ==
    ASSUME Machine, Extended
    PROVE  Machine' /\ cycles' = cycles
<1> USE OperandTypes
<1> DEFINE val == Get(Ext % 8)
<1>0. PC' = After /\ SP' = SP /\ cycles' = cycles
  BY DEF Extended, ROTATE, BIT, RES, SET, Page, Straight
<1>1. Ext % 8 \in 0 .. 7 /\ val \in Byte BY DEF Byte
<1>2. ASSUME NEW r, IsResult(r), Modified(r) PROVE Machine'
  <2>1. Put(Ext % 8, r.val) /\ flags' = r.flags BY <1>2 DEF Modified
  <2> QED BY <1>0, <1>1, <1>2, <2>1, PutType DEF Machine, IsResult
<1>3. CASE ROTATE
  <2>1. Ext \div 8 \in 0 .. 7
    <3>1. Ext \in 0 .. 63 BY <1>3 DEF ROTATE, Page
    <3> QED BY <3>1
  <2>2. IsResult(Rotated(Ext \div 8, val)) BY <1>1, <2>1, RotatedType DEF Machine
  <2> QED BY <1>0, <1>2, <1>3, <2>2 DEF ROTATE
<1>4. CASE BIT
  <2>1. flags' \in FlagValues BY <1>1, <1>4, LogicType DEF BIT, Machine
  <2> QED BY <1>0, <1>4, <2>1 DEF BIT, Machine, MemOK
<1>5. CASE RES
  BY <1>0, <1>1, <1>2, <1>5, LogicType DEF RES, Machine
<1>6. CASE SET
  BY <1>0, <1>1, <1>2, <1>6, LogicType DEF SET, Machine
<1> QED BY <1>0, <1>3, <1>4, <1>5, <1>6 DEF Extended

\* Conditional instructions write one of their costs to the table.
Costs == cycles \in [Conditional -> {8, 12, 16, 20, 24}]

LEMMA BranchCosts ==
    ASSUME Costs, NEW yes \in {12, 16, 20, 24}, NEW no \in {8, 12}, Branch(yes, no)
    PROVE  Costs'
<1>1. CASE Op \in Conditional
  BY <1>1 DEF Branch, Costs
<1>2. CASE Op \notin Conditional
  BY <1>2 DEF Branch, Costs
<1> QED BY <1>1, <1>2

LEMMA FlowSteps ==
    ASSUME Machine, Costs, Flow
    PROVE  Machine' /\ Costs' /\ reg' = reg /\ flags' = flags
<1> USE OperandTypes
<1>0. /\ Imm16(mem) \in Word /\ After \in Word /\ Imm8 \in Byte
      /\ reg \in [Names -> Byte] /\ flags \in FlagValues
  BY DEF Machine
<1>1. reg' = reg /\ flags' = flags
  <2>1. JR_n => UNCHANGED data BY DEF JR_n
  <2>2. JP_nn => UNCHANGED data BY DEF JP_nn
  <2>3. JP_HL => UNCHANGED data BY DEF JP_HL
  <2>4. CALL_nn => UNCHANGED data BY DEF CALL_nn
  <2>5. RST => UNCHANGED data BY DEF RST
  <2>6. RET => UNCHANGED data BY DEF RET
  <2>7. CONTROL => UNCHANGED data BY DEF CONTROL
  <2>8. UNCHANGED data BY <2>1, <2>2, <2>3, <2>4, <2>5, <2>6, <2>7 DEF Flow
  <2> QED BY <2>8 DEF data
<1>2. CASE JR_n
  <2>1. SIGNED_IM_8_BIT(Imm8) \in Int BY <1>0 DEF SIGNED_IM_8_BIT, Byte
  <2>2. (After + SIGNED_IM_8_BIT(Imm8)) % 65536 \in Word BY <1>0, <2>1, Wraps DEF Word
  <2>3. PC' \in Word BY <1>0, <1>2, <2>2 DEF JR_n
  <2>4. Costs' BY <1>2, BranchCosts DEF JR_n
  <2> QED BY <1>0, <1>1, <1>2, <2>3, <2>4 DEF JR_n, Machine, MemOK
<1>3. CASE JP_nn
  <2>1. PC' \in Word BY <1>0, <1>3 DEF JP_nn
  <2>2. Costs' BY <1>3, BranchCosts DEF JP_nn
  <2> QED BY <1>0, <1>1, <1>3, <2>1, <2>2 DEF JP_nn, Machine, MemOK
<1>4. CASE JP_HL
  BY <1>0, <1>1, <1>4 DEF JP_HL, Machine, MemOK, Costs
<1>5. CASE CALL_nn
  <2>1. SP - 2 \in Int BY DEF Machine, Word
  <2>2. MemOK(set_mem_16(mem, SP - 2, After)) BY <1>0, <2>1, Set16Type DEF Machine
  <2>3. Costs' BY <1>5, BranchCosts DEF CALL_nn
  <2>4. CASE Jumps
    <3>1. Pushed(After) /\ PC' = Imm16(set_mem_16(mem, SP - 2, After))
      BY <1>5, <2>4 DEF CALL_nn, Entered
    <3> QED BY <1>0, <1>1, <2>2, <2>3, <3>1, StackTypes DEF Machine
  <2>5. CASE ~Jumps
    BY <1>0, <1>1, <1>5, <2>3, <2>5 DEF CALL_nn, Straight, Machine, MemOK
  <2> QED BY <2>4, <2>5
<1>6. CASE RST
  <2>1. Pushed(After) /\ PC' = Op - \hC7 /\ cycles' = cycles BY <1>6 DEF RST, Entered
  <2>2. Op - \hC7 \in Word
    <3>1. Op \in 199 .. 255 BY <1>6 DEF RST, In
    <3> QED BY <3>1 DEF Word
  <2> QED BY <1>0, <1>1, <2>1, <2>2, StackTypes DEF Machine, Costs
<1>7. CASE RET
  <2>1. Costs' BY <1>7, BranchCosts DEF RET
  <2>2. PC' \in Word /\ SP' \in Word BY <1>0, <1>7, StackTypes DEF RET, Straight, Machine
  <2> QED BY <1>0, <1>1, <1>7, <2>1, <2>2 DEF RET, Machine, MemOK
<1>8. CASE CONTROL
  BY <1>0, <1>1, <1>8 DEF CONTROL, Straight, Machine, MemOK, Costs
<1> QED BY <1>1, <1>2, <1>3, <1>4, <1>5, <1>6, <1>7, <1>8 DEF Flow

-----------------------------------------------------------------------------
(* Arithmetic and its history                                              *)

\* After an addition or subtraction A and the flags are still its result, which DAA
\* relies on.
Chain ==
    calc.kind \in {"add", "sub"} =>
        /\ calc.x \in Byte /\ calc.y \in Byte /\ calc.c \in 0 .. 1
        /\ reg["A"] = calc.v /\ flags = calc.f
        /\ IF calc.kind = "add" THEN Added(Result(calc.v, calc.f), calc.x, calc.y, calc.c)
                                ELSE Subtracted(Result(calc.v, calc.f), calc.x, calc.y, calc.c)

Exact == Chain /\ ArithmeticExact /\ BcdExact

LEMMA NothingCalculated ==
    ASSUME calc'.kind \notin {"add", "sub", "add16", "offset", "daa"} PROVE Exact'
BY DEF Exact, Chain, ArithmeticExact, BcdExact

LEMMA HistoryOf ==
    ASSUME NEW k, NEW x, NEW y, NEW c, NEW r, Calculated(k, x, y, c, r)
    PROVE  /\ calc'.kind = k /\ calc'.x = x /\ calc'.y = y /\ calc'.c = c
           /\ calc'.v = r.val /\ calc'.f = r.flags
BY DEF Calculated

LEMMA AddedIsExact ==
    ASSUME NEW x \in Byte, NEW y \in Byte, NEW c \in 0 .. 1, NEW r, Added(r, x, y, c),
           Calculated("add", x, y, c, r), reg'["A"] = r.val, flags' = r.flags
    PROVE  Exact'
<1>1. Result(r.val, r.flags).val = r.val /\ Result(r.val, r.flags).flags = r.flags BY Results
<1>2. Added(Result(r.val, r.flags), x, y, c) BY <1>1 DEF Added
<1>3. Chain' BY <1>2, HistoryOf DEF Chain
<1>4. r.val % 256 = r.val /\ x % 256 = x /\ y % 256 = y BY DEF Added, Byte
<1>5. ArithmeticExact'
  BY <1>4, HistoryOf DEF ArithmeticExact, Adds, Added, Nibble
<1>6. BcdExact' BY HistoryOf DEF BcdExact
<1> QED BY <1>3, <1>5, <1>6 DEF Exact

LEMMA SubtractedIsExact ==
    ASSUME NEW x \in Byte, NEW y \in Byte, NEW c \in 0 .. 1, NEW r, Subtracted(r, x, y, c),
           Calculated("sub", x, y, c, r), reg'["A"] = r.val, flags' = r.flags
    PROVE  Exact'
<1>1. Result(r.val, r.flags).val = r.val /\ Result(r.val, r.flags).flags = r.flags BY Results
<1>2. Subtracted(Result(r.val, r.flags), x, y, c) BY <1>1 DEF Subtracted
<1>3. Chain' BY <1>2, HistoryOf DEF Chain
<1>4. r.val % 256 = r.val /\ x % 256 = x /\ y % 256 = y BY DEF Subtracted, Byte
<1>5. ArithmeticExact'
  BY <1>4, HistoryOf DEF ArithmeticExact, Subtracts, Subtracted, Nibble
<1>6. BcdExact' BY HistoryOf DEF BcdExact
<1> QED BY <1>3, <1>5, <1>6 DEF Exact

LEMMA AluStep ==
    ASSUME Machine, ALU_A
    PROVE  Machine' /\ Exact'
<1> USE OperandTypes
<1> DEFINE i == (Op \div 8) % 8
           a == reg["A"]
           y == IF Op < \hC0 THEN Get(Op % 8) ELSE Imm8
           c == IF i \in {1, 3} THEN flags.C ELSE 0
           r == Alu8(i, a, y)
<1>1. i \in 0 .. 7 /\ a \in Byte /\ y \in Byte BY DEF Machine, Byte, Names
<1>2. flags \in FlagValues /\ c \in 0 .. 1 BY BitsOfFlags DEF Machine
<1>3. IsResult(r) BY <1>1, <1>2, Alu8Type
<1>4. /\ reg' = [reg EXCEPT !["A"] = r.val] /\ flags' = r.flags
      /\ Calculated(Alu8Kinds[i + 1], a, y, c, r)
      /\ PC' = After /\ SP' = SP /\ mem' = mem
  BY DEF ALU_A, Straight
<1>5. reg'["A"] = r.val BY <1>4 DEF Machine, Names
<1>6. Machine'
  <2>1. reg' \in [Names -> Byte] BY <1>3, <1>4 DEF Machine, IsResult
  <2> QED BY <1>3, <1>4, <2>1 DEF Machine, MemOK, IsResult
<1>7. CASE i \in {0, 1}
  <2>1. Added(r, a, y, c)
    <3>1. CASE i = 0 BY <1>1, <1>2, <3>1, SumIsExact DEF Alu8
    <3>2. CASE i = 1 BY <1>1, <1>2, <3>2, SumWithCarryIsExact DEF Alu8
    <3> QED BY <1>7, <3>1, <3>2
  <2>2. Alu8Kinds[i + 1] = "add" BY <1>7 DEF Alu8Kinds
  <2>3. Calculated("add", a, y, c, r) BY <1>4, <2>2
  <2> HIDE DEF a, y, c, r
  <2> QED BY <1>1, <1>2, <1>4, <1>5, <1>6, <2>1, <2>3, AddedIsExact
<1>8. CASE i \in {2, 3}
  <2>1. Subtracted(r, a, y, c)
    <3>1. CASE i = 2 BY <1>1, <1>2, <3>1, DifferenceIsExact DEF Alu8
    <3>2. CASE i = 3 BY <1>1, <1>2, <3>2, DifferenceWithBorrowIsExact DEF Alu8
    <3> QED BY <1>8, <3>1, <3>2
  <2>2. Alu8Kinds[i + 1] = "sub" BY <1>8 DEF Alu8Kinds
  <2>3. Calculated("sub", a, y, c, r) BY <1>4, <2>2
  <2> HIDE DEF a, y, c, r
  <2> QED BY <1>1, <1>2, <1>4, <1>5, <1>6, <2>1, <2>3, SubtractedIsExact
<1>9. CASE i \in 4 .. 7
  <2>1. Alu8Kinds[i + 1] \in {"and", "or", "xor", "cp"} BY <1>9 DEF Alu8Kinds
  <2>2. calc'.kind = Alu8Kinds[i + 1] BY <1>4, HistoryOf
  <2> QED BY <1>6, <2>1, <2>2, NothingCalculated
<1> QED BY <1>1, <1>7, <1>8, <1>9

LEMMA WordSumKept ==
    ASSUME NEW x \in Word, NEW y \in Word, NEW r, r.val \in Word,
           r.val + 65536 * r.flags.C = x + y,
           (r.val % 4096) + 4096 * r.flags.H = (x % 4096) + (y % 4096),
           Calculated("add16", x, y, 0, r)
    PROVE  Exact'
<1>1. r.val % 65536 = r.val /\ x % 65536 = x /\ y % 65536 = y BY DEF Word
<1>2. ArithmeticExact' BY <1>1, HistoryOf DEF ArithmeticExact, Adds, Word
<1> QED BY <1>2, HistoryOf DEF Exact, Chain, BcdExact

LEMMA OffsetKept ==
    ASSUME NEW x \in Word, NEW y \in Byte, NEW r, r.val \in Word,
           (r.val % 256) + 256 * r.flags.C = (x % 256) + y,
           (r.val % 16) + 16 * r.flags.H = (x % 16) + (y % 16),
           Calculated("offset", x, y, 0, r)
    PROVE  Exact'
<1>1. y % 256 = y BY DEF Byte
<1>2. ArithmeticExact' BY <1>1, HistoryOf DEF ArithmeticExact, Adds, Word, Byte
<1> QED BY <1>2, HistoryOf DEF Exact, Chain, BcdExact

LEMMA WordSumStep ==
    ASSUME Machine, ADD_HL
    PROVE  Machine' /\ Exact'
<1> USE OperandTypes
<1> DEFINE w == Get16(PairOf)
           r == ADD_16(HL, w, flags)
<1>1. w \in Word /\ flags \in FlagValues BY DEF Machine
<1>2. /\ r.val \in Word /\ r.flags \in FlagValues
      /\ r.val + 65536 * r.flags.C = HL + w
      /\ (r.val % 4096) + 4096 * r.flags.H = (HL % 4096) + (w % 4096)
  BY <1>1, WordSumIsExact
<1>3. /\ reg' = WithPair("H", "L", r.val) /\ flags' = r.flags
      /\ Calculated("add16", HL, w, 0, r) /\ PC' = After /\ SP' = SP /\ mem' = mem
  BY DEF ADD_HL, Straight
<1>0. HL \in Word BY PairTypes DEF HL, Names, Machine
<1> HIDE DEF r, w
<1>4. Machine'
  <2>1. reg' \in [Names -> Byte] BY <1>2, <1>3, PairTypes, SMTT(40) DEF Names
  <2>2. MemOK(mem') BY <1>3 DEF Machine, MemOK
  <2> QED BY <1>2, <1>3, <2>1, <2>2 DEF Machine
<1>5. Exact' BY <1>0, <1>1, <1>2, <1>3, WordSumKept
<1> QED BY <1>4, <1>5

LEMMA OffsetStep ==
    ASSUME Machine, ADD_SP
    PROVE  Machine' /\ Exact'
<1> USE OperandTypes
<1> DEFINE r == OffsetSP(SP, Imm8, flags)
<1>1. SP \in Word /\ Imm8 \in Byte /\ flags \in FlagValues BY DEF Machine
<1>2. /\ r.val \in Word /\ r.flags \in FlagValues
      /\ (r.val % 256) + 256 * r.flags.C = (SP % 256) + Imm8
      /\ (r.val % 16) + 16 * r.flags.H = (SP % 16) + (Imm8 % 16)
  BY <1>1, OffsetIsExact
<1>3. /\ \/ SP' = r.val /\ reg' = reg
         \/ reg' = WithPair("H", "L", r.val) /\ SP' = SP
      /\ flags' = r.flags /\ Calculated("offset", SP, Imm8, 0, r)
      /\ PC' = After /\ mem' = mem
  BY DEF ADD_SP, Straight
<1> HIDE DEF r
<1>4. Machine'
  <2>1. reg' \in [Names -> Byte] /\ SP' \in Word
    <3>1. WithPair("H", "L", r.val) \in [Names -> Byte] BY <1>2, PairTypes DEF Names
    <3>2. reg \in [Names -> Byte] BY DEF Machine
    <3> QED BY <1>1, <1>2, <1>3, <3>1, <3>2
  <2>2. MemOK(mem') BY <1>3 DEF Machine, MemOK
  <2> QED BY <1>2, <1>3, <2>1, <2>2 DEF Machine
<1>5. Exact' BY <1>1, <1>2, <1>3, OffsetKept
<1> QED BY <1>4, <1>5

LEMMA IncDecStep ==
    ASSUME Machine, INC_DEC
    PROVE  Machine' /\ Exact'
<1> USE OperandTypes
<1> DEFINE i == (Op \div 8) % 8
           r == IF Op % 8 = 4 THEN INC_8(Get(i), flags) ELSE DEC_8(Get(i), flags)
           k == IF Op % 8 = 4 THEN "inc" ELSE "dec"
<1>1. i \in 0 .. 7 /\ Get(i) \in Byte BY DEF Byte
<1>2. IsResult(r) BY <1>1, StepType DEF Machine
<1>3. /\ Put(i, r.val) /\ flags' = r.flags /\ Calculated(k, Get(i), 1, flags.C, r)
      /\ PC' = After /\ SP' = SP
  BY DEF INC_DEC, Straight
<1>4. calc'.kind \in {"inc", "dec"} BY <1>3, HistoryOf
<1>5. Exact' BY <1>4, NothingCalculated
<1> HIDE DEF r
<1>6. reg' \in [Names -> Byte] /\ MemOK(mem') BY <1>1, <1>2, <1>3, PutType DEF IsResult
<1>7. Machine' BY <1>2, <1>3, <1>6 DEF Machine, IsResult
<1> QED BY <1>5, <1>7

\* DAA is the one operation whose result depends on what was done before.
LEMMA DecimalStep ==
    ASSUME Machine, Chain, calc.kind \in {"add", "sub"}, NEW r, r = DAA(reg["A"], flags),
           Calculated("daa", calc.x, calc.y, calc.c, r)
    PROVE  Exact'
<1> DEFINE x == calc.x
           y == calc.y
           c == calc.c
<1>1. x \in Byte /\ y \in Byte /\ c \in 0 .. 1 BY DEF Chain
<1>2. calc.v = reg["A"] /\ calc.f = flags BY DEF Chain
<1>3. Result(calc.v, calc.f).val = calc.v /\ Result(calc.v, calc.f).flags = calc.f BY Results
<1>4. /\ calc'.kind = "daa" /\ calc'.x = x /\ calc'.y = y /\ calc'.v = r.val /\ calc'.f = r.flags
      /\ calc'.c = c
  BY HistoryOf
<1>5. ASSUME IsBcd(x), IsBcd(y), calc.kind = "add"
      PROVE  /\ IsBcd(r.val) /\ r.flags.N = 0
             /\ Decimal(r.val) + 100 * r.flags.C = Decimal(x) + Decimal(y) + c
  <2>1. Added(Result(calc.v, calc.f), x, y, c) BY <1>5 DEF Chain
  <2>2. /\ calc.v \in Byte /\ calc.f \in FlagValues /\ calc.f.N = 0
        /\ calc.v + 256 * calc.f.C = x + y + c
        /\ Nibble(calc.v) + 16 * calc.f.H = Nibble(x) + Nibble(y) + c
    BY <2>1, <1>3 DEF Added
  <2> HIDE DEF x, y, c
  <2> QED BY <1>1, <1>2, <1>5, <2>2, DecimalSum
<1>6. ASSUME IsBcd(x), IsBcd(y), calc.kind = "sub"
      PROVE  /\ IsBcd(r.val) /\ r.flags.N = 1
             /\ Decimal(r.val) - 100 * r.flags.C = Decimal(x) - Decimal(y) - c
  <2>1. Subtracted(Result(calc.v, calc.f), x, y, c) BY <1>6 DEF Chain
  <2>2. /\ calc.v \in Byte /\ calc.f \in FlagValues /\ calc.f.N = 1
        /\ calc.v - 256 * calc.f.C = x - y - c
        /\ Nibble(calc.v) - 16 * calc.f.H = Nibble(x) - Nibble(y) - c
    BY <2>1, <1>3 DEF Subtracted
  <2> HIDE DEF x, y, c
  <2> QED BY <1>1, <1>2, <1>6, <2>2, DecimalDifference
<1>7. BcdExact'
  <2> HIDE DEF x, y, c
  <2> QED BY <1>4, <1>5, <1>6 DEF BcdExact
<1>8. Chain' /\ ArithmeticExact' BY <1>4 DEF Chain, ArithmeticExact
<1> QED BY <1>7, <1>8 DEF Exact

LEMMA OnAStep ==
    ASSUME Machine, Chain, ON_A
    PROVE  Machine' /\ Exact'
<1> USE OperandTypes
<1>1. Op \in {\h07, \h0F, \h17, \h1F, \h27, \h2F, \h37, \h3F} BY DEF ON_A, In, Byte
<1>2. reg["A"] \in Byte /\ flags \in FlagValues BY DEF Machine, Names
<1>3. IsResult(ByteOfA)
  <2>1. \A r : IsResult(r) => IsResult(OfA(r))
    BY BitsOfFlags, ByteAndFlags DEF OfA, IsResult
  <2> QED BY <1>1, <1>2, <2>1, RotationType, AdjustType DEF ByteOfA
<1>4. /\ reg' = [reg EXCEPT !["A"] = ByteOfA.val] /\ flags' = ByteOfA.flags
      /\ PC' = After /\ SP' = SP /\ mem' = mem
  BY DEF ON_A, Straight
<1>5. Machine'
  <2>1. reg' \in [Names -> Byte] BY <1>3, <1>4 DEF Machine, IsResult
  <2> QED BY <1>3, <1>4, <2>1 DEF Machine, MemOK, IsResult
<1>6. CASE Op = \h27 /\ calc.kind \in {"add", "sub"}
  <2>1. ByteOfA = DAA(reg["A"], flags) BY <1>6 DEF ByteOfA
  <2>2. Calculated("daa", calc.x, calc.y, calc.c, ByteOfA) BY <1>6 DEF ON_A
  <2> QED BY <1>5, <1>6, <2>1, <2>2, DecimalStep
<1>7. CASE ~(Op = \h27 /\ calc.kind \in {"add", "sub"})
  <2>1. calc'.kind = "none"
    <3>1. CASE Op = \h27 BY <1>7, <3>1, HistoryOf DEF ON_A
    <3>2. CASE Op # \h27 BY <3>2 DEF ON_A, NoCalc
    <3> QED BY <3>1, <3>2
  <2> QED BY <1>5, <2>1, NothingCalculated
<1> QED BY <1>6, <1>7

-----------------------------------------------------------------------------
(* The invariants                                                          *)

Switches == skip_bug \in BOOLEAN /\ interrupts_enabled \in BOOLEAN
IInv == Machine /\ Costs /\ Switches /\ Exact

LEMMA ExecStep ==
    ASSUME IInv, exec_opcode
    PROVE  IInv'
<1>1. Machine /\ Costs /\ Chain BY DEF IInv, Exact
<1>2. Switches'
  <2>1. skip_bug' = FALSE BY DEF exec_opcode
  <2>2. interrupts_enabled' \in BOOLEAN BY Zenon DEF exec_opcode
  <2> QED BY <2>1, <2>2 DEF Switches
<1>3. CASE Loads /\ calc' = NoCalc
  BY <1>1, <1>2, <1>3, LoadSteps, NothingCalculated DEF IInv, Costs, NoCalc
<1>4. CASE Arithmetic
  <2>1. cycles' = cycles BY <1>4 DEF Arithmetic, ALU_A, INC_DEC, ADD_HL, ADD_SP, ON_A
  <2>2. Machine' /\ Exact'
    BY <1>1, <1>4, AluStep, IncDecStep, WordSumStep, OffsetStep, OnAStep DEF Arithmetic
  <2> QED BY <1>1, <1>2, <2>1, <2>2 DEF IInv, Costs
<1>5. CASE Extended /\ calc' = NoCalc
  BY <1>1, <1>2, <1>5, ExtendedSteps, NothingCalculated DEF IInv, Costs, NoCalc
<1>6. CASE Flow /\ calc' = NoCalc
  BY <1>1, <1>2, <1>6, FlowSteps, NothingCalculated DEF IInv, NoCalc
<1> QED BY <1>3, <1>4, <1>5, <1>6 DEF exec_opcode

LEMMA RestartStep ==
    ASSUME IInv, restart
    PROVE  IInv'
<1>1. PICK v \in Vectors : Entered(PC, v, TRUE) BY DEF restart
<1>2. v \in Word BY CpuAssumption
<1>3. Pushed(PC) /\ PC' = v BY <1>1 DEF Entered
<1>4. reg' = reg /\ flags' = flags /\ cycles' = cycles /\ calc' = calc
  BY DEF restart, data, told
<1>5. Machine' BY <1>2, <1>3, <1>4, StackTypes DEF IInv, Machine
<1>6. Switches' BY DEF restart, Switches
<1> QED BY <1>4, <1>5, <1>6 DEF IInv, Costs, Exact, Chain, ArithmeticExact, BcdExact, Adds, Subtracts

LEMMA IdleStep ==
    ASSUME IInv, Wake \/ UNCHANGED vars
    PROVE  IInv'
<1>1. /\ reg' = reg /\ flags' = flags /\ SP' = SP /\ PC' = PC /\ mem' = mem
      /\ cycles' = cycles /\ calc' = calc
  BY Zenon DEF Wake, vars, data, told, loop
<1>2. skip_bug' \in BOOLEAN /\ interrupts_enabled' \in BOOLEAN
  BY Zenon DEF IInv, Switches, Wake, vars, loop
<1> QED BY <1>1, <1>2 DEF IInv, Switches, Costs, Machine, MemOK, Exact, Chain, ArithmeticExact,
                          BcdExact, Adds, Subtracts

LEMMA Invariance == Spec => []IInv
<1>1. Init => IInv
  <2> SUFFICES ASSUME Init PROVE IInv
    OBVIOUS
  <2>1. PICK s \in Starts :
            /\ reg = s.reg /\ flags = s.flags /\ SP = s.SP /\ PC = s.PC /\ mem = s.mem
            /\ interrupts_enabled = s.ime
    BY DEF Init
  <2>2. Machine BY <2>1, CpuAssumption DEF Machine, MemOK
  <2>3. Costs BY DEF Init, Costs
  <2>4. Switches
    <3>1. interrupts_enabled \in BOOLEAN BY <2>1, CpuAssumption, Zenon
    <3>2. skip_bug = FALSE BY DEF Init
    <3> QED BY <3>1, <3>2 DEF Switches
  <2>5. Exact BY DEF Init, NoCalc, Exact, Chain, ArithmeticExact, BcdExact
  <2> QED BY <2>2, <2>3, <2>4, <2>5 DEF IInv
<1>2. IInv /\ [Next]_vars => IInv'
  BY ExecStep, RestartStep, IdleStep DEF Next
<1> QED BY <1>1, <1>2, PTL DEF Spec

\* No instruction, at any address and with any registers and memory, makes a register,
\* flag, pair or stored byte overflow its width.
THEOREM CpuTypeCorrect == Spec => []TypeOK
<1>1. IInv => TypeOK BY DEF IInv, Machine, MemOK, Costs, Switches, TypeOK
<1> QED BY <1>1, Invariance, PTL

\* Values, carries and half carries are the exact results for every operand, though the
\* code finds carries by comparing wrapped values or by xor.
THEOREM ArithmeticHolds == Spec => []ArithmeticExact
<1>1. IInv => ArithmeticExact BY DEF IInv, Exact
<1> QED BY <1>1, Invariance, PTL

\* DAA after any addition or subtraction of decimal numbers gives the decimal result.
THEOREM BcdHolds == Spec => []BcdExact
<1>1. IInv => BcdExact BY DEF IInv, Exact
<1> QED BY <1>1, Invariance, PTL

-----------------------------------------------------------------------------
(* Cycles                                                                  *)

\* The two ways an instruction passes its cycles on.
Agree == ticks' = returned'
Passed == IF BitOfMemory THEN ticks' = 12 /\ returned' = 16 ELSE Agree

LEMMA TakenAgree ==
    ASSUME NEW n \in Nat, NEW early \in Nat, Takes(early, early, n)
    PROVE  Agree
BY DEF Takes, Agree

\* The cost that a conditional instruction leaves in the table is the one it takes.
LEMMA BranchAgrees ==
    ASSUME Costs, NEW yes \in {12, 16, 20, 24}, NEW no \in {8, 12}, Branch(yes, no)
    PROVE  Agree
<1>1. CASE Op \in Conditional
  <2>1. cycles'[Op] = (IF Holds THEN yes ELSE no) /\ Takes(0, 0, cycles'[Op])
    BY <1>1 DEF Branch, Costs
  <2>2. (IF Holds THEN yes ELSE no) \in Nat OBVIOUS
  <2> QED BY <2>1, <2>2, TakenAgree
<1>2. CASE Op \notin Conditional
  BY <1>2, TakenAgree DEF Branch
<1> QED BY <1>1, <1>2

\* Behind 0xCB is a page of its own.
LEMMA OnePage == Op = \hCB => ~Loads /\ ~Arithmetic /\ ~Flow
<1> SUFFICES ASSUME Op = \hCB PROVE ~Loads /\ ~Arithmetic /\ ~Flow
  OBVIOUS
<1>1. ~Loads
  BY DEF Loads, LD_r_r, LD_8_IM, LD_A_mem, LD_A_nn, LD_16_IM, LD_nn_SP, LD_SP_HL, PUSH, POP,
         INC_DEC_16, In
<1>2. ~Arithmetic
  BY DEF Arithmetic, ALU_A, INC_DEC, ADD_HL, ADD_SP, ON_A, In
<1>3. ~Flow
  BY DEF Flow, JR_n, JP_nn, JP_HL, CALL_nn, RST, RET, CONTROL, In, JRcc, JPcc, CALLcc, RETcc,
         Invalid
<1> QED BY <1>1, <1>2, <1>3

\* Of that page only BIT of a byte in memory keeps four cycles back.
LEMMA ExtendedAgree ==
    ASSUME Extended
    PROVE  Passed
<1>1. ASSUME NEW r, Modified(r) PROVE Agree
  BY <1>1 DEF Modified, TakesExt, Agree
<1>2. CASE ROTATE
  <2>1. ~BitOfMemory BY <1>2 DEF ROTATE, Page, BitOfMemory
  <2> QED BY <1>1, <1>2, <2>1 DEF ROTATE, Passed
<1>3. CASE BIT
  <2>1. BitOfMemory <=> Ext % 8 = Memory BY <1>3 DEF BIT, Page, BitOfMemory
  <2>2. IF Ext % 8 = Memory THEN TakesExt(4, 16) ELSE TakesExt(0, 8) BY <1>3 DEF BIT
  <2> QED BY <2>1, <2>2 DEF TakesExt, Passed, Agree
<1>4. CASE RES \/ SET
  <2>1. ~BitOfMemory BY <1>4 DEF RES, SET, Page, BitOfMemory
  <2> QED BY <1>1, <1>4, <2>1 DEF RES, SET, Passed
<1> QED BY <1>2, <1>3, <1>4 DEF Extended

LEMMA CyclesStep ==
    ASSUME Costs, exec_opcode
    PROVE  Passed
<1>1. \A n \in Nat, early \in Nat : Takes(early, early, n) => Agree
  BY TakenAgree
<1>2. ASSUME Loads PROVE Agree
  <2> USE <1>1
  <2>1. LD_r_r => Agree BY DEF LD_r_r
  <2>2. LD_8_IM => Agree BY DEF LD_8_IM
  <2>3. LD_A_mem => Agree
    <3>1. LD_A_mem => Takes(0, 0, 8) BY SMT DEF LD_A_mem
    <3> QED BY <3>1
  <2>4. LD_A_nn => Agree BY DEF LD_A_nn
  <2>5. LD_16_IM \/ LD_nn_SP \/ LD_SP_HL => Agree BY DEF LD_16_IM, LD_nn_SP, LD_SP_HL
  <2>6. PUSH \/ POP \/ INC_DEC_16 => Agree BY DEF PUSH, POP, INC_DEC_16
  <2> QED BY <1>2, <2>1, <2>2, <2>3, <2>4, <2>5, <2>6 DEF Loads
<1>3. ASSUME Arithmetic PROVE Agree
  <2> USE <1>1
  <2>1. ALU_A => Agree BY DEF ALU_A
  <2>2. INC_DEC => Agree BY DEF INC_DEC
  <2>3. ADD_HL \/ ADD_SP \/ ON_A => Agree BY DEF ADD_HL, ADD_SP, ON_A
  <2> QED BY <1>3, <2>1, <2>2, <2>3 DEF Arithmetic
<1>4. ASSUME Flow PROVE Agree
  <2>1. \A yes \in {12, 16, 20, 24}, no \in {8, 12} : Branch(yes, no) => Agree
    BY BranchAgrees
  <2>2. JR_n => Branch(12, 8) BY SMT DEF JR_n
  <2>3. JP_nn => Branch(16, 12) BY Zenon DEF JP_nn
  <2>4. CALL_nn => Branch(24, 12) BY Zenon DEF CALL_nn
  <2>5. RET => Branch(IF Op \in RETcc THEN 20 ELSE 16, 8) BY Zenon DEF RET
  <2>6. (IF Op \in RETcc THEN 20 ELSE 16) \in {12, 16, 20, 24} OBVIOUS
  <2>7. JR_n \/ JP_nn \/ CALL_nn => Agree BY <2>1, <2>2, <2>3, <2>4
  <2>8. RET => Agree BY <2>1, <2>5, <2>6, Zenon
  <2>9. JP_HL => Takes(0, 0, 4) BY Zenon DEF JP_HL
  <2>10. RST => Takes(0, 0, 16) BY Zenon DEF RST
  <2>11. CONTROL => Takes(0, 0, IF Op \in {\h00, \hF3, \hFB} THEN 4 ELSE 0) BY Zenon DEF CONTROL
  <2>12. JP_HL \/ RST \/ CONTROL => Agree BY <1>1, <2>9, <2>10, <2>11
  <2> QED BY <1>4, <2>7, <2>8, <2>12 DEF Flow
<1>5. CASE Op = \hCB
  <2>1. Extended BY <1>5, OnePage DEF exec_opcode
  <2> QED BY <2>1, ExtendedAgree
<1>6. CASE Op # \hCB
  <2>1. ~BitOfMemory /\ ~Extended
    BY <1>6 DEF BitOfMemory, Extended, ROTATE, BIT, RES, SET, Page
  <2>2. Agree BY <2>1, <1>2, <1>3, <1>4 DEF exec_opcode
  <2> QED BY <2>1, <2>2 DEF Passed
<1> QED BY <1>5, <1>6

\* Interrupts are counted: a step that takes one is told from an instruction.
Counted == taken \in Nat

LEMMA TakenCounts == Spec => []Counted
<1>1. Init => Counted BY DEF Init, Counted
<1>2. Counted /\ [Next]_vars => Counted'
  <2> SUFFICES ASSUME Counted, [Next]_vars PROVE Counted'
    OBVIOUS
  <2>1. exec_opcode => taken' = taken BY Zenon DEF exec_opcode
  <2>2. restart => taken' = taken + 1 BY Zenon DEF restart
  <2>3. Wake => taken' = taken BY Zenon DEF Wake
  <2>4. UNCHANGED vars => taken' = taken BY DEF vars
  <2>5. taken' = taken \/ taken' = taken + 1 BY <2>1, <2>2, <2>3, <2>4, Zenon DEF Next
  <2> QED BY <2>5 DEF Counted
<1> QED BY <1>1, <1>2, PTL DEF Spec

\* Every instruction of every program passes the devices, early and late, as many cycles
\* as exec_opcode returns, but for BIT b,(HL), which passes 12 and returns 16.
THEOREM TicksAlwaysAgree == Spec => TicksAgree
<1> DEFINE Step == ~asleep /\ UNCHANGED taken =>
                      IF BitOfMemory THEN ticks' = 12 /\ returned' = 16 ELSE ticks' = returned'
<1>1. IInv /\ Counted /\ [Next]_vars => [Step]_vars
  <2> SUFFICES ASSUME IInv, Counted, Next, ~asleep, UNCHANGED taken PROVE Passed
    BY DEF Passed, Agree
  <2>1. restart => taken' = taken + 1 BY Zenon DEF restart
  <2>2. ~restart BY <2>1 DEF Counted
  <2>3. ~Wake BY Zenon DEF Wake
  <2>4. exec_opcode BY <2>2, <2>3, Zenon DEF Next
  <2> QED BY <2>4, CyclesStep DEF IInv
<1> HIDE DEF Step
<1>2. Spec => [][Step]_vars BY <1>1, Invariance, TakenCounts, PTL DEF Spec
<1> QED BY <1>2 DEF TicksAgree, Step

-----------------------------------------------------------------------------
(* Calls                                                                   *)

\* What is read where a push has written, and elsewhere.
LEMMA PushedReads ==
    ASSUME NEW m, NEW addr \in Nat, RomEnd <= addr, addr < 65535, NEW val
    PROVE  /\ \A a \in Word : a # addr /\ a # addr + 1 =>
                 get_mem(set_mem_16(m, addr, val), a) = get_mem(m, a)
           /\ val \in Word => get_mem_16(set_mem_16(m, addr, val), addr) = val
<1> DEFINE n == set_mem(m, addr + 1, val \div 256)
           o == set_mem(n, addr, val % 256)
<1>0. RomEnd = 32768 BY DEF RomEnd
<1>1. /\ addr \in Word /\ addr + 1 \in Word /\ addr % 65536 = addr /\ (addr + 1) % 65536 = addr + 1
      /\ ~(addr < RomEnd) /\ ~(addr + 1 < RomEnd) /\ addr # addr + 1
  <2>1. addr % 65536 = addr /\ (addr + 1) % 65536 = addr + 1 OBVIOUS
  <2> QED BY <1>0, <2>1 DEF Word
<1>2. n = [x \in DOMAIN m \cup {addr + 1} |-> IF x = addr + 1 THEN val \div 256 ELSE m[x]]
  BY <1>1 DEF set_mem
<1> HIDE DEF n
<1>3. o = [x \in DOMAIN n \cup {addr} |-> IF x = addr THEN val % 256 ELSE n[x]]
  BY <1>1 DEF set_mem
<1>4. set_mem_16(m, addr, val) = o BY DEF set_mem_16, n
<1>5. \A a \in Word : a % 65536 = a BY DEF Word
<1> HIDE DEF o
<1>6. /\ get_mem(o, addr) = val % 256 /\ get_mem(o, addr + 1) = val \div 256
      /\ \A a \in Word : a # addr /\ a # addr + 1 => get_mem(o, a) = get_mem(m, a)
  BY <1>1, <1>2, <1>3, <1>5 DEF get_mem
<1>7. val \in Word => get_mem_16(o, addr) = val
  <2> SUFFICES ASSUME val \in Word PROVE get_mem_16(o, addr) = val
    OBVIOUS
  <2>1. 256 * (val \div 256) + (val % 256) = val BY DEF Word
  <2> QED BY <1>6, <2>1 DEF get_mem_16
<1> QED BY <1>4, <1>6, <1>7

\* What the history notes of a call.
Call == [pc : Word, sp : Word, reg : [Names -> Byte], flags : FlagValues, interrupt : BOOLEAN]

\* What a step is to the open calls.
LEMMA StepsOfCalls ==
    ASSUME Machine, [Next]_vars
    PROVE  \/ \E c \in Call : Pushed(c.pc) /\ c.sp = SP /\ saved' = Append(saved, c)
           \/ /\ saved' = SubSeq(saved, 1, Len(saved) - 1)
              /\ PC' = get_mem_16(mem, SP) /\ Popped /\ mem' = mem
           \/ saved' = saved
<1>1. ASSUME NEW back \in Word, NEW addr, NEW i \in BOOLEAN, Entered(back, addr, i)
      PROVE  \E c \in Call : Pushed(c.pc) /\ c.sp = SP /\ saved' = Append(saved, c)
  <2> DEFINE c == [pc |-> back, sp |-> SP, reg |-> reg, flags |-> flags, interrupt |-> i]
  <2>1. c \in Call /\ c.pc = back /\ c.sp = SP BY DEF Call, Machine
  <2>2. saved' = Append(saved, c) /\ Pushed(back) BY <1>1 DEF Entered
  <2> QED BY <2>1, <2>2
<1>2. After \in Word /\ PC \in Word BY OperandTypes DEF Machine
<1>3. CASE CALL_nn
  <2>1. CASE Jumps
    <3>1. Entered(After, Imm16(set_mem_16(mem, SP - 2, After)), FALSE) BY <1>3, <2>1 DEF CALL_nn
    <3> QED BY <1>1, <1>2, <3>1
  <2>2. CASE ~Jumps BY <1>3, <2>2 DEF CALL_nn
  <2> QED BY <2>1, <2>2
<1>4. CASE RST
  <2>1. Entered(After, Op - \hC7, FALSE) BY <1>4 DEF RST
  <2> QED BY <1>1, <1>2, <2>1
<1>5. CASE RET
  <2>1. CASE Jumps BY <1>5, <2>1 DEF RET
  <2>2. CASE ~Jumps BY <1>5, <2>2 DEF RET
  <2> QED BY <2>1, <2>2
<1>6. CASE JR_n \/ JP_nn \/ JP_HL \/ CONTROL
  BY <1>6 DEF JR_n, JP_nn, JP_HL, CONTROL
<1>7. CASE restart
  <2>1. PICK v \in Vectors : Entered(PC, v, TRUE) BY <1>7 DEF restart
  <2> QED BY <1>1, <1>2, <2>1
<1>8. CASE Wake \/ UNCHANGED vars BY <1>8 DEF Wake, vars
<1>9. CASE exec_opcode
  BY <1>3, <1>4, <1>5, <1>6, <1>9 DEF exec_opcode, Flow
<1> QED BY <1>7, <1>8, <1>9 DEF Next

\* Every open call has its address on the stack, the later ones below.
Home(top) ==
    /\ saved \in Seq(Call)
    /\ \A i \in 1 .. Len(saved) :
          /\ SP <= saved[i].sp - 2 /\ saved[i].sp <= top
          /\ get_mem_16(mem, saved[i].sp - 2) = saved[i].pc
    /\ \A i, j \in 1 .. Len(saved) : i < j => saved[j].sp <= saved[i].sp - 2

\* The stack lies in RAM.
InRam(top, sp) == RomEnd <= sp /\ sp <= top

\* A sequence up to one of its places.
LEMMA FrontOf ==
    ASSUME NEW S, NEW s \in Seq(S), NEW k \in Nat, k <= Len(s)
    PROVE  /\ SubSeq(s, 1, k) \in Seq(S) /\ Len(SubSeq(s, 1, k)) = k
           /\ \A i \in 1 .. k : SubSeq(s, 1, k)[i] = s[i]
<1>1. SubSeq(s, 1, k) = [i \in 1 .. k |-> s[i]] OBVIOUS
<1>2. \A i \in 1 .. k : s[i] \in S OBVIOUS
<1> QED BY <1>1, <1>2

LEMMA HomeStep ==
    ASSUME NEW top \in Word, Machine, Machine', [Next]_vars, Home(top),
           InRam(top, SP), InRam(top, SP'), StackStep(top)
    PROVE  Home(top)' /\ (Returns => PC' = Last(saved).pc /\ SP' = Last(saved).sp)
<1> DEFINE n == Len(saved)
<1>0. /\ saved \in Seq(Call) /\ n \in Nat /\ top \in Nat /\ top < 65536
      /\ SP \in Nat /\ 32768 <= SP /\ SP <= top /\ SP' \in Nat /\ 32768 <= SP' /\ SP' <= top
      /\ \A i \in 1 .. n : /\ saved[i] \in Call /\ saved[i].sp \in Word /\ saved[i].pc \in Word
                           /\ SP <= saved[i].sp - 2 /\ saved[i].sp <= top
                           /\ get_mem_16(mem, saved[i].sp - 2) = saved[i].pc
      /\ \A i, j \in 1 .. n : i < j => saved[j].sp <= saved[i].sp - 2
  <2>1. saved \in Seq(Call) /\ n \in Nat BY DEF Home
  <2>2. \A i \in 1 .. n : saved[i] \in Call /\ saved[i].sp \in Word /\ saved[i].pc \in Word
    <3>1. \A c \in Call : c.sp \in Word /\ c.pc \in Word BY DEF Call
    <3>2. \A i \in 1 .. n : saved[i] \in Call BY <2>1
    <3> QED BY <3>1, <3>2
  <2>3. /\ SP \in Nat /\ 32768 <= SP /\ SP <= top /\ SP' \in Nat /\ 32768 <= SP' /\ SP' <= top
        /\ top \in Nat /\ top < 65536
    BY DEF InRam, RomEnd, Machine, Word
  <2> QED BY <2>1, <2>2, <2>3 DEF Home
<1>1. ASSUME NEW val, Pushed(val)
      PROVE  /\ SP' = SP - 2
             /\ \A i \in 1 .. n : get_mem_16(mem', saved[i].sp - 2) = saved[i].pc
             /\ val \in Word => get_mem_16(mem', SP') = val
  <2>1. SP' = SP - 2 /\ SP - 2 \in Nat /\ RomEnd <= SP - 2 /\ SP - 2 < 65535
    <3>1. SP' = (SP - 2) % 65536 BY <1>1 DEF Pushed
    <3> QED BY <1>0, <3>1 DEF RomEnd
  <2>2. mem' = set_mem_16(mem, SP - 2, val) BY <1>1 DEF Pushed
  <2>3. /\ \A a \in Word : a # SP - 2 /\ a # (SP - 2) + 1 => get_mem(mem', a) = get_mem(mem, a)
        /\ val \in Word => get_mem_16(mem', SP - 2) = val
    BY <2>1, <2>2, PushedReads
  <2>4. ASSUME NEW i \in 1 .. n PROVE get_mem_16(mem', saved[i].sp - 2) = saved[i].pc
    <3> DEFINE a == saved[i].sp - 2
    <3>0. SP <= a /\ a + 2 <= top /\ a \in Int BY <1>0 DEF Word
    <3> HIDE DEF a
    <3>1. a \in Word /\ a + 1 \in Word /\ a # SP - 2 /\ a # (SP - 2) + 1 /\ a + 1 # SP - 2
          /\ a + 1 # (SP - 2) + 1
      <4>1. SP \in Nat /\ top \in Nat /\ top < 65536 BY <1>0
      <4> QED BY <3>0, <4>1 DEF Word
    <3>2. get_mem(mem', a) = get_mem(mem, a) /\ get_mem(mem', a + 1) = get_mem(mem, a + 1)
      BY <2>3, <3>1
    <3>3. get_mem_16(mem', a) = get_mem_16(mem, a) BY <3>2 DEF get_mem_16
    <3> QED BY <1>0, <3>3 DEF a
  <2> QED BY <2>1, <2>3, <2>4
<1>2. CASE \E c \in Call : Pushed(c.pc) /\ c.sp = SP /\ saved' = Append(saved, c)
  <2>1. PICK c \in Call : Pushed(c.pc) /\ c.sp = SP /\ saved' = Append(saved, c)
    BY <1>2
  <2>2. c.pc \in Word BY DEF Call
  <2>3. /\ SP' = SP - 2 /\ get_mem_16(mem', SP') = c.pc
        /\ \A i \in 1 .. n : get_mem_16(mem', saved[i].sp - 2) = saved[i].pc
    BY <1>1, <2>1, <2>2
  <2>4. /\ saved' \in Seq(Call) /\ Len(saved') = n + 1 /\ saved'[n + 1] = c
        /\ \A i \in 1 .. n : saved'[i] = saved[i]
    BY <1>0, <2>1
  <2>5. \A i \in 1 .. n + 1 : i = n + 1 \/ i \in 1 .. n BY <1>0
  <2>6. \A i \in 1 .. n + 1 :
            /\ SP' <= saved'[i].sp - 2 /\ saved'[i].sp <= top
            /\ get_mem_16(mem', saved'[i].sp - 2) = saved'[i].pc
    <3>1. /\ SP' <= c.sp - 2 /\ c.sp <= top /\ get_mem_16(mem', c.sp - 2) = c.pc
      BY <1>0, <2>1, <2>3
    <3>2. ASSUME NEW i \in 1 .. n
          PROVE  /\ SP' <= saved[i].sp - 2 /\ saved[i].sp <= top
                 /\ get_mem_16(mem', saved[i].sp - 2) = saved[i].pc
      BY <1>0, <2>3 DEF Word
    <3> QED BY <2>4, <2>5, <3>1, <3>2
  <2>7. \A i, j \in 1 .. n + 1 : i < j => saved'[j].sp <= saved'[i].sp - 2
    <3> SUFFICES ASSUME NEW i \in 1 .. n + 1, NEW j \in 1 .. n + 1, i < j
                 PROVE  saved'[j].sp <= saved'[i].sp - 2
      OBVIOUS
    <3>1. i \in 1 .. n BY <1>0
    <3>2. CASE j = n + 1 BY <1>0, <2>1, <2>4, <3>1, <3>2
    <3>3. CASE j \in 1 .. n BY <1>0, <2>4, <3>1, <3>3
    <3> QED BY <2>5, <3>2, <3>3
  <2>8. ~Returns BY <1>0, <2>4 DEF Returns
  <2> QED BY <2>4, <2>6, <2>7, <2>8 DEF Home
<1>3. CASE /\ saved' = SubSeq(saved, 1, n - 1)
           /\ PC' = get_mem_16(mem, SP) /\ Popped /\ mem' = mem
  <2>1. CASE n = 0
    <3>1. saved = <<>> /\ saved' = <<>> BY <1>0, <1>3, <2>1
    <3> QED BY <2>1, <3>1 DEF Home, Returns
  <2>2. CASE n > 0
    <3>1. /\ saved' \in Seq(Call) /\ Len(saved') = n - 1 /\ n - 1 \in Nat
          /\ \A i \in 1 .. n - 1 : saved'[i] = saved[i]
      <4>1. saved \in Seq(Call) /\ n \in Nat /\ 1 <= n /\ n - 1 <= n BY <1>0, <2>2
      <4>2. n - 1 \in Nat BY <4>1
      <4>3. /\ SubSeq(saved, 1, n - 1) \in Seq(Call) /\ Len(SubSeq(saved, 1, n - 1)) = n - 1
            /\ \A i \in 1 .. n - 1 : SubSeq(saved, 1, n - 1)[i] = saved[i]
        <5> DEFINE k == n - 1
        <5>1. saved \in Seq(Call) /\ k \in Nat /\ k <= Len(saved) BY <4>1, <4>2
        <5> HIDE DEF k
        <5> QED BY <5>1, FrontOf DEF k
      <4> QED BY <1>3, <4>2, <4>3
    <3>2. Returns BY <1>0, <3>1 DEF Returns
    <3>3. Last(saved) = saved[n] /\ n \in 1 .. n BY <1>0, <2>2 DEF Last
    <3>4. SP = saved[n].sp - 2 BY <3>2, <3>3 DEF StackStep
    <3>5. SP' = saved[n].sp
      <4>1. SP' = (SP + 2) % 65536 BY <1>3 DEF Popped
      <4> DEFINE u == saved[n].sp
      <4>2. u \in Word BY <1>0, <3>3
      <4> HIDE DEF u
      <4>3. SP = u - 2 BY <3>4 DEF u
      <4>4. u = SP + 2 /\ u % 65536 = u BY <4>2, <4>3 DEF Word
      <4> QED BY <4>1, <4>4 DEF u
    <3>6. PC' = saved[n].pc BY <1>0, <1>3, <3>3, <3>4
    <3>7. ASSUME NEW i \in 1 .. n - 1
          PROVE  /\ SP' <= saved[i].sp - 2 /\ saved[i].sp <= top
                 /\ get_mem_16(mem', saved[i].sp - 2) = saved[i].pc
      <4>1. i \in 1 .. n /\ i < n BY <1>0
      <4> QED BY <1>0, <1>3, <3>3, <3>5, <4>1
    <3>8. \A i, j \in 1 .. n - 1 : i < j => saved'[j].sp <= saved'[i].sp - 2
      <4>1. \A i \in 1 .. n - 1 : i \in 1 .. n BY <1>0
      <4>2. \A i, j \in 1 .. n : i < j => saved[j].sp <= saved[i].sp - 2 BY <1>0
      <4>3. \A i \in 1 .. n - 1 : saved'[i] = saved[i] BY <3>1
      <4> HIDE DEF n
      <4> QED BY <4>1, <4>2, <4>3
    <3>9. Home(top)' BY <3>1, <3>7, <3>8 DEF Home
    <3> QED BY <3>3, <3>5, <3>6, <3>9
  <2> QED BY <1>0, <2>1, <2>2
<1>4. CASE saved' = saved
  <2>1. ~Returns /\ Len(saved') <= Len(saved) BY <1>0, <1>4 DEF Returns
  <2>2. ASSUME NEW i \in 1 .. n PROVE SP' <= saved[i].sp - 2
    <3>1. saved # <<>> /\ Last(saved) = saved[n] /\ n \in 1 .. n BY <1>0 DEF Last
    <3>2. SP' <= saved[n].sp - 2 BY <1>4, <3>1 DEF StackStep
    <3>3. i = n \/ i < n BY <1>0
    <3>4. i < n => saved[n].sp <= saved[i].sp - 2 BY <1>0, <3>1
    <3>5. saved[n].sp \in Int /\ saved[i].sp \in Int /\ SP' \in Int BY <1>0, <3>1 DEF Word
    <3> QED BY <3>2, <3>3, <3>4, <3>5
  <2>3. \A i \in 1 .. n : get_mem_16(mem', saved[i].sp - 2) = saved[i].pc
    <3>1. CASE PUSH
      <4>1. PICK val : Pushed(val) BY <3>1 DEF PUSH
      <4> QED BY <1>1, <4>1
    <3>2. CASE ~PUSH
      <4>1. \A a \in SP .. top - 1 : get_mem(mem', a) = get_mem(mem, a)
        BY <2>1, <3>2 DEF StackStep
      <4> SUFFICES ASSUME NEW i \in 1 .. n
                   PROVE  get_mem_16(mem', saved[i].sp - 2) = saved[i].pc
        OBVIOUS
      <4> DEFINE a == saved[i].sp - 2
      <4>2. a \in SP .. top - 1 /\ a + 1 \in SP .. top - 1 BY <1>0 DEF Word
      <4> HIDE DEF a
      <4>3. get_mem_16(mem', a) = get_mem_16(mem, a) BY <4>1, <4>2 DEF get_mem_16
      <4> QED BY <1>0, <4>3 DEF a
    <3> QED BY <3>1, <3>2
  <2> QED BY <1>0, <1>4, <2>1, <2>2, <2>3 DEF Home
<1> QED BY <1>2, <1>3, <1>4, StepsOfCalls

\* A return goes behind its call and leaves the stack as the call found it, however deep,
\* through interrupts at any moment, and whatever the routines do to registers and the
\* rest of the memory: of every program whose stack lies in RAM below some top and that
\* keeps it.  That pushing never reaches an open call's address, and that the bytes come
\* back in the order they went, is what the instructions contribute.
THEOREM ReturnsGoHome ==
    ASSUME NEW CONSTANT top \in Word
    PROVE  Spec /\ []InRam(top, SP) /\ [][StackStep(top)]_vars => ReturnsHome
<1>1. Init => Home(top)
  BY DEF Init, Home
<1>2. /\ Machine /\ Machine' /\ InRam(top, SP) /\ InRam(top, SP)' /\ Home(top)
      /\ [Next]_vars /\ [StackStep(top)]_vars
      => Home(top)' /\ [Returns => PC' = Last(saved).pc /\ SP' = Last(saved).sp]_vars
  <2> SUFFICES ASSUME Machine, Machine', InRam(top, SP), InRam(top, SP)', Home(top), [Next]_vars,
                      [StackStep(top)]_vars
               PROVE  Home(top)' /\ [Returns => PC' = Last(saved).pc /\ SP' = Last(saved).sp]_vars
    OBVIOUS
  <2>1. CASE UNCHANGED vars
    <3>1. saved' = saved /\ SP' = SP /\ mem' = mem BY <2>1 DEF vars
    <3> QED BY <2>1, <3>1 DEF Home
  <2>2. CASE StackStep(top)
    <3>1. InRam(top, SP') BY DEF InRam
    <3> QED BY <2>2, <3>1, HomeStep
  <2> QED BY <2>1, <2>2
<1>3. IInv => Machine BY DEF IInv
<1> QED BY <1>1, <1>2, <1>3, Invariance, PTL DEF Spec, ReturnsHome
=============================================================================

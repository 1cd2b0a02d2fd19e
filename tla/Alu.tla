--------------------------------- MODULE Alu ---------------------------------
(***************************************************************************)
(* The arithmetic of src/core/cpu.c: each operator is one function there,   *)
(* from the operands and the flags before to the value and the flags after. *)
(* A flag is 0 or 1.  Bytes and words wrap as uint8_t and uint16_t do.      *)
(***************************************************************************)
EXTENDS Integers, Sequences

Byte == 0 .. 255
Word == {n \in Nat : n < 65536}
FlagValues == [Z : 0 .. 1, N : 0 .. 1, H : 0 .. 1, C : 0 .. 1]

Flag(condition) == IF condition THEN 1 ELSE 0
Zero(val) == Flag(val = 0)
Set(z, n, h, c) == [Z |-> z, N |-> n, H |-> h, C |-> c]
Result(v, f) == [val |-> v, flags |-> f]

\* The low four bits, and the value of a byte taken as signed.
Nibble(val) == val % 16
SIGNED_IM_8_BIT(byte) == (byte % 128) - 128 * (byte \div 128)

-----------------------------------------------------------------------------
(* 8-bit arithmetic                                                        *)

\* Carry is found by looking for the wrap: the sum is below an operand.
ADD_8(val1, val2, f) ==
    LET sum == (val1 + val2) % 256
    IN  Result(sum, Set(Zero(sum), 0, Flag(Nibble(val1) + Nibble(val2) > 15),
                        Flag(sum < val2)))

\* Faulty variant: with a carry in, the sum may also wrap to the operand itself.
ADC_8NoEqual(val1, val2, f) ==
    LET sum == (val1 + val2 + f.C) % 256
    IN  Result(sum, Set(Zero(sum), 0, Flag(Nibble(val1) + Nibble(val2) + f.C > 15),
                        Flag(sum < val2)))

ADC_8(val1, val2, f) ==
    LET sum == (val1 + val2 + f.C) % 256
    IN  Result(sum, Set(Zero(sum), 0, Flag(Nibble(val1) + Nibble(val2) + f.C > 15),
                        Flag(sum < val2 \/ (f.C = 1 /\ sum = val2))))

SUB_8(val1, val2, f) ==
    Result((val1 - val2) % 256,
           Set(Flag(val1 = val2), 1, Flag(Nibble(val1) < Nibble(val2)), Flag(val1 < val2)))

SBC_8(val1, val2, f) ==
    LET result == val1 - val2 - f.C
    IN  Result(result % 256,
               Set(Zero(result % 256), 1, Flag(Nibble(val1) - Nibble(val2) - f.C < 0),
                   Flag(result < 0)))

\* A comparison is a subtraction that keeps the first operand.
CP_8(val1, val2, f) == Result(val1, SUB_8(val1, val2, f).flags)

INC_8(val, f) ==
    LET next == (val + 1) % 256
    IN  Result(next, Set(Zero(next), 0, Flag(Nibble(next) = 0), f.C))

DEC_8(val, f) ==
    LET next == (val - 1) % 256
    IN  Result(next, Set(Zero(next), 1, Flag(Nibble(next) = 15), f.C))

\* Faulty variant: the tens are judged after the ones were adjusted.
DAAOnesFirst(a, f) ==
    LET low == IF f.H = 1 \/ Nibble(a) > 9 THEN (a + 6) % 256 ELSE a
        tens == f.C = 1 \/ low > 153
        added == IF tens THEN (low + 96) % 256 ELSE low
    IN  Result(added, Set(Zero(added), f.N, 0, IF tens THEN 1 ELSE f.C))

\* Both tests are on A as it is by then: the second one after the first addition.
DAA(a, f) ==
    LET tens == f.C = 1 \/ a > 153
        high == IF tens THEN (a + 96) % 256 ELSE a
        ones == f.H = 1 \/ Nibble(high) > 9
        added == IF ones THEN (high + 6) % 256 ELSE high
        taken == (a + (IF f.H = 1 /\ f.C = 1 THEN 154 ELSE
                       IF f.C = 1 THEN 160 ELSE IF f.H = 1 THEN 250 ELSE 0)) % 256
    IN  IF f.N = 0
        THEN Result(added, Set(Zero(added), 0, 0, IF tens THEN 1 ELSE f.C))
        ELSE Result(taken, Set(Zero(taken), 1, 0, f.C))

-----------------------------------------------------------------------------
(* Bits                                                                    *)

Weights == <<1, 2, 4, 8, 16, 32, 64, 128>>
Bits(byte) == {i \in 0 .. 7 : (byte \div Weights[i + 1]) % 2 = 1}
OfBits(bits) ==
    LET w(i) == IF i \in bits THEN Weights[i + 1] ELSE 0
    IN  w(0) + w(1) + w(2) + w(3) + w(4) + w(5) + w(6) + w(7)

AND_8(val1, val2, f) ==
    LET val == OfBits(Bits(val1) \cap Bits(val2)) IN Result(val, Set(Zero(val), 0, 1, 0))
OR_8(val1, val2, f) ==
    LET val == OfBits(Bits(val1) \cup Bits(val2)) IN Result(val, Set(Zero(val), 0, 0, 0))
XOR_8(val1, val2, f) ==
    LET val == OfBits((Bits(val1) \cup Bits(val2)) \ (Bits(val1) \cap Bits(val2)))
    IN  Result(val, Set(Zero(val), 0, 0, 0))

\* The rotations of the 0xCB page set Z, those of A alone clear it.
Shifted(val, carry) == Result(val, Set(Zero(val), 0, 0, carry))
OfA(rotated) == Result(rotated.val, Set(0, 0, 0, rotated.flags.C))

RLC_N(val, f) == Shifted(((2 * val) % 256) + val \div 128, val \div 128)
RL_N(val, f)  == Shifted(((2 * val) % 256) + f.C, val \div 128)
RRC_N(val, f) == Shifted(val \div 2 + 128 * (val % 2), val % 2)
RR_N(val, f)  == Shifted(val \div 2 + 128 * f.C, val % 2)
SLA_N(val, f) == Shifted((2 * val) % 256, Flag(val > 127))
SRA_N(val, f) == Shifted(val \div 2 + 128 * (val \div 128), val % 2)
SRL_N(val, f) == Shifted(val \div 2, val % 2)
SWAP_n(val, f) == Shifted(16 * Nibble(val) + val \div 16, 0)

BIT_b_r(val, bit, f) == Result(val, Set(Flag(bit \notin Bits(val)), 0, 1, f.C))
SET_b_r(val, bit, f) == Result(OfBits(Bits(val) \cup {bit}), f)
RES_b_r(val, bit, f) == Result(OfBits(Bits(val) \ {bit}), f)

CPL(a, f) == Result(255 - a, Set(f.Z, 1, 1, f.C))
SCF(a, f) == Result(a, Set(f.Z, 0, 0, 1))
CCF(a, f) == Result(a, Set(f.Z, 0, 0, 1 - f.C))

-----------------------------------------------------------------------------
(* 16-bit arithmetic                                                       *)

\* Z is kept.
ADD_16(val1, val2, f) ==
    Result((val1 + val2) % 65536,
           Set(f.Z, 0, Flag((val1 % 4096) + (val2 % 4096) > 4095),
                       Flag(65535 - val1 < val2)))

\* Bit number log of an exclusive or of three numbers, 2^log = weight.
Parity(weight, x, y, z) == (x \div weight + y \div weight + z \div weight) % 2

\* SP and a signed byte; the carries are bits 4 and 8 of SP ^ s8 ^ sum.
OffsetSP(sp, byte, f) ==
    LET s8 == SIGNED_IM_8_BIT(byte)
        sum == (sp + s8) % 65536
    IN  Result(sum, Set(0, 0, Parity(16, sp, s8 % 65536, sum),
                        Parity(256, sp, s8 % 65536, sum)))
=============================================================================

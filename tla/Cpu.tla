--------------------------------- MODULE Cpu ---------------------------------
(***************************************************************************)
(* The instruction set of src/core/cpu.c: exec_opcode and the tables ins,   *)
(* ext_ins and ins_words it goes through, on registers and memory.  Module  *)
(* Alu has the arithmetic, module Emulator the loop that calls exec_opcode. *)
(*                                                                         *)
(* The tables are regular, so opcodes are taken apart instead of listed:    *)
(* bits 0..2 and 3..5 name an 8-bit operand, bits 4..5 a register pair.     *)
(* A step is one instruction or the entry into an interrupt's routine.      *)
(*                                                                         *)
(* Left out: what the devices do with the cycles they are passed, the       *)
(* registers behind 0xFF00 (LDH reads and writes them as memory; module     *)
(* MemoryMap has them), and what ends HALT and STOP (module Emulator).      *)
(***************************************************************************)
EXTENDS Alu, Sequences, SequencesExt

CONSTANTS
    Starts,          \* initial registers, flags, stack pointers and memories
    Vectors,         \* addresses of the interrupt routines
    MaxInterrupts    \* bound on the interrupts taken in one run

Names == {"A", "B", "C", "D", "E", "H", "L"}
RomEnd == \h8000     \* writes below go to the cartridge's controller

ASSUME CpuAssumption ==
    /\ \A s \in Starts : /\ s.reg \in [Names -> Byte] /\ s.flags \in FlagValues
                         /\ s.SP \in Word /\ s.PC \in Word
                         /\ s.ime \in BOOLEAN
                         /\ DOMAIN s.mem \subseteq Word /\ \A a \in DOMAIN s.mem : s.mem[a] \in Byte
    /\ Vectors \subseteq Word /\ MaxInterrupts \in Nat

VARIABLES
    reg, flags, SP, PC,
    mem,                        \* what is not in its domain reads as 0
    code,                       \* addresses the program was loaded at
    cycles,                     \* ins[op].cycles of the conditional instructions
    interrupts_enabled, interrupts_enabled_timer,
    asleep,                     \* halted or stopped
    skip_bug,                   \* argument of the next exec_opcode
    returned,                   \* cycles the last exec_opcode returned
    ticks,                      \* history: cycles it passed to the devices
    calc,                       \* history: the arithmetic it did
    saved,                      \* history: where the open calls were made
    taken                       \* history: interrupts taken

data == <<reg, flags>>
loop == <<interrupts_enabled, interrupts_enabled_timer, asleep, skip_bug>>
told == <<returned, ticks, calc>>
vars == <<data, SP, PC, mem, code, cycles, loop, told, saved, taken>>

\* Conditional jumps: with an offset, with an address, calls and returns.
JRcc == {\h20, \h28, \h30, \h38}
JPcc == {\hC2, \hCA, \hD2, \hDA}
CALLcc == {\hC4, \hCC, \hD4, \hDC}
RETcc == {\hC0, \hC8, \hD0, \hD8}
Conditional == JRcc \cup JPcc \cup CALLcc \cup RETcc

NoCalc == [kind |-> "none", x |-> 0, y |-> 0, c |-> 0, v |-> 0, f |-> Set(0, 0, 0, 0)]

Init ==
    \E s \in Starts :
        /\ reg = s.reg /\ flags = s.flags /\ SP = s.SP /\ PC = s.PC
        /\ mem = s.mem /\ code = DOMAIN s.mem
        /\ cycles = [op \in Conditional |-> IF op \in JRcc \cup RETcc THEN 8 ELSE 12]
        /\ interrupts_enabled = s.ime /\ interrupts_enabled_timer = FALSE
        /\ asleep = FALSE /\ skip_bug = FALSE
        /\ returned = 0 /\ ticks = 0 /\ calc = NoCalc /\ saved = <<>> /\ taken = 0

-----------------------------------------------------------------------------
(* Memory, operands and opcodes                                            *)

get_mem(m, addr) == IF addr % 65536 \in DOMAIN m THEN m[addr % 65536] ELSE 0
get_mem_16(m, loc) == 256 * get_mem(m, loc + 1) + get_mem(m, loc)

set_mem(m, addr, val) ==
    LET a == addr % 65536
    IN  IF a < RomEnd THEN m ELSE [x \in DOMAIN m \cup {a} |-> IF x = a THEN val ELSE m[x]]

\* The high byte first.
set_mem_16(m, loc, val) ==
    set_mem(set_mem(m, loc + 1, val \div 256), loc, val % 256)

Op == get_mem(mem, PC)
In(first, step, last) == Op \in first .. last /\ (Op - first) % step = 0

words ==
    CASE Op \in {\h01, \h11, \h21, \h31, \h08, \hC3, \hCD, \hEA, \hFA} \cup JPcc \cup CALLcc -> 3
      [] Op \in {\h10, \h18, \hCB, \hE0, \hE8, \hF0, \hF8} \cup JRcc -> 2
      [] Op < \h40 /\ Op % 8 = 6 -> 2
      [] Op >= \hC0 /\ Op % 8 = 6 -> 2
      [] OTHER -> 1

\* PC while the instruction does its work: behind it, or one byte before that
\* when its first byte was fetched twice.
After == (PC - Flag(skip_bug) + words) % 65536
Imm8 == get_mem(mem, After - 1)
Imm16(m) == 256 * get_mem(m, After - 1) + get_mem(m, After - 2)

Pair(hi, lo) == 256 * reg[hi] + reg[lo]
HL == Pair("H", "L")
WithPair(hi, lo, val) == [reg EXCEPT ![hi] = val \div 256, ![lo] = val % 256]
HighOf == <<"B", "D", "H">>
LowOf == <<"C", "E", "L">>

\* Operand i of an opcode: B, C, D, E, H, L, the byte at HL, A.
Memory == 6
Operands == <<"B", "C", "D", "E", "H", "L", "memHL", "A">>
Get(i) == IF i = Memory THEN get_mem(mem, HL) ELSE reg[Operands[i + 1]]
Put(i, val) ==
    IF i = Memory
    THEN mem' = set_mem(mem, HL, val) /\ UNCHANGED reg
    ELSE reg' = [reg EXCEPT ![Operands[i + 1]] = val] /\ UNCHANGED mem

\* Pair i of an opcode: BC, DE, HL, SP.
Get16(i) == IF i = 3 THEN SP ELSE Pair(HighOf[i + 1], LowOf[i + 1])
Put16(i, val) ==
    IF i = 3 THEN SP' = val /\ UNCHANGED reg
             ELSE reg' = WithPair(HighOf[i + 1], LowOf[i + 1], val) /\ UNCHANGED SP
PairOf == (Op \div 16) % 4

\* Condition of an opcode: NZ, Z, NC, C.
Holds ==
    LET condition == (Op \div 8) % 4
    IN  (IF condition < 2 THEN flags.Z ELSE flags.C) = condition % 2

-----------------------------------------------------------------------------
(* Cycles                                                                  *)

\* Faulty variant: what the operation has passed on already is passed on again.
TakesTwice(early, passed, n) == ticks' = early + n /\ returned' = n

\* The operation passed early cycles to the devices and noted passed of them in
\* timer_cycles_passed; exec_opcode passes the rest of the n cycles.
Takes(early, passed, n) == ticks' = early + n - passed /\ returned' = n

\* An extended instruction: 8 cycles on top of those of the operation.
TakesExt(early, n) == ticks' = early + 8 /\ returned' = n

\* The instruction that follows in memory is next.
Straight == PC' = After

-----------------------------------------------------------------------------
(* Loads                                                                   *)

LD_r_r ==
    /\ Op \in \h40 .. \h7F /\ Op # \h76
    /\ Put((Op \div 8) % 8, Get(Op % 8))
    /\ Takes(0, 0, IF Memory \in {Op % 8, (Op \div 8) % 8} THEN 8 ELSE 4)
    /\ Straight /\ UNCHANGED <<flags, SP, cycles>>

LD_8_IM ==
    /\ In(\h06, 8, \h3E)
    /\ Put((Op \div 8) % 8, Imm8)
    /\ IF Op = \h36 THEN Takes(4, 4, 12) ELSE Takes(0, 0, 8)
    /\ Straight /\ UNCHANGED <<flags, SP, cycles>>

\* A and the byte at BC, DE, or HL, which LDI and LDD then move.
LD_A_mem ==
    /\ In(\h02, 8, \h3A)
    /\ LET addr == IF PairOf < 2 THEN Get16(PairOf) ELSE HL
           moved == CASE PairOf = 2 -> WithPair("H", "L", (HL + 1) % 65536)
                      [] PairOf = 3 -> WithPair("H", "L", (HL - 1) % 65536)
                      [] OTHER -> reg
       IN  IF Op % 16 = 2
           THEN mem' = set_mem(mem, addr, reg["A"]) /\ reg' = moved
           ELSE reg' = [moved EXCEPT !["A"] = get_mem(mem, addr)] /\ UNCHANGED mem
    /\ Takes(0, 0, 8) /\ Straight /\ UNCHANGED <<flags, SP, cycles>>

\* A and the byte at an immediate address, at 0xFF00 + n and at 0xFF00 + C.
LD_A_nn ==
    /\ Op \in {\hEA, \hFA, \hE0, \hF0, \hE2, \hF2}
    /\ LET addr == CASE Op \in {\hEA, \hFA} -> Imm16(mem)
                     [] Op \in {\hE0, \hF0} -> \hFF00 + Imm8
                     [] OTHER -> \hFF00 + reg["C"]
       IN  IF Op < \hF0
           THEN mem' = set_mem(mem, addr, reg["A"]) /\ UNCHANGED reg
           ELSE reg' = [reg EXCEPT !["A"] = get_mem(mem, addr)] /\ UNCHANGED mem
    /\ CASE Op \in {\hEA, \hFA} -> Takes(8, 8, 16)
         [] Op \in {\hE0, \hF0} -> Takes(4, 4, 12)
         [] OTHER -> Takes(0, 0, 8)
    /\ Straight /\ UNCHANGED <<flags, SP, cycles>>

LD_16_IM ==
    /\ In(\h01, 16, \h31)
    /\ Put16(PairOf, Imm16(mem))
    /\ Takes(0, 0, 12) /\ Straight /\ UNCHANGED <<flags, mem, cycles>>

LD_nn_SP ==
    /\ Op = \h08
    /\ mem' = set_mem_16(mem, Imm16(mem), SP)
    /\ Takes(0, 0, 20) /\ Straight /\ UNCHANGED <<reg, flags, SP, cycles>>

LD_SP_HL ==
    /\ Op = \hF9 /\ SP' = HL
    /\ Takes(0, 0, 8) /\ Straight /\ UNCHANGED <<reg, flags, mem, cycles>>

\* F is the flags in its high nibble; its low nibble reads as 0.
FByte == 128 * flags.Z + 64 * flags.N + 32 * flags.H + 16 * flags.C

OfFByte(b) == [Z |-> b \div 128, N |-> (b \div 64) % 2, H |-> (b \div 32) % 2, C |-> (b \div 16) % 2]

\* Faulty variant: the two bytes in the other order.
PushedSwapped(val) ==
    /\ SP' = (SP - 2) % 65536
    /\ mem' = set_mem_16(mem, SP - 2, 256 * (val % 256) + val \div 256)

Pushed(val) == SP' = (SP - 2) % 65536 /\ mem' = set_mem_16(mem, SP - 2, val)
Popped == SP' = (SP + 2) % 65536

PUSH ==
    /\ In(\hC5, 16, \hF5)
    /\ Pushed(IF Op = \hF5 THEN 256 * reg["A"] + FByte ELSE Get16(PairOf))
    /\ Takes(0, 0, 16) /\ Straight /\ UNCHANGED <<reg, flags, cycles>>

POP ==
    /\ In(\hC1, 16, \hF1) /\ Popped
    /\ LET val == get_mem_16(mem, SP)
       IN  IF Op = \hF1
           THEN reg' = [reg EXCEPT !["A"] = val \div 256] /\ flags' = OfFByte(val % 256)
           ELSE /\ reg' = WithPair(HighOf[PairOf + 1], LowOf[PairOf + 1], val)
                /\ UNCHANGED flags
    /\ Takes(0, 0, 12) /\ Straight /\ UNCHANGED <<mem, cycles>>

-----------------------------------------------------------------------------
(* Arithmetic                                                              *)

Alu8(i, x, y) ==
    CASE i = 0 -> ADD_8(x, y, flags) [] i = 1 -> ADC_8(x, y, flags)
      [] i = 2 -> SUB_8(x, y, flags) [] i = 3 -> SBC_8(x, y, flags)
      [] i = 4 -> AND_8(x, y, flags) [] i = 5 -> XOR_8(x, y, flags)
      [] i = 6 -> OR_8(x, y, flags)  [] i = 7 -> CP_8(x, y, flags)

\* The history of arithmetic: what was done to x and y, with carry in c.
Calculated(kind, x, y, c, result) ==
    calc' = [kind |-> kind, x |-> x, y |-> y, c |-> c, v |-> result.val, f |-> result.flags]
Alu8Kinds == <<"add", "add", "sub", "sub", "and", "xor", "or", "cp">>

ALU_A ==
    /\ Op \in \h80 .. \hBF \/ (Op >= \hC0 /\ Op % 8 = 6)
    /\ LET i == (Op \div 8) % 8
           y == IF Op < \hC0 THEN Get(Op % 8) ELSE Imm8
           result == Alu8(i, reg["A"], y)
       IN  /\ reg' = [reg EXCEPT !["A"] = result.val] /\ flags' = result.flags
           /\ Calculated(Alu8Kinds[i + 1], reg["A"], y, IF i \in {1, 3} THEN flags.C ELSE 0, result)
    /\ Takes(0, 0, IF Op \in \h80 .. \hBF /\ Op % 8 # Memory THEN 4 ELSE 8)
    /\ Straight /\ UNCHANGED <<SP, mem, cycles>>

\* INC and DEC of a byte; in memory it is read before the cycles and written after.
INC_DEC ==
    /\ In(\h04, 8, \h3C) \/ In(\h05, 8, \h3D)
    /\ LET i == (Op \div 8) % 8
           result == IF Op % 8 = 4 THEN INC_8(Get(i), flags) ELSE DEC_8(Get(i), flags)
       IN  /\ Put(i, result.val) /\ flags' = result.flags
           /\ Calculated(IF Op % 8 = 4 THEN "inc" ELSE "dec", Get(i), 1, flags.C, result)
           /\ IF i = Memory THEN Takes(4, 4, 12) ELSE Takes(0, 0, 4)
    /\ Straight /\ UNCHANGED <<SP, cycles>>

ADD_HL ==
    /\ In(\h09, 16, \h39)
    /\ LET result == ADD_16(HL, Get16(PairOf), flags)
       IN  /\ reg' = WithPair("H", "L", result.val) /\ flags' = result.flags
           /\ Calculated("add16", HL, Get16(PairOf), 0, result)
    /\ Takes(0, 0, 8) /\ Straight /\ UNCHANGED <<SP, mem, cycles>>

\* ADD SP,n and LD HL,SP+n.
ADD_SP ==
    /\ Op \in {\hE8, \hF8}
    /\ LET result == OffsetSP(SP, Imm8, flags)
       IN  /\ IF Op = \hE8 THEN SP' = result.val /\ UNCHANGED reg
                           ELSE reg' = WithPair("H", "L", result.val) /\ UNCHANGED SP
           /\ flags' = result.flags /\ Calculated("offset", SP, Imm8, 0, result)
    /\ IF Op = \hE8 THEN Takes(4, 4, 16) ELSE Takes(0, 0, 12)
    /\ Straight /\ UNCHANGED <<mem, cycles>>

INC_DEC_16 ==
    /\ In(\h03, 16, \h33) \/ In(\h0B, 16, \h3B)
    /\ Put16(PairOf, (Get16(PairOf) + (IF Op % 16 = 3 THEN 1 ELSE -1)) % 65536)
    /\ Takes(0, 0, 8) /\ Straight /\ UNCHANGED <<flags, mem, cycles>>

\* The operations on A alone.
ByteOfA ==
    LET a == reg["A"] IN
    CASE Op = \h07 -> OfA(RLC_N(a, flags)) [] Op = \h0F -> OfA(RRC_N(a, flags))
      [] Op = \h17 -> OfA(RL_N(a, flags))  [] Op = \h1F -> OfA(RR_N(a, flags))
      [] Op = \h27 -> DAA(a, flags)        [] Op = \h2F -> CPL(a, flags)
      [] Op = \h37 -> SCF(a, flags)        [] Op = \h3F -> CCF(a, flags)

\* DAA is remembered with the operands of the addition or subtraction before it.
ON_A ==
    /\ In(\h07, 8, \h3F)
    /\ reg' = [reg EXCEPT !["A"] = ByteOfA.val] /\ flags' = ByteOfA.flags
    /\ IF Op = \h27
       THEN Calculated(IF calc.kind \in {"add", "sub"} THEN "daa" ELSE "none",
                       calc.x, calc.y, calc.c, ByteOfA)
       ELSE calc' = NoCalc
    /\ Takes(0, 0, 4) /\ Straight /\ UNCHANGED <<SP, mem, cycles>>

\* The 0xCB page: rotations and shifts, then BIT, RES and SET of bit b.
Ext == Imm8
Page(first, last) == Op = \hCB /\ Ext \in first .. last /\ Straight /\ UNCHANGED <<SP, cycles>>
BitOf == (Ext \div 8) % 8

\* A byte in memory is read after 4 cycles and written after 4 more.
Modified(result) ==
    /\ Put(Ext % 8, result.val) /\ flags' = result.flags
    /\ IF Ext % 8 = Memory THEN TakesExt(8, 16) ELSE TakesExt(0, 8)

Rotated(n, val) ==
    CASE n = 0 -> RLC_N(val, flags) [] n = 1 -> RRC_N(val, flags)
      [] n = 2 -> RL_N(val, flags)  [] n = 3 -> RR_N(val, flags)
      [] n = 4 -> SLA_N(val, flags) [] n = 5 -> SRA_N(val, flags)
      [] n = 6 -> SWAP_n(val, flags) [] n = 7 -> SRL_N(val, flags)

ROTATE == Page(0, \h3F) /\ Modified(Rotated(Ext \div 8, Get(Ext % 8)))

BIT ==
    /\ Page(\h40, \h7F) /\ flags' = BIT_b_r(Get(Ext % 8), BitOf, flags).flags
    /\ IF Ext % 8 = Memory THEN TakesExt(4, 16) ELSE TakesExt(0, 8)
    /\ UNCHANGED <<reg, mem>>

RES == Page(\h80, \hBF) /\ Modified(RES_b_r(Get(Ext % 8), BitOf, flags))
SET == Page(\hC0, \hFF) /\ Modified(SET_b_r(Get(Ext % 8), BitOf, flags))

-----------------------------------------------------------------------------
(* Jumps, calls and returns                                                *)

\* A conditional instruction writes its cost to the table, from which exec_opcode
\* then reads it; the others find theirs there.
Branch(yes, no) ==
    IF Op \in Conditional
    THEN /\ cycles' = [cycles EXCEPT ![Op] = IF Holds THEN yes ELSE no]
         /\ Takes(0, 0, cycles'[Op])
    ELSE Takes(0, 0, yes) /\ UNCHANGED cycles

Jumps == Op \in Conditional => Holds

JR_n ==
    /\ Op \in JRcc \cup {\h18}
    /\ PC' = IF Jumps THEN (After + SIGNED_IM_8_BIT(Imm8)) % 65536 ELSE After
    /\ Branch(12, 8) /\ UNCHANGED <<data, SP, mem, saved>>

JP_nn ==
    /\ Op \in JPcc \cup {\hC3}
    /\ PC' = IF Jumps THEN Imm16(mem) ELSE After
    /\ Branch(16, 12) /\ UNCHANGED <<data, SP, mem, saved>>

JP_HL ==
    /\ Op = \hE9 /\ PC' = HL
    /\ Takes(0, 0, 4) /\ UNCHANGED <<data, SP, mem, cycles, saved>>

\* Pushes the address behind the instruction and goes to addr.  The history notes
\* where the call was made and what the registers held.
Entered(back, addr, interrupt) ==
    /\ Pushed(back) /\ PC' = addr
    /\ saved' = Append(saved, [pc |-> back, sp |-> SP, reg |-> reg, flags |-> flags,
                               interrupt |-> interrupt])

\* The immediate address is read after the return address is written.
CALL_nn ==
    /\ Op \in CALLcc \cup {\hCD}
    /\ IF Jumps
       THEN Entered(After, Imm16(set_mem_16(mem, SP - 2, After)), FALSE)
       ELSE Straight /\ UNCHANGED <<SP, mem, saved>>
    /\ Branch(24, 12) /\ UNCHANGED data

RST ==
    /\ In(\hC7, 8, \hFF)
    /\ Entered(After, Op - \hC7, FALSE)
    /\ Takes(0, 0, 16) /\ UNCHANGED <<data, cycles>>

RET ==
    /\ Op \in RETcc \cup {\hC9, \hD9}
    /\ IF Jumps
       THEN PC' = get_mem_16(mem, SP) /\ Popped /\ saved' = SubSeq(saved, 1, Len(saved) - 1)
       ELSE Straight /\ UNCHANGED <<SP, saved>>
    /\ Branch(IF Op \in RETcc THEN 20 ELSE 16, 8)
    /\ UNCHANGED <<data, mem>>

\* HALT and STOP, DI and EI, and an opcode that is none.
Invalid == {\hD3, \hDB, \hDD, \hE3, \hE4, \hEB, \hEC, \hED, \hF4, \hFC, \hFD}
CONTROL ==
    /\ Op \in {\h00, \h10, \h76, \hF3, \hFB} \cup Invalid
    /\ Takes(0, 0, IF Op \in {\h00, \hF3, \hFB} THEN 4 ELSE 0)
    /\ Straight /\ UNCHANGED <<data, SP, mem, cycles, saved>>

Loads == LD_r_r \/ LD_8_IM \/ LD_A_mem \/ LD_A_nn \/ LD_16_IM \/ LD_nn_SP \/ LD_SP_HL
            \/ PUSH \/ POP \/ INC_DEC_16
Arithmetic == ALU_A \/ INC_DEC \/ ADD_HL \/ ADD_SP \/ ON_A
Extended == ROTATE \/ BIT \/ RES \/ SET
Flow == JR_n \/ JP_nn \/ JP_HL \/ CALL_nn \/ RST \/ RET \/ CONTROL

\* EI and RETI enable the interrupts when the next instruction begins.  STOP does not
\* stop when it switches the speed.
exec_opcode ==
    /\ ~asleep /\ PC \in code
    /\ interrupts_enabled' = (Op # \hF3 /\ (interrupts_enabled \/ interrupts_enabled_timer))
    /\ interrupts_enabled_timer' = (Op \in {\hFB, \hD9})
    /\ \/ Loads /\ calc' = NoCalc /\ UNCHANGED saved
       \/ Arithmetic /\ UNCHANGED saved
       \/ Extended /\ calc' = NoCalc /\ UNCHANGED saved
       \/ Flow /\ calc' = NoCalc
    /\ asleep' \in (IF Op = \h10 THEN BOOLEAN ELSE {Op = \h76})
    /\ skip_bug' = FALSE /\ UNCHANGED <<code, taken>>

\* handle_interrupts enters a routine between two instructions.
restart ==
    /\ interrupts_enabled /\ taken < MaxInterrupts
    /\ \E v \in Vectors : Entered(PC, v, TRUE)
    /\ taken' = taken + 1
    /\ interrupts_enabled' = FALSE /\ asleep' = FALSE /\ skip_bug' = FALSE
    /\ UNCHANGED <<data, code, cycles, interrupts_enabled_timer, told>>

\* What ends HALT and STOP without entering a routine; masked interrupts ending a
\* HALT make the next instruction's first byte repeat.
Wake ==
    /\ asleep
    /\ asleep' = FALSE /\ skip_bug' \in {FALSE, ~interrupts_enabled}
    /\ UNCHANGED <<data, SP, PC, mem, code, cycles, told, saved, taken,
                   interrupts_enabled, interrupts_enabled_timer>>

Next == exec_opcode \/ restart \/ Wake

Spec == Init /\ [][Next]_vars

-----------------------------------------------------------------------------
(* Properties                                                              *)

TypeOK ==
    /\ reg \in [Names -> Byte] /\ flags \in FlagValues
    /\ SP \in Word /\ PC \in Word
    /\ DOMAIN mem \subseteq Word /\ \A a \in DOMAIN mem : mem[a] \in Byte
    /\ cycles \in [Conditional -> {8, 12, 16, 20, 24}]
    /\ skip_bug \in BOOLEAN /\ interrupts_enabled \in BOOLEAN

\* BIT b,(HL), for any b.
BitOfMemory == Op = \hCB /\ Ext \in \h40 .. \h7F /\ Ext % 8 = Memory

\* An instruction passes the devices, early and at its end, as many cycles as exec_opcode
\* returns ("returns the amount of cycles the instruction takes", cpu.c:1585).  The one
\* exception is BIT b,(HL), which passes 12 and returns 16 (cpu.c:1018).
TicksAgree ==
    [][~asleep /\ UNCHANGED taken =>
          IF BitOfMemory THEN ticks' = 12 /\ returned' = 16 ELSE ticks' = returned']_vars

\* Sums and differences modulo width with the flag that carries out of it.
Adds(width, carry) ==
    (calc.v % width) + width * carry = (calc.x % width) + (calc.y % width) + calc.c
Subtracts(width, borrow) ==
    (calc.v % width) - width * borrow = (calc.x % width) - (calc.y % width) - calc.c

\* Value, carry and half carry together are the exact result, though the code finds
\* carries by comparing wrapped values or by xor ("TODO find out why this works",
\* cpu.c:285).
ArithmeticExact ==
    /\ calc.kind = "add" => Adds(16, calc.f.H) /\ Adds(256, calc.f.C)
    /\ calc.kind = "sub" => Subtracts(16, calc.f.H) /\ Subtracts(256, calc.f.C)
    /\ calc.kind = "add16" => Adds(4096, calc.f.H) /\ Adds(65536, calc.f.C)
    /\ calc.kind = "offset" => Adds(16, calc.f.H) /\ Adds(256, calc.f.C)
    /\ calc.kind \in {"add", "sub"} => (calc.f.Z = 1 <=> calc.v = 0)

\* A byte that is two decimal digits, and its value.
IsBcd(byte) == byte % 16 < 10 /\ byte \div 16 < 10
Decimal(byte) == 10 * (byte \div 16) + (byte % 16)

\* DAA after an addition or subtraction of decimal numbers gives their decimal sum or
\* difference, with the carry to chain on.
BcdExact ==
    calc.kind = "daa" /\ IsBcd(calc.x) /\ IsBcd(calc.y) =>
        /\ IsBcd(calc.v)
        /\ IF calc.f.N = 0
           THEN Decimal(calc.v) + 100 * calc.f.C = Decimal(calc.x) + Decimal(calc.y) + calc.c
           ELSE Decimal(calc.v) - 100 * calc.f.C = Decimal(calc.x) - Decimal(calc.y) - calc.c

\* A return, however deep, goes behind its call and leaves the stack as the call found it.
Returns == Len(saved') < Len(saved)
ReturnsHome == [][Returns => PC' = Last(saved).pc /\ SP' = Last(saved).sp]_vars

\* The stack of a program that keeps its own, below top: only pushing writes to what is
\* on it, a routine does not pop what it found there, and it returns when it has popped
\* what it pushed.  (A step that also calls or is interrupted only pushes.)
StackStep(top) ==
    /\ ~PUSH /\ Len(saved') <= Len(saved) =>
          \A a \in SP .. top - 1 : get_mem(mem', a) = get_mem(mem, a)
    /\ saved # <<>> /\ saved' = saved => SP' <= Last(saved).sp - 2
    /\ Returns => SP = Last(saved).sp - 2

\* A routine that saves what it uses leaves no trace in the program it interrupted.
HandlersTransparent ==
    [][Returns /\ Last(saved).interrupt =>
          reg' = Last(saved).reg /\ flags' = Last(saved).flags]_vars
=============================================================================

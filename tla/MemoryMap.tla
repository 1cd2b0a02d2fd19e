------------------------------ MODULE MemoryMap ------------------------------
(***************************************************************************)
(* The memory map, src/core/mmu/memory.c: which byte of which array an     *)
(* address stands for when it is written (WriteMem) and when it is read     *)
(* (ReadMem), under the two bank registers and the boot ROM.               *)
(*                                                                         *)
(* The two functions decode on their own, under conditions that differ;    *)
(* beside them a history records what every place of the machine should    *)
(* hold, by the comments of memory.c.  Addresses are those of the machine, *)
(* of which a game uses a few.                                             *)
(*                                                                         *)
(* Left out: the cartridge behind 0x0000-0x7FFF and 0xA000-0xBFFF (module  *)
(* Cartridge) and the registers of the devices (their own modules).        *)
(***************************************************************************)
EXTENDS Integers

CONSTANTS
    Addrs,          \* addresses the game uses, of VRAM, RAM, OAM and high RAM, but for
                    \* 0xFDFF, the last of the echo, which memory.c does not repeat
    Data,           \* bytes it writes
    Banks           \* and those it writes to SVBK

Span(first, last) == {a \in Nat : first <= a /\ a <= last}
Vram == Span(32768, 40959)              \* 0x8000-0x9FFF
SwitchedRam == Span(53248, 57343)       \* 0xD000-0xDFFF
Echo == Span(57344, 65023)              \* 0xE000-0xFDFF
Oam == Span(65024, 65183)               \* 0xFE00-0xFE9F
Unusable == Span(65184, 65279)          \* 0xFEA0-0xFEFF
IoMem == Span(65280, 65535)             \* 0xFF00-0xFFFF

ASSUME MemoryMapAssumption ==
    /\ Addrs \subseteq Vram \cup Span(49152, 65535) /\ 65023 \notin Addrs
    /\ 0 \in Data /\ Data \subseteq Nat /\ Banks \subseteq Nat

VARIABLES
    cgb, features,          \* a Game Boy Color; cgb_features: a game for it
    is_booting,
    cgb_vram_bank, VBANK,   \* the bank, and what the game reads
    cgb_ram_bank, SVBANK,
    bytes,                  \* the arrays
    holds                   \* history: what every place should hold

machine == <<cgb, features>>
banks == <<cgb_vram_bank, VBANK, cgb_ram_bank, SVBANK>>
memory == <<bytes, holds>>
mapVars == <<machine, is_booting, banks, memory>>

ColorMode == cgb /\ (features \/ is_booting)

-----------------------------------------------------------------------------
(* The arrays: <<array, bank, offset>>                                     *)

\* Faulty variant: the echo is taken off only where it repeats bank 0.
UnechoedLow(a) == IF a >= 57344 /\ a - 57344 < 4096 THEN a - 8192 ELSE a

\* (uint16_t)(addr - ECHO_RAM_START) < 0x1DFF: all of the echo but its last byte.
Unechoed(a) == IF a >= 57344 /\ a - 57344 < 7679 THEN a - 8192 ELSE a

High(a) ==
    IF a \in Oam THEN <<"oam_mem", 0, a - 65024>>
    ELSE IF a \in IoMem THEN <<"io_mem", 0, a - 65280>>
    ELSE <<"mem", 0, a - 32768>>

\* The byte WriteMem writes for an address after the echo.
Written(a) ==
    IF cgb /\ cgb_vram_bank = 1 /\ a \in Vram THEN <<"vram_bank_1", 0, a - 32768>>
    ELSE IF cgb /\ cgb_ram_bank > 1 /\ a \in SwitchedRam
         THEN <<"cgb_ram_banks", cgb_ram_bank - 2, a - 53248>>
    ELSE High(a)

\* The byte ReadMem reads.
Read(a) ==
    IF ColorMode /\ cgb_vram_bank = 1 /\ a \in Vram THEN <<"vram_bank_1", 0, a - 32768>>
    ELSE IF cgb /\ cgb_ram_bank > 1 /\ a \in SwitchedRam
         THEN <<"cgb_ram_banks", cgb_ram_bank - 2, a - 53248>>
    ELSE High(a)

ReadMem(a) == IF a \in Unusable THEN 0 ELSE bytes[Read(Unechoed(a))]

Arrays == UNION {
    {High(Unechoed(a)) : a \in Addrs \ Unusable},
    {<<"vram_bank_1", 0, a - 32768>> : a \in Addrs \cap Vram},
    {<<"cgb_ram_banks", b, Unechoed(a) - 53248>> :
        b \in 0 .. 5, a \in {x \in Addrs : Unechoed(x) \in SwitchedRam}}}

-----------------------------------------------------------------------------
(* The places of the machine, as the comments describe them                *)

\* "2 VRAM banks" of which "only the original vram bank is available" to a game
\* without Color features (memory.c:126, graphics.c:319); "Banks 1-7 are switchable
\* in 0xD000 - 0xDFFF in Colour gameboy but is fixed to bank 1 on the original"
\* (memory.c:120); "0xE000 - 0xFDFF, repeat to 0xC000 - 0xDDFF" (memory.c:849).
VramBank == IF ColorMode THEN VBANK % 2 ELSE 0
RamBank == IF cgb /\ SVBANK % 8 # 0 THEN SVBANK % 8 ELSE 1

Place(a) ==
    LET real == IF a \in Echo THEN a - 8192 ELSE a
    IN  IF real \in Vram THEN <<VramBank, real>>
        ELSE IF real \in SwitchedRam THEN <<RamBank, real>>
        ELSE <<0, real>>

Places == {<<b, IF a \in Echo THEN a - 8192 ELSE a>> : b \in 0 .. 7, a \in Addrs}

-----------------------------------------------------------------------------

\* io_mem holds 0xFE and 0xF8 in the bank registers; other contents are equal here.
MapInit ==
    /\ cgb \in BOOLEAN /\ features \in {f \in BOOLEAN : f => cgb}
    /\ is_booting = TRUE
    /\ cgb_vram_bank = 0 /\ VBANK = 254
    /\ cgb_ram_bank = 1 /\ SVBANK = 248
    /\ bytes = [b \in Arrays |-> 0]
    /\ holds = [p \in Places |-> 0]

\* WriteMem for the bytes of a function from addresses.
Store(values) ==
    LET at(b) == {a \in DOMAIN values \ Unusable : Written(Unechoed(a)) = b}
        of(p) == {a \in DOMAIN values \ Unusable : Place(a) = p}
    IN  /\ bytes' = [b \in Arrays |-> IF at(b) = {} THEN bytes[b]
                                      ELSE values[CHOOSE a \in at(b) : TRUE]]
        /\ holds' = [p \in Places |-> IF of(p) = {} THEN holds[p]
                                      ELSE values[CHOOSE a \in of(p) : TRUE]]
        /\ UNCHANGED <<machine, is_booting, banks>>

WriteMem(a, v) == Store([x \in {a} |-> v])

\* The high byte goes to the next address, in another array if a is the last of one.
WriteMem16(a, low, high) == Store([x \in {a, a + 1} |-> IF x = a THEN low ELSE high])

WriteVBANK(v) ==
    /\ IF ColorMode THEN cgb_vram_bank' = v % 2 /\ VBANK' = v % 2
       ELSE UNCHANGED cgb_vram_bank /\ VBANK' = IF cgb THEN 0 ELSE VBANK
    /\ UNCHANGED <<machine, is_booting, cgb_ram_bank, SVBANK, memory>>

\* The register keeps a 0 that selects bank 1.
WriteSVBANK(v) ==
    /\ IF ColorMode
       THEN SVBANK' = v % 8 /\ cgb_ram_bank' = IF v % 8 = 0 THEN 1 ELSE v % 8
       ELSE UNCHANGED <<cgb_ram_bank, SVBANK>>
    /\ UNCHANGED <<machine, is_booting, cgb_vram_bank, VBANK, memory>>

\* The boot ROM unmaps itself; it has selected bank 0 of VRAM and not touched SVBK.
FinishBoot ==
    /\ is_booting /\ is_booting' = FALSE
    /\ cgb_vram_bank = 0 /\ cgb_ram_bank = 1
    /\ UNCHANGED <<machine, banks, memory>>

MapNext ==
    \/ \E a \in Addrs, v \in Data : WriteMem(a, v)
    \/ \E a \in Addrs, v, w \in Data : a + 1 \in Addrs /\ WriteMem16(a, v, w)
    \/ \E v \in {0, 1} : WriteVBANK(v)
    \/ \E v \in Banks : WriteSVBANK(v)
    \/ FinishBoot

MapSpec == MapInit /\ [][MapNext]_mapVars

-----------------------------------------------------------------------------
(* Properties                                                              *)

MapTypeOK ==
    /\ cgb_vram_bank \in 0 .. 1 /\ cgb_ram_bank \in 1 .. 7
    /\ VBANK \in {0, 1, 254} /\ SVBANK \in (0 .. 7) \cup {248}
    /\ bytes \in [Arrays -> Data] /\ holds \in [Places -> Data]

\* A read finds what was last written to the place it names, whichever of its addresses
\* and banks were used in between: WriteMem and ReadMem decode alike, banks do not
\* overlap, the echo repeats RAM, and what the bank registers show is the bank in use.
ReadsBack == \A a \in Addrs \ Unusable : ReadMem(a) = holds[Place(a)]

\* Whatever the banks, a game reads what it wrote.
MapExact == MapTypeOK /\ ReadsBack
=============================================================================

-------------------------------- MODULE Hdma --------------------------------
(***************************************************************************)
(* The DMA of a Game Boy Color: src/core/mmu/hdma.c, the writes to its      *)
(* registers in src/core/mmu/memory.c and its call on leaving H-Blank in    *)
(* src/core/lcd.c.                                                          *)
(*                                                                         *)
(* Addresses and lengths are counted in blocks of 16 bytes, the least that  *)
(* the registers can name.  The game writes the registers at any time, also *)
(* while a transfer is spread over the H-Blanks.                            *)
(*                                                                         *)
(* Left out: what the bytes are, HDMA1..4 as a game reads them, the cycles  *)
(* (module Lcd has them), and a machine without Color features, on which    *)
(* all of this is ignored.                                                  *)
(***************************************************************************)
EXTENDS Integers

CONSTANTS
    VramStart,   \* 0x8000, half of the address space
    VramSize,    \* 0x2000
    Page,        \* 0x100, what one step of HDMA1 and HDMA3 is worth
    MaxBlocks    \* 0x80, one more than the largest length in HDMA5

ASSUME HdmaAssumption ==
    /\ VramStart \in Nat /\ VramSize \in Nat /\ Page \in Nat /\ MaxBlocks \in Nat
    /\ 0 < Page /\ Page <= VramSize /\ VramSize < VramStart /\ MaxBlocks > 0
    /\ VramStart % Page = 0 /\ VramSize % Page = 0 /\ VramStart % VramSize = 0

VARIABLES
    hdma_source, hdma_dest,
    hdma_bytes,         \* length of the transfer, or what is left of it
    HDMA5,              \* io_mem[HDMA5_REG]; -1 stands for 0xFF
    hdma_in_progress,
    moved               \* history: the pairs of source and destination that the
                        \* last step copied

hdmaVars == <<hdma_source, hdma_dest, hdma_bytes, HDMA5, hdma_in_progress, moved>>
control == <<hdma_bytes, HDMA5, hdma_in_progress>>

Space == 2 * VramStart            \* a uint16_t holds 0 .. Space - 1
Addresses == 0 .. Space - 1
VramEnd == VramStart + VramSize
Vram == VramStart .. VramEnd - 1

HdmaTypeOK ==
    /\ hdma_source \in Addresses /\ hdma_dest \in Addresses
    /\ hdma_bytes \in 0 .. MaxBlocks /\ HDMA5 \in -1 .. MaxBlocks - 1
    /\ hdma_in_progress \in BOOLEAN
    /\ moved \subseteq Addresses \X (0 .. Space + MaxBlocks)

HdmaInit ==
    /\ hdma_source = 0 /\ hdma_dest = 0 /\ hdma_bytes = 0
    /\ HDMA5 = -1 /\ hdma_in_progress = FALSE /\ moved = {}

-----------------------------------------------------------------------------
(* The registers HDMA1 to HDMA4                                            *)

\* Masked to the lines of VRAM: hdma_dest & 0x1FFF.
Offset(dest) == dest % VramSize

\* A source page in VRAM is replaced by page 0.
WriteHDMA1(page) ==
    /\ hdma_source' = (IF page * Page \in Vram THEN 0 ELSE page * Page)
                        + (hdma_source % Page)
    /\ moved' = {} /\ UNCHANGED <<hdma_dest, control>>

WriteHDMA2(low) ==
    /\ hdma_source' = (hdma_source \div Page) * Page + low
    /\ moved' = {} /\ UNCHANGED <<hdma_dest, control>>

WriteHDMA3(page) ==
    /\ hdma_dest' = VramStart + Offset(page * Page) + (hdma_dest % Page)
    /\ moved' = {} /\ UNCHANGED <<hdma_source, control>>

WriteHDMA4(low) ==
    /\ hdma_dest' = VramStart + (Offset(hdma_dest) \div Page) * Page + low
    /\ moved' = {} /\ UNCHANGED <<hdma_source, control>>

-----------------------------------------------------------------------------
(* Transfers                                                               *)

\* Faulty variant: HDMA5 does not count down and alone decides.
PerformUncounted(bytes, status) ==
    /\ moved' = {<<hdma_source, IF hdma_dest < VramStart THEN hdma_dest + VramStart
                                                         ELSE hdma_dest>>}
    /\ hdma_source' = IF hdma_source + 1 = VramStart THEN VramEnd
                                                     ELSE (hdma_source + 1) % Space
    /\ hdma_dest' = IF hdma_dest + 1 = VramEnd THEN VramStart ELSE (hdma_dest + 1) % Space
    /\ hdma_bytes' = (bytes - 1) % Space /\ HDMA5' = status
    /\ hdma_in_progress' = (HDMA5' # -1)

\* Faulty variant: the destination is not kept in VRAM.
PerformOnward(bytes, status) ==
    /\ moved' = {<<hdma_source, IF hdma_dest < VramStart THEN hdma_dest + VramStart
                                                         ELSE hdma_dest>>}
    /\ hdma_source' = IF hdma_source + 1 = VramStart THEN VramEnd
                                                     ELSE (hdma_source + 1) % Space
    /\ hdma_dest' = (hdma_dest + 1) % Space
    /\ hdma_bytes' = bytes - 1 /\ HDMA5' = status - 1
    /\ hdma_in_progress' = (HDMA5' # -1 /\ hdma_bytes' # 0)

\* One block, of bytes blocks left and with status in HDMA5.
perform_hdma(bytes, status) ==
    /\ moved' = {<<hdma_source, IF hdma_dest < VramStart THEN hdma_dest + VramStart
                                                         ELSE hdma_dest>>}
    /\ hdma_source' = IF hdma_source + 1 = VramStart THEN VramEnd
                                                     ELSE (hdma_source + 1) % Space
    /\ hdma_dest' = IF hdma_dest + 1 = VramEnd THEN VramStart ELSE (hdma_dest + 1) % Space
    /\ hdma_bytes' = bytes - 1 /\ HDMA5' = status - 1
    /\ hdma_in_progress' = (HDMA5' # -1 /\ hdma_bytes' # 0)

\* All blocks at once; memset sets the registers to 0xFF, whatever status was written.
perform_gdma(bytes, status) ==
    /\ moved' = {<<(hdma_source + i) % Space, VramStart + Offset(hdma_dest) + i>> :
                    i \in 0 .. bytes - 1}
    /\ hdma_source' = (hdma_source + bytes) % Space
    /\ hdma_dest' = (hdma_dest + bytes) % Space
    /\ hdma_bytes' = bytes /\ HDMA5' = -1 /\ UNCHANGED hdma_in_progress

\* check_cgb_dma for a value with bit 7 = 1 and length n: an H-Blank transfer
\* starts, its first block at once in H-Blank, or the one running goes on with n.
WriteHDMA5On(n, hblank) ==
    IF ~hdma_in_progress /\ hblank
    THEN perform_hdma(n + 1, n)
    ELSE /\ hdma_in_progress' = TRUE /\ hdma_bytes' = n + 1 /\ HDMA5' = n
         /\ moved' = {} /\ UNCHANGED <<hdma_source, hdma_dest>>

\* Bit 7 = 0: stops the H-Blank transfer running, else is a transfer of its own.
WriteHDMA5Off(n) ==
    IF hdma_in_progress
    THEN /\ hdma_in_progress' = FALSE /\ hdma_bytes' = n + 1 /\ HDMA5' = -1
         /\ moved' = {} /\ UNCHANGED <<hdma_source, hdma_dest>>
    ELSE perform_gdma(n + 1, n)

\* The LCD leaves H-Blank while the CPU is running or about to.
Hblank == hdma_in_progress /\ perform_hdma(hdma_bytes, HDMA5)

Lengths == 0 .. MaxBlocks - 1
Pages == 0 .. Space \div Page - 1

Game ==
    \/ \E p \in Pages : WriteHDMA1(p) \/ WriteHDMA3(p)
    \/ \E l \in 0 .. Page - 1 : WriteHDMA2(l) \/ WriteHDMA4(l)
    \/ \E n \in Lengths, hblank \in BOOLEAN : WriteHDMA5On(n, hblank)
    \/ \E n \in Lengths : WriteHDMA5Off(n)

HdmaNext == Game \/ Hblank

HdmaSpec == HdmaInit /\ [][HdmaNext]_hdmaVars

-----------------------------------------------------------------------------
(* Games that ask for what fits                                            *)

\* Without a wrap of the 16-bit address.
FitsSource(n) == \A i \in 0 .. n : hdma_source + i \in Addresses \ Vram

\* A transfer is started with both ends set up, and one that is done at once fits.
TidyNext ==
    /\ HdmaNext
    /\ ~hdma_in_progress => \A n \in Lengths :
          /\ (\E hblank \in BOOLEAN : WriteHDMA5On(n, hblank))
                => hdma_source \notin Vram /\ hdma_dest \in Vram
          /\ WriteHDMA5Off(n) => FitsSource(n) /\ Offset(hdma_dest) + n < VramSize

\* While the screen is on H-Blanks go on.
TidySpec == HdmaInit /\ [][TidyNext]_hdmaVars /\ WF_hdmaVars(Hblank)

-----------------------------------------------------------------------------
(* Properties                                                              *)

\* What the game reads in HDMA5, the count of what is left and the flag agree: 0xFF
\* if and only if no transfer is running, else the length that is left (hdma.c:54
\* tests both counters).
StatusAgrees ==
    /\ hdma_in_progress <=> HDMA5 # -1
    /\ hdma_in_progress => hdma_bytes = HDMA5 + 1

\* Nothing but VRAM is written: "Keep destination address between 0x8000 and 0x9FFF"
\* and "Keep source address away from destination addresses" (hdma.c:61 and 66).
StaysInVram == \A m \in moved : m[1] \notin Vram /\ m[2] \in Vram

\* Every block is copied once and in order.
Transfer == INSTANCE BlockTransfer WITH
    from <- hdma_source,
    to <- Offset(hdma_dest),
    left <- HDMA5 + 1,
    moved <- {<<m[1], m[2] - VramStart>> : m \in moved}
TransferSpec == Transfer!Spec

\* Transfers move the blocks they should into VRAM, and HDMA5 tells what is left.
TransferExact == [](HdmaTypeOK /\ StatusAgrees /\ StaysInVram) /\ TransferSpec

\* A transfer ends unless the game keeps giving it new lengths.
TransferEnds ==
    (hdma_in_progress ~> ~hdma_in_progress)
        \/ []<><<\E n \in Lengths : WriteHDMA5On(n, FALSE)>>_hdmaVars
=============================================================================

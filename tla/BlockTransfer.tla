--------------------------- MODULE BlockTransfer ---------------------------
(***************************************************************************)
(* What the DMA of a Game Boy Color promises a game that asks for           *)
(* transfers that fit: a number of 16-byte blocks that count down to zero,  *)
(* each copied once, in order, from outside VRAM to a place of VRAM.        *)
(* Places are counted from the start of VRAM and follow each other in a     *)
(* ring; sources skip VRAM.                                                 *)
(***************************************************************************)
EXTENDS Naturals

CONSTANTS VramStart, VramSize, MaxBlocks

VARIABLES from, to, left, moved    \* moved: the pairs the last step copied

vars == <<from, to, left, moved>>

Space  == 0 .. 2 * VramStart - 1
Outside == Space \ (VramStart .. VramStart + VramSize - 1)
Targets == 0 .. VramSize - 1

Init == from \in Space /\ to \in Targets /\ left = 0 /\ moved = {}

\* The game moves the ends of a transfer.
Aim == /\ from' \in Space /\ to' \in Targets
       /\ moved' = {} /\ UNCHANGED left

\* A transfer begins, or one that is running gets another length.
Begin == /\ left' \in 1 .. MaxBlocks
         /\ moved' = {} /\ UNCHANGED <<from, to>>

\* The next of n blocks.
Copy(n) == /\ n > 0 /\ left' = n - 1
           /\ from \in Outside
           /\ moved' = {<<from, to>>}
           /\ from' = IF from + 1 = VramStart THEN VramStart + VramSize
                                              ELSE (from + 1) % (2 * VramStart)
           /\ to' = (to + 1) % VramSize

BeginAndCopy == left = 0 /\ \E n \in 1 .. MaxBlocks : Copy(n)

Stop == left > 0 /\ left' = 0 /\ moved' = {} /\ UNCHANGED <<from, to>>

\* All blocks at once; where the ends are then is left open.
CopyAll == /\ left = 0 /\ left' = 0
           /\ \E n \in 1 .. MaxBlocks :
                 /\ to + n <= VramSize
                 /\ \A i \in 0 .. n - 1 : from + i \in Outside
                 /\ moved' = {<<from + i, to + i>> : i \in 0 .. n - 1}
           /\ from' \in Space /\ to' \in Targets

Next == Aim \/ Begin \/ Copy(left) \/ BeginAndCopy \/ Stop \/ CopyAll

Spec == Init /\ [][Next]_vars
=============================================================================

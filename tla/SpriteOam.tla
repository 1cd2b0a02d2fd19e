------------------------------ MODULE SpriteOam ------------------------------
(***************************************************************************)
(* The x positions in OAM (src/core/mmu/memory.c) next to the priorities   *)
(* that SpritePriorities keeps of them.  OAM is written byte by byte by    *)
(* oam_set_mem, which keeps the priorities, and all at once by             *)
(* dma_transfer, which does not.                                           *)
(***************************************************************************)
EXTENDS SpritePriorities

CONSTANTS Cgb, CgbFeatures      \* the machine is a Game Boy Color; the game knows

VARIABLES
    oam,        \* the x position of every sprite
    booting     \* is_booting: the boot ROM runs

\* OAM starts with fixed bytes (memory.c:37); any stand for them.
OamInit == Init /\ oam \in [Sprites -> Xs] /\ booting = TRUE

\* With Color features sprites are ordered by number alone.
ByNumber == Cgb /\ (booting \/ CgbFeatures)

oam_set_mem(n, x) ==
    /\ Update(n, IF ByNumber THEN 0 ELSE x)
    /\ oam' = [oam EXCEPT ![n] = x]
    /\ UNCHANGED booting

dma_transfer ==
    /\ pc = "idle"
    /\ oam' \in [Sprites -> Xs]
    /\ UNCHANGED <<vars, booting>>

\* The boot ROM unmaps itself.
FinishBoot ==
    /\ pc = "idle" /\ booting
    /\ booting' = FALSE
    /\ UNCHANGED <<vars, oam>>

OamNext ==
    \/ \E n \in Sprites, x \in Xs : oam_set_mem(n, x)
    \/ dma_transfer
    \/ FinishBoot
    \/ (Loops \/ \E row \in SUBSET Sprites : DrawRow(row)) /\ UNCHANGED <<oam, booting>>

OamSpec == OamInit /\ [][OamNext]_<<vars, oam, booting>>

\* "If Object X position is written to, reorganise sprite priorities for rendering"
\* (memory.c:466): outside the boot ROM and without Color features, a sprite that
\* the list has been told of is ordered by the x position that OAM holds.
PrioritiesFollowOam ==
    pc = "idle" /\ ~Cgb =>
        \A n \in Sprites : x_pos[n] # Unwritten => x_pos[n] = Value(n, oam[n])
=============================================================================

------------------------------ MODULE Palettes ------------------------------
(***************************************************************************)
(* The two palettes of a Game Boy Color: the index and data registers of   *)
(* src/core/mmu/memory.c (BGPI, BGPD, SPPI, SPPD) and the colours that     *)
(* src/core/graphics.c converts when a row is drawn and keeps until the    *)
(* dirty flag tells it that the bytes have changed.                        *)
(*                                                                         *)
(* Left out: a machine without Color features, where the registers change  *)
(* no palette, and what a game reads in BGPD and SPPD.                     *)
(***************************************************************************)
EXTENDS Naturals, Sequences

CONSTANTS
    PaletteBytes,   \* 0x40
    PaletteData     \* bytes the game writes

ASSUME PalettesAssumption ==
    PaletteBytes \in Nat \ {0} /\ PaletteBytes % 2 = 0 /\ 0 \in PaletteData /\ PaletteData \subseteq 0 .. 255

Which == {"bg", "sprite"}
Bytes == 0 .. PaletteBytes - 1

VARIABLES
    palette_mem,        \* bg_palette_mem and sprite_palette_mem
    palette_dirty,
    rendered,           \* rendered_bg_palette and rendered_sprite_palette
    index, increment,   \* bits 0-5 and bit 7 of BGPI and SPPI
    start, since        \* history: the index written last, and the data since then

paletteVars == <<palette_mem, palette_dirty, rendered, index, increment, start, since>>

\* Colour i of the screen, from two bytes of which bit 15 does not count.
Converted(mem) == [i \in 0 .. (PaletteBytes \div 2) - 1 |-> <<mem[2 * i], mem[2 * i + 1] % 128>>]

PaletteInit ==
    /\ palette_mem = [w \in Which |-> [b \in Bytes |-> 0]]
    /\ palette_dirty = [w \in Which |-> TRUE]
    /\ rendered = [w \in Which |-> << >>]
    /\ index = [w \in Which |-> 0] /\ increment = [w \in Which |-> FALSE]
    /\ start = [w \in Which |-> 0] /\ since = [w \in Which |-> << >>]

\* Writes to BGPI and SPPI.
WriteIndex(w, i, auto) ==
    /\ index' = [index EXCEPT ![w] = i] /\ increment' = [increment EXCEPT ![w] = auto]
    /\ start' = [start EXCEPT ![w] = i] /\ since' = [since EXCEPT ![w] = << >>]
    /\ UNCHANGED <<palette_mem, palette_dirty, rendered>>

\* Faulty variant: the flag says whether the last write changed something.
DirtyNow(w, v) == palette_mem[w][index[w]] # v

\* Writing the same byte again does not make the colours stale, nor fresh.
Dirty(w, v) == palette_dirty[w] \/ palette_mem[w][index[w]] # v

IndexNext(w) == (index[w] + 1) % PaletteBytes

\* Writes to BGPD and SPPD.
WriteData(w, v) ==
    /\ palette_mem' = [palette_mem EXCEPT ![w][index[w]] = v]
    /\ palette_dirty' = [palette_dirty EXCEPT ![w] = Dirty(w, v)]
    /\ index' = [index EXCEPT ![w] = IF increment[w] THEN IndexNext(w) ELSE @]
    /\ since' = [since EXCEPT ![w] = IF Len(@) = PaletteBytes THEN Append(Tail(@), v) ELSE Append(@, v)]
    /\ start' = [start EXCEPT ![w] = IF Len(since[w]) = PaletteBytes /\ increment[w]
                                     THEN (@ + 1) % PaletteBytes ELSE @]
    /\ UNCHANGED <<rendered, increment>>

\* refresh_gbc_bg_palettes and refresh_gbc_sprite_palettes, when a row of either is drawn.
Refresh(w) ==
    /\ rendered' = [rendered EXCEPT ![w] = IF palette_dirty[w] THEN Converted(palette_mem[w]) ELSE @]
    /\ palette_dirty' = [palette_dirty EXCEPT ![w] = FALSE]
    /\ UNCHANGED <<palette_mem, index, increment, start, since>>

PaletteNext == \E w \in Which :
    \/ \E i \in Bytes, auto \in BOOLEAN : WriteIndex(w, i, auto)
    \/ \E v \in PaletteData : WriteData(w, v)
    \/ Refresh(w)

PaletteSpec == PaletteInit /\ [][PaletteNext]_paletteVars

-----------------------------------------------------------------------------
(* Properties                                                              *)

\* The colours that rows are drawn with are those of the bytes the game has written,
\* unless the flag is up that has them converted before the next row.
ColoursCurrent == \A w \in Which : palette_dirty[w] \/ rendered[w] = Converted(palette_mem[w])

\* Data written one byte after the other fills the palette from the index on and goes
\* on at its start: "increment the index if so. Index is between 0x0 and 0x3F"
\* (memory.c:723).
FillsInOrder == \A w \in Which : increment[w] =>
    \A k \in 1 .. Len(since[w]) : palette_mem[w][(start[w] + k - 1) % PaletteBytes] = since[w][k]

\* What the game writes to the palettes, byte by byte, is what rows are drawn with.
PaletteExact == ColoursCurrent /\ FillsInOrder
=============================================================================

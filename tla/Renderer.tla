------------------------------ MODULE Renderer ------------------------------
(***************************************************************************)
(* One row of the screen as src/core/graphics.c draws it, frame after      *)
(* frame: the background and the window tile by tile, the sprites over     *)
(* them in the order of the list (module SpritePriorities) from its end.   *)
(*                                                                         *)
(* A pixel is what it was drawn from: a point of a tile, its palette and   *)
(* where its colour comes from.  What VRAM holds is a parameter; the game  *)
(* changes one register or sprite between two frames.                      *)
(*                                                                         *)
(* Left out: the registers that permute the four colours (BGP, OBP0, OBP1) *)
(* and the colours themselves (module Palettes).                           *)
(***************************************************************************)
EXTENDS Integers, Sequences, FiniteSets

CONSTANTS
    Tile,               \* pixels of a tile's side: 8
    MapTiles,           \* tiles of the map's side: 32
    HalfSet,            \* tiles of half a tile set: 128
    Width, Height,      \* 160 and 144
    Row,                \* the row
    RowLimit,              \* sprites drawn in a row: 10
    TileNo(_, _, _),    \* VRAM bank 0: the number in a map at a row and a column
    Attributes(_, _, _),    \* VRAM bank 1: [palette, bank, hflip, vflip, prio]
    Colour(_, _, _, _),     \* colour of a tile's point: bank, tile, line, column
    Lcdcs, Scrolls, Windows,    \* values of LCDC, pairs for SCX and SCY, WX and WY
    Lists               \* what the list of sprites may hold, by priority: records
                        \* [x, y, tile, behind, palette, bank, hflip, vflip]

ASSUME RendererAssumption ==
    /\ \A n \in {Tile, MapTiles, HalfSet, Width, Height} : n \in Nat \ {0}
    /\ Width % Tile = 0 /\ Row \in 0 .. Height - 1 /\ RowLimit \in Nat
    /\ Scrolls \subseteq Nat \X Nat /\ Windows \subseteq Nat \X Nat
    /\ \A list \in Lists : list \in Seq([x : Nat, y : Nat, tile : Nat, palette : Nat, bank : Nat,
                                       behind : BOOLEAN, hflip : BOOLEAN, vflip : BOOLEAN])

MapSize == Tile * MapTiles
RowXs == 0 .. Width - 1

VARIABLES
    cgb, color,     \* a Game Boy Color; with Color features or its boot ROM
    lcdc,           \* the bits of LCDC that are set, of "tiles", "sprites", "tall",
                    \* "bg_map", "tile_set", "window", "win_map"
    SCX, SCY, WX, WY,
    sprites,        \* by priority
    row             \* rgb_pixels, old_buffer and cgb_bg_prio of the row

registers == <<lcdc, SCX, SCY, WX, WY, sprites>>
renderVars == <<cgb, color, registers, row>>

\* How a pixel of tile n, line l and column c is remembered.
Pixel(from, bank, n, l, c, palette) ==
    [from |-> from, point |-> <<bank, n, l, c>>, palette |-> palette]

Nothing == Pixel("nothing", 0, 0, 0, 0, 0)

\* TILE_SET_1_START counts from the middle, with signed numbers.
Located(n, set0) == IF set0 THEN n
                    ELSE HalfSet + (n % HalfSet) - (IF n >= HalfSet THEN HalfSet ELSE 0) + HalfSet

Attr(m, r, c) == IF cgb THEN Attributes(m, r, c)
                 ELSE [palette |-> 0, bank |-> 0, hflip |-> FALSE, vflip |-> FALSE, prio |-> FALSE]

BgFrom == IF cgb THEN "bg_palette" ELSE "grey"

-----------------------------------------------------------------------------
(* Tiles, as the loops draw them                                           *)

\* Point j of line l of the tile at row r, column c of map m.
TilePixel(m, r, c, l, j) ==
    LET a == Attr(m, r, c)
        n == Located(TileNo(m, r, c), "tile_set" \in lcdc)
        bank == IF color THEN a.bank ELSE 0
        at == IF a.hflip THEN Tile - 1 - j ELSE j
    IN  [rgb |-> Pixel(BgFrom, bank, n, l, at, IF color THEN a.palette ELSE 0),
         old |-> Colour(bank, n, l, at), prio |-> color /\ a.prio]

\* The left ends of the tiles of draw_tile_bg_row, the first of them off the screen.
BgTiles == LET skew == SCX % Tile
           IN  {i \in -skew .. Width - 1 + ((Tile - skew) % Tile) : (i + skew) % Tile = 0}

\* The pixels a loop over tiles draws, each from one tile; i + scroll_x is a byte.
draw_tile_bg_row ==
    LET y == (Row + SCY) % MapSize
        m == "bg_map" \in lcdc
    IN  [p \in RowXs |-> {
            LET c == ((i + SCX) % MapSize) \div Tile
                vflip == Attr(m, y \div Tile, c).vflip
            IN  TilePixel(m, y \div Tile, c, IF vflip THEN Tile - 1 - (y % Tile) ELSE y % Tile, p - i) :
            i \in {t \in BgTiles : p - t \in 0 .. Tile - 1}}]

\* Positions left of the screen are taken for its edge.
WindowX == IF WX < Tile - 1 THEN 0 ELSE WX - (Tile - 1)

WindowShown == "window" \in lcdc /\ WY <= Row /\ WindowX < Width /\ WY < Height

\* The tiles of the window start where it does; a tile left of that is skipped.
draw_tile_window_row ==
    LET x == WindowX
        y == Row - WY
        skew == (Tile - (x % Tile)) % Tile
        tiles == {i \in -skew .. Width - 1 + skew : (i + skew) % Tile = 0 /\ i >= x - (Tile - 1)}
        start(i) == IF i < x THEN x ELSE i
        drawn(i, p) == p - i \in (start(i) - i) .. Tile - 1 /\ start(i) + (p - i) < Width
    IN  [p \in RowXs |-> {
            TilePixel("win_map" \in lcdc, y \div Tile, (start(i) - x) \div Tile, y % Tile, p - i) :
            i \in {t \in tiles : drawn(t, p)}}]

TilesDrawn == color \/ "tiles" \in lcdc

\* What the tiles leave in the row.  A machine with Color features draws them whatever
\* bit 0 says, another leaves the pixels of the last frame.
draw_tile_row ==
    LET bg == draw_tile_bg_row
        window == IF WindowShown THEN draw_tile_window_row ELSE [p \in RowXs |-> {}]
        drawn(p) == IF window[p] # {} THEN window[p] ELSE bg[p]
    IN  [p \in RowXs |-> IF ~TilesDrawn \/ drawn(p) = {} THEN row[p]
                      ELSE LET t == CHOOSE t \in drawn(p) : TRUE
                           IN  [t EXCEPT !.prio = IF color THEN @ ELSE row[p].prio]]

-----------------------------------------------------------------------------
(* Sprites                                                                 *)

Tall == "tall" \in lcdc
SpriteHeight == IF Tall THEN 2 * Tile ELSE Tile
Top(s) == s.y - 2 * Tile
Left(s) == s.x - Tile

OnRow(s) == Top(s) <= Row /\ Row < Top(s) + SpriteHeight /\ Left(s) < Width

\* The places of the first sprites of the list that are on the row, also those left of
\* the screen.
Chosen ==
    {i \in DOMAIN sprites :
        /\ OnRow(sprites[i])
        /\ Cardinality({j \in 1 .. i - 1 : OnRow(sprites[j])}) < RowLimit}

Covers(s, p) == p - Left(s) \in 0 .. Tile - 1

\* The tile below follows the one of a tall sprite, whose number is made even.
SpritePoint(s, p) ==
    LET first == IF Tall THEN s.tile - (s.tile % 2) ELSE s.tile
        line == IF s.vflip THEN SpriteHeight + Top(s) - Row - 1 ELSE Row - Top(s)
        column == IF s.hflip THEN Tile - 1 - (p - Left(s)) ELSE p - Left(s)
    IN  <<IF color THEN s.bank ELSE 0, first + line \div Tile, line % Tile, column>>

SpriteId(s, p) == LET t == SpritePoint(s, p) IN Colour(t[1], t[2], t[3], t[4])

\* On a Game Boy a sprite behind the background takes its colour from the palettes of
\* the Color, which nothing there writes.
SpriteFrom(s) == IF cgb \/ s.behind THEN "sprite_palette" ELSE "grey"

\* Faulty variant: a sprite behind looks at the tile's priority only.
DrawsOverColour(s, p, below) ==
    /\ SpriteId(s, p) # 0
    /\ IF s.behind THEN ~below.prio ELSE ~cgb \/ ~below.prio \/ below.old = 0

\* Whether a sprite shows at p, over what the pixel holds so far.
Draws(s, p, below) ==
    /\ SpriteId(s, p) # 0
    /\ IF s.behind THEN ~below.prio /\ below.old = 0
                   ELSE ~cgb \/ ~below.prio \/ below.old = 0

\* A pixel after a sprite has been drawn over it.
DrawOver(s, p, below) ==
    IF ~Covers(s, p) \/ ~Draws(s, p, below) THEN below
    ELSE [rgb |-> [from |-> SpriteFrom(s), point |-> SpritePoint(s, p), palette |-> s.palette],
          old |-> SpriteId(s, p), prio |-> below.prio]

\* A pixel after the sprites at some places of the list have been drawn, from the last to
\* the first, which ends up on top.
draw_sprite_row(p, under, places) ==
    LET after[i \in 1 .. Len(sprites) + 1] ==
            IF i = Len(sprites) + 1 THEN under
            ELSE IF i \in places THEN DrawOver(sprites[i], p, after[i + 1])
            ELSE after[i + 1]
    IN  after[1]

-----------------------------------------------------------------------------

\* draw_row with the screen on: the tiles, and the sprites over them.
draw_row ==
    LET tiles == draw_tile_row
        places == IF "sprites" \in lcdc THEN Chosen ELSE {}
    IN  row' = [p \in RowXs |-> draw_sprite_row(p, tiles[p], places)]

RenderInit ==
    /\ cgb \in BOOLEAN /\ color \in {f \in BOOLEAN : f => cgb}
    /\ lcdc = {"tiles", "sprites"} /\ SCX = 0 /\ SCY = 0 /\ WX = 0 /\ WY = 0
    /\ sprites \in Lists
    /\ row = [p \in RowXs |-> [rgb |-> Nothing, old |-> 0, prio |-> FALSE]]

\* What the game changes after a frame.
Game ==
    \/ lcdc' \in Lcdcs /\ UNCHANGED <<SCX, SCY, WX, WY, sprites>>
    \/ (\E v \in Scrolls : SCX' = v[1] /\ SCY' = v[2]) /\ UNCHANGED <<lcdc, WX, WY, sprites>>
    \/ (\E v \in Windows : WX' = v[1] /\ WY' = v[2]) /\ UNCHANGED <<lcdc, SCX, SCY, sprites>>
    \/ sprites' \in Lists /\ UNCHANGED <<lcdc, SCX, SCY, WX, WY>>

Frame ==
    /\ draw_row /\ Game /\ UNCHANGED <<cgb, color>>

RenderSpec == RenderInit /\ [][Frame]_renderVars

-----------------------------------------------------------------------------
(* Properties                                                              *)

\* What is under the sprites at p, without loops: the point of the plane that scrolling
\* or the window's position brings there, wrapping around the map.
Plane(p) ==
    LET window == WindowShown /\ p >= WindowX
        X == IF window THEN p - WindowX ELSE (p + SCX) % MapSize
        Y == IF window THEN Row - WY ELSE (Row + SCY) % MapSize
        m == IF window THEN "win_map" \in lcdc ELSE "bg_map" \in lcdc
        a == Attr(m, Y \div Tile, X \div Tile)
        line == IF a.vflip /\ ~window THEN Tile - 1 - (Y % Tile) ELSE Y % Tile
    IN  TilePixel(m, Y \div Tile, X \div Tile, line, X % Tile)

\* The places of the chosen sprites that have a colour at p.
Opaque(p) == {i \in Chosen : /\ "sprites" \in lcdc
                             /\ Covers(sprites[i], p) /\ SpriteId(sprites[i], p) # 0}

\* Properties of a step of Frame, with which the row is drawn.

\* Every pixel without a sprite shows the point of the background or the window that
\* belongs there: tiles drawn in steps from a scrolled start leave no gap and do not
\* run over, on the left edge, the right edge or the window's.
PlaneShown == \A p \in RowXs : TilesDrawn /\ Opaque(p) = {} =>
                    row'[p].rgb = Plane(p).rgb

\* A sprite that is behind never covers a colour of the background, nor does one in
\* front if a tile of a Color machine asks for priority: "If priority bit not set but
\* background is transparent and current pixel isn't transparent draw. Otherwise if
\* priority set as long as pixel isn't transparent, draw it" (graphics.c:219).
BackgroundKept == \A p \in RowXs : TilesDrawn =>
    LET plane == Plane(p)
        kept(s) == IF s.behind THEN plane.old # 0 \/ plane.prio
                               ELSE cgb /\ plane.prio /\ plane.old # 0
    IN  (\A i \in Opaque(p) : kept(sprites[i])) => row'[p].rgb = plane.rgb

\* Of the sprites that have a colour somewhere the first of the list is on top, if it and
\* the tile there are in front, and no more than the limit are drawn.
FirstOnTop ==
    /\ Cardinality(Chosen) <= RowLimit
    /\ \A p \in RowXs : \A i \in Opaque(p) :
            /\ \A j \in Opaque(p) : i <= j
            /\ ~sprites[i].behind /\ ~row'[p].prio
            => row'[p].rgb.point = SpritePoint(sprites[i], p)

\* A row shows the background and the window where they belong, and the sprites by
\* their priorities and its.
RowExact == [][UNCHANGED renderVars \/ (PlaneShown /\ BackgroundKept /\ FirstOnTop)]_renderVars
=============================================================================

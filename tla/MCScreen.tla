------------------------------ MODULE MCScreen ------------------------------
(***************************************************************************)
(* Instances for TLC of what makes the picture: the order of the sprites    *)
(* (SpritePriorities), the drawing of a row (Renderer), its colours         *)
(* (Palettes), the menu before a game (Menu) and the time a frame takes     *)
(* (FramePacing).  A behaviour is of one of them, and leaves the others'    *)
(* state.                                                                   *)
(***************************************************************************)
EXTENDS SpritePriorities, Renderer, Palettes, Menu, FramePacing

VARIABLE part

-----------------------------------------------------------------------------
(* A screen of three tiles of two by two pixels in a map of four by four.   *)

No(m, r, c) == (IF m THEN 4 ELSE 0) + ((r + 2 * c) % 4)
At(m, r, c) == [palette |-> c % 2, bank |-> IF r = c THEN 1 ELSE 0, hflip |-> c = 1, vflip |-> c = 2, prio |-> m = (c = 3)]
Col(b, n, l, c) == IF n % 3 = 0 THEN (l + c) % 2 ELSE IF n % 3 = 1 THEN 0 ELSE 1 + c
Sprite(x, y, n, behind, flip) == [x |-> x, y |-> y, tile |-> n, behind |-> behind, palette |-> 0, bank |-> 0, hflip |-> flip, vflip |-> flip]
FirstList == <<Sprite(1, 4, 2, FALSE, FALSE), Sprite(2, 4, 5, FALSE, TRUE), Sprite(2, 5, 2, FALSE, FALSE)>>
SecondList == <<Sprite(3, 5, 3, TRUE, TRUE), Sprite(3, 3, 2, TRUE, FALSE), Sprite(2, 5, 2, FALSE, FALSE)>>
ThirdList == <<Sprite(3, 5, 3, TRUE, TRUE), Sprite(2, 4, 5, FALSE, TRUE), Sprite(2, 5, 2, FALSE, FALSE)>>
LcdcValues == {{"tiles", "sprites"}, {"sprites", "tall"}, {"tiles", "sprites", "window", "win_map"}, {"tiles", "sprites", "bg_map", "tile_set", "window", "tall"}, {"tiles", "window"}}
ScrollValues == {<<0, 0>>, <<1, 6>>, <<7, 3>>}
WindowValues == {<<0, 0>>, <<2, 1>>, <<5, 1>>, <<4, 2>>}
SpriteLists == {FirstList, SecondList, ThirdList}

-----------------------------------------------------------------------------
(* Directories with fewer and more files than the screen has rows.          *)

Rom(i) == [name |-> "rom", is_dir |-> FALSE, image |-> IF i = 1 THEN <<2000, 100>> ELSE <<0, 0>>]
D(n) == [name |-> n, is_dir |-> TRUE, image |-> <<0,0>>]
Roms(n) == [i \in 1 .. n |-> Rom(i)]
Tree1 ==
  ( <<"ux0:data">> :> <<D("Plutoboy")>>
 @@ <<"ux0:data", "Plutoboy">> :> Roms(19) \o <<D("more")>>
 @@ <<"ux0:data", "Plutoboy", "more">> :> Roms(2)
 @@ <<".">> :> <<D("more")>> @@ <<".", "more">> :> <<>>
 @@ <<"">> :> <<D("switch")>>
 @@ <<"", "switch">> :> <<D("Plutoboy")>>
 @@ <<"", "switch", "Plutoboy">> :> <<D("more")>> \o Roms(28)
 @@ <<"", "switch", "Plutoboy", "more">> :> Roms(1) )
Busy1 == {<<"ux0:data", "Plutoboy", "more">>, <<"", "switch", "Plutoboy", "more">>}
Homes1 == [vita |-> <<<<"ux0:data", "Plutoboy">>, <<".">>>>,
           switch |-> <<<<"", "switch", "Plutoboy">>, <<".">>>>,
           touch |-> <<<<"", "switch", "Plutoboy">>>>]
Screens1 == [vita |-> <<960, 544>>, switch |-> <<1280, 720>>, touch |-> <<1024, 768>>]

-----------------------------------------------------------------------------
None == "none"
OneOf(S) == CHOOSE x \in S : TRUE

\* The others have no state or wait in one of their first.
MCInit ==
    /\ part \in {"order", "row", "palettes", "menu", "pacing"}
    /\ Init /\ PaletteInit
    /\ IF part = "row" THEN RenderInit
       ELSE /\ cgb = None /\ color = None /\ lcdc = None /\ SCX = None /\ SCY = None
            /\ WX = None /\ WY = None /\ sprites = None /\ row = None
    /\ MenuInit /\ (part # "menu" => platform = OneOf(Platforms))
    /\ start_framerate /\ (part # "pacing" => clock = 0 /\ framerate_times_ten = OneOf(Rates))

MCNext ==
    /\ \/ /\ part = "order" /\ Next
          /\ UNCHANGED <<renderVars, paletteVars, menuVars, pacingVars>>
       \/ /\ part = "row" /\ Frame
          /\ UNCHANGED <<vars, paletteVars, menuVars, pacingVars>>
       \/ /\ part = "palettes" /\ PaletteNext
          /\ UNCHANGED <<vars, renderVars, menuVars, pacingVars>>
       \/ /\ part = "menu" /\ MenuNext
          /\ UNCHANGED <<vars, renderVars, paletteVars, pacingVars>>
       \/ /\ part = "pacing" /\ PacingNext
          /\ UNCHANGED <<vars, renderVars, paletteVars, menuVars>>
    /\ UNCHANGED part

MCSpec ==
    /\ MCInit /\ [][MCNext]_<<vars, renderVars, paletteVars, menuVars, pacingVars, part>>
    /\ WF_vars(part = "order" /\ Loops)
=============================================================================

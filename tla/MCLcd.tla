------------------------------- MODULE MCLcd -------------------------------
(***************************************************************************)
(* Instance of LcdFrames for TLC.                                          *)
(***************************************************************************)
EXTENDS LcdFrames

\* Sources that a game enables together.
AllStat == {{}, {"lyc"}, {"oam", "lyc"}, {"hblank", "vblank"},
            {"hblank", "vblank", "oam", "lyc"}}
=============================================================================

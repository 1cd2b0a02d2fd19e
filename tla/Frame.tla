------------------------------- MODULE Frame -------------------------------
(***************************************************************************)
(* What the LCD controller promises the rest of the emulator.  While the   *)
(* screen is on, the lines of a frame are drawn from the top, one after    *)
(* the other and each once; only after the last one comes the V-Blank, and *)
(* after it the next frame.  The main loop learns that a frame is complete *)
(* exactly when its last line is drawn.  Turning the screen off abandons   *)
(* the frame; the first frame after it is turned on has no line 0, because *)
(* the controller starts in the H-Blank of that line.                      *)
(***************************************************************************)
EXTENDS Naturals

CONSTANT Lines   \* lines of a frame: 144

VARIABLES
    phase,       \* "off", "lines" or "vblank"
    next,        \* the line to draw next; Lines when there is none left
    complete     \* a complete frame waits for the main loop

vars == <<phase, next, complete>>

Init == phase = "vblank" /\ next = Lines /\ complete = FALSE

DrawLine ==
    /\ phase = "lines" /\ next < Lines
    /\ next' = next + 1
    /\ complete' = (complete \/ next = Lines - 1)
    /\ UNCHANGED phase

EnterVblank ==
    /\ phase = "lines" /\ next = Lines
    /\ phase' = "vblank"
    /\ UNCHANGED <<next, complete>>

StartFrame ==
    /\ phase = "vblank"
    /\ phase' = "lines" /\ next' = 0
    /\ UNCHANGED complete

TurnOff ==
    /\ phase' = "off" /\ next' = 0
    /\ UNCHANGED complete

TurnOn ==
    /\ phase = "off"
    /\ phase' = "lines" /\ next' = 1
    /\ UNCHANGED complete

TakeFrame ==
    /\ complete /\ complete' = FALSE
    /\ UNCHANGED <<phase, next>>

Next == DrawLine \/ EnterVblank \/ StartFrame \/ TurnOff \/ TurnOn \/ TakeFrame

Spec == Init /\ [][Next]_vars
=============================================================================

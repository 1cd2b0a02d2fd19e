----------------------------- MODULE MCDevices ------------------------------
(***************************************************************************)
(* Instances for TLC of the devices around the processor: timers, video DMA,*)
(* the queue between the sound chip and the host, the link cable and the    *)
(* joypad.  A behaviour is of one device, and leaves the others' state.     *)
(***************************************************************************)
EXTENDS Timers, Hdma, SoundQueue, SerialLink, MCJoypad

VARIABLE part

\* A counter of 2 + 2 bits, of which TAC selects the fourth, first, second or third,
\* as the code's selects the 10th, 4th, 6th or 8th.
Bits == [s \in 0 .. 3 |-> CASE s = 0 -> 4 [] s = 1 -> 1 [] s = 2 -> 2 [] s = 3 -> 3]

MCInit ==
    /\ part \in {"timers", "hdma", "sound", "serial", "joypad"}
    /\ TimersInit /\ HdmaInit /\ JoypadInit
    /\ SoundInit /\ (part # "sound" => ~sound_open)
    /\ LinkInit /\ (part # "serial" => ~linked)

MCNext ==
    /\ \/ /\ part = "timers" /\ TimersNext /\ (WriteDIV => on)
          /\ UNCHANGED <<hdmaVars, soundVars, linkVars, joypadVars>>
       \/ /\ part = "hdma" /\ TidyNext
          /\ UNCHANGED <<timersVars, soundVars, linkVars, joypadVars>>
       \/ /\ part = "sound" /\ SoundNext
          /\ UNCHANGED <<timersVars, hdmaVars, linkVars, joypadVars>>
       \/ /\ part = "serial" /\ LinkNext
          /\ UNCHANGED <<timersVars, hdmaVars, soundVars, joypadVars>>
       \/ /\ part = "joypad" /\ JoypadNext
          /\ UNCHANGED <<timersVars, hdmaVars, soundVars, linkVars>>
    /\ UNCHANGED part

\* The fairness of each, for the behaviours that are its own.
MCFairness ==
    /\ WF_hdmaVars(part = "hdma" /\ Hblank)
    /\ WF_soundVars(part = "sound" /\ Writer) /\ WF_soundVars(part = "sound" /\ Callback)
    /\ WF_linkVars(part = "serial" /\ Setup)
    /\ \A p \in Sides : WF_linkVars(part = "serial" /\ Emulate(p))
    /\ WF_joypadVars(part = "joypad" /\ ready /\ ~quit /\ update_keys)

MCSpec ==
    /\ MCInit /\ MCFairness
    /\ [][MCNext]_<<timersVars, hdmaVars, soundVars, linkVars, joypadVars, part>>
=============================================================================

----------------------------- MODULE MCEmulator -----------------------------
(***************************************************************************)
(* Instances for TLC of what runs the emulator: how it starts (Startup),    *)
(* its main loop (Emulator) and the debugger that stops the loop            *)
(* (Debugger).  A behaviour is of one part, and leaves the others' state.   *)
(***************************************************************************)
EXTENDS Emulator, Startup, Debugger

VARIABLE part

NoneOneTwo == {{}, {"TIMER"}, {"VBLANK", "TIMER"}}

\* Files of every length next to what their headers promise.
HeaderFiles ==
    [size : {0, 31, 32, 33, 64}, rom_code : {0, 1, 9}, ram_code : {0, 2, 6},
     type : {0, 3, 4, 27}, end_type : {0, 11}]
AnyFile == CHOOSE f \in HeaderFiles : TRUE

MCInit ==
    /\ part \in {"loop", "startup", "debugger"}
    /\ Init /\ (part # "loop" => ~cgb)
    /\ StartupInit /\ (part # "startup" => device = "standard" /\ file = AnyFile)
    /\ DebuggerInit

\* main has returned, or the debugger has left or counted to its bound.
Ended ==
    \/ part = "startup" /\ step = "returned"
    \/ part = "debugger" /\ (mode = "exited" \/ iterations = MaxRun)

MCNext ==
    /\ \/ part = "loop" /\ TidyNext /\ UNCHANGED <<startupVars, debuggerVars>>
       \/ part = "startup" /\ StartupNext /\ UNCHANGED <<vars, debuggerVars>>
       \/ part = "debugger" /\ DebuggerNext /\ UNCHANGED <<vars, startupVars>>
       \/ Ended /\ UNCHANGED <<vars, startupVars, debuggerVars>>
    /\ UNCHANGED part

MCSpec ==
    /\ MCInit /\ [][MCNext]_<<vars, startupVars, debuggerVars, part>>
    /\ WF_vars(part = "loop" /\ Loop)
=============================================================================

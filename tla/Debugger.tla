------------------------------ MODULE Debugger ------------------------------
(* The debugger's prompt (platforms/standard/debugger.c) and the main loop    *)
(* that returns to it after a number of steps (core/emu.c).                   *)
EXTENDS Integers

CONSTANTS
  Counts,    \* arguments of "step": integers, only those above 0 are valid
  Addresses, \* arguments of "setb"; the valid ones are 0 to MaxAddress
  MaxAddress,
  HalfInt,   \* 2^31: step_count is an int, and a count is a long
  MaxRun     \* bound: iterations counted in a run

ASSUME DebuggerAssumption ==
  /\ Counts \subseteq Int /\ HalfInt \in Nat \ {0} /\ MaxRun \in Nat

VARIABLES
  mode,          \* "setup", "prompt" (in get_command), "running" or "exited"
  caller,      \* who called get_command: "setup_debug" or "run_one_frame"
  flags, steps, bp,           \* the debugger's statics; bp is its breakpoint
  step_count, breakpoint,     \* the emulator's
  iterations,  \* iterations of the main loop since the last prompt
  asked        \* the number of steps the last command asks for, 0 for all

debuggerVars == <<mode, caller, flags, steps, bp, step_count, breakpoint, iterations, asked>>

STEPS_OFF == 0
Int32(n) == ((n + HalfInt) % (2 * HalfInt)) - HalfInt
BREAKPOINT_OFF == 0

DebuggerInit ==
  /\ mode = "setup" /\ caller = "setup_debug"
  /\ flags = {} /\ steps = 0 /\ bp = -1
  /\ step_count = STEPS_OFF /\ breakpoint = BREAKPOINT_OFF
  /\ iterations = 0 /\ asked = 0

\* Faulty variant: the flags of the last command stay
EnterKeeping(from) == mode' = "prompt" /\ caller' = from /\ flags' = flags

\* get_command begins
Enter(from) == mode' = "prompt" /\ caller' = from /\ flags' = {}

setup_debug ==
  /\ mode = "setup" /\ Enter("setup_debug")
  /\ UNCHANGED <<steps, bp, step_count, breakpoint, iterations, asked>>

\* get_command returns: setup_debug takes the steps and the breakpoint,
\* run_one_frame the steps alone
Return(set, n) ==
  /\ mode' = "running" /\ iterations' = 0
  /\ step_count' = IF "STEPS_SET" \in set THEN Int32(n) ELSE STEPS_OFF
  /\ breakpoint' = IF caller = "run_one_frame" THEN breakpoint
                   ELSE IF "BREAKPOINT_SET" \in set THEN bp ELSE BREAKPOINT_OFF

check_continue ==
  /\ mode = "prompt" /\ asked' = 0
  /\ Return(flags, steps)
  /\ UNCHANGED <<caller, flags, steps, bp>>

\* A count that is not above 0 only prints the usage, and the prompt stays
check_step ==
  /\ mode = "prompt"
  /\ \E n \in Counts :
       /\ n > 0
       /\ steps' = n /\ flags' = flags \cup {"STEPS_SET"} /\ asked' = n
       /\ Return(flags', n)
  /\ UNCHANGED <<caller, bp>>

check_breakpoint ==
  /\ mode = "prompt"
  /\ \E address \in Addresses :
       /\ address \in 0 .. MaxAddress
       /\ bp' = address /\ flags' = flags \cup {"BREAKPOINT_SET"}
  /\ UNCHANGED <<mode, caller, steps, step_count, breakpoint, iterations, asked>>

\* show_regs, check_show_mem, check_disasm, help, and what is no command
Look == mode = "prompt" /\ UNCHANGED debuggerVars

check_exit ==
  /\ mode = "prompt" /\ mode' = "exited"
  /\ UNCHANGED <<caller, flags, steps, bp, step_count, breakpoint, iterations, asked>>

\* The end of an iteration counts it while steps are asked for, and prompts
\* when the last one is done; nothing here looks at the breakpoint
run_one_frame ==
  /\ mode = "running" /\ iterations < MaxRun
  /\ iterations' = iterations + 1
  /\ step_count' = IF step_count > 0 THEN step_count - 1 ELSE step_count
  /\ IF step_count = 1 THEN Enter("run_one_frame") ELSE UNCHANGED <<mode, caller, flags>>
  /\ UNCHANGED <<steps, bp, breakpoint, asked>>

DebuggerNext == setup_debug \/ check_continue \/ check_step \/ check_breakpoint \/ Look
                \/ check_exit \/ run_one_frame

DebuggerSpec == DebuggerInit /\ [][DebuggerNext]_debuggerVars

(* -------------------------- properties ----------------------------------- *)

\* "step [n]: execute n operations": the prompt comes back after exactly n
\* iterations of the main loop, however often it was stepped before, and never
\* after "continue".  Nothing is said of a count that an int cannot hold.
StepsExact ==
  /\ mode = "running" /\ asked \in 1 .. HalfInt - 1 => iterations < asked
  /\ mode = "prompt" /\ caller = "run_one_frame" /\ asked < HalfInt
       => asked > 0 /\ iterations = asked
=============================================================================

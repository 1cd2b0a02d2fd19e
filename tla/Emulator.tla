------------------------------ MODULE Emulator ------------------------------
(***************************************************************************)
(* The main loop of src/core/emu.c around the interrupt, halt and stop     *)
(* state of src/core/cpu.c and the interrupt controller of                 *)
(* src/core/interrupts.c.                                                  *)
(*                                                                         *)
(* One iteration of run_one_frame executes an instruction or idles, polls  *)
(* the host's keys when enough cycles have passed, and then services at    *)
(* most one interrupt; pc names the next of these phases.  The game is any *)
(* sequence of instructions.  The devices that update_all_cycles drives    *)
(* may raise their interrupts during any phase that passes cycles.  The    *)
(* host queues key and window events at any moment.                        *)
(*                                                                         *)
(* Left out: registers and memory (an instruction is what it does to the   *)
(* state below), sound, the debugger, and the cycles a DMA adds.           *)
(***************************************************************************)
EXTENDS Naturals, Sequences

CONSTANTS
    Costs,      \* clock cycles of the instructions that take any
    PollAt,     \* cycles after which the keys are polled: 15000
    Devices,    \* the interrupts the game's devices raise
    IeValues,   \* values the game writes to the interrupt enable register
    MaxEvents   \* bound on the host events not yet polled

\* In order of priority, as in the array interrupts.
Interrupts == <<"VBLANK", "LCD", "TIMER", "SERIAL", "JOYPAD">>
Kinds == {Interrupts[i] : i \in DOMAIN Interrupts}
Handled == Kinds \ {"JOYPAD"}      \* the mask 0xF of handle_interrupts
Clocked == {"TIMER", "SERIAL"}     \* devices that run while stopped
HostEvents == {"press", "release", "close"}

ASSUME EmulatorAssumption ==
    /\ \A c \in Costs : c \in Nat /\ c > 0
    /\ PollAt \in Nat /\ MaxEvents \in Nat
    /\ Devices \subseteq Handled
    /\ IeValues \subseteq SUBSET Kinds

VARIABLES
    cgb,                       \* a Game Boy Color, with its features on
    pc,                        \* "step", "poll", "service" or "done"
    interrupts_enabled,        \* master enable
    interrupts_enabled_timer,  \* EI takes effect before the next instruction
    halted, stopped,
    skip_bug,                  \* the next instruction's first byte repeats
    iflag, ienable,            \* io_mem[INTERRUPT_REG], [INTERRUPT_ENABLE_REG]
    cgb_speed,                 \* double speed
    prepared,                  \* bit 0 of KEY1
    cycles, current_cycles,    \* the statics of emu.c
    key,                       \* a key is down, as of the last poll
    quit, frame_drawn,
    events,                    \* the host's event queue
    masked                     \* history: the game has seen a DI or an interrupt
                               \* and has not executed EI or RETI since

cpu  == <<interrupts_enabled, interrupts_enabled_timer, halted, stopped, masked>>
machine == <<cgb, cgb_speed, prepared>>
loop == <<cycles, current_cycles, frame_drawn>>
host == <<key, quit, events>>
vars == <<pc, cpu, skip_bug, iflag, ienable, machine, loop, host>>

TypeOK ==
    /\ pc \in {"step", "poll", "service", "done"}
    /\ interrupts_enabled \in BOOLEAN /\ interrupts_enabled_timer \in BOOLEAN
    /\ halted \in BOOLEAN /\ stopped \in BOOLEAN /\ skip_bug \in BOOLEAN
    /\ cgb \in BOOLEAN /\ cgb_speed \in BOOLEAN /\ prepared \in BOOLEAN /\ masked \in BOOLEAN
    /\ iflag \in SUBSET Kinds /\ ienable \in SUBSET Kinds
    /\ cycles \in Nat /\ current_cycles \in Nat /\ (pc # "poll" => cycles <= PollAt)
    /\ key \in BOOLEAN /\ quit \in BOOLEAN /\ frame_drawn \in BOOLEAN
    /\ events \in Seq(HostEvents)

\* reset_cpu, the static initialisers and the power-up io_mem.
Init ==
    /\ pc = "step" /\ frame_drawn = FALSE /\ quit = FALSE
    /\ interrupts_enabled = TRUE /\ interrupts_enabled_timer = FALSE
    /\ halted = FALSE /\ stopped = FALSE /\ skip_bug = FALSE
    /\ iflag = {"VBLANK"} /\ ienable = {}
    /\ cgb \in BOOLEAN /\ cgb_speed = FALSE /\ prepared = FALSE
    /\ cycles = 0 /\ current_cycles = 0
    /\ key = FALSE /\ events = <<>> /\ masked = FALSE

-----------------------------------------------------------------------------
(* Instructions                                                            *)

\* exec_opcode first completes the EI of the instruction before.
Fetched == interrupts_enabled \/ interrupts_enabled_timer

\* An instruction of c cycles leaves its cycles for the loop; meanwhile the devices
\* add interrupts to flags, and the LCD may draw the last line of the frame.
Passes(c, flags) ==
    /\ pc = "step" /\ ~frame_drawn /\ ~halted /\ ~stopped
    /\ pc' = "poll"
    /\ \E r \in SUBSET Devices : iflag' = flags \cup r
    /\ frame_drawn' \in BOOLEAN
    /\ current_cycles' = IF cgb_speed THEN c \div 2 ELSE c
    /\ cycles' = cycles + current_cycles'
    /\ UNCHANGED <<skip_bug, host>>

\* Any instruction without an effect on the state above; an opcode that is none
\* takes no cycles.
Plain(c) ==
    /\ Passes(c, iflag)
    /\ interrupts_enabled' = Fetched /\ interrupts_enabled_timer' = FALSE
    /\ UNCHANGED <<halted, stopped, masked, ienable, machine>>

\* Faulty variant: the delay does not hold the interrupts off.
EIAtOnce(c) ==
    /\ Passes(c, iflag)
    /\ interrupts_enabled' = TRUE /\ interrupts_enabled_timer' = TRUE
    /\ masked' = FALSE
    /\ UNCHANGED <<halted, stopped, ienable, machine>>

\* EI, and RETI, which ends with it.
EI(c) ==
    /\ Passes(c, iflag)
    /\ interrupts_enabled' = Fetched /\ interrupts_enabled_timer' = TRUE
    /\ masked' = FALSE
    /\ UNCHANGED <<halted, stopped, ienable, machine>>

\* Faulty variant: an EI just before is not cancelled.
DIKeepsTimer(c) ==
    /\ Passes(c, iflag)
    /\ interrupts_enabled' = FALSE /\ masked' = TRUE
    /\ UNCHANGED <<interrupts_enabled_timer, halted, stopped, ienable, machine>>

DI(c) ==
    /\ Passes(c, iflag)
    /\ interrupts_enabled' = FALSE /\ interrupts_enabled_timer' = FALSE
    /\ masked' = TRUE
    /\ UNCHANGED <<halted, stopped, ienable, machine>>

\* HALT takes no cycles (cpu.c:1375), and so does the wait it starts: see Idle.
HALT ==
    /\ Passes(0, iflag)
    /\ interrupts_enabled' = Fetched /\ interrupts_enabled_timer' = FALSE
    /\ halted' = TRUE
    /\ UNCHANGED <<stopped, masked, ienable, machine>>

\* STOP takes no cycles.  With a speed switch prepared it switches instead.
STOP ==
    /\ Passes(0, iflag)
    /\ interrupts_enabled' = Fetched /\ interrupts_enabled_timer' = FALSE
    /\ IF cgb /\ prepared
       THEN cgb_speed' = ~cgb_speed /\ prepared' = FALSE /\ UNCHANGED stopped
       ELSE stopped' = TRUE /\ UNCHANGED <<cgb_speed, prepared>>
    /\ UNCHANGED <<halted, masked, ienable, cgb>>

\* Writes to IE, IF, KEY1 and P1; the last raises the joypad interrupt if a key
\* that it selects is down.
Write(c) ==
    /\ interrupts_enabled' = Fetched /\ interrupts_enabled_timer' = FALSE
    /\ UNCHANGED <<halted, stopped, masked, cgb, cgb_speed>>
    /\ \/ Passes(c, iflag) /\ ienable' \in IeValues /\ UNCHANGED prepared
       \/ Passes(c, {}) /\ UNCHANGED <<ienable, prepared>>
       \/ Passes(c, iflag) /\ cgb /\ prepared' \in BOOLEAN /\ UNCHANGED ienable
       \/ Passes(c, iflag \cup {"JOYPAD"}) /\ key /\ UNCHANGED <<ienable, prepared>>

Execute ==
    \/ HALT \/ STOP \/ Plain(0)
    \/ \E c \in Costs : Plain(c) \/ EI(c) \/ DI(c) \/ Write(c)

-----------------------------------------------------------------------------
(* The rest of an iteration                                                *)

\* Halted or stopped: timers and serial port run, the LCD only while halted.  The
\* four cycles of the wait are a local's (emu.c:156); what is added to the loop are
\* those of the instruction that started it, none.
Idle ==
    /\ pc = "step" /\ ~frame_drawn /\ (halted \/ stopped)
    /\ pc' = "poll"
    /\ \E r \in SUBSET (IF halted THEN Devices ELSE Devices \cap Clocked) :
          iflag' = iflag \cup r
    /\ frame_drawn' \in (IF halted THEN BOOLEAN ELSE {FALSE})
    /\ stopped' = (stopped /\ ~key)
    /\ cycles' = cycles + current_cycles
    /\ UNCHANGED <<interrupts_enabled, interrupts_enabled_timer, halted, masked, skip_bug,
                   ienable, machine, current_cycles, host>>

\* Faulty variant: quit is the answer of the last poll only.
PollForgets ==
    /\ pc = "poll" /\ pc' = "service"
    /\ cycles' = IF cycles > PollAt THEN 0 ELSE cycles
    /\ IF cycles > PollAt /\ events # <<>>
       THEN /\ quit' = (Head(events) = "close")
            /\ key' = (Head(events) = "press" \/ (key /\ Head(events) # "release"))
            /\ events' = Tail(events)
       ELSE /\ quit' = (quit /\ cycles <= PollAt) /\ UNCHANGED <<key, events>>
    /\ UNCHANGED <<cpu, skip_bug, iflag, ienable, machine, current_cycles,
                   frame_drawn>>

\* Every PollAt cycles update_keys takes one event from the host.
Poll ==
    /\ pc = "poll" /\ pc' = "service"
    /\ cycles' = IF cycles > PollAt THEN 0 ELSE cycles
    /\ IF cycles > PollAt /\ events # <<>>
       THEN /\ quit' = (quit \/ Head(events) = "close")
            /\ key' = (Head(events) = "press" \/ (key /\ Head(events) # "release"))
            /\ events' = Tail(events)
       ELSE UNCHANGED host
    /\ UNCHANGED <<cpu, skip_bug, iflag, ienable, machine, current_cycles,
                   frame_drawn>>

\* handle_interrupts
Possible == iflag \cap ienable \cap Handled
First(s) == CHOOSE k \in s : \A j \in s : \E m, n \in DOMAIN Interrupts :
                m <= n /\ k = Interrupts[m] /\ j = Interrupts[n]

\* The first possible interrupt is serviced: restart pushes PC and jumps.
Dispatch ==
    /\ pc = "service" /\ pc' = "step"
    /\ Possible # {} /\ interrupts_enabled
    /\ iflag' = iflag \ {First(Possible)}
    /\ interrupts_enabled' = FALSE
    /\ halted' = FALSE /\ skip_bug' = FALSE /\ masked' = TRUE
    /\ UNCHANGED <<interrupts_enabled_timer, stopped, ienable, machine, loop,
                   host>>

\* Faulty variant: only the bug, the CPU stays halted.
ResumeHalted ==
    /\ pc = "service" /\ pc' = "step"
    /\ Possible # {} /\ ~interrupts_enabled /\ halted
    /\ skip_bug' = ~cgb
    /\ UNCHANGED <<cpu, iflag, ienable, machine, loop, host>>

\* With the master enable off a halted CPU only resumes, and repeats a byte
\* unless it is a Color one.
Resume ==
    /\ pc = "service" /\ pc' = "step"
    /\ Possible # {} /\ ~interrupts_enabled /\ halted
    /\ halted' = FALSE /\ skip_bug' = ~cgb
    /\ UNCHANGED <<interrupts_enabled, interrupts_enabled_timer, stopped, masked, iflag,
                   ienable, machine, loop, host>>

NoInterrupt ==
    /\ pc = "service" /\ pc' = "step"
    /\ Possible = {} \/ ~(interrupts_enabled \/ halted)
    /\ skip_bug' = FALSE
    /\ UNCHANGED <<cpu, iflag, ienable, machine, loop, host>>

\* run_one_frame returns; run calls it again unless the user has quit.
EndFrame ==
    /\ pc = "step" /\ frame_drawn
    /\ IF quit THEN pc' = "done" /\ UNCHANGED frame_drawn
               ELSE frame_drawn' = FALSE /\ UNCHANGED pc
    /\ UNCHANGED <<cpu, skip_bug, iflag, ienable, machine, cycles,
                   current_cycles, host>>

Loop == Execute \/ Idle \/ Poll \/ Dispatch \/ Resume \/ NoInterrupt \/ EndFrame

\* The user presses or releases a key or closes the window.
Host ==
    /\ Len(events) < MaxEvents /\ pc # "done"
    /\ \E e \in HostEvents : events' = Append(events, e)
    /\ UNCHANGED <<pc, cpu, skip_bug, iflag, ienable, machine, loop, key, quit>>

\* The emulator has returned to main.
Done == pc = "done" /\ UNCHANGED vars

Next == Loop \/ Host \/ Done

Spec == Init /\ [][Next]_vars

\* The loop is a thread of its own that never waits.
Fairness == WF_vars(Loop)
FairSpec == Spec /\ Fairness

-----------------------------------------------------------------------------
(* Properties                                                              *)

\* A CPU is never both halted and stopped, and a byte that is to be repeated (the
\* HALT bug) belongs to the instruction executed next: no idle iteration comes
\* in between and loses it (interrupts.c:77, emu.c:173).
IdleStates ==
    /\ ~(halted /\ stopped)
    /\ skip_bug /\ pc = "step" => ~halted /\ ~stopped /\ ~cgb

\* When an iteration ends with the master enable on, nothing that
\* handle_interrupts looks at is left pending and enabled.
NonePending == pc = "step" /\ interrupts_enabled => Possible = {}

\* Between the service of an interrupt, or a DI, and the next EI or RETI the
\* master enable is off and no EI is under way: a routine is not interrupted
\* "unecessarily" (interrupts.c:62).
StaysMasked == masked => ~interrupts_enabled /\ ~interrupts_enabled_timer

\* A game that executes EI and RETI only with interrupts off, as a routine does
\* that ends with RETI.  An EI with interrupts on leaves the timer running
\* when an interrupt is serviced right after it; the routine's first
\* instruction then turns interrupts on.
TidyNext == Next /\ \A c \in Costs : EI(c) => ~Fetched
TidySpec == Init /\ [][TidyNext]_vars
TidyFairSpec == TidySpec /\ Fairness

\* What holds in every state of such a game.
LoopInv == TypeOK /\ IdleStates /\ NonePending /\ StaysMasked

\* EI and RETI enable interrupts "after the next instruction" (cpu.c:697): none is
\* serviced in the iteration that executed them, so a routine returns before the
\* next one starts.
EIDelayed ==
    [][pc = "service" /\ interrupts_enabled_timer
        => UNCHANGED <<interrupts_enabled, iflag>>]_vars

\* A halted CPU with an enabled interrupt pending goes on, with the master enable
\* on or off.
HaltEnds == (halted /\ Possible # {}) ~> ~halted

\* Closing the window ends the emulator, as long as frames go on being drawn and the
\* game goes on executing instructions that take cycles.  A game that waits in HALT
\* for an interrupt it has not enabled has its frames drawn all the same, but no
\* cycle of that wait is counted (emu.c:156, 178): the keys are never polled and the
\* closed window is ignored.
CloseEnds ==
    []<>frame_drawn /\ []<>(current_cycles > 0) =>
        ((\E i \in DOMAIN events : events[i] = "close") ~> pc = "done")

\* "If Key pressed in "stop" mode, then gameboy is "unstopped"" (emu.c:161).
KeyEndsStop ==
    (stopped /\ \E i \in DOMAIN events : events[i] = "press") ~> ~stopped \/ quit
=============================================================================

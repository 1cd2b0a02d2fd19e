----------------------------- MODULE HostProofs -----------------------------
(***************************************************************************)
(* The program around the emulated machine.  How it starts and ends, for   *)
(* every file (Startup); the debugger's prompt, for every sequence of      *)
(* commands (Debugger); and the main loop (Emulator), which keeps its      *)
(* types, its idle states apart and its interrupts serviced for every set  *)
(* of instruction lengths, devices, values of IE and any number of host    *)
(* events, and whose routines, in a game that executes EI only with        *)
(* interrupts off, stay masked until they say otherwise.                   *)
(***************************************************************************)
EXTENDS Startup, Debugger, Emulator, SequenceTheorems, TLAPS

-----------------------------------------------------------------------------
(* Starting and ending                                                     *)

Loading == {"load_rom_from_file", "check_size", "init_gfx", "run"}
Steps == {"main", "init_emu", "setup_MBC", "cleanup", "returned"} \cup Loading

\* Nothing is allocated before setup_MBC.
Untouched ==
    /\ RAM_banks = "NULL" /\ SRAM_cache = "NULL" /\ ROM_banks = "NULL"
    /\ RAM_bank_count = 0 /\ ROM_bank_count = 0 /\ read_size = 0

\* After it every buffer is there that the header asks for.
Allocated ==
    /\ controller # NoController /\ ROM_banks = "live" /\ ROM_bank_count > 0
    /\ RAM_banks \in {"NULL", "live"} /\ SRAM_cache \in {"NULL", "live"}
    /\ RAM_bank_count > 0 => RAM_banks = "live" /\ SRAM_cache = "live"

\* A file is read in blocks, which fill the buffer without rest.
ReadInBlocks ==
    /\ read_size \in Nat /\ read_size <= data_size
    /\ read_size % READ_SIZE = 0 \/ read_size = file.size

StartupInv ==
    /\ device \in {"standard", "Switch"} /\ file \in Files /\ step \in Steps
    /\ ROM_bank_count \in Nat /\ read_size \in Nat
    /\ step \in {"main", "init_emu", "setup_MBC"} => Untouched
    /\ step = "setup_MBC" => file.rom_code \in RomSizes
    /\ step \in Loading => Allocated /\ ReadInBlocks
    /\ step \in {"init_gfx", "run"} => SizeMatches
    /\ step = "cleanup" => /\ device = "Switch"
                           /\ "freed" \in {RAM_banks, SRAM_cache, ROM_banks} => ROM_bank_count = 0
    /\ FitsBuffer /\ FreedOnce

\* Every ROM has banks.
LEMMA RomHasBanks ==
    ASSUME NEW code \in RomSizes
    PROVE  rom_banks(code) \in Nat /\ rom_banks(code) > 0
<1>1. CASE code \in 0 .. 8
  BY <1>1 DEF rom_banks
<1>2. CASE code \in {82, 83, 84}
  BY <1>2 DEF rom_banks
<1> QED
  BY <1>1, <1>2 DEF RomSizes

LEMMA FailureEnds ==
    ASSUME Fails, device \in {"standard", "Switch"}
    PROVE  step' = "returned" \/ (step' = "cleanup" /\ device = "Switch")
BY DEF Fails

\* A failure before anything is read leaves what cleanup can free.
LEMMA StartupStep == StartupInv /\ [StartupNext]_startupVars => StartupInv'
<1> SUFFICES ASSUME StartupInv, [StartupNext]_startupVars PROVE StartupInv'
  OBVIOUS
<1>0. device \in {"standard", "Switch"} /\ file \in Files /\ file.size \in Nat
  BY StartupAssumption DEF StartupInv
<1>1. CASE main
  BY <1>0, <1>1, FailureEnds
  DEF main, StartupInv, Untouched, FitsBuffer, FreedOnce, Steps, Loading, pointers, loaded, data_size
<1>2. CASE ReadHeader
  BY <1>0, <1>2, FailureEnds
  DEF ReadHeader, StartupInv, Untouched, FitsBuffer, FreedOnce, Steps, Loading, pointers, loaded, data_size
<1>3. CASE NoMemory
  BY <1>0, <1>3, FailureEnds
  DEF NoMemory, StartupInv, Untouched, FitsBuffer, FreedOnce, Steps, Loading, data_size
<1>4. CASE setup_MBC
  <2>1. /\ Untouched /\ file.rom_code \in RomSizes /\ ~freed_twice
        /\ UNCHANGED <<device, file, read_size, freed_twice>>
        /\ ROM_bank_count' = rom_banks(file.rom_code) /\ ROM_banks' = "live"
        /\ RAM_bank_count' = ram_banks(file.ram_code)
    BY <1>4 DEF setup_MBC, StartupInv, FreedOnce
  <2>2. ROM_bank_count' \in Nat /\ ROM_bank_count' > 0
    BY <2>1, RomHasBanks
  <2>3. /\ RAM_banks' \in {"NULL", "live"} /\ SRAM_cache' \in {"NULL", "live"}
        /\ RAM_bank_count' > 0 => RAM_banks' = "live" /\ SRAM_cache' = "live"
    BY <1>4, <2>1 DEF setup_MBC, Untouched, Needed
  <2>4. FitsBuffer' /\ FreedOnce'
    BY <2>1 DEF Untouched, FitsBuffer, FreedOnce
  <2>5. CASE step' = "load_rom_from_file" /\ \E k \in DOMAIN Controllers : controller' = k
    <3>1. controller' # NoController
      BY <2>5 DEF Controllers, NoController
    <3>2. ReadInBlocks'
      BY <2>1, <2>2 DEF Untouched, ReadInBlocks, data_size, ROM_BANK, READ_SIZE
    <3> QED
      BY <1>0, <2>1, <2>2, <2>3, <2>4, <2>5, <3>1, <3>2
      DEF StartupInv, Allocated, Steps, Loading, Untouched
  <2>6. CASE Fails
    BY <1>0, <2>1, <2>2, <2>3, <2>4, <2>6, FailureEnds DEF StartupInv, Steps, Loading, Untouched
  <2> QED
    BY <1>4, <2>5, <2>6 DEF setup_MBC
<1>5. ASSUME step \in Loading, UNCHANGED <<device, file, pointers, loaded, freed_twice>>
      PROVE  /\ Allocated /\ ReadInBlocks /\ Allocated' /\ ~freed_twice'
             /\ data_size' = data_size /\ data_size \in Nat /\ data_size % READ_SIZE = 0
             /\ ROM_bank_count' \in Nat
  <2>1. Allocated /\ ReadInBlocks /\ ~freed_twice /\ ROM_bank_count \in Nat
    BY <1>5 DEF StartupInv, FreedOnce, Loading
  <2> QED
    BY <1>5, <2>1 DEF Allocated, pointers, loaded, data_size, ROM_BANK, READ_SIZE
<1>6. ASSUME step \in Loading, UNCHANGED <<device, file, pointers, loaded, read_size, freed_twice>>, Fails
      PROVE  StartupInv'
  <2>1. FitsBuffer' /\ FreedOnce' /\ "freed" \notin {RAM_banks', SRAM_cache', ROM_banks'}
    BY <1>5, <1>6 DEF FitsBuffer, FreedOnce, Allocated, ReadInBlocks, data_size
  <2> QED
    BY <1>0, <1>5, <1>6, <2>1, FailureEnds
    DEF StartupInv, Steps, Loading, ReadInBlocks
<1>7. CASE load_rom_from_file
  <2>1. step \in Loading /\ UNCHANGED <<device, file, pointers, loaded, freed_twice>>
    BY <1>7 DEF load_rom_from_file, Loading
  <2>2. CASE UNCHANGED read_size /\ Fails
    BY <1>6, <2>1, <2>2
  <2>3. CASE UNCHANGED read_size /\ step' = "check_size"
    <3>1. ReadInBlocks' /\ FitsBuffer' /\ FreedOnce'
      BY <1>5, <2>1, <2>3 DEF ReadInBlocks, FitsBuffer, FreedOnce, Allocated, data_size
    <3> QED
      BY <1>0, <1>5, <2>1, <2>3, <3>1 DEF StartupInv, Steps, Loading, ReadInBlocks
  <2>4. CASE /\ ReadsOn /\ UNCHANGED step
             /\ read_size' = IF file.size - read_size < READ_SIZE THEN file.size
                             ELSE read_size + READ_SIZE
    <3>1. /\ read_size \in Nat /\ read_size < data_size /\ read_size < file.size
          /\ read_size % 4 = 0 /\ data_size % 4 = 0 /\ data_size \in Nat
      BY <1>0, <1>5, <2>1, <2>4 DEF ReadsOn, ReadInBlocks, READ_SIZE
    <3>2. /\ read_size' \in Nat /\ read_size' <= data_size
          /\ read_size' % 4 = 0 \/ read_size' = file.size
      BY <1>0, <2>4, <3>1 DEF READ_SIZE
    <3>3. ReadInBlocks'
      BY <1>5, <2>1, <3>2 DEF ReadInBlocks, READ_SIZE
    <3>4. FitsBuffer' /\ FreedOnce'
      BY <1>5, <2>1, <3>3 DEF ReadInBlocks, FitsBuffer, FreedOnce, Allocated, data_size
    <3>5. step' = "load_rom_from_file"
      BY <1>7, <2>4 DEF load_rom_from_file
    <3> QED
      BY <1>0, <1>5, <2>1, <3>2, <3>3, <3>4, <3>5 DEF StartupInv, Steps, Loading
  <2> QED
    BY <1>7, <2>2, <2>3, <2>4 DEF load_rom_from_file
<1>8. CASE EndLoad
  <2>1. step \in Loading /\ UNCHANGED <<device, file, pointers, loaded, read_size, freed_twice>>
    BY <1>8 DEF EndLoad, Loading
  <2>2. CASE Fails
    BY <1>6, <2>1, <2>2
  <2>3. CASE SizeMatches /\ step' = "init_gfx"
    <3>1. ReadInBlocks' /\ SizeMatches' /\ FitsBuffer' /\ FreedOnce'
      BY <1>5, <2>1, <2>3 DEF ReadInBlocks, SizeMatches, FitsBuffer, FreedOnce, Allocated, data_size
    <3> QED
      BY <1>0, <1>5, <2>1, <2>3, <3>1 DEF StartupInv, Steps, Loading, ReadInBlocks
  <2> QED
    BY <1>8, <2>2, <2>3 DEF EndLoad
<1>9. CASE EndInit \/ EndRun
  <2>1. /\ step \in {"init_gfx", "run"} /\ step \in Loading
        /\ UNCHANGED <<device, file, pointers, loaded, read_size, freed_twice>>
    BY <1>9 DEF EndInit, EndRun, Loading
  <2>2. CASE Fails
    BY <1>6, <2>1, <2>2
  <2>3. CASE step' = "run"
    <3>1. SizeMatches
      BY <2>1 DEF StartupInv
    <3>2. ReadInBlocks' /\ SizeMatches' /\ FitsBuffer' /\ FreedOnce'
      BY <1>5, <2>1, <3>1 DEF ReadInBlocks, SizeMatches, FitsBuffer, FreedOnce, Allocated, data_size
    <3> QED
      BY <1>0, <1>5, <2>1, <2>3, <3>2 DEF StartupInv, Steps, Loading, ReadInBlocks
  <2> QED
    BY <1>9, <2>2, <2>3 DEF EndInit, EndRun
<1>10. CASE cleanup
  <2>1. /\ step' = "returned" /\ device = "Switch" /\ UNCHANGED <<device, file, loaded, read_size>>
        /\ ~freed_twice /\ freed_twice' = (freed_twice \/ "freed" \in {RAM_banks, SRAM_cache, ROM_banks})
        /\ ROM_banks' = IF ROM_banks = "NULL" THEN "NULL" ELSE "freed"
        /\ "freed" \in {RAM_banks, SRAM_cache, ROM_banks} => ROM_bank_count = 0
    BY <1>10 DEF cleanup, Free, StartupInv, FreedOnce
  <2>2. FitsBuffer' /\ FreedOnce'
    BY <2>1 DEF StartupInv, FitsBuffer, FreedOnce, loaded
  <2> QED
    BY <2>1, <2>2 DEF StartupInv, Steps, Loading, loaded
<1>11. CASE UNCHANGED startupVars
  BY <1>11 DEF startupVars, StartupInv, Untouched, Allocated, ReadInBlocks, SizeMatches, FitsBuffer,
               FreedOnce, pointers, loaded, data_size
<1> QED
  BY <1>1, <1>2, <1>3, <1>4, <1>7, <1>8, <1>9, <1>10, <1>11 DEF StartupNext

\* Whatever the file and whichever step fails: only a cartridge read in full runs, its file
\* stays within the buffer, and each allocation is freed once, but for the failed allocation
\* of the ROM on the Switch.
THEOREM RomIsLoaded == StartupSpec => []RomLoaded
<1>1. StartupInit => StartupInv
  BY DEF StartupInit, StartupInv, Untouched, FitsBuffer, FreedOnce, Steps, Loading
<1>2. StartupInv => RomLoaded
  <2> SUFFICES ASSUME StartupInv, step = "run" PROVE RunsWholeRom
    BY DEF StartupInv, RomLoaded, RunsWholeRom
  <2> QED
    BY DEF StartupInv, RunsWholeRom, Allocated, SizeMatches, data_size, Loading
<1> QED
  BY <1>1, <1>2, StartupStep, PTL DEF StartupSpec

-----------------------------------------------------------------------------
(* Stepping                                                                *)

\* While steps are asked for, the emulator's count is what is left of them; the prompt
\* begins without the flags of the last one.
StepsInv ==
    /\ asked \in Nat /\ iterations \in Nat /\ step_count \in Int
    /\ mode \in {"setup", "prompt"} => "STEPS_SET" \notin flags
    /\ mode = "running" /\ asked = 0 => step_count <= 0
    /\ mode = "running" /\ asked \in 1 .. HalfInt - 1 =>
          step_count = asked - iterations /\ iterations < asked
    /\ mode = "prompt" /\ caller = "run_one_frame" /\ asked < HalfInt =>
          asked > 0 /\ iterations = asked

LEMMA SmallRemainder ==
    ASSUME NEW n \in Nat, NEW m \in Nat, n < m
    PROVE  n % m = n
OBVIOUS

\* An int holds a count below its half range as it is.
LEMMA IntHolds ==
    ASSUME NEW n \in Int, n > 0
    PROVE  Int32(n) \in Int /\ (n < HalfInt => Int32(n) = n)
<1>1. HalfInt \in Nat /\ HalfInt > 0 /\ n + HalfInt \in Nat /\ 2 * HalfInt \in Nat /\ 2 * HalfInt > 0
  BY DebuggerAssumption
<1>2. (n + HalfInt) % (2 * HalfInt) \in Int
  BY <1>1
<1>3. n < HalfInt => (n + HalfInt) % (2 * HalfInt) = n + HalfInt
  BY <1>1, SmallRemainder
<1> QED
  BY <1>1, <1>2, <1>3 DEF Int32

LEMMA StepsStep == StepsInv /\ [DebuggerNext]_debuggerVars => StepsInv'
<1> SUFFICES ASSUME StepsInv, [DebuggerNext]_debuggerVars PROVE StepsInv'
  OBVIOUS
<1>0. HalfInt \in Nat /\ HalfInt > 0 /\ asked \in Nat /\ iterations \in Nat /\ step_count \in Int
  BY DebuggerAssumption DEF StepsInv
<1>1. CASE setup_debug
  BY <1>1 DEF setup_debug, Enter, StepsInv
<1>2. CASE check_continue
  BY <1>0, <1>2 DEF check_continue, Return, STEPS_OFF, StepsInv
<1>3. CASE check_step
  <2>1. PICK n \in Counts : /\ n > 0 /\ asked' = n /\ step_count' = Int32(n)
                            /\ mode' = "running" /\ iterations' = 0
    BY <1>3 DEF check_step, Return
  <2>2. n \in Int /\ Int32(n) \in Int /\ (n < HalfInt => Int32(n) = n)
    BY <2>1, DebuggerAssumption, IntHolds
  <2> QED
    BY <1>0, <2>1, <2>2 DEF StepsInv
<1>4. CASE check_breakpoint
  BY <1>4 DEF check_breakpoint, StepsInv
<1>5. CASE check_exit
  BY <1>5 DEF check_exit, StepsInv
<1>6. CASE run_one_frame
  <2>1. CASE step_count = 1
    <3>1. asked # 0
      BY <1>6, <2>1 DEF run_one_frame, StepsInv
    <3>2. asked < HalfInt => iterations + 1 = asked
      BY <1>0, <1>6, <2>1, <3>1 DEF run_one_frame, StepsInv
    <3>3. /\ mode' = "prompt" /\ caller' = "run_one_frame" /\ flags' = {} /\ asked' = asked
          /\ iterations' = iterations + 1 /\ step_count' = 0
      BY <1>6, <2>1 DEF run_one_frame, Enter
    <3> QED
      BY <1>0, <3>1, <3>2, <3>3 DEF StepsInv
  <2>2. CASE step_count # 1
    <3>1. /\ mode = "running" /\ mode' = "running" /\ asked' = asked
          /\ iterations' = iterations + 1
          /\ step_count' = IF step_count > 0 THEN step_count - 1 ELSE step_count
      BY <1>6, <2>2 DEF run_one_frame
    <3> QED
      BY <1>0, <2>2, <3>1 DEF StepsInv
  <2> QED
    BY <2>1, <2>2
<1>7. CASE Look \/ UNCHANGED debuggerVars
  BY <1>7 DEF Look, debuggerVars, StepsInv
<1> QED
  BY <1>1, <1>2, <1>3, <1>4, <1>5, <1>6, <1>7 DEF DebuggerNext

\* The prompt comes back after exactly as many iterations as were asked for.
THEOREM StepsAreExact == DebuggerSpec => []StepsExact
<1>1. DebuggerInit => StepsInv
  BY DEF DebuggerInit, StepsInv, STEPS_OFF
<1>2. StepsInv => StepsExact
  BY DEF StepsInv, StepsExact
<1> QED
  BY <1>1, <1>2, StepsStep, PTL DEF DebuggerSpec

-----------------------------------------------------------------------------
(* The main loop                                                           *)

USE EmulatorAssumption

\* Every instruction goes from "step" to "poll" and keeps the types of what
\* Passes changes.
LEMMA PassesTypes ==
    ASSUME TypeOK, NEW c \in Nat, NEW raised \in SUBSET Kinds, Passes(c, raised)
    PROVE  /\ iflag' \in SUBSET Kinds /\ frame_drawn' \in BOOLEAN /\ pc' = "poll"
           /\ cycles' \in Nat /\ current_cycles' \in Nat
           /\ skip_bug' \in BOOLEAN /\ key' \in BOOLEAN /\ quit' \in BOOLEAN
           /\ events' \in Seq(HostEvents)
<1>1. iflag' \in SUBSET Kinds
  BY DEF Passes, Handled
<1>2. c \div 2 \in Nat
  BY SMT
<1>3. current_cycles' \in Nat
  BY <1>2 DEF Passes, TypeOK
<1>4. cycles' \in Nat
  BY <1>3 DEF Passes, TypeOK
<1> QED
  BY <1>1, <1>3, <1>4 DEF Passes, TypeOK, host

\* Polling and servicing leave the event queue a queue of host events.
LEMMA EventTypes ==
    ASSUME TypeOK, Poll \/ Host
    PROVE  events' \in Seq(HostEvents)
<1>1. CASE Poll
  <2>1. events # <<>> => Tail(events) \in Seq(HostEvents)
    BY HeadTailProperties DEF TypeOK
  <2> QED
    BY <1>1, <2>1 DEF Poll, TypeOK, host
<1>2. CASE Host
  BY <1>2, AppendProperties DEF Host, TypeOK
<1> QED
  BY <1>1, <1>2

THEOREM TypeCorrect == Spec => []TypeOK
<1>1. Init => TypeOK
  <2> SUFFICES ASSUME Init PROVE TypeOK
    OBVIOUS
  <2>1. "VBLANK" \in Kinds
    BY DOMAIN Interrupts = 1..5, Interrupts[1] = "VBLANK" DEF Kinds, Interrupts
  <2>2. events \in Seq(HostEvents)
    BY EmptySeq DEF Init
  <2>3. /\ interrupts_enabled \in BOOLEAN /\ interrupts_enabled_timer \in BOOLEAN
        /\ halted \in BOOLEAN /\ stopped \in BOOLEAN /\ skip_bug \in BOOLEAN
        /\ cgb_speed \in BOOLEAN /\ prepared \in BOOLEAN /\ masked \in BOOLEAN
        /\ key \in BOOLEAN /\ quit \in BOOLEAN /\ frame_drawn \in BOOLEAN
    BY Zenon DEF Init
  <2> QED
    BY <2>1, <2>2, <2>3 DEF Init, TypeOK
<1>2. TypeOK /\ [Next]_vars => TypeOK'
  <2> SUFFICES ASSUME TypeOK, [Next]_vars PROVE TypeOK'
    OBVIOUS
  <2>1. CASE Execute
    <3>1. CASE HALT \/ STOP
      BY <3>1, PassesTypes DEF HALT, STOP, Fetched, TypeOK, machine
    <3>2. ASSUME NEW c \in Nat, Plain(c) \/ EI(c) \/ DI(c)
          PROVE  TypeOK'
      <4>1. Passes(c, iflag)
        BY <3>2 DEF Plain, EI, DI
      <4> QED
        BY <3>2, <4>1, PassesTypes DEF Plain, EI, DI, Fetched, TypeOK, machine
    <3>3. ASSUME NEW c \in Costs, Write(c)
          PROVE  TypeOK'
      <4>1. PICK raised \in SUBSET Kinds : Passes(c, raised)
        BY <3>3 DEF Write, TypeOK, Kinds, Interrupts
      <4>2. ienable' \in SUBSET Kinds /\ prepared' \in BOOLEAN
        BY <3>3 DEF Write, TypeOK
      <4>3. interrupts_enabled' \in BOOLEAN /\ interrupts_enabled_timer' \in BOOLEAN
        BY <3>3 DEF Write, TypeOK, Fetched
      <4> QED
        BY <3>3, <4>1, <4>2, <4>3, PassesTypes DEF Write, TypeOK
    <3> QED
      BY <2>1, <3>1, <3>2, <3>3 DEF Execute
  <2>2. CASE Idle
    <3>1. iflag' \in SUBSET Kinds
      BY <2>2 DEF Idle, TypeOK, Handled
    <3>2. stopped' \in BOOLEAN /\ frame_drawn' \in BOOLEAN
      BY <2>2, Zenon DEF Idle
    <3>3. cycles' \in Nat /\ current_cycles' \in Nat /\ pc' = "poll"
      BY <2>2 DEF Idle, TypeOK
    <3> QED
      BY <2>2, <3>1, <3>2, <3>3 DEF Idle, TypeOK, host, machine
  <2>3. CASE Poll
    <3>1. key' \in BOOLEAN /\ quit' \in BOOLEAN
      BY <2>3 DEF Poll, TypeOK, host
    <3> QED
      BY <2>3, <3>1, EventTypes DEF Poll, TypeOK, cpu, machine
  <2>4. CASE Dispatch \/ Resume \/ NoInterrupt
    <3>1. skip_bug' \in BOOLEAN
      BY <2>4, Zenon DEF Dispatch, Resume, NoInterrupt
    <3>2. iflag' \in SUBSET Kinds
      BY <2>4 DEF Dispatch, Resume, NoInterrupt, TypeOK
    <3>3. pc = "service" /\ pc' = "step" /\ UNCHANGED <<ienable, machine, loop, host, stopped>>
      BY <2>4, Zenon DEF Dispatch, Resume, NoInterrupt, cpu
    <3>4. masked' \in BOOLEAN /\ halted' \in BOOLEAN
      BY <2>4, Zenon DEF Dispatch, Resume, NoInterrupt, TypeOK, cpu
    <3>5. interrupts_enabled' \in BOOLEAN /\ interrupts_enabled_timer' \in BOOLEAN
      BY <2>4, Zenon DEF Dispatch, Resume, NoInterrupt, TypeOK, cpu
    <3> QED
      BY <2>4, <3>1, <3>2, <3>3, <3>4, <3>5 DEF TypeOK, loop, host, machine
  <2>5. CASE EndFrame
    BY <2>5, ZenonT(40) DEF EndFrame, TypeOK, cpu, host, machine
  <2>6. CASE Host
    BY <2>6, EventTypes DEF Host, TypeOK, cpu, loop, machine
  <2>7. CASE Done \/ UNCHANGED vars
    BY <2>7 DEF Done, vars, TypeOK, cpu, loop, host, machine
  <2> QED
    BY <2>1, <2>2, <2>3, <2>4, <2>5, <2>6, <2>7 DEF Next, Loop
<1> QED
  BY <1>1, <1>2, PTL DEF Spec

-----------------------------------------------------------------------------
(* Idle states                                                             *)

\* HALT and STOP are instructions, so neither is executed in an idle state; the byte
\* that the HALT bug repeats is fetched in the very next iteration.
THEOREM IdleStatesHold == Spec => []IdleStates
<1>1. Init => IdleStates
  BY DEF Init, IdleStates
<1>2. IdleStates /\ [Next]_vars => IdleStates'
  <2> SUFFICES ASSUME IdleStates, [Next]_vars PROVE IdleStates'
    OBVIOUS
  <2>1. CASE Execute
    BY <2>1 DEF Execute, Passes, STOP, Plain, EI, DI, HALT, Write, IdleStates, host
  <2>2. CASE Idle
    BY <2>2, Zenon DEF Idle, IdleStates
  <2>3. CASE Poll
    BY <2>3 DEF Poll, IdleStates, cpu
  <2>4. CASE Dispatch
    BY <2>4 DEF Dispatch, IdleStates
  <2>5. CASE Resume
    BY <2>5, Zenon DEF Resume, IdleStates, machine
  <2>6. CASE NoInterrupt
    BY <2>6 DEF NoInterrupt, IdleStates, cpu
  <2>7. CASE EndFrame
    BY <2>7 DEF EndFrame, IdleStates, cpu, machine
  <2>8. CASE Host \/ Done \/ UNCHANGED vars
    <3>1. UNCHANGED <<pc, halted, stopped, skip_bug, cgb>>
      BY <2>8, Zenon DEF Host, Done, vars, cpu, machine
    <3> QED
      BY <3>1 DEF IdleStates
  <2> QED
    BY <2>1, <2>2, <2>3, <2>4, <2>5, <2>6, <2>7, <2>8 DEF Next, Loop
<1> QED
  BY <1>1, <1>2, PTL DEF Spec

-----------------------------------------------------------------------------
(* Interrupts                                                              *)

\* Only the service phase leads back to "step", and it leaves an interrupt that it
\* could service pending only with the master enable off.
THEOREM NonePendingHolds == Spec => []NonePending
<1>1. Init => NonePending
  BY DEF Init, NonePending, Possible
<1>2. NonePending /\ [Next]_vars => NonePending'
  <2> SUFFICES ASSUME NonePending, [Next]_vars PROVE NonePending'
    OBVIOUS
  <2>1. CASE Execute
    BY <2>1 DEF Execute, Passes, STOP, Plain, EI, DI, HALT, Write, NonePending
  <2>2. CASE Idle \/ Poll
    BY <2>2 DEF Idle, Poll, NonePending
  <2>3. CASE Dispatch \/ Resume \/ NoInterrupt
    BY <2>3 DEF Dispatch, Resume, NoInterrupt, NonePending, Possible, cpu
  <2>4. CASE EndFrame \/ Host \/ Done \/ UNCHANGED vars
    BY <2>4 DEF EndFrame, Host, Done, NonePending, Possible, vars, cpu
  <2> QED
    BY <2>1, <2>2, <2>3, <2>4 DEF Next, Loop
<1> QED
  BY <1>1, <1>2, PTL DEF Spec

\* The strengthening of StaysMasked: an EI is under way only with the master enable
\* off, so the service of an interrupt finds no EI to outlive it.
TimerAlone == interrupts_enabled_timer => ~interrupts_enabled
MaskInv == StaysMasked /\ TimerAlone

\* For a game that executes EI and RETI only with interrupts off.
LEMMA MaskStep == MaskInv /\ [TidyNext]_vars => MaskInv'
<1> SUFFICES ASSUME MaskInv, [TidyNext]_vars PROVE MaskInv'
  OBVIOUS
<1>1. CASE TidyNext /\ Execute
  <2>1. ASSUME NEW c \in Costs, EI(c) PROVE MaskInv'
    <3>1. ~Fetched
      BY <1>1, <2>1 DEF TidyNext
    <3> QED
      BY <2>1, <3>1 DEF EI, Fetched, MaskInv, StaysMasked, TimerAlone
  <2>2. ASSUME NEW c \in Nat, Plain(c) \/ DI(c) \/ Write(c)
        PROVE  MaskInv'
    <3>1. CASE DI(c)
      BY <3>1, Zenon DEF DI, MaskInv, StaysMasked, TimerAlone
    <3>2. CASE Plain(c) \/ Write(c)
      <4>1. /\ interrupts_enabled' = Fetched /\ interrupts_enabled_timer' = FALSE
            /\ masked' = masked
        BY <3>2 DEF Plain, Write
      <4> QED
        BY <4>1, Zenon DEF Fetched, MaskInv, StaysMasked, TimerAlone
    <3> QED
      BY <2>2, <3>1, <3>2
  <2>3. CASE HALT \/ STOP
    <3>1. /\ interrupts_enabled' = Fetched /\ interrupts_enabled_timer' = FALSE
          /\ masked' = masked
      BY <2>3 DEF HALT, STOP
    <3> QED
      BY <3>1, Zenon DEF Fetched, MaskInv, StaysMasked, TimerAlone
  <2> QED
    BY <1>1, <2>1, <2>2, <2>3 DEF Execute
<1>2. CASE Idle \/ Poll \/ EndFrame \/ Host \/ Done \/ UNCHANGED vars
  <2>1. UNCHANGED <<interrupts_enabled, interrupts_enabled_timer, masked>>
    BY <1>2 DEF Idle, Poll, EndFrame, Host, Done, vars, cpu
  <2> QED
    BY <2>1, Zenon DEF MaskInv, StaysMasked, TimerAlone
<1>3. CASE Dispatch \/ Resume \/ NoInterrupt
  BY <1>3 DEF Dispatch, Resume, NoInterrupt, cpu, MaskInv, StaysMasked, TimerAlone
<1> QED
  BY <1>1, <1>2, <1>3 DEF TidyNext, Next, Loop

LEMMA MaskInvariant == TidySpec => []MaskInv
<1>1. Init => MaskInv
  BY DEF Init, MaskInv, StaysMasked, TimerAlone
<1> QED
  BY <1>1, MaskStep, PTL DEF TidySpec

THEOREM RoutinesStayMasked == TidySpec => []StaysMasked
<1>1. MaskInv => StaysMasked
  BY DEF MaskInv
<1> QED
  BY <1>1, MaskInvariant, PTL

\* No interrupt is serviced in the iteration that executed EI or RETI.
THEOREM EIIsDelayed == TidySpec => EIDelayed
<1>1. MaskInv /\ [TidyNext]_vars
        => [pc = "service" /\ interrupts_enabled_timer
              => UNCHANGED <<interrupts_enabled, iflag>>]_vars
  <2> SUFFICES ASSUME MaskInv, TidyNext, pc = "service", interrupts_enabled_timer
               PROVE  UNCHANGED <<interrupts_enabled, iflag>>
    OBVIOUS
  <2>1. ~interrupts_enabled
    BY DEF MaskInv, TimerAlone
  <2>2. ~Dispatch /\ ~Execute /\ ~Idle /\ ~Poll /\ ~EndFrame
    BY <2>1 DEF Dispatch, Execute, Passes, STOP, Plain, EI, DI, HALT, Write, Idle, Poll,
                EndFrame
  <2> QED
    BY <2>2 DEF TidyNext, Next, Loop, Resume, NoInterrupt, Host, Done, vars, cpu
<1> QED
  BY <1>1, MaskInvariant, PTL DEF TidySpec, EIDelayed

\* All four together, in every state of a game that executes EI and RETI only with
\* interrupts off (emu.c:150-196, interrupts.c:47-85).
THEOREM LoopInvHolds == TidySpec => []LoopInv
<1>1. [TidyNext]_vars => [Next]_vars
  BY DEF TidyNext
<1>2. TidySpec => Spec
  BY <1>1, PTL DEF TidySpec, Spec
<1>3. TypeOK /\ IdleStates /\ NonePending /\ StaysMasked => LoopInv
  BY DEF LoopInv
<1> QED
  BY <1>2, <1>3, TypeCorrect, IdleStatesHold, NonePendingHolds, RoutinesStayMasked, PTL
=============================================================================

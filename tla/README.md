# PlutoBoy in TLA+

A verification project for PlutoBoy, a Game Boy / Game Boy Color emulator in C.
Paths are relative to the repository root. Everything here is written from the
source; where a comment or a header of the repository says something else, the
difference is a run that TLC must find violated, or a paragraph of section 6.

## 1. Inventory

PlutoBoy is one thread that interprets the CPU and, after every instruction (and
in the middle of longer ones), reports the clock cycles spent to the other
devices. The concurrency of the real machine becomes an interleaving of device
updates and register writes; the only real threads are the host's audio callback,
and the only other process the peer of the TCP link.

| part | source | state | operations | talks to |
|---|---|---|---|---|
| main loop | `src/core/emu.c` | `cycles`, `current_cycles`, `skip_bug`, `frame_drawn`, `quit` | `init_emu`, `run`, `run_one_frame`, `add_current_cycles` | CPU, timers, LCD, sound, serial, joypad, debugger |
| CPU | `src/core/cpu.c` | registers, `interrupts_enabled`, `interrupts_enabled_timer`, `halted`, `stopped`, `cgb_speed` | `exec_opcode`, `HALT`, `STOP`, `DI`, `EI`, `RETI`, `restart`, `update_all_cycles` | memory, every clocked device |
| interrupts | `src/core/interrupts.c` | `io_mem[IF]`, `io_mem[IE]` | `raise_interrupt`, `handle_interrupts` | raised by LCD, timers, serial, joypad; consumed by the main loop |
| LCD controller | `src/core/lcd.c` | mode, two cycle counters, LY, V-Blank line, STAT line, enable delay | `update_lcd`, `enable_screen`, `disable_screen`, `check_lcd_coincidence`, writes to LCDC/STAT/LY/LYC | interrupts, H-Blank DMA, `draw_row` |
| renderer | `src/core/graphics.c` | pixel buffers, `frame_drawn` | `draw_row`, sprite and tile rows, `output_screen` | sprite priorities, VRAM, host screen |
| sprite priorities | `src/core/sprite_priorities.c` | doubly linked list of 40 nodes, head pointer | `init_sprite_prio_list`, `update_sprite_prios`, iterator | OAM writes, renderer |
| timers | `src/core/timers.c` | DIV and its low byte, TIMA, TMA, TAC, frequency, RTC clock | `update_timers`, `increment_tima`, writes to DIV/TAC | interrupts, MBC3 clock |
| HDMA/GDMA | `src/core/mmu/hdma.c` | source, destination, bytes left, HDMA5, in progress | `check_cgb_dma`, `perform_hdma`, `perform_gdma`, writes to HDMA1..5 | LCD, memory, CPU clock |
| memory map | `src/core/mmu/memory.c` | RAM, VRAM, OAM, I/O registers, bank registers, boot flag | `get_mem`, `set_mem`, `io_write_mem`, `dma_transfer`, `load_rom` | everything |
| cartridge (MBC) | `src/core/mmu/mbc*.c`, `huc*.c`, `mmm01.c` | current ROM and RAM banks, mode, RAM enable, RTC | bank writes, RTC latch and tick, SRAM cache and file | memory map, files |
| serial port | `src/core/serial_io.c`, `src/shared_libs/SDL2/serial_io_SDL.c` | bits left, clock, transfer running, sockets | `start_transfer`, `inc_serial_cycles`, `transfer`, `recv` | interrupts, peer process |
| audio queue | `src/shared_libs/SDL2/audio/Sound_Queue.cpp` | ring of sample buffers, read and write index, semaphore | `write`, `fill_buffer`, `start`, `stop` | main thread and audio thread |
| sound chip | `src/core/audio/`, `src/shared_libs/SDL2/sound_SDL.cpp` | oscillators with length, envelope, sweep and timers; frame sequencer; three sample buffers | `run_until`, `end_frame`, `write_register`, `read_register`, `apply_stereo`, `read_samples` | CPU clock, audio queue |
| joypad | `src/shared_libs/SDL2/joypad_SDL.c`, `joypad_write` | buttons with key and rectangle, P1 | `init_joypad`, `update_keys`, `check_keys_pressed`, `check_keys_moved` | SDL events, main loop, interrupts |
| menu | `src/shared_libs/SDL2/UI/menu.c`, `filebrowser.c` | directory listing, highlight, scroll offset, textures | `ui_menu`, `navigation`, `get_dir`, `redraw_screen` | SDL events, file system |
| startup and files | `src/platforms/*/main.c`, `files.c`, `emu.c`, `memory.c`, `mbc.c` | ROM, RAM and cache banks, header | `main`, `init_emu`, `load_rom`, `setup_MBC`, `teardown_MBC`, `save_SRAM` | everything |
| debugger | `src/platforms/standard/debugger.c` | flags, step count, breakpoint | `get_command`, `check_step`, `check_continue` | main loop |
| frame pacing | `src/shared_libs/SDL2/framerate_SDL.c` | time of the last frame | `start_framerate`, `adjust_to_framerate` | host clock, renderer |
| screen, clock, logger | `src/shared_libs/` | host output | | |
| disassembler | `src/core/disasm.c` | none | formatting | |

### What is hard here, and what makes each part correct

* **Main loop, CPU and interrupts.** One loop iteration executes an instruction
  or idles, polls the keys now and then, and services at most one interrupt.
  Flags set by one instruction (`EI`, `HALT`, `STOP`) act on later iterations,
  after interrupts that may come in between. Correct: an interrupt routine is not
  interrupted before it enables interrupts, enabled interrupts are eventually
  serviced in priority order, HALT ends when an enabled interrupt is raised, and
  closing the window ends the program while instructions are executed. (That STOP
  ends, and that the window closes while the CPU idles, fails: section 6.)
* **LCD controller.** Two cycle counters and a line counter must agree although
  updates come in different sizes and the game may write LCDC, STAT, LY and LYC
  between any two of them. Correct: lines are drawn once each and in order, the
  line counter stays inside the frame buffer, no interrupt is lost to a stale
  STAT line, V-Blank recurs.
* **Sprite priorities.** A linked list is spliced on every write to a sprite's
  x position. Correct: it stays one ring of all sprites, sorted with the highest
  priority (the lowest x position, then number) first, and the iterator starts at its
  first element.
* **Timers.** TIMA counts falling edges of one bit of a 16-bit counter that the
  game resets, and whose observed bit it changes, at any time. Correct: TIMA gets
  exactly the edges of the selected bit.
* **HDMA.** A transfer is spread over H-Blanks while the game rewrites its
  registers. Correct: HDMA5, the byte counter and the progress flag agree, data
  goes to VRAM only.
* **CPU.** Carries and half carries are found from values that have wrapped, and
  an instruction passes part of its cycles to the devices before it ends. Correct:
  value and flags are the exact result, the devices get the cycles of the
  instruction, calls and interrupts return.
* **Memory map.** Reads and writes decode addresses in two functions. Correct: a
  read finds what was written to the place, through any mirror and bank.
* **Renderer.** A row is drawn in tiles from a scrolled start, the window over it and
  sprites over both by three kinds of priority. Correct: every pixel comes from the
  point and the sprite that belongs there, in the colours written last.
* **Cartridge.** Correct: the mapped banks are those the registers name, and exist
  where the code reduces them (MBC1, MBC5); RAM written is what is saved, what was
  saved is loaded; an MBC3's clock counts seconds, a HUC3's keeps its time.
* **Sound chip.** It runs lazily, to the time of the next register access, and
  skips what is silent. Correct: running late and in leaps gives what clocking it
  would give, an oscillator that should end ends, and nothing is left in a buffer.
* **Audio queue.** Correct: the callback never reads the buffer being written,
  nothing is played twice or dropped, the writer is not blocked for good.
* **Serial link.** Two processes exchange a byte per transfer over blocking
  sockets. Correct: both get the other's byte and neither waits for ever.
* **Joypad and menu.** One event is taken at a time, from keys and from fingers that
  slide. Correct: what is pressed is what is held; the menu shows what it will
  open, and holds one listing whatever fails.
* **Startup, debugger, frame pacing.** Correct: only a whole ROM runs and memory is
  freed once; a step count is that count; a clock that is set does not stop a game.

## 2. Plan

Done, each part in a module of its own:

| module | promise it implements | run | proofs |
|---|---|---|---|
| `Lcd`, properties in `LcdFrames` | `Frame` | `lcd` | `LcdProofs` |
| `Emulator`, `Startup`, `Debugger` | | `emulator` | `HostProofs` |
| `Cpu` over `Alu` | exact arithmetic | `console` | `CpuProofs` |
| `Cartridge` over `SaveRam`, `Rtc`, `MemoryMap` | | `console` | `ConsoleProofs` |
| `Timers` | `EdgeCounter` | `devices` | `DeviceProofs` |
| `Hdma` | `BlockTransfer` | `devices` | `DeviceProofs` |
| `SerialLink`, `Joypad` | | `devices` | `DeviceProofs` |
| `SoundQueue` | `SampleQueue` | `devices` | `SoundProofs` |
| `Apu` | the chip clocked one clock at a time | `chip` | `ChipProofs` |
| `StereoBuffer` | | `chip` | `ChipProofs` |
| `Lfsr` | the register clocked | `chip` | `ChipProofs` |
| `SpritePriorities`, `SpriteOam` | `SpriteOrder` | `screen` | `ScreenProofs` |
| `Palettes`, `Menu`, `FramePacing`, `Renderer` | | `screen` | `ScreenProofs` |

Left, in this order:

1. Theorems: that an interrupt routine restores the registers, for routines that pop
   what they pushed (`HandlersTransparent`; `ReturnsGoHome` has the way back).
2. Compositions over one clock: `Lcd` with `Hdma` and the general-purpose DMA that
   passes several V-Blank lines; `Emulator` with `Timers` and `Lcd`, so that no
   interrupt a device raises is lost between it and the routine.
3. The host layers of the other platforms, which repeat files, joypad and output.

## 3. The modules and the code

Every module says at its head what it leaves out. Variables and operators have the
names of the C statics and functions they stand for, where TLA+ allows it. An operator
introduced by a comment "Faulty variant" is no part of a specification: it is the
definition after it with a plausible slip, and each property fails when one of them
takes its definition's place. They document which mistake a property is for.

**`Lcd`** is `update_lcd` with one action per path through its switch (`Wait`,
`OamToTransfer`, `TransferRun`, `TransferToHblank`, `HblankToOam`, `HblankToVblank`,
`VblankRun`, `VblankToOam`, `EnableCountdown`, `EnableDone`), each for the `c` cycles
of the call; the writes to LCDC, STAT, LY and LYC in `memory.c` (`LcdcOn`, `LcdcOff`,
`WriteSTAT`, `WriteLY`, `WriteLYC`); and the two consumers, interrupt service and the
main loop. Variables have the names of the C statics; `signal` and `stat` are the bit
fields as sets. `Drive`, `Asks` and `CoincideSignal` are the three statements that
recur in the code for every source of the STAT interrupt. `LcdFrames` adds what an
update may carry and states the properties; `Frame` is the promise: lines in order,
each once, then V-Blank, a frame reported when its last line is drawn.

**`Emulator`** is one iteration of `run_one_frame` in three phases (`pc`): an
instruction (`Plain`, `EI`, `DI`, `HALT`, `STOP`, `Write`) or `Idle`; `Poll`, the
occasional `update_keys`; and `handle_interrupts` (`Dispatch`, `Resume`,
`NoInterrupt`). An instruction is what it does to the interrupt, halt, stop and speed
state; the devices raise any of their interrupts while it runs, as
`update_all_cycles` lets them. HALT and STOP take no cycles, as in the table of
`cpu.c:1375`, nor do idle iterations count any, so neither brings a poll nearer. The
host queues key and window events at any time.

**`SpritePriorities`** has the nodes' `prev` and `next` pointers, `head_ptr`, and the two
loops of `update_sprite_prios` step by step; `DrawRow` is `draw_sprite_row` with the
iterator. `SpriteOrder` promises a queue, highest priority first, in which only the
sprite written moves and rows that follow the queue. (Two tests and a comment want the
opposite order, section 6.) `SpriteOam` puts the x positions of OAM next to it, with
the two ways they change: `oam_set_mem`, and `dma_transfer`.

**`SoundQueue`** has the emulator's thread (`Write`, `Copy`, `Full`, `SemWait`,
`Return`, `Stop`) and the callback (`Fill`, `Play`, `Advance`, `Post`) as two processes,
one sample a step; `SampleQueue` is a bounded FIFO of samples taken by the block.
The refinement mapping reads the samples waiting off the two indices and the
semaphore.

**`Timers`** is `update_timers` for a batch of cycles and the writes to DIV, TIMA, TMA
and TAC; `EdgeCounter` counts the falling edges of the selected bit cycle by cycle.
A write is followed by the update of its instruction before the next write
(`written`).

**`Hdma`** counts in blocks of 16 bytes. `WriteHDMA5On` and `WriteHDMA5Off` are
`check_cgb_dma` for bit 7 set and clear, `perform_hdma` and `perform_gdma` are
themselves, `Hblank` the call in `update_lcd`. The game writes any register at any
time. `BlockTransfer` promises blocks that count down, each copied once and in order
into VRAM.

**`SaveRam`** is `write_SRAM`, `read_SRAM` and the two functions of `files.c` under
them: the file may fail at any byte. **`Cartridge`** has an action per controller,
with one disjunct per address range of its `write_...`, the start (`setup_MBC`), the
save on closing the window, the end of the process at any moment, and time. What the
controllers share is defined once (`Gate`, `WriteRam`, `SelectRom`, `SelectRam`). A
bank is stored as the code stores it, also one that the cartridge does not have.
`since` is the age of the delay as the code sees it, `file_age`, `last_save` and
`dirty` are history.

**`Cpu`** is `exec_opcode` with its three tables taken apart: a step is one instruction,
with its operands, stack and cycles, or the entry into an interrupt's routine, on
a program given as memory. **`Alu`** has the arithmetic, function by function, with the
code's ways to find carries. `calc` and `saved` are history: the operation's operands
and what a return should find.

**`Rtc`** has the MBC3's clock with its latch, next to the time it should tell (`due`,
a history), and the HUC3's with its nibble commands, which stands still as in the code;
**`MemoryMap`** has `get_mem` and `set_mem` (`ReadMem`, `WriteMem`) under the bank
registers and the boot ROM, and beside them what each place should hold by the
comments of `memory.c`.

**`SerialLink`** is `serial_io.c` on both sides of `serial_io_SDL.c`: sockets are two
sequences of bytes, a process that waits for one does nothing else, either side may
quit. No platform calls `setup_serial_io` (`emu.c:97-102` has it in a comment): the
module models its use as documented. **`Joypad`** is `update_keys` event by event over a
player who presses keys and slides fingers, with `joypad_write`.

**`Apu`** keeps the chip as one record, so that `run_until` is a function of the chip and
a time: the actions of the game call it as the code does, and the properties compare
it with `ClockedTo`, the chip clocked one clock at a time. **`StereoBuffer`** follows
deltas into three buffers and keeps only how far they reach; **`Lfsr`** has the jumps of
`run_lfsr` on registers that are sets of bits, the exclusive or being their symmetric
difference, next to the loop of `Gb_Noise::run`.

**`Renderer`** is `draw_row` with the loops over tiles and sprites as functions of a
row; `Frame` draws the row, and the game changes something. **`Palettes`** has the index and
data registers with the dirty flag. **`Menu`** is `ui_menu` from the home directory to
the file chosen, with failures of listings and allocations; **`FramePacing`** is
`adjust_to_framerate` against a clock that is set.

**`Startup`** goes from `main` through `init_emu`, `setup_MBC` and `load_rom` to the running
game and its end, on two platforms, with a failure at every step; **`Debugger`** is the
prompt and the count in `run_one_frame`.

## 4. Runs

Six runs must pass. Components that do not interact share a run: the MC module has a
variable `part` that says whose behaviour this is, and the parts not chosen rest in
one state. What a run explores is the disjoint union of its parts, as if each had a
run of its own; fairness and the properties are of the part they belong to. A property
whose name ends in `Exact` puts the safety properties of one module together, and is
defined at that module's end.

| run | parts | what it shows |
|---|---|---|
| `lcd` | | The line counter names a visible line outside V-Blank and the two V-Blank clocks agree (`LineInv`), no source of the STAT interrupt outlives its mode (`SignalIsCurrent`), `Frame` is implemented, whatever the game writes when; V-Blank recurs while the screen is on, a requested screen comes on; for a patient game no LY=LYC interrupt is lost |
| `emulator` | loop, startup, debugger | Routines are not interrupted, EI acts an instruction later, nothing serviceable stays pending, the byte repeated by the HALT bug is the right one (`LoopInv`, `EIDelayed`); HALT ends when an enabled interrupt is raised; closing the window ends the emulator while frames are drawn and instructions that take cycles executed. Only a whole ROM runs, buffers fit and are freed once (`RomLoaded`). The prompt comes back after the steps asked for (`StepsExact`) |
| `console` | cpu, cartridge, clock, map | Arithmetic and DAA are exact, the devices get each instruction's cycles (but of `BIT b,(HL)`), calls and interrupts leave no trace. Banks read are those selected, on an MBC1 or MBC5 among those that exist, and RAM that is switched off has been saved, through failing disks, kills and restarts. An MBC3's clock counts every second from the time set, a HUC3's keeps its time. A read finds what was written |
| `devices` | timers, hdma, sound, serial, joypad | Exactly the falling edges of the selected bit are counted; video DMA moves each block once, in order and into VRAM, and ends; the audio ring is a FIFO and `write` returns; linked emulators exchange byte for byte and waits end; the buttons pressed are those held |
| `chip` | chip, buffer, noise | The chip is never run backwards, oscillators play only with power, DAC and length (`ChipExact`); catching up is clocking, and what should end falls silent (`RunsAsClocked`); no sound is left in a buffer or skipped, and frames fit; jumps of the shift register agree with its clocks |
| `screen` | order, row, palettes, menu, pacing | One sorted ring of sprites after every update, loops that end; each pixel from the right point and sprite; current colours; the highlight on the screen and one listing; frames neither early nor stopped |

Six must find a violation; section 6 says what each shows.

| run | property |
|---|---|
| `emulator_stop` | `KeyEndsStop`: a key does not end STOP |
| `sprites_head` | `HeadIsFirst`: `head_ptr` is not the first node |
| `sprites_dma` | `PrioritiesFollowOam`: OAM DMA leaves the priorities behind |
| `cartridge_save` | `SavedInTime`: a save long after the last write of the file leaves it alone |
| `rtc_ram` | `ClockSparesRam`: a write to the clock goes to the saved RAM |
| `joypad_built` | `HeldKeyReads`: without `init_joypad` no key is found |

### Bounds, and why they are enough

* **lcd**: lines of 10 cycles in modes of 2, 5 and 3, three visible and three
  V-Blank lines, updates of 1 or 2 cycles, an H-Blank DMA of 0 or 1. That keeps the
  order of all lengths and `StepAssumption`, so surplus cycles carry over every
  boundary, and the first, a middle and the last line of both kinds differ. 6 values
  of LY leave no room above the last line, LYC may be the first, the last visible or
  a V-Blank line. The theorems have no bounds.
* **emulator, loop**: instructions of 2 cycles and a poll after more than 2, so that a poll
  falls in some iterations and not in others, also at double speed, where an
  instruction counts half; one interrupt with and one without a clock that runs while
  stopped; IE with none, one or both; one host event in the queue at a time. `cycles`
  is bounded by the poll.
* **order**: 4 sprites with 2 x positions: moves by up to three places in either
  direction, ties, sprites never written. Rows take any set of sprites, two at most.
* **sound**: the code's 3 buffers, of 3 samples; writes shorter and longer than a
  buffer; samples numbered modulo 10, more than the ring holds.
* **timers**: a counter of two bytes of 2 bits each, a batch shorter and one longer
  than the low byte, so that DIV carries more than once and TIMA reloads more than
  once in a batch. `Second` bounds the clock.
* **hdma**: 16 blocks of addresses, four of VRAM, two to a page, transfers of up to
  three: sources run into VRAM, destinations run past it, lengths are rewritten.
* **cartridge**: 13 cartridges: every controller, among them some without RAM or battery;
  registers of two bits, so that the banks of two registers combine and wrap; bytes
  that enable, disable and select; two values per bank; a delay of 1. Since only "over
  the delay or not" is tested, a longer one adds nothing.
* **startup**: files one kilobyte around what the header promises, and twice it;
  headers with 2 ROM banks, 4 and an invalid count, with and without RAM, with a known
  and an unknown controller. **debugger**: an `int` of four bits and counts up to 5.
* **cpu**: every opcode and every one of the 0xCB page with chosen operands and flags;
  arithmetic on 17 x 17 bytes around every carry, with and without carry in; a
  program with nested and conditional calls under up to two interrupts at any moment.
  The theorems have all operands.
* **clock**: two seconds a minute, two minutes an hour, two hours a day, bytes below 3:
  all carries meet within a few steps. **map**: addresses at the edges of
  VRAM, both halves of RAM, the mirror and OAM.
* **serial**: two bytes, a transfer of two instructions; either side starts at any
  time and quits at any time. **joypad**: one finger over three places, two keys,
  two events in the queue.
* **chip**: one oscillator at a time, since they share nothing but the sequencer's
  time; frames of three clocks, lengths of two or three, a few values per register
  that differ in every bit the code tests; a shift of the sweep both ways; a noise whose
  divider of three bits has one period that clocks the register and one too long to.
  **buffer**: a clock is two thirds of a sample, so that samples end in and between
  frames; an impulse is one sample wide and reaches one past the end.
  **noise**: 800 clocks from four seeds; the narrow register repeats within 127, and the
  wide one is jumped by steps of 255, 15 and 1. Its period of 32767 is beyond the run,
  and in the theorem.
* **row**: tiles of two by two pixels in a map of four by four, three tiles on the
  screen; scrolling into and across tiles, four positions of the window, three sprites
  on one row with a limit of two, in front, behind and clipped. **palettes**: one
  colour of two bytes. **menu**: directories longer, shorter and as long as the screen
  on the three kinds of platform, at the sizes of their screens. **pacing**: a clock
  up to 16 that is set forward and back, frames shorter and longer than the period,
  at two rates.

### Restrictions on the game

Some specifications restrict what the game does; each restriction is a property
of games, is named, and section 6 says what happens without it.

* `TidyNext` of `Emulator`: EI and RETI are executed with interrupts off.
* `Patient` of `LcdFrames`: the game writes STAT and LYC only while LCDC bit 7 is set or
  the screen is off. `GamesSpec` has patient games and others, told apart by the
  variable `patient`, and `CoincidenceNotLost` is claimed of the patient ones.
* `OneSource` of `Joypad`: a button has one source, a key or a finger, as the code's
  comment assumes ("Assume only one finger can be on a button at a time").
* `swallowed` of `SerialLink`: `InStep`, `NoMutualWait` and `WaitEnds` are claimed until
  a client takes the server's first byte for part of the welcome.
* `OnSpec` of `Timers`: DIV is written only while the timer is on.
* `WriteRam` of `Cartridge`: a game writes only to RAM banks that its cartridge has.
  Selecting and reading banks are not restricted.
* `TidyNext` of `Hdma`: both ends are set up before a transfer starts, and one that is
  done at once fits.

### Fairness

* `Lcd` and `Emulator`: the main loop is a thread that never waits. Iterations that
  execute an instruction with cycles report them to the LCD, and so do halted ones
  (`emu.c:155`); weak fairness of `Update` and `Loop` says no more. `HaltEnds` needs it.
  `CloseEnds` has the code's own two conditions as hypotheses: that frames go on being
  drawn, because `quit` is looked at only between frames, and that instructions that
  take cycles go on being executed, because only theirs bring the next poll nearer.
* `SpritePriorities`: `update_sprite_prios` is a call, so its loops are never left
  waiting.
* `SoundQueue`: the two threads are scheduled by the host, and an open device goes on
  asking for samples. Nothing is assumed of a device that did not open.
* `Hdma`: H-Blanks go on while the screen is on. The property excuses a game that
  gives the transfer a new length infinitely often.
* `SerialLink`: each emulator is a process that the host schedules, and a peer that
  is set up goes on; a peer's answer is a hypothesis of `WaitEnds`, not of fairness.
* `Joypad`: `run_one_frame` polls again and again until the program ends.
* The other parts have no liveness. In a run of several parts each condition holds for
  the behaviours of its part.

## 5. Proofs

The theorems hold for every value of the constants that meets the modules' named
assumptions; the runs' instances are instances of them. What the assumptions say beyond
types and signs: `LengthAssumption` and `StepAssumption` (an update is shorter than the
modes it may end in), `CpuAssumption` (starts are machine states), `TimersAssumption`
(periods are even and divide the counter, as powers of two do),
`HdmaAssumption` (VRAM is made of whole pages and lies at a multiple of its size),
`CartridgeAssumption` (two ROM banks at least),
`RtcAssumption` (units fit their bytes) and `PowerAssumption` (`At` is the powers of a
nibble's size, which is defined recursively), `MemoryMapAssumption` (the address 0xFDFF
is left out, section 6), `PacingAssumption` (the products of a clock fit a word; what
is spared is no longer than the shortest sleep), `MenuAssumption` (the last row ends
above the lower banner; listings and homes are real paths), `StereoAssumption` (the
samples of a frame are fewer than are read at once, and both fit a buffer),
`WritesAssumption` (a register's fields fit its bits), `LfsrAssumption` (registers have
15 bits), `RendererAssumption` (a row is
whole tiles). TLC evaluates each of them on the
run's instance.

**`LcdProofs`.** `TypeCorrect` goes action by action. `VisibleLine` alone is not
inductive: that LY is reset before V-Blank ends depends on where both V-Blank clocks
stand. `LineInv` adds how far each mode's clock runs (`ModeClock`), that the two clocks
agree (`VblankClocks`) and which line LY then shows (`VblankLy`); `LineInvariant` proves
it inductive, with multiplication by the line length confined to a few arithmetic
lemmas, and `LinesVisible` follows. `SignalAlwaysCurrent`: `SignalIsCurrent` is inductive
with the types. `NoCoincidenceLost` needs that the coincidence bit of STAT and its
source follow LY and LYC between any two steps (`LycIsCurrent`). `ImplementsFrame` maps
every step to a step of `Frame` or a stutter.

**`HostProofs`.** `RomIsLoaded`, by `StartupInv`: what is allocated and read at each
step, a file being read in blocks that fill the buffer without rest. `StepsAreExact`, by
`StepsInv`: the emulator's count is what is left of the steps asked for. Of the main
loop, `TypeCorrect`; `IdleStatesHold` and `NonePendingHolds` for any game;
`RoutinesStayMasked` and `EIIsDelayed` for tidy ones, and with them `LoopInvHolds`. For
these the invariant is `MaskInv`, `StaysMasked` with `TimerAlone`: the EI delay never
runs while interrupts are on. That is exactly what an untidy EI breaks.

**`CpuProofs`.** `ArithmeticHolds` and `BcdHolds` for all operands, flags and programs:
each operation of `Alu` is one lemma about its value, carry and half carry, and a step
of `Cpu` records at most one. `CpuTypeCorrect` goes over the groups of opcodes.
`TicksAlwaysAgree`: for every instruction, the 0xCB page and the branches taken
included, what it passes to the devices on the way and at its end is what it returns.
The eight opcodes of `BIT b,(HL)`, and they alone, are excepted: they pass 12 and
return 16 (section 6). `ReturnsGoHome` is about calls, and no theorem of every program: one that overwrites its
return address does not return home. It assumes that the stack stays in RAM below some
top, and that each step keeps it (`StackStep`): only pushing writes to what lies on it, a
routine pops no more than it pushed, and returns when it has popped that. Then every open
call, interrupts included, has its address on the stack, later calls below earlier ones
(`Home`), which is inductive: a push, by PUSH, call or interrupt, lands below all of them
and is read back as it was written (`PushedReads`). The run checks that the programs
with routines meet these hypotheses, three calls deep (`StackKept`).

**`ConsoleProofs`.** `MappingAlwaysCurrent`: `RegistersInv` types the registers, `MapInv`
says of MBC1 and MBC5 that the cached banks are functions of the registers; what the
controllers share does not touch these (`SharedKeepMapping`). `MappingHolds` adds
`BanksInv`: registers are no wider than their masks leave them. So the banks of an MBC1
or MBC5, which are reduced by the header's count, exist; those of the others are the ones
their registers can name (`NamedBanks`), which need not exist. `AlwaysSavedWhenOff`: `SavedWhenOff` alone is not inductive, since it says nothing
while RAM is on; `SaveInv` adds that what was written and not saved is still behind an
enabled RAM and, on MBC3 and MBC5, noted in `sram_modified`, and that what was saved is
in the cache and in a file that was written. `MapIsExact`, by `PlacesInv`: every place
holds what was last written to it, and each address stands for one place at a time,
through echo and banks. `ClocksAreExact`, by `ClockInv`: what the counters tell, in
seconds, is the time set and every second since, which the history counted (`Tells`,
`CountsOne`), carry by carry. Of a HUC3 it says that the time is kept, not that it
advances; and a register is the sum of the nibbles read (`Nibble`).

**`DeviceProofs`.** `FrequencyIsSelected` and, on it, `TimerIsExact`: a batch of cycles
adds to the reference as many edges as `update_timers` finds. That the reference's sum
over the batch is that count is an induction over the cycles (`EdgesCounted`).
`StatusAlwaysAgrees`, for any game, by `StatusInv`; `TransfersAreExact` adds where
source and destination stand (`TransferInv`) and maps every step to a step of
`BlockTransfer`. `ButtonsAreHeld`: the events that wait lead from the pressed buttons to
the held ones, one set of buttons after each (`Leads`), which each post extends at one
end and each poll shortens at the other. `LinkIsExact`: the two emulators have finished
as many exchanges, or one of them one more, and in each case what is under way in
either direction is known (`Stage`).

**`SoundProofs`.** `TypeCorrect` and `NeverOverwritten`, by `IndexInv`: the writer is
`Filled` buffers ahead of the reader, where `Filled` corrects the semaphore for a writer
that has advanced and not yet waited and a reader that has advanced and not yet posted.
`QueueIsExact` refines `SampleQueue`: the samples that wait are read off the ring place
by place, so every step appends one, takes a block, or changes nothing (`QueueInv`).

**`ChipProofs`.** `MixHolds`, by `MixInv`: the three buffers are equally long and each
holds the sum of the amplitudes sent to it, up to the last sound. `MixerIsExact` and
`FramesFit` follow. `ChipIsExact`, by `ChipInv`: each field of each oscillator is in its
range, one that plays has power, DAC and length (`Whole`), and chip, sequencer and game
cycle stay in order (`Timed`). `run_until` is a function of a record and recursive in
the sequencer's steps; the proof shows that the recursive function exists (`RunExists`)
and that every prefix of its run is whole (`RunWhole`).
`RunIsClocking`, by `Steady`, which adds to `ChipInv` that records have no other fields
and counters are in range: what a timer counts in n + 1 clocks is what it counts in n and
one clock (`ExpiriesNext`), two timers in a row are one whose period is the product
(`ExpiriesCompose`), and the noise passes half its divider when such a timer expires
(`DividerPasses`). So running an oscillator, then clocking it, is running it one clock
further (`RunNext`), then the same of the chip, where a step of the sequencer falls
between (`RunUntilNext`), and by induction on the clocks `run_until` is `ClockedTo`. That
a chip falls silent is an induction on the sequencer's steps: every other one takes one
of the length (`Lasting`).
`JumpsAreClocking`: the low bits a register goes through are a sequence of which each bit
is the exclusive or of two before (`ClockedBits`), and the register is always the next
bits of it. Such relations double, shift and cancel (`Doubled`, `Shifted`, `Cancelled`);
from the one of 15 bits follow, doubling it again and again, that of a step of 255 and the
period of 32767 (`LongSums`), from that of 7 bits the period of 127. So each body of
`run_lfsr` moves the register as far on in the sequence as it says (`LongSteps`,
`ShortSteps`), the loops add up to the count (`RoundsLeft`), and the upper bits of the
narrow register repeat the lower ones after eight clocks (`UpperBits`), which is why fewer
are clocked one by one.

**`ScreenProofs`.** `ColoursAreWritten`, by `PaletteInv`: data written with increment lie one
after the other on the ring of bytes from where the index was set. `FramesTakeTheirTime`,
by `PacingInv`: the end of the spinning is the end of the frame, in unsigned arithmetic.
`MenuHolds`, by `MenuInv`: between any two events the highlight is a row on the screen,
the picture is that of the listing shown, and one listing is allocated.
`OrderIsExact`, by `RingInv`: there is an order of all sprites to which both pointers of
every node are linked; its keys are in order but for the sprite being moved, and a loop
has passed exactly sprites that this one belongs before, or after. From that a splice is
a move in the queue of `SpriteOrder`, and the loop of `draw_sprite_row`, by induction on
its steps, a choice of its first sprites; the loops' end is fairness and stays with TLC.
`RowIsExact` needs as an invariant only what the registers and the list may hold. Of the
tiles that start where the scrolled skew says exactly one holds a given pixel
(`OneStart`), its place in the map is the pixel's (`TileOfPlace`), and a window starts a
tile of its own; so what the loops draw is `Plane` (`TilesAre`). Sprites are drawn from
the list's end: by induction down the list none changes a pixel's priority
(`PriorityKept`), and where none of the first shows, the pixel is as the next one left it
(`LeftAlone`). That no more are chosen than the limit is an induction up the list.

Induction over data is possible where the number is a parameter of the statement: the
sets of counterexamples have least elements (`SetInduction`, from the library's
well-foundedness of the naturals), so no theorem with an operator as a parameter is
needed.

Only model-checked:

* everything that needs fairness (`VblankRecurs`, `ScreenComesOn`, `HaltEnds`,
  `CloseEnds`, `UpdateEnds`, `WriteReturns`, `TransferEnds`, `WaitEnds`, `HoldsArrive`),
  which is out of the prover's reach;
* of `CallsTransparent`, that routines restore what they use (`HandlersTransparent`): that
  depends on the routines, and it is no theorem for every value of `Starts`.

## 6. Where the code differs from what it says

Shown by a run:

* `emulator_stop`: `emu.c:161` says a key ends STOP. The idle branch declares a
  `current_cycles` of its own, so the loop goes on adding the one of the STOP
  instruction, 0, and never polls the keys.
* `emulator_stop` has a twin: a game that executes HALT with no interrupt enabled
  idles in the same branch. Its frames are drawn, no cycle of the wait is counted
  (HALT itself has 0, `cpu.c:1375`), so keys are not polled and a closed window is
  ignored. The second hypothesis of `CloseEnds` excludes it.
* `sprites_head`: `head_ptr` is the "current head of queue" (`sprite_priorities.c:18`)
  until the first sprite moves back; then the sprites now in front of it are not
  drawn.
* `sprites_dma`: priorities follow writes to OAM (`memory.c:466`), and `dma_transfer`,
  which most games use, does not tell the list.
* `cartridge_save`: the delay counts from the last write of the file (`mbc.h:11`), but
  `write_SRAM` restarts it also when it left the file alone; a game that saves once a
  minute never has its file written, the save on closing included.
* `rtc_ram`: a write to 0x4000 is to "Set current RAM/RTC mode and banks" (`mbc3.c:114`),
  but the bank is masked with the number of RAM banks: on a cartridge with RAM the
  registers of the clock cannot be selected, and what is written to them goes to a
  bank of the saved RAM.
* `joypad_built`: `init_joypad` "should be called before any other joypad functions"
  (`joypad_SDL.c:133`), and its only call is in a comment (`emu.c:97-102`). In the
  program as it is built no button has its key, so `key_pressed` does not return 1 "if
  the specified key is being held down" (`joypad_SDL.c:207`). All other runs take
  keys to arrive.

Seen while modelling, and excluded by a named restriction or left as it is:

* EI executed with interrupts on, right before an interrupt is serviced:
  `handle_interrupts` clears `interrupts_enabled` and not `interrupts_enabled_timer`
  (`cpu.c:1589`), so the routine's first instruction enables interrupts, which
  `interrupts.c:62` means to prevent.
* A general-purpose DMA passes up to 4100 cycles in one call (`hdma.c:108`) while
  `update_lcd` counts at most one V-Blank line per call (`lcd.c:185`): V-Blank may end
  with lines uncounted, LY is then not reset and runs past 153. `StepAssumption`
  excludes it.
* A transfer started where a general-purpose DMA ended, at 0xA000, goes past VRAM:
  the destination wraps only when a step ends there (`hdma.c:62`).
* LCDC switched off during the enable delay leaves the countdown running; the screen
  comes on with LCDC bit 7 clear, when writes to STAT and LYC no longer compare LY
  with LYC.
* A write to DIV counts an edge with the timer off as well, by the frequency
  selected when it was last on (`memory.c:543`).
* The mask 0xF of `interrupts.c:51` leaves out the joypad interrupt, although the
  table of interrupts has it: it is never serviced and ends no HALT.
* The RAM of an MBC2 is in its controller and its header says 0 banks, for which
  `setup_MBC` allocates none. `Cartridge` gives every MBC2 one.
* Order of sprites: the iterator hands out the highest priority first, the lowest x
  position and then number, as the list's own comments say
  (`sprite_priorities.c:7`), and `draw_sprite_row` depends on it: it takes the
  first ten and draws them from the last back. The comment of its loop says "from
  least priority to most priority" (`graphics.c:157`), and `sprite_prio_tests.c`
  expects the largest key first: 39 down to 0 (lines 52-57), and 38 before 10 at equal
  positions (90-93). The code returns 0 first, and 10 before 38, so these tests fail
  on it. `OrderExact` is about the order that the code and `draw_sprite_row` share.
* Banks that are not there: MBC2, MBC3, HUC1, HUC3 and MMM01 store the ROM bank
  (`mbc2.c:71`, `mbc3.c:111`, `huc1.c:62`, `huc3.c:121`, `mmm01.c:78`), and HUC1, HUC3
  and MMM01 the RAM bank (`huc1.c:66`, `huc3.c:127`, `mmm01.c:86`), without regard to
  what the cartridge has; HUC1 and MMM01 do not even mask, although `huc1.c:65` has
  banks 0 to 3 and `mmm01.c:18-19` 0 to 0x1F and 0 to 3. A read may then lie
  outside the ROM or RAM allocated, and so may a write (`WriteRam`).
* CPU: `BIT b,(HL)` passes 12 cycles to the devices and returns 16; HALT, STOP and
  invalid opcodes cost none; `disasm.c:165-186` gives 0xE2 and 0xF2 two words where
  `cpu.c` gives one.
* Memory map: the test for the mirror, `< 0x1DFF` (`memory.c:848`), leaves out its last
  byte, 0xFDFF. VRAM bank 1 is written without Color features and read only with
  them. Writing BGPD with increment stores into SPPD's register; writing SPPI on another
  machine stores 0xC0 into BGPD. P1 with both groups selected shows the directions.
* Renderer: the window ignores a tile's vertical flip; a game for the original machine
  run on a Color takes tile attributes from bank 1; with tiles off on an original
  machine the last frame's pixels stay under the sprites; a sprite behind the
  background takes its colour there from a palette nothing writes; the pixel of a later
  sprite keeps out an earlier one that is behind.
* Clocks: at the overflow of days `mbc3.c:34` sets the bits 0 to 2 of the flags, which
  `mbc.h:28-31` defines otherwise. `update_clock` of the HUC3 takes the time that has
  passed to be 0 (`huc3.c:40`), so its clock stands still; `ClockExact` claims only that
  it keeps the time set.
* Serial: `inc_serial_cycles` gives a byte the time of one bit (512 cycles at the code's
  frequencies); a byte the server sends before the client has read the welcome is
  read with it and lost.
* Sound: `Gb_Env::reset` leaves `env_enabled` as it was.
* Menu: a key event falls through into the handling of fingers, whose point is then
  whatever the stack holds: off touch screens (0,0) is on every button; events of a batch are handled
  also after a file was chosen, and a choice after closing the window answers 0;
  paths of entered directories are not freed; nothing is highlighted at first.
* Startup: `check_mmm01_format` moves the header after the controller was chosen by the
  one before it (`memory.c:360`); a setup that fails leaves its banks allocated on the
  standard platform, and on the Switch frees them twice when the ROM's allocation
  fails (`mbc.c:155-165` and `teardown_MBC`), the exception in `FreedOnce`.
* Debugger: a breakpoint is stored and never looked at; counts are `long` and the loop's
  an `int`; the prompt does not end at the end of input; an iteration that idles counts
  as an operation.
* Frame pacing: when the clock is set back the program spins until it has caught up.

## 7. Not modelled

* Signal processing: the shape of impulses, filters, mixing sums and the equaliser of
  `Blip_Buffer`, and `Effects_Buffer` and `Gb_Apu_State`, which nothing calls.
* The greys of an original machine: BGP, OBP0 and OBP1 permute four colours by lookup.
* I/O registers that only store a byte, and the bits reads of them mask.
* `disasm.c`, the logger, and SDL output (`graphics_SDL.c`): formatting and host output
  on whose state nothing depends. The emulator without threads for the web
  (`EMSCRIPTEN`) and the host layers of the other platforms, which repeat those modelled.
* Memory ordering below the semaphore: the audio threads are taken to be sequentially
  consistent, and the device to ask for blocks of the size it was opened with.
* The end of the process inside `write_SRAM` before its file is closed, other than as a
  file that holds a prefix.
* Components that share a run do not interact in it: what one does to another enters
  as the inputs of the other's module (any cycles, any interrupt, any write), and the
  compositions of section 2 are still to be written.

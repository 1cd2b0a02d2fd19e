------------------------------- MODULE Startup -------------------------------
(* From the command line or the menu to the running game and its end: main    *)
(* (platforms/standard and platforms/Switch), init_emu (core/emu.c), load_rom *)
(* (core/mmu/memory.c), setup_MBC and teardown_MBC (core/mmu/mbc.c) and       *)
(* load_rom_from_file (platforms/standard/files.c).  Any step may fail.       *)
(* Sizes of files and buffers are in units of a kilobyte.                     *)
EXTENDS Integers

CONSTANT Files  \* records of [size, rom_code, ram_code, type, end_type]: the
                \* header's fields and the type in a header at the file's end

ASSUME StartupAssumption ==
  \A f \in Files : f.size \in Nat /\ f.rom_code \in Nat /\ f.ram_code \in Nat

VARIABLES
  device,   \* "standard" or "Switch"
  step,         \* the step that comes next
  file,       \* the file opened
  RAM_banks, SRAM_cache, ROM_banks,   \* pointers: "NULL", "live" or "freed"
  RAM_bank_count, ROM_bank_count,
  controller, \* the controller whose functions read_MBC and write_MBC are
  read_size,  \* bytes read into ROM_banks
  front,      \* the cartridge type in the header the game sees
  freed_twice

startupVars == <<device, step, file, RAM_banks, SRAM_cache, ROM_banks, RAM_bank_count,
                 ROM_bank_count, controller, read_size, front, freed_twice>>
pointers == <<RAM_banks, SRAM_cache, ROM_banks>>
loaded == <<RAM_bank_count, ROM_bank_count, controller>>

READ_SIZE == 4
ROM_BANK == 16
NoController == "none"
\* check_mmm01_format moves the last 32K, and passes a smaller image
HeaderBlock == 32

StartupInit ==
  /\ device \in {"standard", "Switch"} /\ step = "main"
  /\ file \in Files
  /\ RAM_banks = "NULL" /\ SRAM_cache = "NULL" /\ ROM_banks = "NULL"
  /\ RAM_bank_count = 0 /\ ROM_bank_count = 0 /\ controller = NoController
  /\ read_size = 0 /\ front = 0 /\ freed_twice = FALSE

\* A failure: main returns, on the Switch by way of cleanup
Fails == step' = IF device = "Switch" THEN "cleanup" ELSE "returned"

\* main: bad arguments, or a menu that ends without a file
main ==
  /\ step = "main" /\ (Fails \/ step' = "init_emu")
  /\ UNCHANGED <<device, file, pointers, loaded, read_size, front, freed_twice>>

(* -------------------------- load_rom ------------------------------------- *)

RomSizes == 0 .. 8 \cup {82, 83, 84}
rom_banks(code) ==
  CASE code <= 8 -> <<2, 4, 8, 16, 32, 64, 128, 256, 512>>[code + 1]
    [] code = 82 -> 72 [] code = 83 -> 80 [] code = 84 -> 96
RamSizes == 0 .. 5
ram_banks(code) == <<0, 1, 1, 4, 16, 8>>[code + 1]

\* The controllers by the types of cartridges
Controllers ==
  [MBC0 |-> {0}, MBC1 |-> 1 .. 3, MBC2 |-> 5 .. 6, MMM01 |-> 11 .. 13,
   MBC3 |-> 15 .. 19, MBC5 |-> 25 .. 30, HUC3 |-> {254}, HUC1 |-> {255}]

\* init_emu reads the header from the start of the file, load_rom its sizes
ReadHeader ==
  /\ step = "init_emu"
  /\ \/ Fails  \* the file does not open or is too short
     \/ /\ file.size > 0
        /\ IF file.rom_code \in RomSizes /\ file.ram_code \in RamSizes
           THEN step' = "setup_MBC" ELSE Fails
  /\ UNCHANGED <<device, file, pointers, loaded, read_size, front, freed_twice>>

Needed(code) == ram_banks(code) > 0

\* setup_MBC, when an allocation fails: the one of the ROM frees the others
NoMemory ==
  /\ step = "setup_MBC" /\ Fails
  /\ RAM_bank_count' = ram_banks(file.ram_code)
  /\ \/ Needed(file.ram_code) /\ RAM_banks' = "NULL" /\ UNCHANGED <<SRAM_cache, ROM_banks>>
     \/ Needed(file.ram_code) /\ RAM_banks' = "live" /\ UNCHANGED <<SRAM_cache, ROM_banks>>
     \/ /\ RAM_banks' = IF Needed(file.ram_code) THEN "freed" ELSE "NULL"
        /\ SRAM_cache' = IF Needed(file.ram_code) THEN "freed" ELSE "NULL"
        /\ ROM_banks' = "NULL"
  /\ UNCHANGED <<device, file, ROM_bank_count, controller, read_size, front, freed_twice>>

setup_MBC ==
  /\ step = "setup_MBC"
  /\ RAM_bank_count' = ram_banks(file.ram_code) /\ ROM_bank_count' = rom_banks(file.rom_code)
  /\ ROM_banks' = "live"
  /\ IF Needed(file.ram_code) THEN RAM_banks' = "live" /\ SRAM_cache' = "live"
     ELSE RAM_banks' = "NULL" /\ UNCHANGED SRAM_cache
  /\ \/ /\ \E c \in DOMAIN Controllers : file.type \in Controllers[c] /\ controller' = c
        /\ step' = "load_rom_from_file"
     \/ /\ \A c \in DOMAIN Controllers : file.type \notin Controllers[c]
        /\ Fails /\ UNCHANGED controller
  /\ UNCHANGED <<device, file, read_size, front, freed_twice>>

data_size == ROM_bank_count * ROM_BANK

ReadsOn == read_size < data_size /\ read_size < file.size

load_rom_from_file ==
  /\ step = "load_rom_from_file"
  /\ IF ReadsOn
     THEN \/ Fails /\ UNCHANGED read_size   \* the file cannot be read
          \/ /\ read_size' = IF file.size - read_size < READ_SIZE THEN file.size
                             ELSE read_size + READ_SIZE
             /\ UNCHANGED step
     ELSE step' = "check_size" /\ UNCHANGED read_size
  /\ UNCHANGED <<device, file, pointers, loaded, front, freed_twice>>

\* Faulty variant: a file that is too short is taken
SizeMatchesAtMost == read_size <= data_size

SizeMatches == read_size = data_size

\* An image with the header of an MMM01 in its last 32K gets those to its front
check_mmm01_format ==
  IF read_size >= HeaderBlock /\ file.end_type \in 11 .. 13 THEN file.end_type ELSE file.type

EndLoad ==
  /\ step = "check_size"
  /\ front' = check_mmm01_format
  /\ IF read_size > 0 /\ SizeMatches THEN step' = "init_gfx" ELSE Fails
  /\ UNCHANGED <<device, file, pointers, loaded, read_size, freed_twice>>

(* -------------------------- running and the end -------------------------- *)

\* init_gfx may fail; sound and CPU are reset
EndInit ==
  /\ step = "init_gfx" /\ (Fails \/ step' = "run")
  /\ UNCHANGED <<device, file, pointers, loaded, read_size, front, freed_twice>>

\* run ends; the Switch writes the RAM and cleans up
EndRun ==
  /\ step = "run" /\ Fails
  /\ UNCHANGED <<device, file, pointers, loaded, read_size, front, freed_twice>>

Free(p) == IF p = "NULL" THEN "NULL" ELSE "freed"

\* finalize_emu: teardown_MBC frees what the pointers hold
cleanup ==
  /\ step = "cleanup" /\ step' = "returned"
  /\ RAM_banks' = Free(RAM_banks) /\ SRAM_cache' = Free(SRAM_cache) /\ ROM_banks' = Free(ROM_banks)
  /\ freed_twice' = (freed_twice \/ "freed" \in {RAM_banks, SRAM_cache, ROM_banks})
  /\ UNCHANGED <<device, file, loaded, read_size, front>>

StartupNext == main \/ ReadHeader \/ NoMemory \/ setup_MBC \/ load_rom_from_file \/ EndLoad
               \/ EndInit \/ EndRun \/ cleanup

StartupSpec == StartupInit /\ [][StartupNext]_startupVars

(* -------------------------- properties ----------------------------------- *)

\* Only a whole cartridge runs: whatever failed before, a game that runs has a
\* controller, every bank its header counts read from the file, and RAM and
\* its cache when the header counts RAM.
RunsWholeRom ==
  step = "run" =>
    /\ controller # NoController /\ ROM_banks = "live"
    /\ ROM_bank_count > 0 /\ read_size = ROM_bank_count * ROM_BANK
    /\ RAM_bank_count > 0 => RAM_banks = "live" /\ SRAM_cache = "live"

\* The file never overruns the buffer the header made setup_MBC allocate,
\* however long the file is, though it is read in blocks.
FitsBuffer == read_size > 0 => ROM_banks # "NULL" /\ read_size <= ROM_bank_count * ROM_BANK

\* "Free up all resources": each allocation is freed once, whatever failed and on
\* whichever way the program ends, but for one case: on the Switch a failed
\* allocation of the ROM frees what cleanup frees again.
FreedOnce == freed_twice => device = "Switch" /\ step = "returned" /\ ROM_bank_count = 0

\* The three of them.
RomLoaded == RunsWholeRom /\ FitsBuffer /\ FreedOnce
=============================================================================

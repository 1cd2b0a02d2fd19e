----------------------------- MODULE Cartridge -----------------------------
(***************************************************************************)
(* A cartridge: the bank controllers of src/core/mmu (mbc0.c, mbc1.c,       *)
(* mbc2.c, mbc3.c, mbc5.c, huc1.c, huc3.c, mmm01.c) over the saved RAM of   *)
(* SaveRam.                                                                *)
(*                                                                         *)
(* A behaviour is the life of one cartridge and its file: the emulator is   *)
(* started, the game writes to the controller, the window is closed, the    *)
(* process ends or is killed at any moment and is started again.            *)
(*                                                                         *)
(* Left out: the clocks of MBC3 and HUC3, what the ROM holds, and addresses *)
(* within a bank.                                                          *)
(***************************************************************************)
EXTENDS SaveRam

CONSTANTS
    Carts,       \* records [mbc, roms, rams, battery]: the header
    Bytes,       \* what the game writes to the controller
    Mbc1Banks,   \* 0x20, what fits into the ROM bank register of an MBC1
    Mbc2Banks,   \* 0x10
    Mbc3Banks,   \* 0x80, also of a HUC3
    Mbc5Banks,   \* 0x100, without the high bit
    Mmm01Banks   \* 0x40

Controllers == {"MBC0", "MBC1", "MBC2", "MBC3", "MBC5", "HUC1", "HUC3", "MMM01"}

ASSUME CartridgeAssumption ==
    /\ \A k \in Carts : /\ k.mbc \in Controllers /\ k.battery \in BOOLEAN
                        /\ k.roms \in Nat /\ k.roms >= 2 /\ k.rams \in Nat
    /\ Bytes \subseteq Nat
    /\ \A n \in {Mbc1Banks, Mbc2Banks, Mbc3Banks, Mbc5Banks, Mmm01Banks} : n \in Nat /\ n > 1

VARIABLES
    cart,
    power,    \* the process runs
    c         \* the static variables of the controller

cartridgeVars == <<cart, power, c, sram>>

\* Their initial values.  low and high are the banks that cur_ROM_bank_0 and
\* cur_ROM_bank of mbc1.c and mbc5.c point to.
Reset == [ram_banking   |-> FALSE,
          cur_RAM_bank  |-> 0,
          cur_ROM_bank  |-> 1,
          bank_mode     |-> 0,        \* MBC1
          rom_bank_hi   |-> 0,        \* MBC5
          low           |-> 0,
          high          |-> 1,
          rom_mode      |-> 0,        \* MMM01
          rom_base      |-> 0,
          ramflag       |-> 0,        \* HUC3
          sram_modified |-> FALSE]    \* MBC3 and MBC5

CartridgeTypeOK ==
    /\ cart \in Carts /\ power \in BOOLEAN
    /\ c \in [ram_banking : BOOLEAN, sram_modified : BOOLEAN,
              cur_RAM_bank : Nat, cur_ROM_bank : Nat, bank_mode : 0 .. 1,
              rom_bank_hi : 0 .. 1, low : Nat, high : Nat, rom_mode : 0 .. 1,
              rom_base : 0 .. Mmm01Banks - 1, ramflag : Nat]
    /\ SaveRamTypeOK(cart.rams)

-----------------------------------------------------------------------------
(* What the controllers share                                              *)

Running(mbc) == power /\ cart.mbc = mbc

\* Faulty variant: bank 0 may be selected.
AnyBank(v) == v

Nonzero(v) == IF v = 0 THEN 1 ELSE v

\* The low four bits enable RAM.
Enables(v) == v % 16 = 10

\* A write of v to the enable register leaves RAM on or off and may save it first.
Gate(on, save) ==
    /\ c' = [c EXCEPT !.ram_banking = on, !.sram_modified = @ /\ ~save]
    /\ IF save THEN write_SRAM ELSE UNCHANGED sram

\* Without sram_modified, any switch off saves.
PlainGate(v) == Gate(Enables(v), cart.battery /\ c.ram_banking /\ ~Enables(v))

\* Faulty variant: a write to RAM is not noted.
WriteUnnoted(bank) ==
    /\ c.ram_banking /\ bank < cart.rams
    /\ PutMem(bank)
    /\ UNCHANGED c

\* A write to enabled RAM.  A game for this cartridge does not write past its RAM,
\* where the code has no check of its own.
WriteRam(bank) ==
    /\ c.ram_banking /\ bank < cart.rams
    /\ PutMem(bank)
    /\ c' = [c EXCEPT !.sram_modified = (cart.mbc = "MBC3" \/ cart.mbc = "MBC5")]

\* The controllers but MBC1 and MBC5 keep the bank as written, and those but MBC3 and
\* MBC5 the RAM bank, also where the cartridge has none of that number.
SelectRom(bank) ==
    /\ c' = [c EXCEPT !.cur_ROM_bank = bank]
    /\ UNCHANGED sram

SelectRam(bank) ==
    /\ c' = [c EXCEPT !.cur_RAM_bank = bank]
    /\ UNCHANGED sram

\* val & (RAM_bank_count - 1), for the powers of two that a header can name.
Masked(v) == IF cart.rams = 0 THEN v ELSE v % cart.rams

-----------------------------------------------------------------------------
(* MBC1                                                                    *)

\* set_cur_ROM_bank, for the registers r.
Mbc1Mapped(r) ==
    [r EXCEPT !.high = (r.cur_ROM_bank + Mbc1Banks * r.cur_RAM_bank) % cart.roms,
              !.low  = (r.bank_mode * Mbc1Banks * r.cur_RAM_bank) % cart.roms]

Mbc1Enable(v) ==
    Gate(IF cart.rams > 0 THEN Enables(v) ELSE c.ram_banking,
         cart.battery /\ c.ram_banking /\ ~Enables(v))

Mbc1Mode(v) ==
    c' = Mbc1Mapped([c EXCEPT !.bank_mode = v % 2,
                              !.cur_ROM_bank = IF v % 2 = 0 THEN 1 ELSE @])

write_MBC1(v) ==
    /\ Running("MBC1")
    /\ \/ Mbc1Enable(v)
       \/ /\ UNCHANGED sram
          /\ \/ c' = Mbc1Mapped([c EXCEPT !.cur_ROM_bank = Nonzero(v % Mbc1Banks)])
             \/ c' = Mbc1Mapped([c EXCEPT !.cur_RAM_bank = v % 4])
             \/ Mbc1Mode(v)
       \/ /\ cart.rams > 0
          /\ WriteRam(IF c.bank_mode = 0 THEN 0 ELSE c.cur_RAM_bank % cart.rams)

-----------------------------------------------------------------------------
(* MBC2, MBC3, MBC5                                                        *)

write_MBC2(v) ==
    /\ Running("MBC2")
    /\ PlainGate(v) \/ SelectRom(Nonzero(v % Mbc2Banks)) \/ WriteRam(0)

\* A switch off saves only what was modified.
Mbc3Enable(v) ==
    Gate(Enables(v), cart.battery /\ c.ram_banking /\ ~Enables(v) /\ c.sram_modified)

\* Banks past 3 are registers of the clock or nothing.
write_MBC3(v) ==
    /\ Running("MBC3")
    /\ \/ Mbc3Enable(v)
       \/ SelectRom(Nonzero(v % Mbc3Banks))
       \/ c' = [c EXCEPT !.cur_RAM_bank = Masked(v)] /\ UNCHANGED sram
       \/ c.cur_RAM_bank <= 3 /\ WriteRam(c.cur_RAM_bank)

Mbc5Mapped(r) ==
    [r EXCEPT !.high = (r.rom_bank_hi * Mbc5Banks + r.cur_ROM_bank) % cart.roms]

\* All eight bits enable RAM; only a save clears sram_modified.
Mbc5Enable(v) ==
    Gate(v = 10, cart.battery /\ c.ram_banking /\ v # 10 /\ c.sram_modified)

write_MBC5(v) ==
    /\ Running("MBC5")
    /\ \/ Mbc5Enable(v)
       \/ /\ UNCHANGED sram
          /\ \/ c' = Mbc5Mapped([c EXCEPT !.cur_ROM_bank = v % Mbc5Banks])
             \/ c' = Mbc5Mapped([c EXCEPT !.rom_bank_hi = v % 2])
             \/ c' = [c EXCEPT !.cur_RAM_bank = Masked(v % 16)]
       \/ WriteRam(c.cur_RAM_bank)

-----------------------------------------------------------------------------
(* HUC1, HUC3, MMM01                                                       *)

write_HUC1(v) ==
    /\ Running("HUC1")
    /\ \/ PlainGate(v)
       \/ SelectRom(Nonzero(v))
       \/ SelectRam(v)
       \/ WriteRam(c.cur_RAM_bank)

\* val & 0x0A.  Nothing is saved when RAM is switched off.
Huc3Enable(v) ==
    /\ c' = [c EXCEPT !.ram_banking = (v \div 2) % 2 = 1 \/ (v \div 8) % 2 = 1,
                      !.ramflag = v]
    /\ UNCHANGED sram

write_HUC3(v) ==
    /\ Running("HUC3")
    /\ \/ Huc3Enable(v)
       \/ SelectRom(Nonzero(v % Mbc3Banks))
       \/ SelectRam(v % 16)
       \/ c.ramflag = 10 /\ WriteRam(c.cur_RAM_bank)

\* The first write to the enable register leaves the menu of the collection.
Mmm01Enable(v) ==
    IF c.rom_mode = 0 THEN c' = [c EXCEPT !.rom_mode = 1] /\ UNCHANGED sram
                      ELSE PlainGate(v)

\* The menu chooses a game, the game one of the banks behind its first.
Mmm01Rom(v) ==
    IF c.rom_mode = 0
    THEN c' = [c EXCEPT !.rom_base = v % Mmm01Banks] /\ UNCHANGED sram
    ELSE SelectRom(v)

write_MMM01(v) ==
    /\ Running("MMM01")
    /\ \/ Mmm01Enable(v)
       \/ Mmm01Rom(v)
       \/ c.rom_mode = 1 /\ SelectRam(v)
       \/ WriteRam(c.cur_RAM_bank)

-----------------------------------------------------------------------------
(* The process                                                             *)

\* setup_MBC, with set_cur_ROM_bank where there is one.
Setup(k) == [Reset EXCEPT !.high = 1 % k.roms]

CartridgeInit ==
    /\ cart \in Carts /\ power = FALSE /\ c = Reset
    /\ RAM_banks \in Contents(cart.rams)
    /\ SRAM_cache = <<>> /\ SRAM_cache_valid = FALSE
    /\ file = <<>> /\ since = Delay + 1 /\ file_age = Delay + 1
    /\ last_save = "none" /\ dirty = FALSE

PowerOn ==
    /\ ~power /\ power' = TRUE
    /\ c' = Setup(cart)
    /\ SetupRam(cart.rams, cart.battery)
    /\ UNCHANGED cart

\* Window closed: update_keys saves and the game runs on to the end of the frame.
Close == power /\ write_SRAM /\ UNCHANGED <<c, cart, power>>

\* The process ends, by itself or not.
PowerOff ==
    /\ power /\ power' = FALSE
    /\ UNCHANGED <<cart, c, sram>>

TimePasses == power /\ Tick /\ UNCHANGED <<cart, power, c>>

Game ==
    /\ \E v \in Bytes : \/ write_MBC1(v) \/ write_MBC2(v) \/ write_MBC3(v) \/ write_MBC5(v)
                        \/ write_HUC1(v) \/ write_HUC3(v) \/ write_MMM01(v)
    /\ UNCHANGED <<cart, power>>

CartridgeNext == PowerOn \/ Close \/ PowerOff \/ TimePasses \/ Game

CartridgeSpec == CartridgeInit /\ [][CartridgeNext]_cartridgeVars

-----------------------------------------------------------------------------
(* The banks a read sees                                                   *)

LowBank ==
    CASE cart.mbc = "MBC1" -> c.low
      [] cart.mbc = "MMM01" /\ c.rom_mode = 1 -> c.rom_base + 2
      [] OTHER -> 0

HighBank ==
    CASE cart.mbc \in {"MBC1", "MBC5"} -> c.high
      [] cart.mbc = "MBC0" \/ (cart.mbc = "MMM01" /\ c.rom_mode = 0) -> 1
      [] cart.mbc = "MMM01" /\ c.rom_mode = 1 -> c.rom_base + c.cur_ROM_bank + 2
      [] OTHER -> c.cur_ROM_bank

-----------------------------------------------------------------------------
(* Properties                                                              *)

\* The ROM banks that the registers of a controller can name.  Those of MBC1 and MBC5
\* are reduced to the banks of the cartridge (set_cur_ROM_bank).
NamedBanks ==
    CASE cart.mbc \in {"MBC1", "MBC5"} -> 0 .. cart.roms - 1
      [] cart.mbc = "MBC0" -> {0, 1}
      [] cart.mbc = "MBC2" -> 0 .. Mbc2Banks - 1
      [] cart.mbc \in {"MBC3", "HUC3"} -> 0 .. Mbc3Banks - 1
      [] cart.mbc = "HUC1" -> Bytes \cup {0, 1}
      [] cart.mbc = "MMM01" -> {0, 1} \cup {base + v + 2 : base \in 0 .. Mmm01Banks - 1,
                                                           v \in Bytes \cup {0, 1}}

\* Whatever the sequence of writes, a read of an MBC1 or MBC5 finds a bank that the
\* cartridge has, and on the others one that the registers name: one that exists if
\* the cartridge has all of those.  The bank registers that skip 0 do, "Banks 0x0 0x20
\* 0x40 and 0x60 cannot be set" (mbc1.c:9), and the masked RAM bank exists.
BanksExist ==
    power => /\ {LowBank, HighBank} \subseteq NamedBanks
             /\ cart.mbc \notin {"MBC5", "MMM01"} => c.cur_ROM_bank # 0
             /\ cart.rams > 0 /\ cart.mbc \in {"MBC2", "MBC3", "MBC5"}
                    => c.cur_RAM_bank < cart.rams

\* The pointers into the ROM are those the registers stand for (set_cur_ROM_bank,
\* mbc1.c:29 and mbc5.c:20).
MappingCurrent ==
    power => /\ cart.mbc = "MBC1" => c = Mbc1Mapped(c)
             /\ cart.mbc = "MBC5" => c = Mbc5Mapped(c)

\* Both of them: a read finds the bank its registers stand for, and on an MBC1 or MBC5
\* one that exists.
MappingExact == CartridgeTypeOK /\ BanksExist /\ MappingCurrent

\* While the game has RAM switched off, all that it wrote has gone through
\* write_SRAM: it is what the cache holds and, if the last call did write the file,
\* what the next start loads, even after a kill.  A HUC3 saves only on closing.
SavedWhenOff ==
    power /\ cart.battery /\ ~c.ram_banking /\ cart.mbc # "HUC3" =>
        /\ ~dirty
        /\ SRAM_cache_valid => SRAM_cache = RAM_banks
        /\ last_save = "written" => Loaded(cart.rams) = {RAM_banks} \/ cart.rams = 0

\* "write to the SRAM file only if it's been XX seconds since we last wrote to it"
\* (mbc.h:12): after that time a call does write it.
SavedInTime == last_save # "overdue"
=============================================================================

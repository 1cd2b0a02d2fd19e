--------------------------- MODULE ConsoleProofs ---------------------------
(***************************************************************************)
(* What holds of the console's memory.  Of every cartridge: any set of     *)
(* carts, any sizes of banks and registers, any save delay and any game    *)
(* (Cartridge).  Of the memory map: what a game reads is what it wrote, for *)
(* any addresses and any bytes (MemoryMap).  Of the clocks: they count, for *)
(* units of any length (Rtc).                                               *)
(***************************************************************************)
EXTENDS Cartridge, MemoryMap, Rtc, SequenceTheorems, TLAPS

\* The fields of the controller, without their values: what EXCEPT needs.
Registers == [ram_banking : BOOLEAN, sram_modified : BOOLEAN,
              cur_RAM_bank : Nat, cur_ROM_bank : Nat, bank_mode : Nat,
              rom_bank_hi : Nat, low : Nat, high : Nat, rom_mode : Nat,
              rom_base : Nat, ramflag : Nat]

-----------------------------------------------------------------------------
(* Types                                                                   *)

\* Arithmetic on registers stays in Nat.
LEMMA RemainderNat ==
    ASSUME NEW a \in Nat, NEW b \in Nat, b > 0
    PROVE  a % b \in Nat /\ a % b < b
OBVIOUS

RegistersInv == cart \in Carts /\ c \in Registers

LEMMA MaskedNat == ASSUME NEW v \in Nat, cart \in Carts PROVE Masked(v) \in Nat
<1>1. cart.rams \in Nat
  BY CartridgeAssumption
<1> QED
  BY <1>1, RemainderNat DEF Masked

LEMMA Mbc1Types ==
    ASSUME NEW r \in Registers, cart \in Carts
    PROVE  Mbc1Mapped(r) \in Registers
<1>1. cart.roms \in Nat /\ cart.roms > 0 /\ Mbc1Banks \in Nat
  BY CartridgeAssumption
<1>2. r.cur_ROM_bank \in Nat /\ r.cur_RAM_bank \in Nat /\ r.bank_mode \in Nat
  BY DEF Registers
<1>3. /\ r.cur_ROM_bank + Mbc1Banks * r.cur_RAM_bank \in Nat
      /\ r.bank_mode * Mbc1Banks * r.cur_RAM_bank \in Nat
  BY <1>1, <1>2
<1>4. /\ (r.cur_ROM_bank + Mbc1Banks * r.cur_RAM_bank) % cart.roms \in Nat
      /\ (r.bank_mode * Mbc1Banks * r.cur_RAM_bank) % cart.roms \in Nat
  BY <1>1, <1>3, RemainderNat
<1> QED
  BY <1>4 DEF Mbc1Mapped, Registers

LEMMA Mbc5Types ==
    ASSUME NEW r \in Registers, cart \in Carts
    PROVE  Mbc5Mapped(r) \in Registers
<1>1. cart.roms \in Nat /\ cart.roms > 0 /\ Mbc5Banks \in Nat
  BY CartridgeAssumption
<1>2. r.rom_bank_hi * Mbc5Banks + r.cur_ROM_bank \in Nat
  BY <1>1 DEF Registers
<1>3. (r.rom_bank_hi * Mbc5Banks + r.cur_ROM_bank) % cart.roms \in Nat
  BY <1>1, <1>2, RemainderNat
<1> QED
  BY <1>3 DEF Mbc5Mapped, Registers

\* The operations that the controllers share.
LEMMA GateTypes ==
    ASSUME RegistersInv, NEW on \in BOOLEAN, NEW save \in BOOLEAN, Gate(on, save)
    PROVE  c' \in Registers
BY DEF RegistersInv, Registers, Gate

LEMMA WriteRamTypes ==
    ASSUME RegistersInv, NEW bank, WriteRam(bank)
    PROVE  c' \in Registers
<1>1. (cart.mbc = "MBC3" \/ cart.mbc = "MBC5") \in BOOLEAN
  BY Zenon
<1>2. PICK b \in BOOLEAN : c' = [c EXCEPT !.sram_modified = b]
  BY <1>1, Zenon DEF WriteRam
<1> QED
  BY <1>2 DEF RegistersInv, Registers

LEMMA SelectTypes ==
    ASSUME RegistersInv, NEW bank \in Nat, SelectRom(bank) \/ SelectRam(bank)
    PROVE  c' \in Registers
BY DEF RegistersInv, Registers, SelectRom, SelectRam

LEMMA PlainGateTypes ==
    ASSUME RegistersInv, NEW v \in Nat, PlainGate(v)
    PROVE  c' \in Registers
<1>1. cart.battery \in BOOLEAN /\ c.ram_banking \in BOOLEAN
  BY CartridgeAssumption DEF RegistersInv, Registers
<1>2. Enables(v) \in BOOLEAN /\ (cart.battery /\ c.ram_banking /\ ~Enables(v)) \in BOOLEAN
  BY Zenon DEF Enables
<1> QED
  BY <1>2, GateTypes DEF PlainGate

LEMMA GameTypes == RegistersInv /\ Game => RegistersInv'
<1> SUFFICES ASSUME RegistersInv, Game PROVE c' \in Registers
  BY DEF Game, RegistersInv
<1>1. PICK v \in Bytes : \/ write_MBC1(v) \/ write_MBC2(v) \/ write_MBC3(v) \/ write_MBC5(v)
                         \/ write_HUC1(v) \/ write_HUC3(v) \/ write_MMM01(v)
  BY DEF Game
<1>2. v \in Nat /\ Nonzero(v) \in Nat
  BY CartridgeAssumption DEF Nonzero
<1>3. /\ v % 2 \in Nat /\ v % 4 \in Nat /\ v % 16 \in Nat
      /\ v % Mbc1Banks \in Nat /\ v % Mbc2Banks \in Nat /\ v % Mbc3Banks \in Nat
      /\ v % Mbc5Banks \in Nat /\ v % Mmm01Banks \in Nat
  BY <1>2, CartridgeAssumption, RemainderNat
<1>4. /\ Nonzero(v % Mbc1Banks) \in Nat /\ Nonzero(v % Mbc2Banks) \in Nat
      /\ Nonzero(v % Mbc3Banks) \in Nat
  BY <1>3 DEF Nonzero
<1>5. cart \in Carts /\ c \in Registers
  BY DEF RegistersInv
<1>6. CASE write_MBC1(v)
  <2>1. CASE Mbc1Enable(v)
    <3> DEFINE on == IF cart.rams > 0 THEN Enables(v) ELSE c.ram_banking
               save == cart.battery /\ c.ram_banking /\ ~Enables(v)
    <3>1. c.ram_banking \in BOOLEAN
      BY <1>5 DEF Registers
    <3>2. on \in BOOLEAN /\ save \in BOOLEAN
      BY <3>1, Zenon DEF Enables
    <3> QED
      BY <2>1, <3>2, GateTypes DEF Mbc1Enable
  <2>2. ASSUME NEW r, c' = Mbc1Mapped(r), r \in Registers
        PROVE  c' \in Registers
    BY <1>5, <2>2, Mbc1Types
  <2>3. CASE c' = Mbc1Mapped([c EXCEPT !.cur_ROM_bank = Nonzero(v % Mbc1Banks)])
    <3>1. [c EXCEPT !.cur_ROM_bank = Nonzero(v % Mbc1Banks)] \in Registers
      BY <1>4, <1>5 DEF Registers
    <3> QED
      BY <2>2, <2>3, <3>1
  <2>4. CASE c' = Mbc1Mapped([c EXCEPT !.cur_RAM_bank = v % 4])
    <3>1. [c EXCEPT !.cur_RAM_bank = v % 4] \in Registers
      BY <1>3, <1>5 DEF Registers
    <3> QED
      BY <2>2, <2>4, <3>1
  <2>5. CASE Mbc1Mode(v)
    <3> DEFINE r == [c EXCEPT !.bank_mode = v % 2,
                              !.cur_ROM_bank = IF v % 2 = 0 THEN 1 ELSE @]
    <3>1. r \in Registers
      BY <1>3, <1>5 DEF Registers
    <3> QED
      BY <2>2, <2>5, <3>1 DEF Mbc1Mode
  <2> QED
    BY <1>6, <2>1, <2>3, <2>4, <2>5, WriteRamTypes DEF write_MBC1
<1>7. CASE write_MBC2(v)
  BY <1>2, <1>4, <1>7, PlainGateTypes, SelectTypes, WriteRamTypes DEF write_MBC2
<1>8. CASE write_MBC3(v)
  <2>1. CASE Mbc3Enable(v)
    <3> DEFINE save == cart.battery /\ c.ram_banking /\ ~Enables(v) /\ c.sram_modified
    <3>1. Enables(v) \in BOOLEAN /\ save \in BOOLEAN
      BY Zenon DEF Enables
    <3> QED
      BY <2>1, <3>1, GateTypes DEF Mbc3Enable
  <2>2. CASE c' = [c EXCEPT !.cur_RAM_bank = Masked(v)]
    BY <1>2, <1>5, <2>2, MaskedNat DEF Registers
  <2> QED
    BY <1>4, <1>8, <2>1, <2>2, SelectTypes, WriteRamTypes DEF write_MBC3
<1>9. CASE write_MBC5(v)
  <2>1. CASE Mbc5Enable(v)
    <3> DEFINE save == cart.battery /\ c.ram_banking /\ v # 10 /\ c.sram_modified
    <3>1. (v = 10) \in BOOLEAN /\ save \in BOOLEAN
      BY Zenon
    <3> QED
      BY <2>1, <3>1, GateTypes DEF Mbc5Enable
  <2>2. CASE c' = Mbc5Mapped([c EXCEPT !.cur_ROM_bank = v % Mbc5Banks])
    <3>1. [c EXCEPT !.cur_ROM_bank = v % Mbc5Banks] \in Registers
      BY <1>3, <1>5 DEF Registers
    <3> QED
      BY <1>5, <2>2, <3>1, Mbc5Types
  <2>3. CASE c' = Mbc5Mapped([c EXCEPT !.rom_bank_hi = v % 2])
    <3>1. [c EXCEPT !.rom_bank_hi = v % 2] \in Registers
      BY <1>3, <1>5 DEF Registers
    <3> QED
      BY <1>5, <2>3, <3>1, Mbc5Types
  <2>4. CASE c' = [c EXCEPT !.cur_RAM_bank = Masked(v % 16)]
    BY <1>3, <1>5, <2>4, MaskedNat DEF Registers
  <2> QED
    BY <1>9, <2>1, <2>2, <2>3, <2>4, WriteRamTypes DEF write_MBC5
<1>10. CASE write_HUC1(v)
  BY <1>2, <1>10, PlainGateTypes, SelectTypes, WriteRamTypes DEF write_HUC1
<1>11. CASE write_HUC3(v)
  <2>1. CASE Huc3Enable(v)
    BY <1>2, <1>5, <2>1 DEF Huc3Enable, Registers
  <2> QED
    BY <1>3, <1>4, <1>11, <2>1, SelectTypes, WriteRamTypes DEF write_HUC3
<1>12. CASE write_MMM01(v)
  <2>1. CASE Mmm01Enable(v)
    <3>1. CASE c' = [c EXCEPT !.rom_mode = 1]
      BY <1>5, <3>1 DEF Registers
    <3> QED
      BY <1>2, <2>1, <3>1, PlainGateTypes DEF Mmm01Enable
  <2>2. CASE Mmm01Rom(v)
    BY <1>2, <1>3, <1>5, <2>2, SelectTypes DEF Mmm01Rom, Registers
  <2> QED
    BY <1>2, <1>12, <2>1, <2>2, SelectTypes, WriteRamTypes DEF write_MMM01
<1> QED
  BY <1>1, <1>6, <1>7, <1>8, <1>9, <1>10, <1>11, <1>12

LEMMA SetupTypes == \A k \in Carts : Reset \in Registers /\ Setup(k) \in Registers
<1> SUFFICES ASSUME NEW k \in Carts PROVE Reset \in Registers /\ Setup(k) \in Registers
  OBVIOUS
<1>1. 1 % k.roms \in Nat
  BY CartridgeAssumption, RemainderNat
<1> QED
  BY <1>1 DEF Reset, Setup, Registers

LEMMA RegistersStep == RegistersInv /\ [CartridgeNext]_cartridgeVars => RegistersInv'
<1> SUFFICES ASSUME RegistersInv, [CartridgeNext]_cartridgeVars PROVE RegistersInv'
  OBVIOUS
<1>1. CASE PowerOn
  BY <1>1, SetupTypes DEF PowerOn, RegistersInv
<1>2. CASE Close \/ PowerOff \/ TimePasses \/ UNCHANGED cartridgeVars
  BY <1>2 DEF Close, PowerOff, TimePasses, cartridgeVars, RegistersInv
<1>3. CASE Game
  BY <1>3, GameTypes
<1> QED
  BY <1>1, <1>2, <1>3 DEF CartridgeNext

-----------------------------------------------------------------------------
(* The mapping                                                             *)

\* MappingCurrent by fields: Mbc1Mapped and Mbc5Mapped change no register they read.
MapInv ==
    power =>
        /\ cart.mbc = "MBC1" =>
              /\ c.high = (c.cur_ROM_bank + Mbc1Banks * c.cur_RAM_bank) % cart.roms
              /\ c.low = (c.bank_mode * Mbc1Banks * c.cur_RAM_bank) % cart.roms
        /\ cart.mbc = "MBC5" =>
              c.high = (c.rom_bank_hi * Mbc5Banks + c.cur_ROM_bank) % cart.roms

\* The registers and what they map.
Mapping(r) ==
    <<r.cur_ROM_bank, r.cur_RAM_bank, r.bank_mode, r.rom_bank_hi, r.low, r.high>>

LEMMA MapKept ==
    ASSUME MapInv, UNCHANGED <<cart, power>>, Mapping(c') = Mapping(c)
    PROVE  MapInv'
BY DEF MapInv, Mapping

LEMMA Mbc1Kept ==
    ASSUME NEW r \in Registers, c' = Mbc1Mapped(r), cart.mbc = "MBC1", UNCHANGED cart
    PROVE  MapInv'
BY DEF MapInv, Mbc1Mapped, Registers

LEMMA Mbc5Kept ==
    ASSUME NEW r \in Registers, c' = Mbc5Mapped(r), cart.mbc = "MBC5", UNCHANGED cart
    PROVE  MapInv'
BY DEF MapInv, Mbc5Mapped, Registers

LEMMA SharedKeepMapping ==
    ASSUME RegistersInv, NEW on, NEW save, NEW bank,
           Gate(on, save) \/ WriteRam(bank)
    PROVE  Mapping(c') = Mapping(c)
BY DEF RegistersInv, Registers, Mapping, Gate, WriteRam

LEMMA GameKeepsMapping == RegistersInv /\ MapInv /\ Game => MapInv'
<1> SUFFICES ASSUME RegistersInv, MapInv, Game PROVE MapInv'
  OBVIOUS
<1>1. PICK v \in Bytes : \/ write_MBC1(v) \/ write_MBC2(v) \/ write_MBC3(v) \/ write_MBC5(v)
                         \/ write_HUC1(v) \/ write_HUC3(v) \/ write_MMM01(v)
  BY DEF Game
<1>2. /\ v \in Nat /\ v % 2 \in Nat /\ v % 4 \in Nat /\ v % Mbc1Banks \in Nat
      /\ v % Mbc5Banks \in Nat
  BY CartridgeAssumption, RemainderNat
<1>3. UNCHANGED <<cart, power>> /\ c \in Registers
  BY DEF Game, RegistersInv
<1>4. CASE write_MBC1(v)
  <2>0. cart.mbc = "MBC1" /\ Nonzero(v % Mbc1Banks) \in Nat
    BY <1>2, <1>4 DEF write_MBC1, Running, Nonzero
  <2>1. CASE Mbc1Enable(v)
    BY <1>3, <2>1, SharedKeepMapping, MapKept DEF Mbc1Enable
  <2>2. CASE c' = Mbc1Mapped([c EXCEPT !.cur_ROM_bank = Nonzero(v % Mbc1Banks)])
    <3>1. [c EXCEPT !.cur_ROM_bank = Nonzero(v % Mbc1Banks)] \in Registers
      BY <1>3, <2>0 DEF Registers
    <3> QED
      BY <1>3, <2>0, <2>2, <3>1, Mbc1Kept
  <2>3. CASE c' = Mbc1Mapped([c EXCEPT !.cur_RAM_bank = v % 4])
    <3>1. [c EXCEPT !.cur_RAM_bank = v % 4] \in Registers
      BY <1>2, <1>3 DEF Registers
    <3> QED
      BY <1>3, <2>0, <2>3, <3>1, Mbc1Kept
  <2>4. CASE Mbc1Mode(v)
    <3> DEFINE r == [c EXCEPT !.bank_mode = v % 2,
                              !.cur_ROM_bank = IF v % 2 = 0 THEN 1 ELSE @]
    <3>1. r \in Registers
      BY <1>2, <1>3 DEF Registers
    <3> QED
      BY <1>3, <2>0, <2>4, <3>1, Mbc1Kept DEF Mbc1Mode
  <2>5. ASSUME NEW bank, WriteRam(bank) PROVE MapInv'
    BY <1>3, <2>5, SharedKeepMapping, MapKept
  <2> QED
    BY <1>4, <2>1, <2>2, <2>3, <2>4, <2>5 DEF write_MBC1
<1>5. CASE write_MBC5(v)
  <2>0. cart.mbc = "MBC5"
    BY <1>5 DEF write_MBC5, Running
  <2>1. CASE Mbc5Enable(v)
    BY <1>3, <2>1, SharedKeepMapping, MapKept DEF Mbc5Enable
  <2>2. CASE c' = Mbc5Mapped([c EXCEPT !.cur_ROM_bank = v % Mbc5Banks])
    <3>1. [c EXCEPT !.cur_ROM_bank = v % Mbc5Banks] \in Registers
      BY <1>2, <1>3 DEF Registers
    <3> QED
      BY <1>3, <2>0, <2>2, <3>1, Mbc5Kept
  <2>3. CASE c' = Mbc5Mapped([c EXCEPT !.rom_bank_hi = v % 2])
    <3>1. [c EXCEPT !.rom_bank_hi = v % 2] \in Registers
      BY <1>2, <1>3 DEF Registers
    <3> QED
      BY <1>3, <2>0, <2>3, <3>1, Mbc5Kept
  <2>4. CASE c' = [c EXCEPT !.cur_RAM_bank = Masked(v % 16)]
    BY <1>3, <2>0, <2>4 DEF MapInv, Registers
  <2>5. CASE WriteRam(c.cur_RAM_bank)
    BY <1>3, <2>5, SharedKeepMapping, MapKept
  <2> QED
    BY <1>5, <2>1, <2>2, <2>3, <2>4, <2>5 DEF write_MBC5
<1>6. CASE write_MBC2(v) \/ write_MBC3(v) \/ write_HUC1(v) \/ write_HUC3(v) \/ write_MMM01(v)
  <2>1. cart.mbc # "MBC1" /\ cart.mbc # "MBC5"
    BY <1>6 DEF write_MBC2, write_MBC3, write_HUC1, write_HUC3, write_MMM01, Running
  <2> QED
    BY <1>3, <2>1 DEF MapInv
<1> QED
  BY <1>1, <1>4, <1>5, <1>6

\* The banks that MBC1 and MBC5 have cached pointers to are at all times the ones
\* their registers select, since every write to one of these ends in
\* set_cur_ROM_bank.
THEOREM MappingAlwaysCurrent == CartridgeSpec => []MappingCurrent
<1>1. CartridgeInit => RegistersInv /\ MapInv
  BY SetupTypes DEF CartridgeInit, RegistersInv, MapInv
<1>2. RegistersInv /\ MapInv /\ [CartridgeNext]_cartridgeVars => RegistersInv' /\ MapInv'
  <2> SUFFICES ASSUME RegistersInv, MapInv, [CartridgeNext]_cartridgeVars PROVE MapInv'
    BY RegistersStep
  <2>1. CASE PowerOn
    <3>1. cart \in Carts /\ cart' = cart /\ c' = Setup(cart)
      BY <2>1 DEF PowerOn, RegistersInv
    <3>2. /\ c'.cur_ROM_bank = 1 /\ c'.cur_RAM_bank = 0 /\ c'.bank_mode = 0
          /\ c'.rom_bank_hi = 0 /\ c'.low = 0 /\ c'.high = 1 % cart.roms
      BY <3>1 DEF Setup, Reset
    <3>3. cart.roms \in Nat /\ cart.roms > 0 /\ Mbc1Banks \in Nat /\ Mbc5Banks \in Nat
      BY <3>1, CartridgeAssumption
    <3>4. /\ Mbc1Banks * 0 = 0 /\ 0 * Mbc1Banks * 0 = 0 /\ 0 * Mbc5Banks = 0
          /\ 0 % cart.roms = 0
      BY <3>3
    <3> QED
      BY <3>1, <3>2, <3>4 DEF MapInv
  <2>2. CASE Close \/ PowerOff \/ TimePasses \/ UNCHANGED cartridgeVars
    BY <2>2 DEF Close, PowerOff, TimePasses, cartridgeVars, MapInv
  <2>3. CASE Game
    BY <2>3, GameKeepsMapping
  <2> QED
    BY <2>1, <2>2, <2>3 DEF CartridgeNext
<1>3. RegistersInv /\ MapInv => MappingCurrent
  BY DEF RegistersInv, MapInv, MappingCurrent, Mbc1Mapped, Mbc5Mapped, Registers
<1> QED
  BY <1>1, <1>2, <1>3, PTL DEF CartridgeSpec
-----------------------------------------------------------------------------
(* The banks                                                               *)

\* What the registers of a running machine hold.
Selects(r) ==
    /\ cart.mbc \in {"MBC1", "MBC5"} => r.low < cart.roms /\ r.high < cart.roms
    /\ cart.mbc \notin {"MBC5", "MMM01"} => r.cur_ROM_bank # 0
    /\ cart.mbc = "MBC2" => r.cur_ROM_bank < Mbc2Banks
    /\ cart.mbc \in {"MBC3", "HUC3"} => r.cur_ROM_bank < Mbc3Banks
    /\ cart.mbc \in {"HUC1", "MMM01"} => r.cur_ROM_bank \in Bytes \cup {1}
    /\ cart.rams > 0 /\ cart.mbc \in {"MBC2", "MBC3", "MBC5"} => r.cur_RAM_bank < cart.rams

\* The registers of a few bits.
Narrow(r) ==
    /\ r.bank_mode \in 0 .. 1 /\ r.rom_bank_hi \in 0 .. 1 /\ r.rom_mode \in 0 .. 1
    /\ r.rom_base \in 0 .. Mmm01Banks - 1

BanksInv == Narrow(c) /\ (power => Selects(c))

Selected(r) == <<Mapping(r), r.rom_mode, r.rom_base>>

LEMMA BanksKept ==
    ASSUME BanksInv, UNCHANGED <<cart, power>>, Selected(c') = Selected(c)
    PROVE  BanksInv'
BY DEF BanksInv, Narrow, Selects, Selected, Mapping

LEMMA SharedKeepBanks ==
    ASSUME RegistersInv, BanksInv, UNCHANGED <<cart, power>>, NEW on, NEW save, NEW bank,
           Gate(on, save) \/ WriteRam(bank)
    PROVE  BanksInv'
<1>1. Selected(c') = Selected(c)
  BY DEF RegistersInv, Registers, Selected, Mapping, Gate, WriteRam
<1> QED
  BY <1>1, BanksKept

\* A ROM bank that is kept as the register's bits give it.
LEMMA SelectKeepsBanks ==
    ASSUME RegistersInv, BanksInv, UNCHANGED <<cart, power>>, NEW bank \in Nat,
           SelectRom(bank), cart.mbc \notin {"MBC1", "MBC5"},
           cart.mbc # "MMM01" => bank # 0,
           cart.mbc = "MBC2" => bank < Mbc2Banks,
           cart.mbc \in {"MBC3", "HUC3"} => bank < Mbc3Banks,
           cart.mbc \in {"HUC1", "MMM01"} => bank \in Bytes \cup {1}
    PROVE  BanksInv'
<1>1. c \in Registers /\ c' = [c EXCEPT !.cur_ROM_bank = bank]
  BY DEF RegistersInv, SelectRom
<1>2. c'.cur_ROM_bank = bank /\ c'.cur_RAM_bank = c.cur_RAM_bank /\ Narrow(c') = Narrow(c)
  BY <1>1 DEF Registers, Narrow
<1>3. Narrow(c') /\ (power' => Selects(c)) /\ cart' = cart
  BY <1>2 DEF BanksInv
<1> QED
  BY <1>2, <1>3 DEF BanksInv, Selects

\* A RAM bank that is kept as written.
LEMMA SelectRamKeepsBanks ==
    ASSUME RegistersInv, BanksInv, UNCHANGED <<cart, power>>, NEW bank \in Nat,
           SelectRam(bank), cart.mbc \in {"HUC1", "HUC3", "MMM01"}
    PROVE  BanksInv'
BY DEF RegistersInv, Registers, BanksInv, Narrow, Selects, SelectRam

\* The pointers of MBC1 and MBC5 are reduced to the banks that exist.
LEMMA Mbc1Selects ==
    ASSUME NEW r \in Registers, cart \in Carts, cart.mbc = "MBC1", r.cur_ROM_bank # 0,
           Narrow(r), c' = Mbc1Mapped(r), UNCHANGED <<cart, power>>
    PROVE  BanksInv'
<1>1. cart.roms \in Nat /\ cart.roms > 0 /\ Mbc1Banks \in Nat
  BY CartridgeAssumption
<1>2. /\ r.cur_ROM_bank + Mbc1Banks * r.cur_RAM_bank \in Nat
      /\ r.bank_mode * Mbc1Banks * r.cur_RAM_bank \in Nat
  BY <1>1 DEF Registers
<1>3. /\ (r.cur_ROM_bank + Mbc1Banks * r.cur_RAM_bank) % cart.roms < cart.roms
      /\ (r.bank_mode * Mbc1Banks * r.cur_RAM_bank) % cart.roms < cart.roms
  BY <1>1, <1>2, RemainderNat
<1> QED
  BY <1>3 DEF Mbc1Mapped, Registers, BanksInv, Narrow, Selects

LEMMA Mbc5Selects ==
    ASSUME NEW r \in Registers, cart \in Carts, cart.mbc = "MBC5",
           r.low < cart.roms, cart.rams > 0 => r.cur_RAM_bank < cart.rams,
           Narrow(r), c' = Mbc5Mapped(r), UNCHANGED <<cart, power>>
    PROVE  BanksInv'
<1>1. cart.roms \in Nat /\ cart.roms > 0 /\ Mbc5Banks \in Nat
  BY CartridgeAssumption
<1>2. r.rom_bank_hi * Mbc5Banks + r.cur_ROM_bank \in Nat
  BY <1>1 DEF Registers
<1>3. (r.rom_bank_hi * Mbc5Banks + r.cur_ROM_bank) % cart.roms < cart.roms
  BY <1>1, <1>2, RemainderNat
<1> QED
  BY <1>3 DEF Mbc5Mapped, Registers, BanksInv, Narrow, Selects

LEMMA MaskedExists ==
    ASSUME NEW v \in Nat, cart \in Carts, cart.rams > 0
    PROVE  Masked(v) < cart.rams
<1>1. cart.rams \in Nat
  BY CartridgeAssumption
<1> QED
  BY <1>1, RemainderNat DEF Masked

LEMMA GameKeepsBanks == RegistersInv /\ BanksInv /\ Game => BanksInv'
<1> SUFFICES ASSUME RegistersInv, BanksInv, Game PROVE BanksInv'
  OBVIOUS
<1>1. PICK v \in Bytes : \/ write_MBC1(v) \/ write_MBC2(v) \/ write_MBC3(v) \/ write_MBC5(v)
                         \/ write_HUC1(v) \/ write_HUC3(v) \/ write_MMM01(v)
  BY DEF Game
<1>2. /\ v \in Nat /\ v % 2 \in 0 .. 1 /\ v % 4 \in Nat /\ v % 16 \in Nat
      /\ v % Mbc1Banks \in Nat /\ v % Mbc2Banks \in Nat /\ v % Mbc3Banks \in Nat
      /\ v % Mbc5Banks \in Nat /\ v % Mmm01Banks \in 0 .. Mmm01Banks - 1
  <2>1. v \in Nat /\ \A n \in {Mbc1Banks, Mbc2Banks, Mbc3Banks, Mbc5Banks, Mmm01Banks} : n \in Nat /\ n > 1
    BY CartridgeAssumption
  <2>2. \A n \in Nat : n > 1 => v % n \in Nat /\ v % n < n
    BY <2>1, RemainderNat
  <2>3. v % 2 \in 0 .. 1 /\ v % 4 \in Nat /\ v % 16 \in Nat
    BY <2>1, <2>2
  <2>4. /\ v % Mbc1Banks \in Nat /\ v % Mbc2Banks \in Nat /\ v % Mbc3Banks \in Nat
        /\ v % Mbc5Banks \in Nat
    BY <2>1, <2>2, Zenon
  <2>5. v % Mmm01Banks \in 0 .. Mmm01Banks - 1
    BY <2>1, <2>2
  <2> QED
    BY <2>1, <2>3, <2>4, <2>5
<1>3. /\ \A w \in Nat : Nonzero(w) \in Nat /\ Nonzero(w) # 0
      /\ Nonzero(v) \in Bytes \cup {1}
      /\ Nonzero(v % Mbc2Banks) < Mbc2Banks /\ Nonzero(v % Mbc3Banks) < Mbc3Banks
  <2>1. v \in Nat /\ \A n \in {Mbc2Banks, Mbc3Banks} : n \in Nat /\ n > 1
    BY CartridgeAssumption
  <2>2. \A n \in Nat : n > 1 => v % n < n
    BY <2>1, RemainderNat
  <2>3. v % Mbc2Banks < Mbc2Banks /\ v % Mbc3Banks < Mbc3Banks
    BY <2>1, <2>2
  <2> QED
    BY <2>1, <2>3 DEF Nonzero
<1>4. UNCHANGED <<cart, power>> /\ c \in Registers /\ cart \in Carts /\ Narrow(c)
  BY DEF Game, RegistersInv, BanksInv
<1>5. ASSUME NEW on, NEW save, NEW bank, Gate(on, save) \/ WriteRam(bank)
      PROVE  BanksInv'
  BY <1>4, <1>5, SharedKeepBanks
<1>6. CASE write_MBC1(v)
  <2>1. cart.mbc = "MBC1" /\ c.cur_ROM_bank # 0
    BY <1>6 DEF write_MBC1, Running, BanksInv, Selects
  <2>2. CASE c' = Mbc1Mapped([c EXCEPT !.cur_ROM_bank = Nonzero(v % Mbc1Banks)])
    <3> DEFINE r == [c EXCEPT !.cur_ROM_bank = Nonzero(v % Mbc1Banks)]
    <3>1. r \in Registers /\ r.cur_ROM_bank # 0 /\ Narrow(r)
      BY <1>2, <1>3, <1>4 DEF Registers, Narrow
    <3> QED
      BY <1>4, <2>1, <2>2, <3>1, Mbc1Selects
  <2>3. CASE c' = Mbc1Mapped([c EXCEPT !.cur_RAM_bank = v % 4])
    <3> DEFINE r == [c EXCEPT !.cur_RAM_bank = v % 4]
    <3>1. r \in Registers /\ r.cur_ROM_bank # 0
      BY <1>2, <1>4, <2>1 DEF Registers
    <3>2. Narrow(r)
      BY <1>4 DEF Registers, Narrow
    <3> QED
      BY <1>4, <2>1, <2>3, <3>1, <3>2, Mbc1Selects
  <2>4. CASE Mbc1Mode(v)
    <3> DEFINE rom == IF v % 2 = 0 THEN 1 ELSE c.cur_ROM_bank
               r == [c EXCEPT !.bank_mode = v % 2, !.cur_ROM_bank = rom]
    <3>0. rom \in Nat /\ rom # 0 /\ v % 2 \in Nat
      BY <1>2, <1>4, <2>1 DEF Registers
    <3>1. r \in Registers /\ r.cur_ROM_bank # 0 /\ r.bank_mode = v % 2
      <4> HIDE DEF rom
      <4> QED
        BY <1>4, <3>0 DEF Registers
    <3>2. Narrow(r)
      BY <1>2, <1>4, <3>1 DEF Registers, Narrow
    <3> QED
      BY <1>4, <2>1, <2>4, <3>1, <3>2, Mbc1Selects DEF Mbc1Mode
  <2> QED
    BY <1>5, <1>6, <2>2, <2>3, <2>4 DEF write_MBC1, Mbc1Enable
<1>7. CASE write_MBC2(v)
  <2>1. cart.mbc = "MBC2"
    BY <1>7 DEF write_MBC2, Running
  <2> QED
    BY <1>2, <1>3, <1>4, <1>5, <1>7, <2>1, SelectKeepsBanks DEF write_MBC2, PlainGate
<1>8. CASE write_MBC3(v)
  <2>1. cart.mbc = "MBC3"
    BY <1>8 DEF write_MBC3, Running
  <2>2. CASE c' = [c EXCEPT !.cur_RAM_bank = Masked(v)]
    BY <1>2, <1>4, <2>1, <2>2, MaskedExists DEF BanksInv, Narrow, Selects, Registers
  <2> QED
    BY <1>2, <1>3, <1>4, <1>5, <1>8, <2>1, <2>2, SelectKeepsBanks DEF write_MBC3, Mbc3Enable
<1>9. CASE write_MBC5(v)
  <2>1. /\ cart.mbc = "MBC5" /\ Selects(c)
        /\ c.low < cart.roms /\ (cart.rams > 0 => c.cur_RAM_bank < cart.rams)
    BY <1>9 DEF write_MBC5, Running, BanksInv, Selects
  <2>2. CASE c' = Mbc5Mapped([c EXCEPT !.cur_ROM_bank = v % Mbc5Banks])
    <3> DEFINE r == [c EXCEPT !.cur_ROM_bank = v % Mbc5Banks]
    <3>1. /\ r \in Registers /\ Narrow(r)
          /\ r.low < cart.roms /\ (cart.rams > 0 => r.cur_RAM_bank < cart.rams)
      BY <1>2, <1>4, <2>1 DEF Registers, Narrow
    <3> QED
      BY <1>4, <2>1, <2>2, <3>1, Mbc5Selects
  <2>3. CASE c' = Mbc5Mapped([c EXCEPT !.rom_bank_hi = v % 2])
    <3> DEFINE r == [c EXCEPT !.rom_bank_hi = v % 2]
    <3>1. /\ r \in Registers /\ Narrow(r)
          /\ r.low < cart.roms /\ (cart.rams > 0 => r.cur_RAM_bank < cart.rams)
      BY <1>2, <1>4, <2>1 DEF Registers, Narrow
    <3> QED
      BY <1>4, <2>1, <2>3, <3>1, Mbc5Selects
  <2>4. CASE c' = [c EXCEPT !.cur_RAM_bank = Masked(v % 16)]
    BY <1>2, <1>4, <2>1, <2>4, MaskedExists DEF BanksInv, Narrow, Selects, Registers
  <2> QED
    BY <1>5, <1>9, <2>2, <2>3, <2>4 DEF write_MBC5, Mbc5Enable
<1>10. CASE write_HUC1(v)
  <2>1. cart.mbc = "HUC1"
    BY <1>10 DEF write_HUC1, Running
  <2> QED
    BY <1>2, <1>3, <1>4, <1>5, <1>10, <2>1, SelectKeepsBanks, SelectRamKeepsBanks
    DEF write_HUC1, PlainGate
<1>11. CASE write_HUC3(v)
  <2>1. cart.mbc = "HUC3"
    BY <1>11 DEF write_HUC3, Running
  <2>2. CASE Huc3Enable(v)
    <3>1. Selected(c') = Selected(c)
      BY <1>4, <2>2 DEF Huc3Enable, Selected, Mapping, Registers
    <3> QED
      BY <1>4, <3>1, BanksKept
  <2> QED
    BY <1>2, <1>3, <1>4, <1>5, <1>11, <2>1, <2>2, SelectKeepsBanks, SelectRamKeepsBanks
    DEF write_HUC3
<1>12. CASE write_MMM01(v)
  <2>1. cart.mbc = "MMM01" /\ Selects(c)
    BY <1>12 DEF write_MMM01, Running, BanksInv
  <2>2. CASE Mmm01Enable(v)
    <3>1. CASE c' = [c EXCEPT !.rom_mode = 1]
      BY <1>4, <3>1 DEF BanksInv, Narrow, Selects, Registers
    <3> QED
      BY <1>5, <2>2, <3>1 DEF Mmm01Enable, PlainGate
  <2>3. CASE Mmm01Rom(v)
    <3>1. CASE c' = [c EXCEPT !.rom_base = v % Mmm01Banks]
      BY <1>2, <1>4, <2>1, <3>1 DEF BanksInv, Narrow, Selects, Registers
    <3>2. CASE SelectRom(v)
      BY <1>2, <1>4, <2>1, <3>2, SelectKeepsBanks
    <3> QED
      BY <2>3, <3>1, <3>2 DEF Mmm01Rom
  <2>4. CASE SelectRam(v)
    BY <1>2, <1>4, <2>1, <2>4, SelectRamKeepsBanks
  <2> QED
    BY <1>5, <1>12, <2>2, <2>3, <2>4 DEF write_MMM01
<1> QED
  BY <1>1, <1>6, <1>7, <1>8, <1>9, <1>10, <1>11, <1>12

LEMMA BanksStep == RegistersInv /\ BanksInv /\ [CartridgeNext]_cartridgeVars => BanksInv'
<1> SUFFICES ASSUME RegistersInv, BanksInv, [CartridgeNext]_cartridgeVars PROVE BanksInv'
  OBVIOUS
<1>1. CASE PowerOn
  <2>1. /\ cart' = cart /\ c' = Setup(cart) /\ cart \in Carts
        /\ cart.roms \in Nat /\ cart.roms >= 2 /\ cart.rams \in Nat
        /\ \A n \in {Mbc2Banks, Mbc3Banks, Mmm01Banks} : n \in Nat /\ n > 1
    BY <1>1, CartridgeAssumption DEF PowerOn, RegistersInv
  <2>2. 1 % cart.roms < cart.roms
    BY <2>1, RemainderNat
  <2> QED
    BY <2>1, <2>2 DEF Setup, Reset, BanksInv, Narrow, Selects
<1>2. CASE Close \/ PowerOff \/ TimePasses \/ UNCHANGED cartridgeVars
  BY <1>2 DEF Close, PowerOff, TimePasses, cartridgeVars, BanksInv, Narrow, Selects
<1>3. CASE Game
  BY <1>3, GameKeepsBanks
<1> QED
  BY <1>1, <1>2, <1>3 DEF CartridgeNext

-----------------------------------------------------------------------------
(* The saved RAM                                                           *)

\* What of the controller decides on saving.
Saving(r) == <<r.ram_banking, r.sram_modified>>

Noting == cart.mbc = "MBC3" \/ cart.mbc = "MBC5"

\* What was written is still behind an enabled RAM, and noted where that is needed;
\* what was not written since is in the cache and, if it was written, in the file.
SaveInv ==
    /\ RAM_banks \in Contents(cart.rams) /\ file \in Seq(Values)
    /\ power /\ cart.battery /\ cart.mbc # "HUC3" /\ dirty =>
          c.ram_banking /\ (Noting => c.sram_modified)
    /\ ~dirty => /\ SRAM_cache_valid => SRAM_cache = RAM_banks
                 /\ last_save = "written" => file = RAM_banks

\* RAM is a sequence of banks.
LEMMA ContentsLength ==
    ASSUME NEW n \in Nat, NEW r \in Contents(n)
    PROVE  r \in Seq(Values) /\ Len(r) = n
BY LenProperties DEF Contents

LEMMA PrefixIsSeq ==
    ASSUME NEW r \in Seq(Values), NEW p \in CutShort(r)
    PROVE  p \in Seq(Values)
<1>1. PICK k \in 0 .. Len(r) - 1 : p = SubSeq(r, 1, k)
  BY DEF CutShort
<1>2. \A i \in 1 .. k : r[i] \in Values
  BY <1>1, ElementOfSeq, LenProperties
<1> QED
  BY <1>1, <1>2, LenProperties, SubSeqProperties

LEMMA LoadedContents ==
    ASSUME NEW n \in Nat, file \in Seq(Values)
    PROVE  Loaded(n) \subseteq Contents(n)
<1>1. Len(file) = n => file \in Contents(n)
  BY LenProperties, ElementOfSeq DEF Contents
<1> QED
  BY <1>1 DEF Loaded, Contents

\* write_SRAM settles everything.
LEMMA WriteSaves ==
    ASSUME SaveInv, cart \in Carts, write_SRAM, UNCHANGED cart
    PROVE  SaveInv'
<1>1. RAM_banks' = RAM_banks /\ RAM_banks \in Contents(cart.rams) /\ cart.rams \in Nat
  BY CartridgeAssumption DEF SaveInv, write_SRAM
<1>2. RAM_banks \in Seq(Values)
  BY <1>1, ContentsLength
<1>3. file' \in Seq(Values) /\ (last_save' = "written" => file' = RAM_banks)
  <2>1. CASE since > Delay
    BY <1>2, <2>1, PrefixIsSeq DEF SaveInv, write_SRAM, save_SRAM
  <2>2. CASE ~(since > Delay)
    BY <2>2 DEF SaveInv, write_SRAM
  <2> QED
    BY <2>1, <2>2
<1>4. dirty' = FALSE /\ SRAM_cache' = RAM_banks
  BY DEF write_SRAM
<1> QED
  BY <1>1, <1>3, <1>4 DEF SaveInv

\* A write to RAM, which is enabled, is noted.
LEMMA WriteRamKept ==
    ASSUME SaveInv, RegistersInv, NEW bank \in Nat, WriteRam(bank), UNCHANGED <<cart, power>>
    PROVE  SaveInv'
<1>1. c.ram_banking /\ c'.ram_banking = c.ram_banking
  BY DEF RegistersInv, Registers, WriteRam
<1>2. c'.sram_modified = (cart.mbc = "MBC3" \/ cart.mbc = "MBC5")
  BY DEF RegistersInv, Registers, WriteRam
<1>3. dirty' = TRUE /\ file' = file /\ RAM_banks' \in Contents(cart.rams)
  BY DEF SaveInv, WriteRam, PutMem, Contents
<1> QED
  BY <1>1, <1>2, <1>3 DEF SaveInv, Noting

\* A gate that does not save when RAM goes off has nothing to save.
LEMMA GateKept ==
    ASSUME SaveInv, RegistersInv, UNCHANGED <<cart, power>>,
           NEW on \in BOOLEAN, NEW save \in BOOLEAN, Gate(on, save),
           cart.battery /\ c.ram_banking /\ ~save =>
                on \/ (Noting /\ ~c.sram_modified)
    PROVE  SaveInv'
<1>1. CASE save
  BY <1>1, WriteSaves DEF Gate, RegistersInv
<1>2. CASE ~save
  <2>1. UNCHANGED sram /\ c'.ram_banking = on /\ c'.sram_modified = (c.sram_modified /\ ~save)
    BY <1>2 DEF Gate, RegistersInv, Registers
  <2> QED
    BY <1>2, <2>1 DEF SaveInv, sram, Noting
<1> QED
  BY <1>1, <1>2

LEMMA OthersKept ==
    ASSUME SaveInv, UNCHANGED <<cart, power, sram>>, Saving(c') = Saving(c)
    PROVE  SaveInv'
BY DEF SaveInv, Saving, sram, Noting

LEMMA PlainGateKept ==
    ASSUME SaveInv, RegistersInv, UNCHANGED <<cart, power>>, NEW v, PlainGate(v)
    PROVE  SaveInv'
<1>1. cart.battery \in BOOLEAN /\ c.ram_banking \in BOOLEAN
  BY CartridgeAssumption DEF RegistersInv, Registers
<1>2. Enables(v) \in BOOLEAN /\ (cart.battery /\ c.ram_banking /\ ~Enables(v)) \in BOOLEAN
  BY <1>1, Zenon DEF Enables
<1> QED
  BY <1>2, GateKept DEF PlainGate

LEMMA SelectKept ==
    ASSUME SaveInv, RegistersInv, UNCHANGED <<cart, power>>, NEW bank,
           SelectRom(bank) \/ SelectRam(bank)
    PROVE  SaveInv'
<1>1. UNCHANGED sram /\ Saving(c') = Saving(c)
  BY DEF RegistersInv, Registers, Saving, SelectRom, SelectRam
<1> QED
  BY <1>1, OthersKept

LEMMA GameKeepsSaved == RegistersInv /\ SaveInv /\ Game => SaveInv'
<1> SUFFICES ASSUME RegistersInv, SaveInv, Game PROVE SaveInv'
  OBVIOUS
<1>1. PICK v \in Bytes : \/ write_MBC1(v) \/ write_MBC2(v) \/ write_MBC3(v) \/ write_MBC5(v)
                         \/ write_HUC1(v) \/ write_HUC3(v) \/ write_MMM01(v)
  BY DEF Game
<1>2. /\ UNCHANGED <<cart, power>> /\ c \in Registers /\ cart \in Carts
      /\ cart.rams \in Nat /\ c.cur_RAM_bank \in Nat
  BY CartridgeAssumption DEF Game, RegistersInv, Registers
<1>3. cart.battery \in BOOLEAN /\ c.ram_banking \in BOOLEAN /\ c.sram_modified \in BOOLEAN
  BY CartridgeAssumption DEF RegistersInv, Registers
<1>4. ASSUME NEW bank \in Nat, WriteRam(bank) PROVE SaveInv'
  BY <1>2, <1>4, WriteRamKept
<1>5. ASSUME UNCHANGED sram, Saving(c') = Saving(c) PROVE SaveInv'
  BY <1>2, <1>5, OthersKept
<1>6. CASE write_MBC1(v)
  <2>1. CASE Mbc1Enable(v)
    <3> DEFINE on == IF cart.rams > 0 THEN Enables(v) ELSE c.ram_banking
               save == cart.battery /\ c.ram_banking /\ ~Enables(v)
    <3>1. on \in BOOLEAN /\ save \in BOOLEAN
      BY <1>3, Zenon DEF Enables
    <3>2. cart.battery /\ c.ram_banking /\ ~save => on
      BY <1>3, Zenon
    <3>3. Gate(on, save)
      BY <2>1 DEF Mbc1Enable
    <3> HIDE DEF on, save
    <3> QED
      BY <1>2, <3>1, <3>2, <3>3, GateKept
  <2>2. CASE /\ UNCHANGED sram
             /\ c' = Mbc1Mapped([c EXCEPT !.cur_ROM_bank = Nonzero(v % Mbc1Banks)])
    <3>1. Saving(c') = Saving(c)
      BY <1>2, <2>2 DEF Mbc1Mapped, Saving, Registers
    <3> QED
      BY <1>5, <2>2, <3>1
  <2>3. CASE UNCHANGED sram /\ c' = Mbc1Mapped([c EXCEPT !.cur_RAM_bank = v % 4])
    <3>1. Saving(c') = Saving(c)
      BY <1>2, <2>3 DEF Mbc1Mapped, Saving, Registers
    <3> QED
      BY <1>5, <2>3, <3>1
  <2>4. CASE UNCHANGED sram /\ Mbc1Mode(v)
    <3>1. Saving(c') = Saving(c)
      BY <1>2, <2>4 DEF Mbc1Mode, Mbc1Mapped, Saving, Registers
    <3> QED
      BY <1>5, <2>4, <3>1
  <2>5. CASE /\ cart.rams > 0
             /\ WriteRam(IF c.bank_mode = 0 THEN 0 ELSE c.cur_RAM_bank % cart.rams)
    <3>1. c.cur_RAM_bank % cart.rams \in Nat
      BY <1>2, <2>5, RemainderNat
    <3> QED
      BY <1>4, <2>5, <3>1
  <2> QED
    BY <1>6, <2>1, <2>2, <2>3, <2>4, <2>5 DEF write_MBC1
<1>7. CASE write_MBC2(v)
  BY <1>2, <1>4, <1>7, PlainGateKept, SelectKept DEF write_MBC2
<1>8. CASE write_MBC3(v)
  <2>1. CASE Mbc3Enable(v)
    <3> DEFINE save == cart.battery /\ c.ram_banking /\ ~Enables(v) /\ c.sram_modified
    <3>1. Enables(v) \in BOOLEAN /\ save \in BOOLEAN
      BY <1>3, Zenon DEF Enables
    <3>2. Noting
      BY <1>8 DEF write_MBC3, Running, Noting
    <3>3. cart.battery /\ c.ram_banking /\ ~save => Enables(v) \/ (Noting /\ ~c.sram_modified)
      BY <1>3, <3>2, Zenon
    <3>4. Gate(Enables(v), save)
      BY <2>1 DEF Mbc3Enable
    <3> HIDE DEF save
    <3> QED
      BY <1>2, <3>1, <3>3, <3>4, GateKept
  <2>2. CASE c' = [c EXCEPT !.cur_RAM_bank = Masked(v)] /\ UNCHANGED sram
    BY <1>2, <1>5, <2>2 DEF Saving, Registers
  <2> QED
    BY <1>2, <1>4, <1>8, <2>1, <2>2, SelectKept DEF write_MBC3
<1>9. CASE write_MBC5(v)
  <2>1. CASE Mbc5Enable(v)
    <3> DEFINE save == cart.battery /\ c.ram_banking /\ v # 10 /\ c.sram_modified
    <3>1. (v = 10) \in BOOLEAN /\ save \in BOOLEAN
      BY <1>3, Zenon
    <3>2. Noting
      BY <1>9 DEF write_MBC5, Running, Noting
    <3>3. cart.battery /\ c.ram_banking /\ ~save => v = 10 \/ (Noting /\ ~c.sram_modified)
      BY <1>3, <3>2, Zenon
    <3>4. Gate(v = 10, save)
      BY <2>1 DEF Mbc5Enable
    <3> HIDE DEF save
    <3> QED
      BY <1>2, <3>1, <3>3, <3>4, GateKept
  <2>2. CASE UNCHANGED sram /\ c' = Mbc5Mapped([c EXCEPT !.cur_ROM_bank = v % Mbc5Banks])
    BY <1>2, <1>5, <2>2 DEF Mbc5Mapped, Saving, Registers
  <2>3. CASE UNCHANGED sram /\ c' = Mbc5Mapped([c EXCEPT !.rom_bank_hi = v % 2])
    BY <1>2, <1>5, <2>3 DEF Mbc5Mapped, Saving, Registers
  <2>4. CASE UNCHANGED sram /\ c' = [c EXCEPT !.cur_RAM_bank = Masked(v % 16)]
    BY <1>2, <1>5, <2>4 DEF Saving, Registers
  <2> QED
    BY <1>2, <1>4, <1>9, <2>1, <2>2, <2>3, <2>4 DEF write_MBC5
<1>10. CASE write_HUC1(v)
  BY <1>2, <1>4, <1>10, PlainGateKept, SelectKept DEF write_HUC1
<1>11. CASE write_HUC3(v)
  <2>1. CASE Huc3Enable(v)
    <3>1. cart.mbc = "HUC3" /\ UNCHANGED sram
      BY <1>11, <2>1 DEF write_HUC3, Running, Huc3Enable
    <3> QED
      BY <1>2, <3>1 DEF SaveInv, sram
  <2> QED
    BY <1>2, <1>4, <1>11, <2>1, SelectKept DEF write_HUC3
<1>12. CASE write_MMM01(v)
  <2>1. CASE Mmm01Enable(v)
    <3>1. CASE c.rom_mode = 0
      BY <1>2, <1>5, <2>1, <3>1 DEF Mmm01Enable, Saving, Registers
    <3>2. CASE c.rom_mode # 0
      BY <1>2, <2>1, <3>2, PlainGateKept DEF Mmm01Enable
    <3> QED
      BY <3>1, <3>2
  <2>2. CASE Mmm01Rom(v)
    BY <1>2, <1>5, <2>2 DEF Mmm01Rom, SelectRom, Saving, Registers
  <2> QED
    BY <1>2, <1>4, <1>12, <2>1, <2>2, SelectKept DEF write_MMM01
<1> QED
  BY <1>1, <1>6, <1>7, <1>8, <1>9, <1>10, <1>11, <1>12

\* Whatever the sequence of writes, saves, disk failures, kills and restarts, while a
\* game has the RAM of a cartridge with a battery switched off, all that it wrote has
\* gone through write_SRAM, and the next start loads it if the file was written.
THEOREM AlwaysSavedWhenOff == CartridgeSpec => []SavedWhenOff
<1>1. CartridgeInit => RegistersInv /\ SaveInv
  <2> SUFFICES ASSUME CartridgeInit PROVE RegistersInv /\ SaveInv
    OBVIOUS
  <2>1. <<>> \in Seq(Values)
    BY EmptySeq
  <2> QED
    BY <2>1, SetupTypes DEF CartridgeInit, RegistersInv, SaveInv
<1>2. RegistersInv /\ SaveInv /\ [CartridgeNext]_cartridgeVars => RegistersInv' /\ SaveInv'
  <2> SUFFICES ASSUME RegistersInv, SaveInv, [CartridgeNext]_cartridgeVars PROVE SaveInv'
    BY RegistersStep
  <2>1. CASE PowerOn
    <3>1. cart.rams \in Nat /\ cart' = cart
      BY <2>1, CartridgeAssumption DEF RegistersInv, PowerOn
    <3>2. RAM_banks' \in Contents(cart.rams)
      BY <2>1, <3>1, LoadedContents DEF PowerOn, SetupRam, SaveInv
    <3> QED
      BY <2>1, <3>1, <3>2 DEF PowerOn, SetupRam, SaveInv
  <2>2. CASE Close
    BY <2>2, WriteSaves DEF Close, RegistersInv
  <2>3. CASE PowerOff \/ TimePasses \/ UNCHANGED cartridgeVars
    BY <2>3 DEF PowerOff, TimePasses, Tick, cartridgeVars, sram, SaveInv, Noting
  <2>4. CASE Game
    BY <2>4, GameKeepsSaved
  <2> QED
    BY <2>1, <2>2, <2>3, <2>4 DEF CartridgeNext
<1>3. RegistersInv /\ SaveInv => SavedWhenOff
  <2> SUFFICES ASSUME RegistersInv, SaveInv,
                      power /\ cart.battery /\ ~c.ram_banking /\ cart.mbc # "HUC3"
               PROVE  /\ ~dirty
                      /\ SRAM_cache_valid => SRAM_cache = RAM_banks
                      /\ last_save = "written" => Loaded(cart.rams) = {RAM_banks} \/ cart.rams = 0
    BY DEF SavedWhenOff
  <2>1. ~dirty /\ cart.rams \in Nat
    BY CartridgeAssumption DEF SaveInv, RegistersInv
  <2>2. Len(RAM_banks) = cart.rams
    BY <2>1, ContentsLength DEF SaveInv
  <2>3. ASSUME last_save = "written", cart.rams # 0
        PROVE  Loaded(cart.rams) = {RAM_banks}
    <3>1. file = RAM_banks /\ Len(file) = cart.rams /\ file # <<>>
      BY <2>1, <2>2, <2>3, EmptySeq DEF SaveInv
    <3> QED
      BY <3>1 DEF Loaded
  <2> QED
    BY <2>1, <2>3 DEF SaveInv
<1> QED
  BY <1>1, <1>2, <1>3, PTL DEF CartridgeSpec

-----------------------------------------------------------------------------
(* The types of what is saved                                              *)

\* write_SRAM never leaves more in the file than the RAM holds.
LEMMA WriteTypes ==
    ASSUME NEW n \in Nat, SaveRamTypeOK(n), write_SRAM
    PROVE  SaveRamTypeOK(n)'
<1>1. RAM_banks \in Contents(n) /\ RAM_banks' = RAM_banks /\ Delay \in Nat
  BY SaveRamAssumption DEF SaveRamTypeOK, write_SRAM
<1>2. RAM_banks \in Seq(Values) /\ Len(RAM_banks) = n
  BY <1>1, ContentsLength
<1>3. ASSUME NEW p \in CutShort(RAM_banks) PROVE p \in Seq(Values) /\ Len(p) <= n
  <2>1. PICK k \in 0 .. Len(RAM_banks) - 1 : p = SubSeq(RAM_banks, 1, k)
    BY <1>3 DEF CutShort
  <2>2. Len(p) = k
    BY <1>2, <2>1, LenProperties, SubSeqProperties
  <2> QED
    BY <1>2, <1>3, <2>1, <2>2, PrefixIsSeq
<1>4. file' \in Seq(Values) /\ Len(file') <= n
  <2>1. file \in Seq(Values) /\ Len(file) <= n
    BY DEF SaveRamTypeOK
  <2>2. file' = RAM_banks \/ file' \in CutShort(RAM_banks) \/ file' = file
    BY DEF write_SRAM, save_SRAM
  <2> QED
    BY <1>2, <1>3, <2>1, <2>2
<1>5. SRAM_cache' = RAM_banks /\ SRAM_cache_valid' = TRUE /\ since' = 0 /\ dirty' = FALSE
  BY DEF write_SRAM
<1>6. file_age' \in 0 .. Delay + 1 /\ 0 \in 0 .. Delay + 1
  <2>1. file_age \in 0 .. Delay + 1
    BY DEF SaveRamTypeOK
  <2>2. file_age' = 0 \/ file_age' = file_age
    BY DEF write_SRAM, save_SRAM
  <2> QED
    BY <1>1, <2>1, <2>2
<1>7. last_save' \in {"none", "written", "failed", "too soon", "overdue"}
  BY DEF write_SRAM, save_SRAM
<1>8. RAM_banks' \in Contents(n) /\ SRAM_cache' \in Contents(n)
  BY <1>1, <1>5
<1>9. SRAM_cache_valid' \in BOOLEAN /\ dirty' \in BOOLEAN /\ since' \in 0 .. Delay + 1
  BY <1>5, <1>6
<1> QED
  BY <1>4, <1>6, <1>7, <1>8, <1>9 DEF SaveRamTypeOK

LEMMA PutTypes ==
    ASSUME NEW n \in Nat, SaveRamTypeOK(n), NEW bank \in Nat, PutMem(bank)
    PROVE  SaveRamTypeOK(n)'
BY DEF SaveRamTypeOK, PutMem, Contents

LEMMA SaveRamSame ==
    ASSUME NEW n, SaveRamTypeOK(n), UNCHANGED sram
    PROVE  SaveRamTypeOK(n)'
BY DEF SaveRamTypeOK, sram

LEMMA GameKeepsSaveTypes ==
    ASSUME RegistersInv, SaveRamTypeOK(cart.rams), Game
    PROVE  SaveRamTypeOK(cart.rams)'
<1>1. cart.rams \in Nat /\ cart' = cart /\ c.cur_RAM_bank \in Nat
  BY CartridgeAssumption DEF RegistersInv, Registers, Game
<1>2. ASSUME NEW bank \in Nat, WriteRam(bank) PROVE SaveRamTypeOK(cart.rams)'
  BY <1>1, <1>2, PutTypes DEF WriteRam
<1>3. ASSUME NEW on, NEW save, Gate(on, save) PROVE SaveRamTypeOK(cart.rams)'
  BY <1>1, <1>3, WriteTypes, SaveRamSame DEF Gate
<1>4. ASSUME UNCHANGED sram PROVE SaveRamTypeOK(cart.rams)'
  BY <1>1, <1>4, SaveRamSame
<1>5. PICK v \in Bytes : \/ write_MBC1(v) \/ write_MBC2(v) \/ write_MBC3(v) \/ write_MBC5(v)
                         \/ write_HUC1(v) \/ write_HUC3(v) \/ write_MMM01(v)
  BY DEF Game
<1>6. ASSUME NEW bank, SelectRom(bank) \/ SelectRam(bank) PROVE SaveRamTypeOK(cart.rams)'
  BY <1>4, <1>6 DEF SelectRom, SelectRam
<1>7. CASE write_MBC1(v)
  <2>1. cart.rams > 0 => c.cur_RAM_bank % cart.rams \in Nat
    BY <1>1, RemainderNat
  <2> QED
    BY <1>2, <1>3, <1>4, <1>7, <2>1 DEF write_MBC1, Mbc1Enable
<1>8. CASE write_MBC2(v) \/ write_MBC3(v) \/ write_MBC5(v)
  BY <1>1, <1>2, <1>3, <1>4, <1>6, <1>8
  DEF write_MBC2, write_MBC3, write_MBC5, PlainGate, Mbc3Enable, Mbc5Enable
<1>9. CASE write_HUC1(v) \/ write_HUC3(v)
  BY <1>1, <1>2, <1>3, <1>4, <1>6, <1>9 DEF write_HUC1, write_HUC3, PlainGate, Huc3Enable
<1>10. CASE write_MMM01(v)
  BY <1>1, <1>2, <1>3, <1>4, <1>6, <1>10 DEF write_MMM01, PlainGate, Mmm01Enable, Mmm01Rom
<1> QED
  BY <1>5, <1>7, <1>8, <1>9, <1>10

\* RAM, cache and file keep their sizes, whatever part of a file a failing disk leaves.
LEMMA SaveTypesStep ==
    RegistersInv /\ SaveRamTypeOK(cart.rams) /\ [CartridgeNext]_cartridgeVars
        => SaveRamTypeOK(cart.rams)'
<1> SUFFICES ASSUME RegistersInv, SaveRamTypeOK(cart.rams), [CartridgeNext]_cartridgeVars
             PROVE  SaveRamTypeOK(cart.rams)'
  OBVIOUS
<1>1. cart.rams \in Nat /\ Delay \in Nat
  BY CartridgeAssumption, SaveRamAssumption DEF RegistersInv
<1>2. CASE PowerOn
  <2>1. file \in Seq(Values)
    BY DEF SaveRamTypeOK
  <2>2. RAM_banks' \in Contents(cart.rams)
    BY <1>1, <1>2, <2>1, LoadedContents DEF PowerOn, SetupRam
  <2>3. since' \in 0 .. Delay + 1 /\ file_age' = file_age /\ cart' = cart /\ file' = file
    BY <1>1, <1>2 DEF PowerOn, SetupRam
  <2>4. SRAM_cache_valid' = FALSE /\ dirty' = FALSE /\ last_save' = "none"
    BY <1>2 DEF PowerOn, SetupRam
  <2> QED
    BY <2>2, <2>3, <2>4 DEF SaveRamTypeOK
<1>3. CASE Close
  BY <1>1, <1>3, WriteTypes DEF Close
<1>4. CASE PowerOff \/ UNCHANGED cartridgeVars
  BY <1>4, SaveRamSame DEF PowerOff, cartridgeVars
<1>5. CASE TimePasses
  <2>1. since \in 0 .. Delay + 1 /\ file_age \in 0 .. Delay + 1
    BY DEF SaveRamTypeOK
  <2>2. since' \in 0 .. Delay + 1 /\ file_age' \in 0 .. Delay + 1
    BY <1>1, <1>5, <2>1 DEF TimePasses, Tick
  <2>3. UNCHANGED <<RAM_banks, SRAM_cache, SRAM_cache_valid, file, last_save, dirty, cart>>
    BY <1>5 DEF TimePasses, Tick
  <2> QED
    BY <2>2, <2>3 DEF SaveRamTypeOK
<1>6. CASE Game
  BY <1>6, GameKeepsSaveTypes
<1> QED
  BY <1>2, <1>3, <1>4, <1>5, <1>6 DEF CartridgeNext

\* Whatever the sequence of writes, kills and restarts: a read finds the bank that the
\* registers stand for, on an MBC1 or MBC5 one that the header counts, and on the other
\* controllers one that their registers name.
THEOREM MappingHolds == CartridgeSpec => []MappingExact
<1> DEFINE Inv == /\ RegistersInv /\ BanksInv /\ power \in BOOLEAN
                  /\ SaveRamTypeOK(cart.rams)
<1>1. CartridgeInit => Inv
  <2> SUFFICES ASSUME CartridgeInit PROVE Inv
    OBVIOUS
  <2>1. cart.rams \in Nat /\ Delay \in Nat /\ Mmm01Banks \in Nat /\ Mmm01Banks > 1
    BY CartridgeAssumption, SaveRamAssumption DEF CartridgeInit
  <2>2. <<>> \in Seq(Values) /\ Len(<<>>) = 0
    BY EmptySeq
  <2>3. Narrow(Reset)
    BY <2>1 DEF Reset, Narrow
  <2>4. SaveRamTypeOK(cart.rams)
    <3>1. Delay + 1 \in 0 .. Delay + 1 /\ since = Delay + 1 /\ file_age = Delay + 1
      BY <2>1 DEF CartridgeInit
    <3>2. file \in Seq(Values) /\ Len(file) <= cart.rams
      BY <2>1, <2>2 DEF CartridgeInit
    <3>3. /\ RAM_banks \in Contents(cart.rams) /\ SRAM_cache_valid = FALSE
          /\ last_save = "none" /\ dirty = FALSE
      BY DEF CartridgeInit
    <3> QED
      BY <3>1, <3>2, <3>3 DEF SaveRamTypeOK
  <2> QED
    BY <2>3, <2>4, SetupTypes DEF CartridgeInit, RegistersInv, BanksInv
<1>2. Inv /\ [CartridgeNext]_cartridgeVars => Inv'
  <2>1. power \in BOOLEAN /\ [CartridgeNext]_cartridgeVars => power' \in BOOLEAN
    BY DEF CartridgeNext, PowerOn, Close, PowerOff, TimePasses, Game, cartridgeVars
  <2> QED
    BY <2>1, RegistersStep, BanksStep, SaveTypesStep
<1>3. Inv => CartridgeTypeOK /\ BanksExist
  <2> SUFFICES ASSUME Inv PROVE CartridgeTypeOK /\ BanksExist
    OBVIOUS
  <2>1. CartridgeTypeOK
    BY DEF CartridgeTypeOK, RegistersInv, Registers, BanksInv, Narrow
  <2>2. /\ cart.mbc \in Controllers /\ cart.roms \in Nat /\ cart.roms >= 2
        /\ c.rom_mode \in 0 .. 1 /\ c.rom_base \in 0 .. Mmm01Banks - 1
        /\ c.low \in Nat /\ c.high \in Nat /\ c.cur_ROM_bank \in Nat
        /\ \A n \in {Mbc2Banks, Mbc3Banks} : n \in Nat /\ n > 1
    BY CartridgeAssumption DEF RegistersInv, Registers, BanksInv, Narrow
  <2>3. ASSUME power PROVE {LowBank, HighBank} \subseteq NamedBanks
    <3>1. Selects(c)
      BY <2>3 DEF BanksInv
    <3>2. CASE cart.mbc \in {"MBC1", "MBC5"}
      BY <2>2, <3>1, <3>2 DEF Selects, LowBank, HighBank, NamedBanks
    <3>3. CASE cart.mbc \in {"MBC0", "MBC2", "MBC3", "HUC3", "HUC1"}
      BY <2>2, <3>1, <3>3 DEF Selects, LowBank, HighBank, NamedBanks
    <3>4. CASE cart.mbc = "MMM01"
      <4> DEFINE Behind == {base + w + 2 : base \in 0 .. Mmm01Banks - 1, w \in Bytes \cup {0, 1}}
      <4>1. c.rom_base + 0 + 2 \in Behind /\ c.rom_base + c.cur_ROM_bank + 2 \in Behind
        BY <2>2, <3>1, <3>4 DEF Selects
      <4>2. NamedBanks = {0, 1} \cup Behind
        BY <3>4 DEF NamedBanks
      <4>3. /\ LowBank \in {0, c.rom_base + 0 + 2}
            /\ HighBank \in {1, c.rom_base + c.cur_ROM_bank + 2}
        BY <2>2, <3>4 DEF LowBank, HighBank
      <4> HIDE DEF Behind
      <4> QED
        BY <4>1, <4>2, <4>3
    <3> QED
      BY <2>2, <3>2, <3>3, <3>4 DEF Controllers
  <2> QED
    BY <2>1, <2>3 DEF BanksExist, BanksInv, Selects
<1> QED
  BY <1>1, <1>2, <1>3, MappingAlwaysCurrent, PTL DEF CartridgeSpec, MappingExact

-----------------------------------------------------------------------------
(* The memory map                                                          *)

\* The bytes of the machine that can be written, and where the arrays hold them.
Valid(p) ==
    /\ p[2] \in Nat /\ p[2] >= 32768 /\ p[2] <= 65535 /\ p[2] \notin Echo \cup Unusable
    /\ p[1] \in 0 .. 7
    /\ p[2] \in Vram => p[1] <= 1
    /\ p[2] \in SwitchedRam => p[1] > 0
    /\ p[2] \notin Vram \cup SwitchedRam => p[1] = 0

Where(p) ==
    IF p[2] \in Vram /\ p[1] = 1 THEN <<"vram_bank_1", 0, p[2] - 32768>>
    ELSE IF p[2] \in SwitchedRam /\ p[1] > 1 THEN <<"cgb_ram_banks", p[1] - 2, p[2] - 53248>>
    ELSE High(p[2])

\* The registers name the banks in use, and a machine without Color features stays in the
\* first bank of VRAM.
RamBanksInv ==
    /\ cgb \in BOOLEAN /\ features \in BOOLEAN /\ is_booting \in BOOLEAN
    /\ cgb_vram_bank \in 0 .. 1 /\ cgb_ram_bank \in 1 .. 7
    /\ VBANK \in {0, 1, 254} /\ SVBANK \in (0 .. 7) \cup {248}
    /\ cgb_vram_bank = VramBank /\ cgb_ram_bank = RamBank

\* Every place holds what it should.
BytesInv ==
    /\ bytes \in [Arrays -> Data] /\ holds \in [Places -> Data]
    /\ \A p \in Places : Valid(p) => bytes[Where(p)] = holds[p]

PlacesInv == RamBanksInv /\ BytesInv

-----------------------------------------------------------------------------
(* The places                                                              *)

\* The part of the echo that is used repeats RAM.
Real(a) == IF a \in Echo THEN a - 8192 ELSE a

LEMMA EchoIsTakenOff ==
    ASSUME NEW a \in Addrs \ Unusable
    PROVE  /\ a \in Nat /\ Unechoed(a) = Real(a)
           /\ Real(a) \in Nat /\ Real(a) >= 32768 /\ Real(a) <= 65535 /\ Real(a) \notin Echo \cup Unusable
<1>1. a \in Vram \cup Span(49152, 65535) /\ a # 65023 /\ a \notin Unusable
  BY MemoryMapAssumption
<1>2. /\ a \in Int /\ a # 65023 /\ ~(65184 <= a /\ a <= 65279)
      /\ (32768 <= a /\ a <= 40959) \/ (49152 <= a /\ a <= 65535)
  BY <1>1 DEF Unusable, Vram, Span
<1>3. CASE 57344 <= a /\ a < 65023
  <2>1. Unechoed(a) = a - 8192 /\ Real(a) = a - 8192
    BY <1>2, <1>3 DEF Unechoed, Real, Echo, Span
  <2> QED
    BY <1>2, <1>3, <2>1 DEF Echo, Unusable, Span
<1>4. CASE ~(57344 <= a /\ a < 65023)
  <2>1. Unechoed(a) = a /\ Real(a) = a
    BY <1>2, <1>4 DEF Unechoed, Real, Echo, Span
  <2> QED
    BY <1>2, <1>4, <2>1 DEF Echo, Unusable, Span
<1> QED
  BY <1>3, <1>4

\* No two places share a byte.
LEMMA PlacesAreDistinct ==
    ASSUME NEW p, NEW q, Valid(p), Valid(q), p = <<p[1], p[2]>>, q = <<q[1], q[2]>>,
           Where(p) = Where(q)
    PROVE  p = q
<1>1. /\ p[1] \in Int /\ q[1] \in Int
      /\ p[2] \in Nat /\ q[2] \in Nat
  BY DEF Valid
<1>2. p[2] = q[2]
  BY <1>1 DEF Where, High, Oam, IoMem, Vram, SwitchedRam, Span
<1>3. p[1] = q[1]
  BY <1>1, <1>2 DEF Valid, Where, High, Oam, IoMem, Vram, SwitchedRam, Span
<1> QED
  BY <1>2, <1>3

\* WriteMem and ReadMem find the byte of the place that an address stands for.
LEMMA DecodedAlike ==
    ASSUME RamBanksInv, NEW a \in Addrs \ Unusable
    PROVE  /\ Place(a) \in Places /\ Valid(Place(a)) /\ Place(a) = <<Place(a)[1], Place(a)[2]>>
           /\ Written(Unechoed(a)) = Where(Place(a))
           /\ Read(Unechoed(a)) = Where(Place(a))
<1>1. /\ a \in Nat /\ Unechoed(a) = Real(a)
      /\ Real(a) \in Nat /\ Real(a) >= 32768 /\ Real(a) <= 65535 /\ Real(a) \notin Echo \cup Unusable
  BY EchoIsTakenOff
<1> DEFINE r == Real(a)
           b == IF r \in Vram THEN VramBank ELSE IF r \in SwitchedRam THEN RamBank ELSE 0
<1>2. Place(a) = <<b, r>> /\ Place(a)[1] = b /\ Place(a)[2] = r
  BY DEF Place, Real
<1>3. VramBank = cgb_vram_bank /\ RamBank = cgb_ram_bank /\ b \in 0 .. 7
  BY DEF RamBanksInv
<1>4. Place(a) \in Places
  BY <1>2, <1>3 DEF Places, Real
<1>5. Valid(Place(a))
  BY <1>1, <1>2, <1>3 DEF Valid, RamBanksInv, Vram, SwitchedRam, Span
<1>6. cgb_vram_bank = 1 => ColorMode /\ cgb
  BY <1>3 DEF VramBank, ColorMode
<1>7. cgb_ram_bank > 1 => cgb
  BY <1>3 DEF RamBank
<1>8. Vram \cap SwitchedRam = {}
  BY DEF Vram, SwitchedRam, Span
<1>9. Written(r) = Where(Place(a)) /\ Read(r) = Where(Place(a))
  <2>1. CASE r \in Vram
    BY <1>2, <1>3, <1>6, <1>8, <2>1 DEF Written, Read, Where
  <2>2. CASE r \in SwitchedRam
    BY <1>2, <1>3, <1>7, <1>8, <2>2 DEF Written, Read, Where
  <2>3. CASE r \notin Vram /\ r \notin SwitchedRam
    BY <1>2, <2>3 DEF Written, Read, Where
  <2> QED
    BY <2>1, <2>2, <2>3
<1> QED
  BY <1>1, <1>2, <1>4, <1>5, <1>9

\* Every place has its byte in the arrays.
LEMMA WhereIsInArrays ==
    ASSUME NEW p \in Places, Valid(p)
    PROVE  Where(p) \in Arrays /\ p = <<p[1], p[2]>>
<1>1. PICK b \in 0 .. 7, a \in Addrs : p = <<b, Real(a)>>
  BY DEF Places, Real
<1>2. p[1] = b /\ p[2] = Real(a)
  BY <1>1
<1>3. a \in Addrs \ Unusable
  BY <1>2, MemoryMapAssumption DEF Valid, Real, Unusable, Echo, Span
<1>4. Unechoed(a) = Real(a)
  BY <1>3, EchoIsTakenOff
<1>5. CASE p[2] \in Vram /\ p[1] = 1
  <2>1. a \in Vram /\ p[2] = a
    BY <1>2, <1>3, <1>5, MemoryMapAssumption DEF Real, Echo, Vram, Span
  <2> QED
    BY <1>1, <1>2, <1>5, <2>1 DEF Where, Arrays
<1>6. CASE p[2] \in SwitchedRam /\ p[1] > 1
  <2>1. p[1] - 2 \in 0 .. 5 /\ p[2] \notin Vram
    BY <1>2, <1>6 DEF Vram, SwitchedRam, Span
  <2>2. Where(p) = <<"cgb_ram_banks", p[1] - 2, Unechoed(a) - 53248>>
    BY <1>2, <1>4, <1>6, <2>1 DEF Where
  <2> QED
    BY <1>1, <1>2, <1>4, <1>6, <2>1, <2>2 DEF Arrays
<1>7. CASE ~(p[2] \in Vram /\ p[1] = 1) /\ ~(p[2] \in SwitchedRam /\ p[1] > 1)
  <2>1. Where(p) = High(Unechoed(a))
    BY <1>2, <1>4, <1>7 DEF Where
  <2> QED
    BY <1>1, <1>2, <1>3, <2>1 DEF Arrays
<1> QED
  BY <1>1, <1>2, <1>5, <1>6, <1>7

-----------------------------------------------------------------------------
(* The invariant                                                           *)

\* A write changes the bytes of the places it names, and no other.
LEMMA StoreStep ==
    ASSUME PlacesInv, NEW D \in SUBSET Addrs, NEW values \in [D -> Data], Store(values)
    PROVE  PlacesInv'
<1> DEFINE at(b) == {a \in D \ Unusable : Written(Unechoed(a)) = b}
           of(p) == {a \in D \ Unusable : Place(a) = p}
<1>1. /\ bytes' = [b \in Arrays |-> IF at(b) = {} THEN bytes[b] ELSE values[CHOOSE a \in at(b) : TRUE]]
      /\ holds' = [p \in Places |-> IF of(p) = {} THEN holds[p] ELSE values[CHOOSE a \in of(p) : TRUE]]
      /\ UNCHANGED <<machine, is_booting, banks>>
  BY DEF Store
<1>2. RamBanksInv /\ RamBanksInv'
  BY <1>1 DEF PlacesInv, RamBanksInv, machine, banks, VramBank, RamBank, ColorMode
<1>3. bytes \in [Arrays -> Data] /\ holds \in [Places -> Data]
  BY DEF PlacesInv, BytesInv
<1>4. \A b : at(b) # {} => values[CHOOSE a \in at(b) : TRUE] \in Data
  OBVIOUS
<1>5. \A p : of(p) # {} => values[CHOOSE a \in of(p) : TRUE] \in Data
  OBVIOUS
<1>6. bytes' \in [Arrays -> Data] /\ holds' \in [Places -> Data]
  <2> HIDE DEF at, of
  <2> QED
    BY <1>1, <1>3, <1>4, <1>5
<1>7. ASSUME NEW p \in Places, Valid(p) PROVE bytes'[Where(p)] = holds'[p]
  <2>1. Where(p) \in Arrays /\ p = <<p[1], p[2]>>
    BY <1>7, WhereIsInArrays
  <2>2. at(Where(p)) = of(p)
    <3>1. ASSUME NEW a \in D \ Unusable PROVE Written(Unechoed(a)) = Where(p) <=> Place(a) = p
      <4>1. /\ Valid(Place(a)) /\ Place(a) = <<Place(a)[1], Place(a)[2]>>
            /\ Written(Unechoed(a)) = Where(Place(a))
        BY <1>2, DecodedAlike
      <4> QED
        BY <1>7, <2>1, <4>1, PlacesAreDistinct
    <3> QED
      BY <3>1
  <2>3. bytes[Where(p)] = holds[p]
    BY <1>7 DEF PlacesInv, BytesInv
  <2> HIDE DEF at, of
  <2> QED
    BY <1>1, <2>1, <2>2, <2>3
<1>8. BytesInv'
  BY <1>6, <1>7 DEF BytesInv
<1> QED
  BY <1>2, <1>8 DEF PlacesInv

LEMMA MapStep == PlacesInv /\ [MapNext]_mapVars => PlacesInv'
<1> SUFFICES ASSUME PlacesInv, [MapNext]_mapVars PROVE PlacesInv'
  OBVIOUS
<1>1. ASSUME NEW a \in Addrs, NEW v \in Data, WriteMem(a, v) PROVE PlacesInv'
  <2>1. [x \in {a} |-> v] \in [{a} -> Data] /\ {a} \in SUBSET Addrs
    OBVIOUS
  <2> QED
    BY <1>1, <2>1, StoreStep DEF WriteMem
<1>2. ASSUME NEW a \in Addrs, NEW v \in Data, NEW w \in Data, a + 1 \in Addrs, WriteMem16(a, v, w)
      PROVE  PlacesInv'
  <2>1. /\ [x \in {a, a + 1} |-> IF x = a THEN v ELSE w] \in [{a, a + 1} -> Data]
        /\ {a, a + 1} \in SUBSET Addrs
    BY <1>2
  <2> QED
    BY <1>2, <2>1, StoreStep DEF WriteMem16
<1>3. ASSUME UNCHANGED memory PROVE BytesInv'
  BY <1>3 DEF PlacesInv, BytesInv, memory
<1>4. ASSUME NEW v \in {0, 1}, WriteVBANK(v) PROVE PlacesInv'
  <2>1. UNCHANGED memory /\ UNCHANGED <<cgb, features, is_booting, cgb_ram_bank, SVBANK>>
    BY <1>4 DEF WriteVBANK, machine
  <2>2. CASE ColorMode
    BY <1>3, <1>4, <2>1, <2>2 DEF WriteVBANK, PlacesInv, RamBanksInv, VramBank, RamBank, ColorMode
  <2>3. CASE ~ColorMode
    BY <1>3, <1>4, <2>1, <2>3 DEF WriteVBANK, PlacesInv, RamBanksInv, VramBank, RamBank, ColorMode
  <2> QED
    BY <2>2, <2>3
<1>5. ASSUME NEW v \in Banks, WriteSVBANK(v) PROVE PlacesInv'
  <2>1. v \in Nat /\ v % 8 \in 0 .. 7 /\ \A n \in 0 .. 7 : n % 8 = n
    BY MemoryMapAssumption
  <2>2. UNCHANGED memory /\ UNCHANGED <<cgb, features, is_booting, cgb_vram_bank, VBANK>>
    BY <1>5 DEF WriteSVBANK, machine
  <2>3. CASE ColorMode
    <3>1. SVBANK' = v % 8 /\ SVBANK' % 8 = v % 8 /\ cgb_ram_bank' = IF v % 8 = 0 THEN 1 ELSE v % 8
      BY <1>5, <2>1, <2>3 DEF WriteSVBANK
    <3> QED
      BY <1>3, <2>1, <2>2, <2>3, <3>1 DEF PlacesInv, RamBanksInv, VramBank, RamBank, ColorMode
  <2>4. CASE ~ColorMode
    BY <1>3, <1>5, <2>2, <2>4 DEF WriteSVBANK, PlacesInv, RamBanksInv, VramBank, RamBank, ColorMode
  <2> QED
    BY <2>3, <2>4
<1>6. CASE FinishBoot
  BY <1>3, <1>6, ZenonT(40) DEF FinishBoot, PlacesInv, RamBanksInv, VramBank, RamBank, ColorMode, machine, banks
<1>7. CASE UNCHANGED mapVars
  BY <1>3, <1>7 DEF mapVars, PlacesInv, RamBanksInv, VramBank, RamBank, ColorMode, machine, banks
<1> QED
  BY <1>1, <1>2, <1>4, <1>5, <1>6, <1>7 DEF MapNext

LEMMA MapStart == MapInit => PlacesInv
<1> SUFFICES ASSUME MapInit PROVE PlacesInv
  OBVIOUS
<1>1. RamBanksInv
  BY DEF MapInit, RamBanksInv, VramBank, RamBank, ColorMode
<1>2. bytes \in [Arrays -> Data] /\ holds \in [Places -> Data]
  BY MemoryMapAssumption DEF MapInit
<1>3. ASSUME NEW p \in Places, Valid(p) PROVE bytes[Where(p)] = holds[p]
  BY <1>3, WhereIsInArrays DEF MapInit
<1> QED
  BY <1>1, <1>2, <1>3 DEF PlacesInv, BytesInv

\* Under every bank, on every machine, booting or not, a game reads at each address what
\* was last written to the place the address stands for.
THEOREM MapIsExact == MapSpec => []MapExact
<1>1. PlacesInv => MapExact
  <2> SUFFICES ASSUME PlacesInv PROVE MapExact
    OBVIOUS
  <2>1. ASSUME NEW a \in Addrs \ Unusable PROVE ReadMem(a) = holds[Place(a)]
    BY DecodedAlike DEF PlacesInv, BytesInv, ReadMem
  <2> QED
    BY <2>1 DEF MapExact, MapTypeOK, ReadsBack, PlacesInv, RamBanksInv, BytesInv
<1> QED
  BY <1>1, MapStart, MapStep, PTL DEF MapSpec

-----------------------------------------------------------------------------
(* Clocks                                                                   *)

\* Quotient and remainder are the only ones.
LEMMA Divided ==
    ASSUME NEW d \in Nat \ {0}, NEW k \in Nat, NEW s \in 0 .. d - 1
    PROVE  k * d + s \in Nat /\ (k * d + s) \div d = k /\ (k * d + s) % d = s
<1> DEFINE a == k * d + s
           q == a \div d
           r == a % d
<1>1. \A m \in Nat : m * d \in Nat
  OBVIOUS
<1>2. a \in Nat
  BY <1>1
<1> HIDE DEF a
<1>3. q \in Nat /\ r \in 0 .. d - 1 /\ a = q * d + r
  BY <1>2
<1> HIDE DEF q, r
<1>4. \A m, n \in Nat : m < n => m * d + d <= n * d
  <2> TAKE m, n \in Nat
  <2> HAVE m < n
  <2> DEFINE e == n - m - 1
  <2>1. e \in Nat /\ n = m + 1 + e
    OBVIOUS
  <2> HIDE DEF e
  <2>2. n * d = m * d + d + e * d
    BY <2>1
  <2>3. e * d \in Nat /\ m * d \in Nat
    BY <1>1, <2>1
  <2> QED
    BY <2>2, <2>3
<1>5. ~(q < k)
  <2> SUFFICES ASSUME q < k PROVE FALSE
    OBVIOUS
  <2>1. q * d + d <= k * d
    BY <1>3, <1>4
  <2> QED
    BY <1>1, <1>3, <2>1 DEF a
<1>6. ~(k < q)
  <2> SUFFICES ASSUME k < q PROVE FALSE
    OBVIOUS
  <2>1. k * d + d <= q * d
    BY <1>3, <1>4
  <2> QED
    BY <1>1, <1>3, <2>1 DEF a
<1>7. q = k
  BY <1>3, <1>5, <1>6
<1>8. r = s
  BY <1>1, <1>3, <1>7 DEF a
<1> QED
  BY <1>2, <1>7, <1>8 DEF a, q, r

\* A number below m, m of which are a unit, and the number of units.
LEMMA Parts ==
    ASSUME NEW n \in Nat, NEW d \in Nat \ {0}
    PROVE  n \div d \in Nat /\ n % d \in 0 .. d - 1 /\ n = (n \div d) * d + (n % d)
OBVIOUS

-----------------------------------------------------------------------------
(* The MBC3: seconds                                                        *)

ByteValues == 0 .. ByteSize - 1
Times == [seconds : ByteValues, minutes : ByteValues, hours : ByteValues,
          days_low : ByteValues, high : BOOLEAN, halt : BOOLEAN]

LEMMA Units ==
    /\ ByteSize \in Nat \ {0} /\ Minute \in Nat \ {0} /\ Hour \in Nat \ {0} /\ Day \in Nat \ {0}
    /\ Minute < ByteSize /\ Hour < ByteSize /\ Day < ByteSize /\ 0 \in ByteValues
BY RtcAssumption DEF ByteValues

LEMMA StepsInByte ==
    ASSUME NEW v \in ByteValues, NEW limit \in {Minute, Hour, Day}
    PROVE  /\ Stepped(v, limit) \in ByteValues
           /\ v < limit => (Wraps(v, limit) <=> v + 1 = limit)
           /\ v < limit => Stepped(v, limit) = IF v + 1 = limit THEN 0 ELSE v + 1
<1>1. limit \in Nat \ {0} /\ limit < ByteSize /\ ByteSize \in Nat
  BY Units
<1> QED
  BY <1>1 DEF Stepped, Wraps, ByteValues

LEMMA IncrementedType == ASSUME NEW r \in Times PROVE Incremented(r) \in Times
<1> DEFINE m == Wraps(r.seconds, Minute)
           h == m /\ Wraps(r.minutes, Hour)
           d == h /\ Wraps(r.hours, Day)
           s1 == Stepped(r.seconds, Minute)
           s2 == IF m THEN Stepped(r.minutes, Hour) ELSE r.minutes
           s3 == IF h THEN Stepped(r.hours, Day) ELSE r.hours
           s4 == IF d THEN (r.days_low + 1) % ByteSize ELSE r.days_low
           s5 == r.high \/ (d /\ r.days_low + 1 = ByteSize)
<1>1. /\ r.seconds \in ByteValues /\ r.minutes \in ByteValues /\ r.hours \in ByteValues
      /\ r.days_low \in ByteValues /\ r.high \in BOOLEAN /\ r.halt \in BOOLEAN
  BY DEF Times
<1> HIDE DEF m, h, d
<1>2. s1 \in ByteValues /\ s2 \in ByteValues /\ s3 \in ByteValues
  BY <1>1, StepsInByte
<1>3. s4 \in ByteValues
  BY <1>1, Units DEF ByteValues
<1>4. s5 \in BOOLEAN
  OBVIOUS
<1> HIDE DEF s1, s2, s3, s4, s5
<1>5. Incremented(r) = [r EXCEPT !.seconds = s1, !.minutes = s2, !.hours = s3,
                                 !.days_low = s4, !.high = s5]
  BY DEF Incremented, m, h, d, s1, s2, s3, s4, s5
<1> QED
  BY <1>2, <1>3, <1>4, <1>5 DEF Times

\* One more of the larger unit.
LEMMA OneMore ==
    ASSUME NEW m \in Nat, NEW x \in Nat
    PROVE  m * (x + 1) = m * x + m /\ m * x \in Nat
OBVIOUS

LEMMA CountsOne ==
    ASSUME NEW r \in Times, InRange(r)
    PROVE  /\ InRange(Incremented(r))
           /\ ~LastSecond(r) => Seconds(Incremented(r)) = Seconds(r) + 1
<1> DEFINE i == Incremented(r)
           Days(t) == t.days_low + IF t.high THEN ByteSize ELSE 0
           Hours(t) == t.hours + Day * Days(t)
           Minutes(t) == t.minutes + Hour * Hours(t)
           Same(t, u) == t.minutes = u.minutes /\ t.hours = u.hours
                         /\ t.days_low = u.days_low /\ t.high = u.high
<1>1. /\ r.seconds \in ByteValues /\ r.minutes \in ByteValues /\ r.hours \in ByteValues
      /\ r.days_low \in ByteValues /\ r.high \in BOOLEAN
      /\ r.seconds < Minute /\ r.minutes < Hour /\ r.hours < Day
  BY DEF Times, InRange
<1>2. i \in Times
  BY IncrementedType
<1>3. /\ r.seconds + 1 = Minute => i.seconds = 0
      /\ r.seconds + 1 # Minute => /\ i.seconds = r.seconds + 1 /\ i.minutes = r.minutes
                                   /\ i.hours = r.hours /\ i.days_low = r.days_low
                                   /\ i.high = r.high
  BY <1>1, StepsInByte DEF Incremented, Times
<1>4. r.seconds + 1 = Minute =>
        /\ r.minutes + 1 = Hour => i.minutes = 0
        /\ r.minutes + 1 # Hour => /\ i.minutes = r.minutes + 1 /\ i.hours = r.hours
                                   /\ i.days_low = r.days_low /\ i.high = r.high
  BY <1>1, StepsInByte DEF Incremented, Times
<1>5. r.seconds + 1 = Minute /\ r.minutes + 1 = Hour =>
        /\ r.hours + 1 = Day => i.hours = 0
        /\ r.hours + 1 # Day => i.hours = r.hours + 1 /\ i.days_low = r.days_low
                                /\ i.high = r.high
  BY <1>1, StepsInByte DEF Incremented, Times
<1>6. r.seconds + 1 = Minute /\ r.minutes + 1 = Hour /\ r.hours + 1 = Day =>
        /\ i.days_low = (r.days_low + 1) % ByteSize
        /\ i.high = (r.high \/ r.days_low + 1 = ByteSize)
  BY <1>1, StepsInByte DEF Incremented, Times
<1> HIDE DEF i
<1>7. /\ Seconds(i) = i.seconds + Minute * Minutes(i)
      /\ Seconds(r) = r.seconds + Minute * Minutes(r)
  BY DEF Seconds
<1>8. /\ Days(r) \in Nat /\ Hours(r) \in Nat /\ Minutes(r) \in Nat
  <2>1. Days(r) \in Nat
    BY <1>1, Units DEF ByteValues
  <2> HIDE DEF Days
  <2>2. Hours(r) \in Nat
    BY <1>1, <2>1, Units, OneMore DEF ByteValues
  <2> HIDE DEF Hours
  <2>3. Minutes(r) \in Nat
    BY <1>1, <2>2, Units, OneMore DEF ByteValues
  <2> QED
    BY <2>1, <2>2, <2>3
<1>9. CASE r.seconds + 1 # Minute
  <2>1. Minutes(i) = Minutes(r) /\ i.seconds = r.seconds + 1
    BY <1>3, <1>9
  <2>2. InRange(i)
    BY <1>1, <1>3, <1>9, Units DEF InRange, ByteValues
  <2>3. Minute * Minutes(r) \in Nat
    BY <1>8, Units, OneMore
  <2> HIDE DEF Minutes
  <2> QED
    BY <1>1, <1>7, <2>1, <2>2, <2>3 DEF i, ByteValues
<1>10. ASSUME r.seconds + 1 = Minute, Minutes(i) = Minutes(r) + 1
       PROVE  Seconds(i) = Seconds(r) + 1
  <2>1. i.seconds = 0
    BY <1>3, <1>10
  <2> HIDE DEF Minutes
  <2>2. /\ Minute * Minutes(i) = Minute * Minutes(r) + Minute
        /\ Minute * Minutes(r) \in Nat
    BY <1>8, <1>10, Units, OneMore
  <2> QED
    BY <1>1, <1>7, <1>10, <2>1, <2>2 DEF ByteValues
<1>11. CASE r.seconds + 1 = Minute /\ r.minutes + 1 # Hour
  <2>1. Hours(i) = Hours(r) /\ i.minutes = r.minutes + 1
    BY <1>4, <1>11
  <2>2. InRange(i)
    BY <1>1, <1>3, <1>4, <1>11, Units DEF InRange, ByteValues
  <2>3. Hour * Hours(r) \in Nat
    BY <1>8, Units, OneMore
  <2> HIDE DEF Hours
  <2>4. Minutes(i) = Minutes(r) + 1
    BY <1>1, <2>1, <2>3 DEF ByteValues
  <2> QED
    BY <1>10, <1>11, <2>2, <2>4 DEF i
<1>12. ASSUME r.seconds + 1 = Minute, r.minutes + 1 = Hour, Hours(i) = Hours(r) + 1
       PROVE  Seconds(i) = Seconds(r) + 1
  <2>1. i.minutes = 0
    BY <1>4, <1>12
  <2> HIDE DEF Hours
  <2>2. /\ Hour * Hours(i) = Hour * Hours(r) + Hour
        /\ Hour * Hours(r) \in Nat
    BY <1>8, <1>12, Units, OneMore
  <2>3. Minutes(i) = Minutes(r) + 1
    BY <1>1, <1>12, <2>1, <2>2 DEF ByteValues
  <2> QED
    BY <1>10, <1>12, <2>3
<1>13. CASE r.seconds + 1 = Minute /\ r.minutes + 1 = Hour /\ r.hours + 1 # Day
  <2>1. Days(i) = Days(r) /\ i.hours = r.hours + 1
    BY <1>5, <1>13
  <2>2. InRange(i)
    BY <1>1, <1>3, <1>4, <1>5, <1>13, Units DEF InRange, ByteValues
  <2>3. Day * Days(r) \in Nat
    BY <1>8, Units, OneMore
  <2> HIDE DEF Days
  <2>4. Hours(i) = Hours(r) + 1
    BY <1>1, <2>1, <2>3 DEF ByteValues
  <2> QED
    BY <1>12, <1>13, <2>2, <2>4 DEF i
<1>14. CASE r.seconds + 1 = Minute /\ r.minutes + 1 = Hour /\ r.hours + 1 = Day
  <2>1. InRange(i)
    BY <1>3, <1>4, <1>5, <1>14, Units DEF InRange
  <2>2. ASSUME ~LastSecond(r) PROVE Days(i) = Days(r) + 1
    <3>1. CASE r.days_low + 1 = ByteSize
      <4>1. ~r.high
        BY <1>1, <1>14, <2>2, <3>1, Units DEF LastSecond, ByteValues
      <4>2. i.days_low = 0
        BY <1>1, <1>6, <1>14, <3>1, Units
      <4>3. i.high
        BY <1>6, <1>14, <3>1
      <4> QED
        BY <1>1, <3>1, <4>1, <4>2, <4>3, Units DEF ByteValues
    <3>2. CASE r.days_low + 1 # ByteSize
      <4>1. i.days_low = r.days_low + 1
        BY <1>1, <1>6, <1>14, <3>2, Units DEF ByteValues
      <4>2. i.high = r.high
        BY <1>1, <1>6, <1>14, <3>2
      <4> QED
        BY <1>1, <4>1, <4>2, Units DEF ByteValues
    <3> QED
      BY <3>1, <3>2
  <2>3. i.hours = 0
    BY <1>5, <1>14
  <2>4. ASSUME ~LastSecond(r) PROVE Seconds(i) = Seconds(r) + 1
    <3> HIDE DEF Days
    <3>1. Day * Days(i) = Day * Days(r) + Day /\ Day * Days(r) \in Nat
      BY <1>8, <2>2, <2>4, Units, OneMore
    <3>2. Hours(i) = Hours(r) + 1
      BY <1>1, <1>14, <2>3, <3>1 DEF ByteValues
    <3> QED
      BY <1>12, <1>14, <3>2
  <2> QED
    BY <2>1, <2>4 DEF i
<1> QED
  BY <1>9, <1>11, <1>13, <1>14

-----------------------------------------------------------------------------
(* The HUC3: nibbles                                                        *)

LEMMA Powers ==
    /\ NibbleSize \in Nat \ {0} /\ Nibbles \in Nat /\ At(0) = 1
    /\ \A n \in 0 .. Nibbles : At(n) \in Nat \ {0} /\ At(n + 1) = NibbleSize * At(n)
BY RtcAssumption, PowerAssumption

\* A nibble more: the number up to the next place; and one nibble of it exchanged.
LEMMA Nibble ==
    ASSUME NEW r \in Nat, NEW p \in Nat \ {0}, NEW n \in Nat \ {0}, NEW w \in 0 .. n - 1
    PROVE  /\ r % (n * p) = (r % p) + ((r \div p) % n) * p
           /\ r - ((r \div p) % n) * p + w * p \in Nat
           /\ (r - ((r \div p) % n) * p + w * p) % (n * p) = (r % p) + w * p
<1> DEFINE low == r % p
           d == (r \div p) % n
           h == (r \div p) \div n
<1>1. /\ r \div p \in Nat /\ low \in 0 .. p - 1 /\ r = (r \div p) * p + low
      /\ d \in 0 .. n - 1 /\ h \in Nat /\ r \div p = h * n + d
  BY Parts
<1>2. r = (h * n + d) * p + low
  BY <1>1
<1> HIDE DEF low, d, h
<1>3. n * p \in Nat \ {0}
  OBVIOUS
<1>4. \A e \in 0 .. n - 1 : /\ e * p + low \in 0 .. (n * p) - 1
                            /\ (h * n + e) * p + low = h * (n * p) + (e * p + low)
  <2> TAKE e \in 0 .. n - 1
  <2>1. (h * n + e) * p + low = h * (n * p) + (e * p + low)
    BY <1>1
  <2> DEFINE g == n - 1 - e
  <2>2. g \in Nat /\ n = e + 1 + g
    OBVIOUS
  <2> HIDE DEF g
  <2>3. n * p = e * p + p + g * p
    BY <2>2
  <2>4. e * p \in Nat /\ g * p \in Nat
    BY <2>2
  <2> QED
    BY <1>1, <2>1, <2>3, <2>4
<1>5. r % (n * p) = d * p + low
  <2>1. r = h * (n * p) + (d * p + low) /\ d * p + low \in 0 .. (n * p) - 1
    BY <1>1, <1>2, <1>4
  <2> DEFINE m == n * p
             x == d * p + low
  <2>2. r = h * m + x /\ x \in 0 .. m - 1 /\ m \in Nat \ {0}
    BY <1>3, <2>1
  <2> HIDE DEF m, x
  <2>3. r % m = x
    BY <1>1, <2>2, Divided
  <2> QED
    BY <2>3 DEF m, x
<1>6. /\ r - d * p + w * p = h * (n * p) + (w * p + low)
  <2>1. (h * n + w) * p + low = h * (n * p) + (w * p + low)
    BY <1>4
  <2>2. r - d * p + w * p = (h * n + w) * p + low
    BY <1>1, <1>2
  <2> QED
    BY <2>1, <2>2
<1>7. /\ r - d * p + w * p \in Nat
      /\ (r - d * p + w * p) % (n * p) = w * p + low
  <2> DEFINE m == n * p
             x == w * p + low
             y == r - d * p + w * p
  <2>1. y = h * m + x /\ x \in 0 .. m - 1 /\ m \in Nat \ {0}
    BY <1>3, <1>4, <1>6
  <2> HIDE DEF m, x, y
  <2>2. y \in Nat /\ y % m = x
    BY <1>1, <2>1, Divided
  <2> QED
    BY <2>2 DEF m, x, y
<1>8. d * p \in Nat /\ w * p \in Nat
  BY <1>1
<1> QED
  BY <1>1, <1>5, <1>7, <1>8 DEF low, d

\* Minutes, days and years.
LEMMA Fields ==
    /\ Field \in Nat \ {0} /\ DayLength \in Nat \ {0} /\ YearLength \in Nat \ {0}
    /\ DayLength <= Field /\ YearLength <= Field /\ Field * Field \in Nat \ {0}
<1>1. /\ Field \in Nat \ {0} /\ DayLength \in Nat \ {0} /\ YearLength \in Nat \ {0}
      /\ DayLength <= Field /\ YearLength <= Field
  BY RtcAssumption
<1> QED
  BY <1>1

\* A register of yr years, b days and a minutes.
Told(a, b, yr) == a + Field * b + Field * Field * yr

LEMMA Tells ==
    ASSUME NEW a \in 0 .. Field - 1, NEW b \in 0 .. Field - 1, NEW yr \in Nat
    PROVE  /\ Told(a, b, yr) \in Nat /\ Told(a, b, yr) % Field = a
           /\ (Told(a, b, yr) \div Field) % Field = b
           /\ Told(a, b, yr) \div (Field * Field) = yr
           /\ Time(Told(a, b, yr)) = a + DayLength * (b + YearLength * yr)
<1> DEFINE r == Told(a, b, yr)
           k == yr * Field + b
           s == b * Field + a
           f == Field * Field
<1>1. r = k * Field + a /\ r = yr * f + s
  BY Fields DEF Told
<1>2. k \in Nat /\ k \div Field = yr /\ k % Field = b
  BY Fields, Divided
<1>3. s \in 0 .. f - 1
  <2> DEFINE g == Field - 1 - b
  <2>1. g \in Nat /\ Field = b + 1 + g
    BY Fields
  <2> HIDE DEF g
  <2>2. f = b * Field + Field + g * Field
    BY <2>1, Fields
  <2>3. b * Field \in Nat /\ g * Field \in Nat
    BY <2>1, Fields
  <2> QED
    BY <2>2, <2>3, Fields
<1>4. f \in Nat \ {0}
  BY Fields
<1> HIDE DEF r, k, s, f
<1>5. r \in Nat /\ r \div Field = k /\ r % Field = a
  BY <1>1, <1>2, Fields, Divided
<1>6. r \div f = yr
  BY <1>1, <1>3, <1>4, Divided
<1> QED
  BY <1>2, <1>5, <1>6 DEF r, f, Time

LEMMA IsTold ==
    ASSUME NEW r \in Nat
    PROVE  \E a, b \in 0 .. Field - 1, yr \in Nat : r = Told(a, b, yr)
<1> DEFINE k == r \div Field
<1>1. k \in Nat /\ r % Field \in 0 .. Field - 1 /\ r = k * Field + (r % Field)
  BY Fields, Parts
<1>2. /\ k \div Field \in Nat /\ k % Field \in 0 .. Field - 1
      /\ k = (k \div Field) * Field + (k % Field)
  BY <1>1, Fields, Parts
<1> DEFINE a == r % Field
           b == k % Field
           yr == k \div Field
<1>3. a \in 0 .. Field - 1 /\ b \in 0 .. Field - 1 /\ yr \in Nat /\ r = k * Field + a
      /\ k = yr * Field + b
  BY <1>1, <1>2
<1> HIDE DEF a, b, yr, k
<1>4. r = Told(a, b, yr)
  BY <1>3, Fields DEF Told
<1> QED
  BY <1>3, <1>4

LEMMA UpdateKeeps ==
    ASSUME NEW r \in Nat
    PROVE  /\ update_clock(r) \in Nat
           /\ (r \div Field) % Field < Field - 1 => Time(update_clock(r)) = Time(r)
<1>1. PICK a, b \in 0 .. Field - 1, yr \in Nat : r = Told(a, b, yr)
  BY IsTold
<1>2. /\ r % Field = a /\ (r \div Field) % Field = b
      /\ Time(r) = a + DayLength * (b + YearLength * yr)
  BY <1>1, Tells
<1> DEFINE m == CarryMinutes(r)
<1>3. m \in Nat
  BY <1>2, Fields DEF CarryMinutes
<1>4. update_clock(r) \in Nat
  <2>1. PICK a1, b1 \in 0 .. Field - 1, yr1 \in Nat : m = Told(a1, b1, yr1)
    BY <1>3, IsTold
  <2>2. CarryDays(m) \in Nat
    <3>1. Field * Field \in Nat /\ YearLength * Field <= Field * Field /\ YearLength * Field \in Nat
      <4> DEFINE g == Field - YearLength
      <4>1. g \in Nat /\ Field = YearLength + g
        BY Fields
      <4> HIDE DEF g
      <4>2. Field * Field = YearLength * Field + g * Field
        BY <4>1, Fields
      <4>3. g * Field \in Nat /\ YearLength * Field \in Nat
        BY <4>1, Fields
      <4> QED
        BY <4>2, <4>3
    <3> HIDE DEF m
    <3> QED
      BY <1>3, <3>1, Fields DEF CarryDays
  <2> QED
    BY <2>2 DEF update_clock
<1>5. ASSUME b < Field - 1 PROVE Time(update_clock(r)) = Time(r)
  <2>1. \E x, y \in 0 .. Field - 1 : /\ m = Told(x, y, yr)
                                     /\ x + DayLength * (y + YearLength * yr)
                                          = a + DayLength * (b + YearLength * yr)
    <3>1. CASE a < DayLength
      BY <1>1, <1>2, <3>1, Fields DEF CarryMinutes
    <3>2. CASE a >= DayLength
      <4> DEFINE x == a - DayLength
                 y == b + 1
      <4>1. x \in 0 .. Field - 1 /\ y \in 0 .. Field - 1
        BY <1>5, <3>2, Fields
      <4>2. m = Told(x, y, yr)
        <5>1. m = r + Field - DayLength
          BY <1>2, <3>2, Fields DEF CarryMinutes
        <5>2. Field * y = Field * b + Field /\ Field * b \in Nat /\ Field * Field * yr \in Nat
          BY Fields
        <5> HIDE DEF m
        <5> QED
          BY <1>1, <5>1, <5>2, Fields DEF Told
      <4>3. x + DayLength * (y + YearLength * yr) = a + DayLength * (b + YearLength * yr)
        BY Fields
      <4> HIDE DEF m, x, y
      <4> QED
        BY <4>1, <4>2, <4>3
    <3> QED
      BY <3>1, <3>2, Fields
  <2> HIDE DEF m
  <2>2. PICK x, y \in 0 .. Field - 1 : /\ m = Told(x, y, yr)
                                       /\ x + DayLength * (y + YearLength * yr)
                                            = a + DayLength * (b + YearLength * yr)
    BY <2>1
  <2>3. /\ (m \div Field) % Field = y
        /\ Time(m) = x + DayLength * (y + YearLength * yr)
    BY <2>2, Tells
  <2>4. CASE y < YearLength
    <3>1. CarryDays(m) = m
      BY <2>3, <2>4, Fields DEF CarryDays
    <3> QED
      BY <1>2, <2>2, <2>3, <3>1 DEF update_clock, m
  <2>5. CASE y >= YearLength
    <3> DEFINE z == y - YearLength
               e == yr + 1
    <3>1. z \in 0 .. Field - 1 /\ e \in Nat
      BY <2>5, Fields
    <3>2. CarryDays(m) = Told(x, z, e)
      <4>1. CarryDays(m) = m + Field * Field - YearLength * Field
        BY <2>3, <2>5, Fields DEF CarryDays
      <4>2. /\ Field * z = Field * y - YearLength * Field
            /\ Field * Field * e = Field * Field * yr + Field * Field
            /\ Field * y \in Nat /\ Field * Field * yr \in Nat /\ YearLength * Field \in Nat
        BY Fields
      <4> QED
        BY <2>2, <4>1, <4>2, Fields DEF Told
    <3>3. z + YearLength * e = y + YearLength * yr
      BY Fields
    <3> HIDE DEF z, e
    <3>4. Time(Told(x, z, e)) = x + DayLength * (z + YearLength * e)
      BY <3>1, Tells
    <3> QED
      BY <1>2, <2>2, <3>2, <3>3, <3>4 DEF update_clock, m
  <2> QED
    BY <2>4, <2>5, Fields
<1> QED
  BY <1>2, <1>4, <1>5

-----------------------------------------------------------------------------
(* Both clocks                                                              *)

\* Registers are bytes and tell the time that is due, the shift stays on the register, and
\* what passed is below it.
ClockInv ==
    /\ rtc_regs \in Times /\ Seconds(rtc_regs) = due
    /\ clock_register \in Nat /\ clock_shift \in 0 .. Nibbles
    /\ NibblesAgree

LEMMA ClockStarts == ASSUME RtcInit PROVE ClockInv
<1>1. rtc_regs \in Times
  BY Units DEF RtcInit, Times
<1>4. Seconds(rtc_regs) = due
  <2>1. Minute * 0 = 0 /\ Hour * 0 = 0 /\ Day * 0 = 0
    BY Units
  <2> QED
    BY <2>1 DEF RtcInit, Seconds
<1>2. clock_register = 0 /\ clock_shift = 0 /\ passed = 0 /\ clock_shift \in 0 .. Nibbles
  BY Powers DEF RtcInit
<1>3. 0 % At(0) = 0
  BY Powers
<1> QED
  BY <1>1, <1>2, <1>3, <1>4 DEF ClockInv, NibblesAgree

\* The registers of the clock are a byte each, or two flags.
LEMMA Mbc3Keeps == ASSUME ClockInv, Mbc3Next PROVE ClockInv'
<1>1. UNCHANGED huc3
  BY DEF Mbc3Next, inc_rtc_second, EnableRam, Select, Latch, WriteMbc3
<1>2. rtc_regs' \in Times
  <2>1. CASE inc_rtc_second
    BY <2>1, IncrementedType DEF inc_rtc_second, ClockInv
  <2>2. CASE \E on \in BOOLEAN : EnableRam(on)
    BY <2>2 DEF EnableRam, ClockInv
  <2>3. CASE \E v \in {0} \cup ClockRegisters : Select(v)
    BY <2>3 DEF Select, ClockInv
  <2>4. CASE \E v \in {0, 1} : Latch(v)
    BY <2>4 DEF Latch, ClockInv
  <2>5. ASSUME NEW v \in Writes, NEW high \in BOOLEAN, NEW halt \in BOOLEAN, WriteMbc3(v, high, halt)
        PROVE  rtc_regs' \in Times
    <3>1. rtc_regs \in Times /\ v \in ByteValues
      BY RtcAssumption DEF ClockInv, ByteValues
    <3>2. CASE cur_RAM_bank \in 8 .. 11
      <4>1. rtc_regs' = [rtc_regs EXCEPT ![ClockNames[cur_RAM_bank - 7]] = v]
        BY <2>5, <3>2 DEF WriteMbc3
      <4>2. cur_RAM_bank - 7 \in {1, 2, 3, 4}
        BY <3>2
      <4>3. ClockNames[cur_RAM_bank - 7] \in {"seconds", "minutes", "hours", "days_low"}
        BY <4>2 DEF ClockNames
      <4>4. \A f \in {"seconds", "minutes", "hours", "days_low"} :
              [rtc_regs EXCEPT ![f] = v] \in Times
        BY <3>1 DEF Times
      <4> QED
        BY <4>1, <4>3, <4>4
    <3>3. CASE cur_RAM_bank = 12
      <4>1. rtc_regs' = [rtc_regs EXCEPT !.high = high, !.halt = halt]
        BY <2>5, <3>3 DEF WriteMbc3
      <4> QED
        BY <3>1, <4>1 DEF Times
    <3>4. CASE cur_RAM_bank \notin 8 .. 12
      <4>1. rtc_regs' = rtc_regs
        BY <2>5, <3>4 DEF WriteMbc3
      <4> QED
        BY <3>1, <4>1
    <3>5. cur_RAM_bank \in 8 .. 12 <=> cur_RAM_bank \in 8 .. 11 \/ cur_RAM_bank = 12
      OBVIOUS
    <3> QED
      BY <3>2, <3>3, <3>4, <3>5
  <2> QED
    BY <2>1, <2>2, <2>3, <2>4, <2>5 DEF Mbc3Next
<1>3. Seconds(rtc_regs') = due'
  <2>1. CASE inc_rtc_second
    <3>1. CASE rtc_regs.halt \/ (InRange(rtc_regs) /\ ~LastSecond(rtc_regs))
      BY <2>1, <3>1, CountsOne DEF inc_rtc_second, ClockInv
    <3>2. CASE ~rtc_regs.halt /\ ~(InRange(rtc_regs) /\ ~LastSecond(rtc_regs))
      BY <2>1, <3>2, Zenon DEF inc_rtc_second
    <3> QED
      BY <3>1, <3>2
  <2>2. CASE \E on \in BOOLEAN : EnableRam(on)
    BY <2>2 DEF EnableRam, ClockInv
  <2>3. CASE \E v \in {0} \cup ClockRegisters : Select(v)
    BY <2>3 DEF Select, ClockInv
  <2>4. CASE \E v \in {0, 1} : Latch(v)
    BY <2>4 DEF Latch, ClockInv
  <2>5. ASSUME NEW v \in Writes, NEW high \in BOOLEAN, NEW halt \in BOOLEAN, WriteMbc3(v, high, halt)
        PROVE  Seconds(rtc_regs') = due'
    <3>1. CASE cur_RAM_bank \in ClockRegisters
      BY <2>5, <3>1, Zenon DEF WriteMbc3
    <3>2. CASE cur_RAM_bank \notin ClockRegisters
      <4>1. cur_RAM_bank \notin 8 .. 11 /\ cur_RAM_bank # 12
        BY <3>2 DEF ClockRegisters
      <4>2. rtc_regs' = rtc_regs /\ due' = due
        BY <2>5, <3>2, <4>1, Zenon DEF WriteMbc3
      <4> QED
        BY <4>2 DEF ClockInv
    <3> QED
      BY <3>1, <3>2
  <2> QED
    BY <2>1, <2>2, <2>3, <2>4, <2>5 DEF Mbc3Next
<1> QED
  BY <1>1, <1>2, <1>3 DEF ClockInv, NibblesAgree, huc3

LEMMA Huc3Keeps == ASSUME ClockInv, Huc3Next PROVE ClockInv'
<1>1. /\ clock_register \in Nat /\ clock_shift \in 0 .. Nibbles
      /\ passed = clock_register % At(clock_shift) /\ Nibbles \in Nat
  BY Powers DEF ClockInv, NibblesAgree
<1>2. rtc_regs' \in Times /\ Seconds(rtc_regs') = due'
  <2>1. rtc_regs' = rtc_regs /\ due' = due
    BY DEF Huc3Next, ReadNibble, Status, WriteNibble, Sync, mbc3
  <2> QED
    BY <2>1 DEF ClockInv
<1> DEFINE p == At(clock_shift)
           old == (clock_register \div p) % NibbleSize
<1>3. p \in Nat \ {0} /\ At(clock_shift + 1) = NibbleSize * p /\ NibbleSize \in Nat \ {0}
  BY <1>1, Powers
<1>4. clock_shift < Nibbles => clock_shift + 1 \in 0 .. Nibbles
  BY <1>1
<1>5. CASE ReadNibble
  <2>1. /\ passed' = passed + old * p /\ clock_shift' = clock_shift + 1
        /\ clock_register' = clock_register /\ clock_shift < Nibbles
    BY <1>5 DEF ReadNibble
  <2>2. clock_register % (NibbleSize * p) = (clock_register % p) + old * p
    <3>1. 0 \in 0 .. NibbleSize - 1
      BY <1>3
    <3> HIDE DEF p
    <3> QED
      BY <1>1, <1>3, <3>1, Nibble
  <2>3. At(clock_shift') = NibbleSize * p
    BY <1>3, <2>1
  <2> HIDE DEF p, old
  <2>4. passed' = clock_register' % At(clock_shift')
    BY <1>1, <2>1, <2>2, <2>3 DEF p
  <2> QED
    BY <1>1, <1>2, <1>4, <2>1, <2>4 DEF ClockInv, NibblesAgree
<1>6. ASSUME NEW v \in 0 .. NibbleSize - 1, WriteNibble(v) PROVE ClockInv'
  <2> DEFINE w == v % NibbleSize
  <2>1. /\ passed' = passed + w * p /\ clock_shift' = clock_shift + 1
        /\ clock_register' = clock_register - old * p + w * p /\ clock_shift < Nibbles
    BY <1>6 DEF WriteNibble
  <2>2. w \in 0 .. NibbleSize - 1
    BY <1>3
  <2> HIDE DEF w
  <2>3. /\ clock_register - old * p + w * p \in Nat
        /\ (clock_register - old * p + w * p) % (NibbleSize * p) = (clock_register % p) + w * p
    <3> HIDE DEF p
    <3> QED
      BY <1>1, <1>3, <2>2, Nibble, ZenonT(40)
  <2>4. At(clock_shift') = NibbleSize * p
    BY <1>3, <2>1
  <2> HIDE DEF p, old
  <2>5. passed' = clock_register' % At(clock_shift') /\ clock_register' \in Nat
    BY <1>1, <2>1, <2>3, <2>4 DEF p
  <2> QED
    BY <1>1, <1>2, <1>4, <2>1, <2>5 DEF ClockInv, NibblesAgree
<1>7. ASSUME NEW reset \in BOOLEAN, Sync(reset) PROVE ClockInv'
  <2>1. clock_register' \in Nat
    BY <1>1, <1>7, UpdateKeeps DEF Sync
  <2>2. CASE reset
    <3>1. clock_shift' = 0 /\ passed' = 0
      BY <1>7, <2>2 DEF Sync
    <3>2. clock_register' % At(0) = 0 /\ 0 \in 0 .. Nibbles
      BY <1>1, <2>1, Powers
    <3> QED
      BY <1>1, <1>2, <2>1, <3>1, <3>2 DEF ClockInv, NibblesAgree
  <2>3. CASE ~reset
    <3>1. clock_shift' = clock_shift /\ passed' = clock_register' % At(clock_shift)
      BY <1>7, <2>3 DEF Sync
    <3> QED
      BY <1>1, <1>2, <2>1, <3>1 DEF ClockInv, NibblesAgree
  <2> QED
    BY <2>2, <2>3
<1>8. CASE Status
  BY <1>1, <1>2, <1>8 DEF Status, ClockInv, NibblesAgree
<1> QED
  BY <1>5, <1>6, <1>7, <1>8 DEF Huc3Next

LEMMA ClockHolds == RtcSpec => []ClockInv
<1>1. ClockInv /\ [RtcNext]_rtcVars => ClockInv'
  <2> SUFFICES ASSUME ClockInv, [RtcNext]_rtcVars PROVE ClockInv'
    OBVIOUS
  <2>1. CASE UNCHANGED rtcVars
    BY <2>1 DEF rtcVars, mbc3, huc3, ClockInv, NibblesAgree
  <2> QED
    BY <2>1, Mbc3Keeps, Huc3Keeps DEF RtcNext
<1> QED
  BY <1>1, ClockStarts, PTL DEF RtcSpec

\* The clock of an MBC3 tells the time that was set and the seconds passed since, through
\* all carries, and what a game reads and writes of a HUC3 nibble by nibble is its
\* register, whose carries keep the time that was set (inc_rtc_second, update_clock).
THEOREM ClocksAreExact == RtcSpec => ClockExact
<1>1. ClockInv => NibblesAgree /\ Seconds(rtc_regs) = due
  BY DEF ClockInv
<1> DEFINE RangeStep == InRange(rtc_regs) => InRange(rtc_regs') \/ (ram_enabled /\ cur_RAM_bank >= 8)
           TimeStep == clock_shift' # clock_shift + 1 /\ (clock_register \div Field) % Field < Field - 1
                          => Time(clock_register') = Time(clock_register)
           OnTime == Seconds(rtc_regs) = due
<1>2. ClockInv /\ [RtcNext]_rtcVars => [RangeStep]_rtcVars
  <2> SUFFICES ASSUME ClockInv, RtcNext, InRange(rtc_regs)
               PROVE  InRange(rtc_regs') \/ (ram_enabled /\ cur_RAM_bank >= 8)
    OBVIOUS
  <2>1. CASE inc_rtc_second
    BY <2>1, CountsOne DEF inc_rtc_second, ClockInv
  <2>2. CASE Huc3Next
    BY <2>2 DEF Huc3Next, ReadNibble, Status, WriteNibble, Sync, mbc3
  <2>3. ASSUME NEW v \in Writes, NEW high \in BOOLEAN, NEW halt \in BOOLEAN, WriteMbc3(v, high, halt)
        PROVE  InRange(rtc_regs') \/ (ram_enabled /\ cur_RAM_bank >= 8)
    <3>1. cur_RAM_bank \in 8 .. 11 \/ cur_RAM_bank = 12 => cur_RAM_bank >= 8
      OBVIOUS
    <3> QED
      BY <2>3, <3>1 DEF WriteMbc3
  <2>4. CASE \E on \in BOOLEAN : EnableRam(on)
    BY <2>4 DEF EnableRam
  <2>5. CASE \E v \in {0} \cup ClockRegisters : Select(v)
    BY <2>5 DEF Select
  <2>6. CASE \E v \in {0, 1} : Latch(v)
    BY <2>6 DEF Latch
  <2> QED
    BY <2>1, <2>2, <2>3, <2>4, <2>5, <2>6 DEF RtcNext, Mbc3Next
<1>3. ClockInv /\ [RtcNext]_rtcVars => [TimeStep]_rtcVars
  <2> SUFFICES ASSUME ClockInv, RtcNext PROVE TimeStep
    OBVIOUS
  <2>1. CASE Mbc3Next
    BY <2>1 DEF Mbc3Next, inc_rtc_second, EnableRam, Select, Latch, WriteMbc3, huc3
  <2>2. CASE ReadNibble
    BY <2>2 DEF ReadNibble
  <2>3. CASE \E v \in 0 .. NibbleSize - 1 : WriteNibble(v)
    BY <2>3 DEF WriteNibble
  <2>4. CASE \E reset \in BOOLEAN : Sync(reset)
    BY <2>4, UpdateKeeps DEF Sync, ClockInv
  <2>5. CASE Status
    BY <2>5 DEF Status
  <2> QED
    BY <2>1, <2>2, <2>3, <2>4, <2>5 DEF RtcNext, Huc3Next
<1> HIDE DEF RangeStep, TimeStep
<1>4. RtcSpec => []NibblesAgree /\ []OnTime /\ [][RangeStep]_rtcVars /\ [][TimeStep]_rtcVars
  BY <1>1, <1>2, <1>3, ClockHolds, PTL DEF RtcSpec
<1> QED
  BY <1>4 DEF ClockExact, CountsSeconds, TimeKept, RangeStep, TimeStep
=============================================================================

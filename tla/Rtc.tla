--------------------------------- MODULE Rtc ---------------------------------
(***************************************************************************)
(* The clocks on cartridges: that of an MBC3 (src/core/mmu/mbc3.c), which  *)
(* timers.c ticks once a second and the game reads through a latch, and    *)
(* that of a HUC3 (src/core/mmu/huc3.c), which the game reads and writes   *)
(* four bits at a time and which stands still: the code has no time for it  *)
(* to go by (huc3.c:40).                                                   *)
(*                                                                         *)
(* The lengths of the units are parameters, and so is what a byte holds.   *)
(* Left out: ROM banks and the saving of RAM (module Cartridge), and the   *)
(* files of the clock, which read_RTC and write_RTC do not have yet.       *)
(***************************************************************************)
EXTENDS Naturals

CONSTANTS
    ByteSize,               \* 256
    Minute, Hour, Day,  \* 60, 60 and 24: of the unit before
    RamCounts,          \* RAM banks on the cartridges
    NibbleSize,             \* 16
    Field,              \* NibbleSize^3: minutes, and days, of a HUC3
    DayLength,          \* 24 * 60
    YearLength,         \* 365
    Nibbles,            \* 7, of minutes, days and years
    Writes              \* values the game writes

ASSUME RtcAssumption ==
    /\ \A n \in {ByteSize, Minute, Hour, Day, NibbleSize, Field, DayLength, YearLength, Nibbles} :
          n \in Nat \ {0}
    /\ Minute < ByteSize /\ Hour < ByteSize /\ Day < ByteSize
    /\ DayLength <= Field /\ YearLength <= Field
    /\ Writes \subseteq 0 .. ByteSize - 1 /\ RamCounts \subseteq Nat

VARIABLES
    mbc, rams,          \* "MBC3" or "HUC3"; RAM_bank_count
    rtc_regs, latch_regs,   \* [seconds, minutes, hours, days_low, high, halt]: of the
                            \* flags the bits 0 and 6, the others are left out
    due,                \* history: the time that the game set and the seconds since
    last_latch,
    ram_enabled, cur_RAM_bank,
    selected,           \* history: what the game last asked for
    strayed,            \* history: a write meant for the clock went to RAM
    clock_register, clock_shift, huc3_value,
    passed              \* history: the nibbles passed since the shift was reset

mbc3 == <<rtc_regs, due, latch_regs, last_latch, ram_enabled, cur_RAM_bank, selected, strayed>>
huc3 == <<clock_register, clock_shift, huc3_value, passed>>
rtcVars == <<mbc, rams, mbc3, huc3>>

ClockRegisters == 8 .. 12
ClockNames == <<"seconds", "minutes", "hours", "days_low">>

RtcInit ==
    /\ mbc \in {"MBC3", "HUC3"} /\ rams \in RamCounts
    /\ rtc_regs = [seconds |-> 0, minutes |-> 0, hours |-> 0, days_low |-> 0,
                   high |-> FALSE, halt |-> FALSE]
    /\ due = 0
    /\ latch_regs = rtc_regs /\ last_latch = 0
    /\ ram_enabled = FALSE /\ cur_RAM_bank = 0 /\ selected = 0 /\ strayed = FALSE
    /\ clock_register = 0 /\ clock_shift = 0 /\ huc3_value = 0 /\ passed = 0

-----------------------------------------------------------------------------
(* MBC3                                                                    *)

\* ++reg >= limit, for a byte: a value past the limit goes back to 0 and carries, the
\* largest byte goes back to 0 and does not.
Wraps(v, limit) == v + 1 < ByteSize /\ v + 1 >= limit
Stepped(v, limit) == IF v + 1 >= limit THEN 0 ELSE v + 1

\* inc_rtc_second.  After the last day bit 0 of the flags stays.
Incremented(r) ==
    LET m == Wraps(r.seconds, Minute)
        h == m /\ Wraps(r.minutes, Hour)
        d == h /\ Wraps(r.hours, Day)
    IN  [r EXCEPT !.seconds = Stepped(@, Minute),
                  !.minutes = IF m THEN Stepped(@, Hour) ELSE @,
                  !.hours = IF h THEN Stepped(@, Day) ELSE @,
                  !.days_low = IF d THEN (@ + 1) % ByteSize ELSE @,
                  !.high = @ \/ (d /\ r.days_low + 1 = ByteSize)]

\* The time told in seconds, for registers that hold a time of day.
InRange(r) == r.seconds < Minute /\ r.minutes < Hour /\ r.hours < Day
Seconds(r) == r.seconds + Minute * (r.minutes + Hour * (r.hours + Day *
                  (r.days_low + IF r.high THEN ByteSize ELSE 0)))
LastSecond(r) == /\ r.high /\ r.days_low = ByteSize - 1
                 /\ r.hours = Day - 1 /\ r.minutes = Hour - 1 /\ r.seconds = Minute - 1

\* One second more is due while the clock is not halted.  From registers past their
\* limits, and at the end of the last day, it is whatever the clock makes of them.
inc_rtc_second ==
    /\ IF rtc_regs.halt THEN UNCHANGED <<rtc_regs, due>>
       ELSE /\ rtc_regs' = Incremented(rtc_regs)
            /\ due' = IF InRange(rtc_regs) /\ ~LastSecond(rtc_regs) THEN due + 1
                                                                   ELSE Seconds(rtc_regs')
    /\ UNCHANGED <<mbc, rams, latch_regs, last_latch, ram_enabled, cur_RAM_bank, selected, strayed, huc3>>

EnableRam(on) ==
    /\ ram_enabled' = on
    /\ UNCHANGED <<mbc, rams, rtc_regs, due, latch_regs, last_latch, cur_RAM_bank, selected,
                   strayed, huc3>>

\* val & (RAM_bank_count - 1), with no bits cleared if there is no RAM.
Select(v) ==
    /\ cur_RAM_bank' = IF rams = 0 THEN v ELSE v % rams
    /\ selected' = v
    /\ UNCHANGED <<mbc, rams, rtc_regs, due, latch_regs, last_latch, ram_enabled, strayed, huc3>>

Latch(v) ==
    /\ IF ram_enabled
       THEN /\ last_latch' = v
            /\ latch_regs' = IF last_latch = 0 /\ v = 1 THEN rtc_regs ELSE latch_regs
       ELSE UNCHANGED <<last_latch, latch_regs>>
    /\ UNCHANGED <<mbc, rams, rtc_regs, due, ram_enabled, cur_RAM_bank, selected, strayed, huc3>>

\* A write to 0xA000-0xBFFF, to RAM or to the register selected: of the last one the
\* bits 0 and 6 count.
WriteMbc3(v, high, halt) ==
    /\ ram_enabled
    /\ rtc_regs' = IF cur_RAM_bank \in 8 .. 11
                   THEN [rtc_regs EXCEPT ![ClockNames[cur_RAM_bank - 7]] = v]
                   ELSE IF cur_RAM_bank = 12
                   THEN [rtc_regs EXCEPT !.high = high, !.halt = halt]
                   ELSE rtc_regs
    /\ due' = IF cur_RAM_bank \in ClockRegisters THEN Seconds(rtc_regs') ELSE due
    /\ strayed' = (strayed \/ (cur_RAM_bank <= 3 /\ selected \in ClockRegisters))
    /\ UNCHANGED <<mbc, rams, latch_regs, last_latch, ram_enabled, cur_RAM_bank, selected, huc3>>

Mbc3Next ==
    \/ inc_rtc_second
    \/ \E on \in BOOLEAN : EnableRam(on)
    \/ \E v \in {0} \cup ClockRegisters : Select(v)
    \/ \E v \in {0, 1} : Latch(v)
    \/ \E v \in Writes, high, halt \in BOOLEAN : WriteMbc3(v, high, halt)

-----------------------------------------------------------------------------
(* HUC3                                                                    *)

At(n) == NibbleSize ^ n

\* What ^ is, for the provers.
ASSUME PowerAssumption ==
    /\ At(0) = 1
    /\ \A n \in 0 .. Nibbles : At(n) \in Nat \ {0} /\ At(n + 1) = NibbleSize * At(n)

\* Command 0x10.
ReadNibble ==
    /\ clock_shift < Nibbles
    /\ huc3_value' = (clock_register \div At(clock_shift)) % NibbleSize
    /\ passed' = passed + huc3_value' * At(clock_shift)
    /\ clock_shift' = clock_shift + 1
    /\ UNCHANGED <<mbc, rams, mbc3, clock_register>>

\* Command 0x30.
WriteNibble(v) ==
    /\ clock_shift < Nibbles
    /\ LET old == (clock_register \div At(clock_shift)) % NibbleSize
       IN  clock_register' = clock_register - old * At(clock_shift) + (v % NibbleSize) * At(clock_shift)
    /\ passed' = passed + (v % NibbleSize) * At(clock_shift)
    /\ clock_shift' = clock_shift + 1
    /\ UNCHANGED <<mbc, rams, mbc3, huc3_value>>

\* Faulty variant: a day is added and its minutes are kept.
CarryUp(r) == IF r % Field >= DayLength THEN r + Field ELSE r

\* update_clock.  The time it asks for is always 0, so that nothing has passed since
\* the last call: what is left is one carry of minutes and one of days.
CarryMinutes(r) == IF r % Field >= DayLength THEN r + Field - DayLength ELSE r
CarryDays(r) == IF (r \div Field) % Field >= YearLength THEN r + Field * Field - YearLength * Field ELSE r
update_clock(r) == CarryDays(CarryMinutes(r))

\* Command 0x40, which with some parameters resets the shift; bounded by a register
\* that holds the years the game can set.
Sync(reset) ==
    /\ update_clock(clock_register) < At(Nibbles)
    /\ clock_register' = update_clock(clock_register)
    /\ clock_shift' = IF reset THEN 0 ELSE clock_shift
    /\ passed' = IF reset THEN 0 ELSE clock_register' % At(clock_shift)
    /\ UNCHANGED <<mbc, rams, mbc3, huc3_value>>

\* Command 0x60.
Status == huc3_value' = 1 /\ UNCHANGED <<mbc, rams, mbc3, clock_register, clock_shift, passed>>

Huc3Next ==
    \/ ReadNibble \/ Status
    \/ \E v \in 0 .. NibbleSize - 1 : WriteNibble(v)
    \/ \E reset \in BOOLEAN : Sync(reset)

RtcNext == (mbc = "MBC3" /\ Mbc3Next) \/ (mbc = "HUC3" /\ Huc3Next)
RtcSpec == RtcInit /\ [][RtcNext]_rtcVars

-----------------------------------------------------------------------------
(* Properties                                                              *)

\* A second is a second: through every carry, from any time that the game has set, the
\* clock of an MBC3 tells that time and the seconds passed since with the clock not
\* halted, and goes on telling it as a time of day.  Left out is the end of the last
\* day, where bits of the flags are set that mean nothing.
CountsSeconds ==
    /\ [](Seconds(rtc_regs) = due)
    /\ [][InRange(rtc_regs) => InRange(rtc_regs') \/ (ram_enabled /\ cur_RAM_bank >= 8)]_rtcVars

\* "Set current RAM/RTC mode and banks" (mbc3.c:114): a game that selected a register of
\* the clock does not write to the saved RAM.
ClockSparesRam == ~strayed

\* What a HUC3 game has read or written nibble by nibble is what the register holds.
NibblesAgree == passed = clock_register % At(clock_shift)

\* The time that a HUC3 game has set is kept: carrying minutes into days and days into
\* years changes how it is written.  It does not advance.  Left out are 0xFFF days,
\* which carry into the years unnoticed.
Time(r) == (r % Field) + DayLength * (((r \div Field) % Field) + YearLength * (r \div (Field * Field)))
TimeKept ==
    [][clock_shift' # clock_shift + 1 /\ (clock_register \div Field) % Field < Field - 1
           => Time(clock_register') = Time(clock_register)]_rtcVars

\* The clock of an MBC3 counts the seconds from the time the game has set; that of a HUC3
\* keeps the time it was set to, and hands it out nibble by nibble.
ClockExact == CountsSeconds /\ []NibblesAgree /\ TimeKept
=============================================================================

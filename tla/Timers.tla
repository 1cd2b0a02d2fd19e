------------------------------- MODULE Timers -------------------------------
(***************************************************************************)
(* src/core/timers.c and the writes to DIV, TIMA, TMA and TAC in           *)
(* src/core/mmu/memory.c.                                                  *)
(*                                                                         *)
(* The game writes a register in the course of an instruction;             *)
(* update_timers follows with the instruction's cycles before the next     *)
(* write.  The width of the counter's low byte, of DIV and of TIMA are     *)
(* parameters.                                                             *)
(***************************************************************************)
EXTENDS Naturals

CONSTANTS
    Low,                    \* values of the low byte: 256
    High,                   \* values of DIV: 256
    Tima,                   \* values of TIMA: 256
    timer_frequencies_bits, \* <<10, 4, 6, 8>> for TAC's 0..3
    Cycles,                 \* cycles passed to update_timers
    Values,                 \* written to TIMA and TMA
    Second,                 \* cycles of a second: 4194304
    Div0                    \* DIV after power-up: 0xD3, or 0x44 on a Color

Sels == DOMAIN timer_frequencies_bits
timer_frequencies == [s \in Sels |-> 2^timer_frequencies_bits[s]]

ASSUME TimersAssumption ==
    /\ Low \in Nat \ {0} /\ High \in Nat \ {0} /\ Tima \in Nat \ {0}
    /\ Second \in Nat \ {0} /\ Div0 \in 0..High - 1
    /\ Sels # {} /\ \A s \in Sels : timer_frequencies_bits[s] \in Nat \ {0}
    /\ \A s \in Sels :    \* even, and the counter wraps after a number of periods
          /\ timer_frequencies[s] \in Nat \ {0} /\ timer_frequencies[s] % 2 = 0
          /\ (Low * High) % timer_frequencies[s] = 0
    /\ Values \subseteq 0..Tima - 1
    /\ \A c \in Cycles : c \in Nat /\ 0 < c /\ c < Low * High /\ c < Second

None == 0       \* timer_frequency_bits before the timer was first on

VARIABLES
    timer_counter,          \* the low byte of the counter
    DIV, TIMA, TMA,
    on, sel,                \* bit 2 and bits 0-1 of TAC
    timer_frequency_bits,   \* and timer_frequency, its power of two
    requested,              \* the timer's bit of IF
    clocks,                 \* cycles since the last second of the MBC3 clock
    written                 \* an instruction has written, its cycles are to come

timersVars == <<timer_counter, DIV, TIMA, TMA, on, sel, timer_frequency_bits, requested, clocks,
          written>>

TimersTypeOK ==
    /\ timer_counter \in 0..Low - 1 /\ DIV \in 0..High - 1
    /\ TIMA \in 0..Tima - 1 /\ TMA \in 0..Tima - 1
    /\ on \in BOOLEAN /\ sel \in Sels
    /\ timer_frequency_bits \in {None} \cup {timer_frequencies_bits[s] : s \in Sels}
    /\ requested \in BOOLEAN /\ clocks \in 0..Second - 1 /\ written \in BOOLEAN

\* Power-up: TAC holds 0xF8, the timer off and the first frequency selected.
TimersInit ==
    /\ timer_counter = 0 /\ DIV = Div0 /\ TIMA = 0 /\ TMA = 0
    /\ on = FALSE /\ sel \in Sels /\ (\A s \in Sels : sel <= s)
    /\ timer_frequency_bits = None /\ requested = FALSE
    /\ clocks = 0 /\ written = FALSE

Full == DIV * Low + timer_counter

\* n calls of increment_tima.
Incremented(n) ==
    LET after[i \in 0..n] ==
            IF i = 0 THEN <<TIMA, FALSE>>
            ELSE LET t == (after[i - 1][1] + 1) % Tima
                 IN  IF t = 0 THEN <<TMA, TRUE>> ELSE <<t, after[i - 1][2]>>
    IN  after[n]

increment_tima(n) ==
    /\ TIMA' = Incremented(n)[1]
    /\ requested' = (requested \/ Incremented(n)[2])

\* The low byte overflows into DIV as often as it takes.
Carry(c) ==
    LET counter == timer_counter + c
    IN  DIV' = (DIV + counter \div Low) % High /\ timer_counter' = counter % Low

SetFrequency ==
    timer_frequency_bits' = IF on THEN timer_frequencies_bits[sel] ELSE timer_frequency_bits

\* update_timers, after every instruction and every idle iteration.
Update(c) ==
    /\ clocks' = IF clocks + c >= Second THEN clocks + c - Second ELSE clocks + c
    /\ Carry(c)
    /\ SetFrequency
    /\ LET full == DIV' * Low + timer_counter'
           unwrapped == IF Full > full THEN full + Low * High ELSE full
           bits == timer_frequency_bits'
       IN  increment_tima(IF on THEN unwrapped \div 2^bits - Full \div 2^bits ELSE 0)
    /\ written' = FALSE
    /\ UNCHANGED <<TMA, on, sel>>

\* The counter & (get_timer_frequency() >> 1).  The frequency starts out as -1, which
\* has every bit.
HalfReached ==
    IF timer_frequency_bits = None THEN Full # 0
    ELSE (Full \div (2^timer_frequency_bits \div 2)) % 2 = 1

\* Faulty variant: only the upper byte is reset.
WriteDIVUpper ==
    /\ ~written /\ written' = TRUE
    /\ DIV' = 0
    /\ increment_tima(IF HalfReached THEN 1 ELSE 0)
    /\ UNCHANGED <<timer_counter, TMA, on, sel, timer_frequency_bits, clocks>>

\* Resets the counter, and drops the line whether or not the timer is on.
WriteDIV ==
    /\ ~written /\ written' = TRUE
    /\ DIV' = 0 /\ timer_counter' = 0
    /\ increment_tima(IF HalfReached THEN 1 ELSE 0)
    /\ UNCHANGED <<TMA, on, sel, timer_frequency_bits, clocks>>

WriteTAC ==
    /\ ~written /\ written' = TRUE
    /\ on' \in BOOLEAN /\ sel' \in Sels
    /\ increment_tima(IF on /\ ~on' /\ HalfReached THEN 1 ELSE 0)
    /\ UNCHANGED <<timer_counter, DIV, TMA, timer_frequency_bits, clocks>>

WriteTIMA ==
    /\ ~written /\ written' = TRUE
    /\ TIMA' \in Values
    /\ UNCHANGED <<timer_counter, DIV, TMA, on, sel, timer_frequency_bits, requested, clocks>>

WriteTMA ==
    /\ ~written /\ written' = TRUE
    /\ TMA' \in Values
    /\ UNCHANGED <<timer_counter, DIV, TIMA, on, sel, timer_frequency_bits, requested, clocks>>

\* The interrupt is serviced, or the game clears IF.
Acknowledge ==
    /\ requested /\ requested' = FALSE
    /\ UNCHANGED <<timer_counter, DIV, TIMA, TMA, on, sel, timer_frequency_bits, clocks,
                   written>>

TimersNext ==
    \/ \E c \in Cycles : Update(c)
    \/ WriteDIV \/ WriteTAC \/ WriteTIMA \/ WriteTMA
    \/ Acknowledge

TimersSpec == TimersInit /\ [][TimersNext]_timersVars

\* A game that writes DIV only while the timer is on.  With the timer off a write
\* counts all the same, and by the frequency selected when it was last on.
OnSpec == TimersInit /\ [][TimersNext /\ (WriteDIV => on)]_timersVars

-----------------------------------------------------------------------------
(* Properties                                                              *)

\* While the timer is on, and an instruction is not half done, the frequency in use
\* is the selected one, although it is set only in passing by update_timers.
FrequencyFollows == on /\ ~written => timer_frequency_bits = timer_frequencies_bits[sel]

\* Shifts of a counter split over two bytes and updated in batches count exactly the
\* falling edges of the selected bit.
Edges == INSTANCE EdgeCounter
    WITH Period <- Low * High,
         Weight <- [s \in Sels |-> timer_frequencies[s] \div 2],
         counter <- Full, tima <- TIMA, tma <- TMA
EdgeSpec == Edges!Spec

\* TIMA counts the falling edges of the selected bit, which is the one TAC selects.
TimerExact == [](TimersTypeOK /\ FrequencyFollows) /\ EdgeSpec
=============================================================================

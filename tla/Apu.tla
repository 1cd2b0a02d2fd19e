-------------------------------- MODULE Apu --------------------------------
(***************************************************************************)
(* The sound chip (src/core/audio/Gb_Apu.cpp, Gb_Oscs.cpp, Gb_Oscs.h) as    *)
(* sound_SDL.cpp drives it: the game's cycles only add to a counter, and    *)
(* the chip catches up to that counter when a register is read or written   *)
(* and when a frame of MaxCycles ends.  Catching up runs the oscillators    *)
(* over the whole interval at once and the frame sequencer at its steps.    *)
(*                                                                          *)
(* Kept: the frame sequencer, length counters, envelopes, the sweep, the    *)
(* frequency timers, triggers, the DACs, power and panning.  Left out: the  *)
(* amplitudes put into the sample buffers, the contents of wave RAM and     *)
(* the hardware modes the program never selects (the constructor's          *)
(* mode_cgb is the only one).  The phase of the noise is the number of      *)
(* clocks its shift register was given (the register itself is in Lfsr).    *)
(*                                                                          *)
(* A chip has a record per oscillator it plays; the oscillators meet only   *)
(* in the frame sequencer and the power bit.                                *)
(***************************************************************************)
EXTENDS Integers

CONSTANTS
  FramePeriod,   \* clocks between two steps of the frame sequencer (8192)
  MaxCycles,     \* clocks of a frame (70000)
  Spent,         \* what one call of sound_add_cycles may add
  SquareLength,  \* longest length of squares and noise (64)
  WaveLength,    \* longest length of the wave (256)
  LowSize,       \* values of the low frequency register (256)
  HighSize,      \* values of the high frequency bits (8)
  MaxVolume,     \* 15
  Tick,          \* clocks of a square's fastest period (4), twice a wave's
  WaveDelay,     \* clocks from a trigger to the wave's first period (6)
  NoiseDelay,    \* clocks a trigger adds to the noise timer (8)
  NoisePeriod,   \* shortest period of the noise's divider (8)
  MaxDelay,      \* bound: no trigger of the noise beyond this delay
  Slow,          \* clocks an envelope or sweep timer takes for period 0 (8)
  DutySteps,     \* phases of a square (8)
  WaveSteps,     \* phases of the wave (32)
  NoiseSteps,    \* clocks after which the noise counts as repeated
  DividerSize,   \* values of the noise divider (0x20000)
  Untriggered,   \* delay of a square that was never triggered (0x40000000)
  Played,        \* the sets of oscillators a chip may play
  Sweeps,        \* per oscillator: what the game writes to its register 0,
  Lengths,       \*   1,
  Envelopes,     \*   2,
  Lows,          \*   3
  Highs          \*   and 4

\* A period divides the divider in halves, or is too long for it.
DividerFits(p) ==
  /\ p \in Nat \ {0} /\ p % 2 = 0
  /\ p < DividerSize => DividerSize % p = 0

ASSUME ApuAssumption ==
  /\ {FramePeriod, MaxCycles, SquareLength, WaveLength, LowSize, HighSize,
      Tick, Slow, DutySteps, WaveSteps, NoiseSteps, DividerSize} \subseteq Nat \ {0}
  /\ {MaxVolume, Untriggered, WaveDelay, NoiseDelay, MaxDelay} \subseteq Nat
  /\ Tick % 2 = 0
  /\ DividerFits(NoisePeriod)
  /\ Spent \subseteq 1 .. MaxCycles
  /\ Played \subseteq SUBSET {"square1", "square2", "wave", "noise"}

VARIABLES chip, cycles
apuVars == <<chip, cycles>>

Enveloped == {"square1", "square2", "noise"}

MaxLength(v) == IF v = "wave" THEN WaveLength ELSE SquareLength

MaxFrequency == LowSize * HighSize - 1

frequency(o) == o.high * LowSize + o.low

\* What a game's bytes decode to.
ASSUME WritesAssumption ==
  /\ Sweeps["wave"] \subseteq BOOLEAN /\ 2 ^ 0 = 1
  /\ \A v \in Enveloped : \A w \in Sweeps[v] : 2 ^ w.shift \in Nat \ {0}
  /\ \A v \in Enveloped \cup {"wave"} :
       /\ Lengths[v] \subseteq 0 .. MaxLength(v) - 1
       /\ v # "noise" => Lows[v] \subseteq 0 .. LowSize - 1
       /\ v = "noise" => \A w \in Lows[v] : w.period1 \in Nat \ {0} /\ DividerFits(w.period2)
       /\ Highs[v] \subseteq [high : 0 .. HighSize - 1, length_on : BOOLEAN, trigger : BOOLEAN]

-----------------------------------------------------------------------------
(* The units. *)

dac_enabled(v, o) ==
  IF v = "wave" THEN o.dac ELSE o.env.volume > 0 \/ o.env.up

clock_length(o) ==
  IF o.length_on /\ o.length_ctr > 0
  THEN [o EXCEPT !.length_ctr = @ - 1, !.enabled = @ /\ o.length_ctr > 1]
  ELSE o

EnvTimer(o) == IF o.env.period = 0 THEN Slow ELSE o.env.period

clock_envelope(o) ==
  LET v == o.volume + (IF o.env.up THEN 1 ELSE -1)
      reloaded == [o EXCEPT !.env_delay = EnvTimer(o)]
  IN  IF ~o.env_enabled THEN o
      ELSE IF o.env_delay > 1 THEN [o EXCEPT !.env_delay = @ - 1]
      ELSE IF o.env.period = 0 THEN reloaded
      ELSE IF v \in 0 .. MaxVolume THEN [reloaded EXCEPT !.volume = v]
      ELSE [reloaded EXCEPT !.env_enabled = FALSE]

SweepTimer(o) == IF o.sweep.period = 0 THEN Slow ELSE o.sweep.period

calc_sweep(o, update) ==
  LET delta == o.sweep_freq \div 2 ^ o.sweep.shift
      freq == o.sweep_freq + (IF o.sweep.neg THEN -delta ELSE delta)
      p == [o EXCEPT !.sweep_neg = o.sweep.neg]
  IN  IF freq > MaxFrequency THEN [p EXCEPT !.enabled = FALSE]
      ELSE IF o.sweep.shift > 0 /\ update
      THEN [p EXCEPT !.sweep_freq = freq,
              !.low = freq % LowSize, !.high = (freq \div LowSize) % HighSize]
      ELSE p

clock_sweep(o) ==
  LET reloaded == [o EXCEPT !.sweep_delay = SweepTimer(o)]
  IN  IF o.sweep_delay > 1 THEN [o EXCEPT !.sweep_delay = @ - 1]
      ELSE IF o.sweep_enabled /\ o.sweep.period > 0
      THEN calc_sweep(calc_sweep(reloaded, TRUE), FALSE)
      ELSE reloaded

-----------------------------------------------------------------------------
(* The oscillators over n clocks. *)

period(v, o) ==
  (MaxFrequency + 1 - frequency(o)) * (IF v = "wave" THEN Tick \div 2 ELSE Tick)

\* Clocks of a timer that first expires after delay, in n clocks.
Expiries(delay, per, n) == IF n > delay THEN (n - delay + per - 1) \div per ELSE 0

\* Squares and wave: Gb_Square::run and Gb_Wave::run.
RunTone(v, o, n) ==
  LET per == period(v, o)
      count == Expiries(o.delay, per, n)
      size == IF v = "wave" THEN WaveSteps ELSE DutySteps
  IN  [o EXCEPT !.phase = (@ + count) % size,
                !.delay = o.delay + count * per - n]

\* Gb_Noise::run: a prescaler, a divider and the shift register behind them;
\* the register is clocked where the divider passes half its period, and not at all
\* for the two longest periods.
RunNoise(o, n) ==
  LET count == Expiries(o.delay, o.period1, n)
      first == o.delay + ((o.divider + o.period2 \div 2) % o.period2) * o.period1
      clocks == IF o.period2 < DividerSize
                THEN Expiries(first, o.period2 * o.period1, n) ELSE 0
  IN  [o EXCEPT !.phase = (@ + clocks) % NoiseSteps,
                !.divider = (@ + count * (DividerSize - 1)) % DividerSize,
                !.delay = o.delay + count * o.period1 - n]

run(v, o, n) == IF v = "noise" THEN RunNoise(o, n) ELSE RunTone(v, o, n)

-----------------------------------------------------------------------------
(* Catching up. *)

RunOscs(c, time) ==
  [c EXCEPT !.osc = [v \in DOMAIN c.osc |-> run(v, c.osc[v], time - c.last_time)],
            !.last_time = time]

Clocked(phase, v, o) ==
  LET swept == IF phase \in {2, 6} /\ v = "square1" THEN clock_sweep(o) ELSE o
  IN  IF phase \in {0, 2, 4, 6} THEN clock_length(swept)
      ELSE IF phase = 7 /\ v \in Enveloped THEN clock_envelope(o)
      ELSE o

Sequenced(c) ==
  [c EXCEPT !.frame_time = @ + FramePeriod,
            !.frame_phase = (@ + 1) % 8,
            !.osc = [v \in DOMAIN c.osc |-> Clocked(c.frame_phase, v, c.osc[v])]]

\* Faulty variant: the sequencer also steps at the very end of the interval.
RunUntilEager(c, end_time) ==
  LET steps == IF end_time < c.frame_time THEN 0
               ELSE (end_time - c.frame_time) \div FramePeriod + 1
      After[k \in 0 .. steps] ==
        IF k = 0 THEN c
        ELSE Sequenced(RunOscs(After[k - 1], After[k - 1].frame_time))
  IN  RunOscs(After[steps], end_time)

\* run_until_: the oscillators run to the next step of the sequencer, which
\* then steps, until the end is reached; a step due at the very end is left
\* to the next call.
run_until(c, end_time) ==
  LET steps == IF end_time <= c.frame_time THEN 0
               ELSE (end_time - c.frame_time + FramePeriod - 1) \div FramePeriod
      After[k \in 0 .. steps] ==
        IF k = 0 THEN c
        ELSE Sequenced(RunOscs(After[k - 1], After[k - 1].frame_time))
  IN  RunOscs(After[steps], end_time)

EndFrame(c) ==
  LET d == run_until(c, IF MaxCycles > c.last_time THEN MaxCycles ELSE c.last_time)
  IN  [d EXCEPT !.frame_time = @ - MaxCycles, !.last_time = @ - MaxCycles]

-----------------------------------------------------------------------------
(* Registers.  o already holds the new value; old is the one before it. *)

\* Faulty variant: a length that the extra clock uses up stops nothing.
write_trigKept(c, v, o, old, w) ==
  LET odd == c.frame_phase % 2 = 1
      extra == IF odd /\ ~old.length_on /\ w.length_on /\ o.length_ctr > 0 THEN 1 ELSE 0
      left == o.length_ctr - extra
      full == MaxLength(v) - (IF odd /\ w.length_on THEN 1 ELSE 0)
  IN  [o EXCEPT !.length_ctr = IF w.trigger /\ left = 0 THEN full ELSE left,
                !.enabled = @ \/ w.trigger]

\* Setting the length bit in an odd phase counts once at once; a trigger
\* reloads a length that ran out; without length nothing stays enabled.
write_trig(c, v, o, old, w) ==
  LET odd == c.frame_phase % 2 = 1
      extra == IF odd /\ ~old.length_on /\ w.length_on /\ o.length_ctr > 0 THEN 1 ELSE 0
      left == o.length_ctr - extra
      full == MaxLength(v) - (IF odd /\ w.length_on THEN 1 ELSE 0)
      length == IF w.trigger /\ left = 0 THEN full ELSE left
  IN  [o EXCEPT !.length_ctr = length, !.enabled = (@ \/ w.trigger) /\ length > 0]

\* The volume changes under a running envelope (CGB-04 and CGB-02).
zombie_volume(old, o) ==
  LET bumped == o.volume + (IF old.env.period = 0 /\ o.env_enabled THEN 1
                            ELSE IF ~old.env.up THEN 2 ELSE 0)
      turned == IF old.env.up # o.env.up THEN MaxVolume + 1 - bumped ELSE bumped
  IN  [o EXCEPT !.volume = turned % (MaxVolume + 1)]

WriteEnvelope(v, old, o) ==
  LET z == zombie_volume(old, [o EXCEPT !.enabled = @ /\ dac_enabled(v, o)])
  IN  IF o.env.period > 0 /\ o.env_delay = Slow
      THEN clock_envelope([z EXCEPT !.env_delay = 1])
      ELSE z

EnvTriggered(c, v, o) ==
  [o EXCEPT !.volume = o.env.volume, !.env_enabled = TRUE,
            !.env_delay = EnvTimer(o) + (IF c.frame_phase = 7 THEN 1 ELSE 0),
            !.enabled = @ /\ dac_enabled(v, o)]

SquareTriggered(v, o) == [o EXCEPT !.delay = (@ % Tick) + period(v, o)]

NoiseTriggered(o) == [o EXCEPT !.phase = 0, !.delay = @ + NoiseDelay]

WaveTriggered(o) ==
  [o EXCEPT !.enabled = @ /\ dac_enabled("wave", o),
            !.phase = 0, !.delay = period("wave", o) + WaveDelay]

SweepTriggered(o) ==
  LET p == [o EXCEPT !.sweep_freq = frequency(o), !.sweep_neg = FALSE,
                     !.sweep_delay = SweepTimer(o),
                     !.sweep_enabled = o.sweep.period > 0 \/ o.sweep.shift > 0]
  IN  IF o.sweep.shift > 0 THEN calc_sweep(p, FALSE) ELSE p

Triggered(c, v, o) ==
  CASE v = "square1" -> SweepTriggered(SquareTriggered(v, EnvTriggered(c, v, o)))
    [] v = "square2" -> SquareTriggered(v, EnvTriggered(c, v, o))
    [] v = "noise"   -> NoiseTriggered(EnvTriggered(c, v, o))
    [] v = "wave"    -> WaveTriggered(o)

WriteHigh(c, v, old, w) ==
  LET o == write_trig(c, v, [old EXCEPT !.high = w.high, !.length_on = w.length_on], old, w)
  IN  IF w.trigger THEN Triggered(c, v, o) ELSE o

\* Register 0: the sweep of the first square, which stops it when a used
\* negation is taken back, and the DAC of the wave.
WriteSweep(v, old, w) ==
  IF v = "wave" THEN [old EXCEPT !.dac = w, !.enabled = @ /\ w]
  ELSE [old EXCEPT !.sweep = w,
          !.enabled = @ /\ ~(old.sweep_enabled /\ old.sweep_neg /\ ~w.neg)]

WriteLow(v, old, w) ==
  IF v = "noise" THEN [old EXCEPT !.period1 = w.period1, !.period2 = w.period2]
  ELSE [old EXCEPT !.low = w]

-----------------------------------------------------------------------------
(* The chip after reset, and after the power bit changed.  The constructor  *)
(* clears env_enabled; reset does not.                                       *)

ResetOsc(v, env_enabled) ==
  [dac |-> FALSE, length_on |-> FALSE, low |-> 0, high |-> 0,
   period1 |-> 1, period2 |-> NoisePeriod,
   env |-> [volume |-> 0, up |-> FALSE, period |-> 0],
   sweep |-> [period |-> 0, neg |-> FALSE, shift |-> 0],
   length_ctr |-> MaxLength(v), enabled |-> FALSE, phase |-> 0,
   delay |-> CASE v = "noise" -> Tick [] v = "wave" -> 0 [] OTHER -> Untriggered,
   env_delay |-> 0, volume |-> 0, env_enabled |-> env_enabled,
   sweep_freq |-> 0, sweep_delay |-> 0, sweep_enabled |-> FALSE, sweep_neg |-> FALSE,
   divider |-> 0]

reset(voices) ==
  [last_time |-> 0, frame_time |-> 0, frame_phase |-> 0, power |-> FALSE,
   osc |-> [v \in voices |-> ResetOsc(v, FALSE)]]

PowerSwitched(c, on) ==
  [c EXCEPT !.power = on, !.frame_phase = 0,
            !.osc = [v \in DOMAIN c.osc |-> ResetOsc(v, c.osc[v].env_enabled)]]

-----------------------------------------------------------------------------
Init == /\ chip \in {reset(voices) : voices \in Played}
        /\ cycles = 0

\* sound_add_cycles; c ends at most one frame.
sound_add_cycles(c) ==
  IF cycles + c >= MaxCycles
  THEN /\ cycles' = cycles + c - MaxCycles
       /\ chip' = EndFrame(chip)
  ELSE /\ cycles' = cycles + c
       /\ UNCHANGED chip

\* write_register for a register of oscillator v: nothing while the power is
\* off, else the chip catches up and the register takes effect.
WriteOsc(v, New(_, _)) ==
  /\ chip.power
  /\ LET c == run_until(chip, cycles)
     IN  chip' = [c EXCEPT !.osc[v] = New(c, @)]
  /\ UNCHANGED cycles

WriteReg0(v) == \E w \in Sweeps[v] : WriteOsc(v, LAMBDA c, o : WriteSweep(v, o, w))

WriteReg1(v) ==
  \E w \in Lengths[v] :
    WriteOsc(v, LAMBDA c, o : [o EXCEPT !.length_ctr = MaxLength(v) - w])

WriteReg2(v) ==
  \E w \in Envelopes[v] :
    WriteOsc(v, LAMBDA c, o : WriteEnvelope(v, o, [o EXCEPT !.env = w]))

WriteReg3(v) == \E w \in Lows[v] : WriteOsc(v, LAMBDA c, o : WriteLow(v, o, w))

WriteReg4(v) ==
  /\ v = "noise" => chip.osc[v].delay + NoiseDelay <= MaxDelay
  /\ \E w \in Highs[v] : WriteOsc(v, LAMBDA c, o : WriteHigh(c, v, o, w))

\* The power bit of NR52.
WritePower(on) ==
  LET c == run_until(chip, cycles)
  IN  /\ chip' = IF on # chip.power THEN PowerSwitched(c, on) ELSE c
      /\ UNCHANGED cycles

\* Reading a register, and writing one without effect on the oscillators.
read_register == /\ chip' = run_until(chip, cycles)
                 /\ UNCHANGED cycles

Cycles == \E c \in Spent : sound_add_cycles(c)

Write == \E v \in DOMAIN chip.osc :
  WriteReg0(v) \/ WriteReg1(v) \/ WriteReg2(v) \/ WriteReg3(v) \/ WriteReg4(v)

Next == Cycles \/ Write \/ (\E on \in BOOLEAN : WritePower(on)) \/ read_register

ApuSpec == Init /\ [][Next]_apuVars

-----------------------------------------------------------------------------
(* Properties. *)

\* The chip is never asked to run backwards and never ahead of its own
\* sequencer: the requirement of run_until and the two assertions of
\* end_frame, over a counter that other code moves.
TimeInOrder ==
  /\ chip.last_time \in 0 .. cycles
  /\ chip.frame_time \in chip.last_time .. chip.last_time + FramePeriod - 1
  /\ EndFrame(chip).last_time >= 0 /\ EndFrame(chip).frame_time >= 0

\* The same chip clocked one clock at a time.
ClockTimer(o, per, size) ==
  IF o.delay = 0 THEN [o EXCEPT !.phase = (@ + 1) % size, !.delay = per - 1]
  ELSE [o EXCEPT !.delay = @ - 1]

ClockNoise(o) ==
  LET passes == o.period2 < DividerSize /\ o.divider % o.period2 = o.period2 \div 2
  IN  IF o.delay > 0 THEN [o EXCEPT !.delay = @ - 1]
      ELSE [o EXCEPT !.delay = o.period1 - 1,
                     !.divider = (@ + DividerSize - 1) % DividerSize,
                     !.phase = IF passes THEN (@ + 1) % NoiseSteps ELSE @]

ClockOsc(v, o) ==
  CASE v = "noise" -> ClockNoise(o)
    [] v = "wave"  -> ClockTimer(o, period(v, o), WaveSteps)
    [] OTHER       -> ClockTimer(o, period(v, o), DutySteps)

Clock(c) ==
  LET d == IF c.last_time = c.frame_time THEN Sequenced(c) ELSE c
  IN  [d EXCEPT !.last_time = @ + 1,
                !.osc = [v \in DOMAIN d.osc |-> ClockOsc(v, d.osc[v])]]

ClockedTo(c, time) ==
  LET After[n \in 0 .. time - c.last_time] == IF n = 0 THEN c ELSE Clock(After[n - 1])
  IN  After[time - c.last_time]

\* Catching up gives the chip that clocking it all along would have given:
\* no clock of a timer, a divider or the sequencer is lost or counted twice
\* where intervals meet, whatever their lengths.
CatchesUp == run_until(chip, cycles) = ClockedTo(chip, cycles)

\* An oscillator is enabled only with power, a DAC and length left, however
\* triggers, lengths, DACs and the power bit were written in between.
AliveIfEnabled ==
  \A v \in DOMAIN chip.osc : chip.osc[v].enabled =>
    chip.power /\ dac_enabled(v, chip.osc[v]) /\ chip.osc[v].length_ctr > 0

\* The frequency the sweep writes back fits its registers.
SweepFits ==
  \A v \in DOMAIN chip.osc : /\ chip.osc[v].sweep_freq \in 0 .. MaxFrequency
                             /\ frequency(chip.osc[v]) \in 0 .. MaxFrequency

\* Without writes an oscillator with its length counter on falls silent
\* within the sequencer steps its longest length takes, wherever in a frame
\* and in the eight phases it was started.
SilentInTime ==
  \A v \in DOMAIN chip.osc :
    LET o == run_until(chip, cycles + 2 * MaxLength(v) * FramePeriod).osc[v]
    IN  o.length_on => ~o.enabled

\* The chip's time goes forward, no oscillator plays that should not, and none has a
\* frequency its registers cannot hold.
ChipExact == TimeInOrder /\ AliveIfEnabled /\ SweepFits

\* Run late and in leaps, the chip loses no clock, and falls silent as it would.
RunsAsClocked == CatchesUp /\ SilentInTime
=============================================================================

----------------------------- MODULE FramePacing -----------------------------
(* The pace of frames (shared_libs/SDL2/framerate_SDL.c): after each frame    *)
(* the program waits until a frame's time has passed since the last one, by   *)
(* sleeping for most of it and looking at the clock for the rest.             *)
(* Times are counts of clock ticks, microseconds in the program.              *)
EXTENDS Integers

CONSTANTS
  Second,        \* ticks of a second (1000000)
  Rates,         \* frame rates, in tenths of a frame per second
  Tick,          \* ticks of a unit SDL_Delay counts (1000)
  SleepFrom,     \* the shortest delay that sleeps (5000)
  Spare,         \* what is left for looking at the clock (200)
  Word,          \* 2^64: the clock's numbers
  MaxClock,      \* bound: the clock's last value
  MaxFrame       \* bound: the ticks a frame takes, and a sleep too many

\* The numbers of the clock suffice for its time and any rate together.
ASSUME PacingAssumption ==
  /\ {Second, Tick, Word} \subseteq Nat \ {0} /\ Rates \subseteq Nat \ {0}
  /\ {SleepFrom, Spare, MaxClock, MaxFrame} \subseteq Nat
  /\ Spare <= SleepFrom /\ MaxFrame <= MaxClock
  /\ \A rate \in Rates : MaxClock * rate + 10 * Second < Word

VARIABLES
  clock,                    \* gettimeofday
  last_ticks, current_ticks, framerate_times_ten,
  stage,                    \* "frame", "adjust", "sleep" or "spin"
  estimated_ticks,          \* when the spinning ends
  asked                     \* the last argument of SDL_Delay

pacingVars == <<clock, last_ticks, current_ticks, framerate_times_ten, stage,
                estimated_ticks, asked>>

Period == (10 * Second) \div framerate_times_ten
Minus(a, b) == (a - b) % Word

start_framerate ==
  /\ framerate_times_ten \in Rates
  /\ clock \in 0 .. MaxFrame /\ last_ticks = clock /\ current_ticks = 0
  /\ stage = "frame" /\ estimated_ticks = 0 /\ asked = 0

\* A frame is emulated
Emulate ==
  /\ stage = "frame" /\ stage' = "adjust"
  /\ \E took \in 0 .. MaxFrame : clock + took <= MaxClock /\ clock' = clock + took
  /\ UNCHANGED <<last_ticks, current_ticks, framerate_times_ten, estimated_ticks, asked>>

\* The clock of the day is set, forward or back, at any time
SetClock ==
  /\ clock' \in {c \in 0 .. MaxClock : c - clock \in -MaxFrame .. MaxFrame}
  /\ UNCHANGED <<last_ticks, current_ticks, framerate_times_ten, stage, estimated_ticks, asked>>

\* The frame took less than its time
TooFast(elapsed) == ((elapsed * framerate_times_ten) % Word) \div 10 < Second

adjust_to_framerate ==
  /\ stage = "adjust" /\ current_ticks' = clock
  /\ LET elapsed == Minus(clock, last_ticks)
         delay == Minus(Period, elapsed)
     IN IF TooFast(elapsed)
        THEN /\ estimated_ticks' = last_ticks + Period
             /\ stage' = IF delay >= SleepFrom THEN "sleep" ELSE "spin"
             /\ asked' = IF delay >= SleepFrom THEN (delay - Spare) \div Tick ELSE asked
             /\ UNCHANGED last_ticks
        ELSE /\ stage' = "frame" /\ last_ticks' = clock
             /\ UNCHANGED <<estimated_ticks, asked>>
  /\ UNCHANGED <<clock, framerate_times_ten>>

\* SDL_Delay: at least the time asked for
Sleep ==
  /\ stage = "sleep" /\ stage' = "spin"
  /\ \E late \in 0 .. MaxFrame :
       /\ clock + asked * Tick + late <= MaxClock
       /\ clock' = clock + asked * Tick + late
  /\ UNCHANGED <<last_ticks, current_ticks, framerate_times_ten, estimated_ticks, asked>>

\* Faulty variant: what the sleep was shortened by is not waited for
SpinEndsSpared == clock + Spare >= estimated_ticks

SpinEnds == clock >= estimated_ticks

Spin ==
  /\ stage = "spin" /\ current_ticks' = clock
  /\ IF SpinEnds
     THEN stage' = "frame" /\ last_ticks' = clock /\ UNCHANGED clock
     ELSE clock' = clock + 1 /\ clock < MaxClock /\ UNCHANGED <<stage, last_ticks>>
  /\ UNCHANGED <<framerate_times_ten, estimated_ticks, asked>>

PacingNext == Emulate \/ SetClock \/ adjust_to_framerate \/ Sleep \/ Spin

PacingSpec == start_framerate /\ [][PacingNext]_pacingVars

(* -------------------------- properties ----------------------------------- *)

\* No frame ends early: by the clock it ends at, a frame has had its whole
\* time since the last one, unless the clock was set back before the frame was
\* measured.  The sleep alone may end before, by Spare and less than a Tick.
NeverEarly ==
  [][stage' = "frame" /\ stage # "frame" =>
       last_ticks' >= last_ticks + Period \/ last_ticks' < last_ticks]_pacingVars

\* "we will never be delaying for more than 1000ms": the sleep asked for never
\* exceeds the time of a frame, though the difference it is computed from is of
\* unsigned numbers and the clock may be set back.
DelayFits == asked * Tick <= Period

\* Frames take their time, and waiting never takes longer than a frame.
PacingExact == []DelayFits /\ NeverEarly
=============================================================================

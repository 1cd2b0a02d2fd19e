---------------------------- MODULE StereoBuffer ----------------------------
(***************************************************************************)
(* From the oscillators to the samples: src/core/audio/Multi_Buffer.cpp,   *)
(* the bookkeeping of Blip_Buffer.cpp and .h, the amplitudes of            *)
(* Gb_Oscs.cpp and Gb_Apu.cpp and end_frame of sound_SDL.cpp.              *)
(*                                                                         *)
(* An oscillator puts a delta into the buffer it is routed to whenever its *)
(* amplitude changes; three buffers (left, right, center) are filled frame *)
(* by frame and read together.  A buffer that was not touched for long     *)
(* enough counts as silent: it is then neither mixed nor shifted, only its *)
(* length is kept in step.                                                 *)
(*                                                                         *)
(* Kept: where deltas land, lengths, the tracking of silence, routing,     *)
(* master volume and power.  Left out: the shape of an impulse, the sums   *)
(* and the high-pass filter; "unsettled" (the filter's remainder) is free  *)
(* once something was read.  level holds, per oscillator, the sum of the   *)
(* deltas it ever gave a buffer; the code holds only the samples they make. *)
(***************************************************************************)
EXTENDS Integers, FiniteSetsExt

CONSTANTS
  Voices,      \* the oscillators
  Amps,        \* amplitudes of an oscillator
  Volumes,     \* master volumes (1 .. 8)
  FrameClocks, \* clocks of a frame (MAX_CYCLES, 70000)
  Factor,      \* factor_: fractions of a sample per clock
  Accuracy,    \* fractions of a sample (2^16)
  Width,       \* samples a delta touches (blip_widest_impulse_, 16)
  Extra,       \* blip_buffer_extra_ (18)
  Size,        \* buffer_size_: samples of a buffer
  Pairs        \* half of BUF_SIZE: pairs read at once (4096)

Sides == {"left", "right", "center"}

ASSUME StereoAssumption ==
  /\ {FrameClocks, Factor, Accuracy, Width, Size, Pairs} \subseteq Nat \ {0}
  /\ Extra \in Nat /\ Width <= Extra
  /\ Amps \subseteq Nat /\ 0 \in Amps /\ Volumes \subseteq Nat /\ 1 \in Volumes
  \* 736 samples of a frame, 4096 pairs read and 11070 samples of a buffer
  /\ FrameClocks * Factor <= Pairs * Accuracy
  /\ Pairs * Accuracy + FrameClocks * Factor <= (Size + 1) * Accuracy

VARIABLES
  bufs,      \* per side: offset, reach, last_non_silence, modified, unsettled, level
  voice,     \* per oscillator: output (a side or "none") and last_amp
  volume,    \* what a unit of amplitude weighs
  last_time  \* clock of the frame up to which the chip ran

stereoVars == <<bufs, voice, volume, last_time>>

StereoInit ==
  /\ bufs = [s \in Sides |->
       [offset |-> 0, reach |-> 0, last_non_silence |-> 0,
        modified |-> FALSE, unsettled |-> FALSE, level |-> [v \in Voices |-> 0]]]
  /\ voice = [v \in Voices |-> [output |-> "none", last_amp |-> 0]]
  /\ volume = 1
  /\ last_time = 0

-----------------------------------------------------------------------------
samples_avail(b) == b.offset \div Accuracy

non_silent(b) == b.last_non_silence > 0 \/ b.unsettled

\* offset_resampled: one past the samples a delta at clock t touches.
Touched(b, t) == (t * Factor + b.offset) \div Accuracy + Width

\* Deltas at the clocks `times`, deltas[v] in total of each oscillator.
Put(b, times, deltas) ==
  [b EXCEPT !.reach = Max({@} \cup {Touched(b, t) : t \in times}),
            !.level = [v \in Voices |-> @[v] + deltas[v]], !.modified = TRUE]

\* Oscillators of vs go from their last amplitude to amp.
Deltas(vs, amp) ==
  [v \in Voices |-> IF v \in vs THEN volume * (amp[v] - voice[v].last_amp) ELSE 0]

-----------------------------------------------------------------------------
(* The chip runs to the clock `time`: an oscillator with an output starts   *)
(* with update_amp, which marks the buffer, and changes amplitude at some   *)
(* clocks, ending at the amplitude amp[v].                                  *)

Routed(s) == {v \in Voices : voice[v].output = s}

PlayedNow(s, time, amp, changes) ==
  LET vs == Routed(s)
  IN  IF vs = {} THEN bufs[s]
      ELSE Put(bufs[s], UNION {changes[v] : v \in vs}, Deltas(vs, amp))

Runs(time, amp, changes) ==
  /\ \A v \in Voices :
       \/ voice[v].output = "none" /\ amp[v] = voice[v].last_amp /\ changes[v] = {}
       \/ voice[v].output # "none" /\ (amp[v] # voice[v].last_amp => changes[v] # {})
  /\ voice' = [v \in Voices |-> [voice[v] EXCEPT !.last_amp = amp[v]]]

\* read_register, and what every write_register does first.
RunUntil(time) ==
  /\ time \in last_time + 1 .. FrameClocks
  /\ \E amp \in [Voices -> Amps],
        changes \in [Voices -> {{}, {last_time}, {time - 1}}] :
       /\ Runs(time, amp, changes)
       /\ bufs' = [s \in Sides |-> PlayedNow(s, time, amp, changes)]
  /\ last_time' = time
  /\ UNCHANGED volume

-----------------------------------------------------------------------------
(* Writes, at the clock the chip has run to. *)

\* silence_osc for the oscillators vs: their last amplitude is taken back.
Silenced(vs) ==
  [s \in Sides |->
    LET loud == {v \in vs : voice[v].output = s /\ voice[v].last_amp # 0}
    IN  IF loud = {} THEN bufs[s]
        ELSE Put(bufs[s], {last_time}, Deltas(loud, [v \in Voices |-> 0]))]

apply_stereo(route) ==
  LET moved == {v \in Voices : voice[v].output # route[v]}
  IN  /\ bufs' = Silenced(moved)
      /\ voice' = [v \in Voices |->
           IF v \in moved THEN [output |-> route[v], last_amp |-> 0] ELSE voice[v]]
      /\ UNCHANGED <<volume, last_time>>

\* Faulty variant: the volume changes under the sounding oscillators.
master_volumeLoud(w) ==
  /\ w # volume
  /\ volume' = w
  /\ UNCHANGED <<bufs, voice, last_time>>

master_volume(w) ==
  /\ w # volume
  /\ bufs' = Silenced(Voices)
  /\ voice' = [v \in Voices |-> [voice[v] EXCEPT !.last_amp = 0]]
  /\ volume' = w
  /\ UNCHANGED last_time

\* The power bit: everything silent, nothing routed, volume register 0.
power ==
  /\ bufs' = Silenced(Voices)
  /\ voice' = [v \in Voices |-> [output |-> "none", last_amp |-> 0]]
  /\ volume' = 1
  /\ UNCHANGED last_time

-----------------------------------------------------------------------------
(* end_frame of sound_SDL.cpp: the frame's samples become available and are *)
(* read when there are enough for the queue.                                *)

Ended(b) ==
  LET e == [b EXCEPT !.offset = @ + FrameClocks * Factor, !.modified = FALSE]
  IN  IF b.modified THEN [e EXCEPT !.last_non_silence = samples_avail(e) + Extra] ELSE e

remove_silence(b, n) ==
  [b EXCEPT !.offset = @ - n * Accuracy,
            !.last_non_silence = IF @ < n THEN 0 ELSE @ - n]

\* remove_samples: the rest moves to the front, what it leaves is cleared.
remove_samples(b, n) ==
  LET r == remove_silence(b, n)
      remain == samples_avail(r) + Extra
  IN  [r EXCEPT !.reach = IF @ > n + remain THEN @ ELSE IF @ > n THEN @ - n ELSE 0]

\* Faulty variant: silent buffers are not kept in step.
RemovedLoud(b, n) == IF non_silent(b) THEN remove_samples(b, n) ELSE b

Removed(b, n) == IF non_silent(b) THEN remove_samples(b, n) ELSE remove_silence(b, n)

PairsRead(b) == IF 2 * samples_avail(b) >= 2 * Pairs THEN Pairs ELSE 0

\* read_samples of n pairs: sides that are both silent are not read; a
\* reader may be left unsettled by what it went through.
Read(b, mixed, n, left) ==
  LET heard == mixed /\ (b.unsettled \/ b.reach > 0)
  IN  Removed([b EXCEPT !.unsettled = IF heard THEN left ELSE @], n)

end_frame ==
  /\ last_time = FrameClocks
  /\ LET e == [s \in Sides |-> Ended(bufs[s])]
         n == PairsRead(e["left"])
         stereo == non_silent(e["left"]) \/ non_silent(e["right"])
     IN  \E left \in [Sides -> BOOLEAN] :
           bufs' = IF n = 0 THEN e
                   ELSE [s \in Sides |-> Read(e[s], stereo \/ s = "center", n, left[s])]
  /\ last_time' = 0
  /\ UNCHANGED <<voice, volume>>

StereoNext ==
  \/ \E time \in 1 .. FrameClocks : RunUntil(time)
  \/ \E route \in [Voices -> Sides \cup {"none"}] : apply_stereo(route)
  \/ \E w \in Volumes : master_volume(w)
  \/ power
  \/ end_frame

StereoSpec == StereoInit /\ [][StereoNext]_stereoVars

-----------------------------------------------------------------------------
(* Properties. *)

\* What counts as silence holds no sound: every unread delta of a buffer that
\* is not marked lies below last_non_silence, so none is skipped by the mixer
\* or left behind for a later frame.
SilenceIsEmpty ==
  \A s \in Sides : bufs[s].modified \/ bufs[s].reach <= bufs[s].last_non_silence

\* The deltas an oscillator gave a buffer total what it puts out there now:
\* nothing it ever added is left in a buffer when it is rerouted, the volume
\* changes or the power goes off.
NoResidue ==
  \A s \in Sides, v \in Voices :
    bufs[s].level[v] = IF voice[v].output = s THEN volume * voice[v].last_amp ELSE 0

\* The three buffers always hold the same number of samples, silent or not.
SameLength == \A s \in Sides : bufs[s].offset = bufs["left"].offset

\* Reading only whole blocks keeps up: a frame always fits, and no delta
\* lands past the end of a buffer.
FrameFits ==
  /\ samples_avail(Ended(bufs["left"])) <= Size
  /\ \A s \in Sides : bufs[s].reach <= Size + Extra

\* Whatever is rerouted and whichever buffers are silent, the mixer reads all
\* that the oscillators put out, and no more.
MixExact == SilenceIsEmpty /\ NoResidue

\* The buffers stay as long as each other, and a frame fits into them.
MixFits == SameLength /\ FrameFits
=============================================================================

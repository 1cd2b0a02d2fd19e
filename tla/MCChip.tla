------------------------------- MODULE MCChip -------------------------------
(***************************************************************************)
(* Instances for TLC of the sound chip: its oscillators over time (Apu),    *)
(* one at a time with a few values per register, the buffers their output   *)
(* is mixed in (StereoBuffer), and the noise (Lfsr).  A behaviour is of one *)
(* of the three, and leaves the others' state.                              *)
(***************************************************************************)
EXTENDS Apu, StereoBuffer, Lfsr

VARIABLE part

Oscillators == {"square1", "square2", "wave", "noise"}
Off == [volume |-> 0, up |-> FALSE, period |-> 0]
Fading == [volume |-> 1, up |-> FALSE, period |-> 1]

OneVoice == {{v} : v \in Oscillators}

\* The sweep up by half, and down by half.
MCSweeps == [v \in Oscillators |->
  CASE v = "square1" -> {[period |-> 1, neg |-> n, shift |-> 1] : n \in BOOLEAN}
    [] v = "wave" -> BOOLEAN
    [] OTHER -> {}]

MCLengths == [v \in Oscillators |-> IF v = "square1" THEN {} ELSE {1}]

MCEnvelopes == [v \in Oscillators |->
  CASE v = "square2" -> {Off, Fading, [volume |-> 0, up |-> TRUE, period |-> 0]}
    [] v = "wave" -> {}
    [] v = "square1" -> {Fading}
    [] v = "noise" -> {[volume |-> 1, up |-> TRUE, period |-> 0]}]

MCLows == [v \in Oscillators |->
  CASE v = "noise" -> [period1 : {1}, period2 : {4, 8}]
    [] v = "square1" -> {}
    [] v = "square2" -> {}
    [] v = "wave" -> {0, 1}]

MCHighs == [v \in Oscillators |->
  IF v = "square1" THEN [high : {1}, length_on : {FALSE}, trigger : {TRUE}]
  ELSE [high : {1}, length_on : IF v = "noise" THEN {TRUE} ELSE BOOLEAN, trigger : BOOLEAN]]

\* Registers of the noise: after a reset, with one bit, with several, with none.
MCSeeds == {0 .. 14, {0}, {0, 2, 4, 7, 8, 10, 12, 14}, {}}

\* The others keep their first state.
MCInit ==
    /\ part \in {"chip", "buffer", "noise"}
    /\ IF part = "chip" THEN Init ELSE chip = reset({}) /\ cycles = 0
    /\ StereoInit
    /\ IF part = "noise" THEN LfsrInit ELSE seed = {} /\ mask = {} /\ count = 0 /\ bits = {}

MCNext ==
    /\ \/ part = "chip" /\ Next /\ UNCHANGED <<stereoVars, lfsrVars>>
       \/ part = "buffer" /\ StereoNext /\ UNCHANGED <<apuVars, lfsrVars>>
       \/ part = "noise" /\ LfsrNext /\ UNCHANGED <<apuVars, stereoVars>>
    /\ UNCHANGED part

MCSpec == MCInit /\ [][MCNext]_<<apuVars, stereoVars, lfsrVars, part>>
=============================================================================

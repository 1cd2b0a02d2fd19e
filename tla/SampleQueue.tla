----------------------------- MODULE SampleQueue -----------------------------
(***************************************************************************)
(* What the audio queue promises: samples are heard in the order in which  *)
(* they were written, each once, a block at a time, and silence is heard   *)
(* only when no more than one block is waiting.                            *)
(***************************************************************************)
EXTENDS Naturals, Sequences

CONSTANTS Samples, Block, Capacity

VARIABLES queue, heard      \* heard: the last block, <<>> for silence

Init == queue = <<>> /\ heard = <<>>

Put ==
    /\ Len(queue) < Capacity
    /\ \E s \in Samples : queue' = Append(queue, s)
    /\ UNCHANGED heard

Take ==
    /\ Len(queue) >= Block
    /\ heard' = SubSeq(queue, 1, Block)
    /\ queue' = SubSeq(queue, Block + 1, Len(queue))

Mute == Len(queue) <= Block /\ heard' = <<>> /\ UNCHANGED queue

Spec == Init /\ [][Put \/ Take \/ Mute]_<<queue, heard>>
=============================================================================

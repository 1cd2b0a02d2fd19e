----------------------------- MODULE SoundQueue -----------------------------
(***************************************************************************)
(* src/shared_libs/SDL2/audio/Sound_Queue.cpp: the emulator's thread       *)
(* writes samples into a ring of buffers, the audio thread's callback      *)
(* plays whole buffers, and the semaphore free_sem counts the buffers that *)
(* the writer may still fill after the one it is filling.                  *)
(*                                                                         *)
(* Each copied sample is a step, as memcpy is not atomic.  Memory is taken *)
(* to be sequentially consistent: the semaphore orders the accesses.  The  *)
(* device asks for blocks of the size it was opened with.                  *)
(***************************************************************************)
EXTENDS Integers, Sequences

CONSTANTS
    buf_size, buf_count,    \* 8192 samples, 3
    Counts,                 \* lengths of the writes
    Wrap                    \* samples are numbered modulo Wrap

ASSUME SoundAssumption ==
    /\ buf_size \in Nat \ {0} /\ buf_count \in Nat \ {0, 1}
    /\ Counts \subseteq Nat \ {0} /\ Wrap \in Nat \ {0}

VARIABLES
    bufs,
    free_sem,
    write_buf, write_pos, read_buf,
    sound_open,             \* the device is open and calls back
    writer,                 \* "idle", "copy", "wait" for free_sem, or "stopped"
    count,                  \* samples that write has still to copy
    callback,               \* "off", "play" or "post"
    out,                    \* what the callback has copied
    heard,                  \* the last block played, <<>> for silence
    produced                \* the next sample's number

soundVars == <<bufs, free_sem, write_buf, write_pos, read_buf, sound_open, writer, count,
          callback, out, heard, produced>>

Buffers == 0..buf_count - 1
Samples == 0..Wrap - 1

SoundTypeOK ==
    /\ bufs \in [Buffers -> [0..buf_size - 1 -> Samples]]
    /\ free_sem \in 0..buf_count - 1
    /\ write_buf \in Buffers /\ read_buf \in Buffers /\ write_pos \in 0..buf_size
    /\ sound_open \in BOOLEAN
    /\ writer \in {"idle", "copy", "wait", "stopped"} /\ count \in Nat
    /\ callback \in {"off", "play", "post"}
    /\ out \in Seq(Samples) /\ heard \in Seq(Samples) /\ produced \in Samples

\* start; the caller goes on without sound if the device does not open.
SoundInit ==
    /\ bufs = [b \in Buffers |-> [i \in 0..buf_size - 1 |-> 0]]
    /\ free_sem = buf_count - 1
    /\ write_buf = 0 /\ write_pos = 0 /\ read_buf = 0
    /\ sound_open \in BOOLEAN
    /\ writer = "idle" /\ count = 0
    /\ callback = "off" /\ out = <<>> /\ heard = <<>> /\ produced = 0

-----------------------------------------------------------------------------
(* The emulator's thread                                                   *)

Write(n) ==
    /\ writer = "idle"
    /\ writer' = "copy" /\ count' = n
    /\ UNCHANGED <<bufs, free_sem, write_buf, write_pos, read_buf, sound_open, callback,
                   out, heard, produced>>

Copy ==
    /\ writer = "copy" /\ count > 0 /\ write_pos < buf_size
    /\ bufs' = [bufs EXCEPT ![write_buf][write_pos] = produced]
    /\ write_pos' = write_pos + 1
    /\ count' = count - 1
    /\ produced' = (produced + 1) % Wrap
    /\ UNCHANGED <<free_sem, write_buf, read_buf, sound_open, writer, callback, out, heard>>

\* The buffer is full: the next one will be filled once it is free.
QueueFull ==
    /\ writer = "copy" /\ write_pos = buf_size
    /\ write_pos' = 0
    /\ write_buf' = (write_buf + 1) % buf_count
    /\ writer' = "wait"
    /\ UNCHANGED <<bufs, free_sem, read_buf, sound_open, count, callback, out, heard,
                   produced>>

\* Faulty variant: the wait comes to an end without a free buffer.
SemWaitNot ==
    /\ writer = "wait"
    /\ free_sem' = IF free_sem > 0 THEN free_sem - 1 ELSE 0
    /\ writer' = "copy"
    /\ UNCHANGED <<bufs, write_buf, write_pos, read_buf, sound_open, count, callback, out,
                   heard, produced>>

SemWait ==
    /\ writer = "wait" /\ free_sem > 0
    /\ free_sem' = free_sem - 1
    /\ writer' = "copy"
    /\ UNCHANGED <<bufs, write_buf, write_pos, read_buf, sound_open, count, callback, out,
                   heard, produced>>

Return ==
    /\ writer = "copy" /\ count = 0 /\ write_pos < buf_size
    /\ writer' = "idle"
    /\ UNCHANGED <<bufs, free_sem, write_buf, write_pos, read_buf, sound_open, count,
                   callback, out, heard, produced>>

\* Closing the device waits for the callback; then nothing runs any more.
Stop ==
    /\ writer = "idle" /\ callback = "off"
    /\ writer' = "stopped" /\ sound_open' = FALSE
    /\ UNCHANGED <<bufs, free_sem, write_buf, write_pos, read_buf, count, callback, out,
                   heard, produced>>

-----------------------------------------------------------------------------
(* The audio thread: fill_buffer                                           *)

Fill ==
    /\ sound_open /\ callback = "off"
    /\ IF free_sem < buf_count - 1
       THEN callback' = "play" /\ out' = <<>> /\ UNCHANGED heard
       ELSE heard' = <<>> /\ UNCHANGED <<callback, out>>
    /\ UNCHANGED <<bufs, free_sem, write_buf, write_pos, read_buf, sound_open, writer, count,
                   produced>>

Play ==
    /\ callback = "play" /\ Len(out) < buf_size
    /\ out' = Append(out, bufs[read_buf][Len(out)])
    /\ UNCHANGED <<bufs, free_sem, write_buf, write_pos, read_buf, sound_open, writer, count,
                   callback, heard, produced>>

Advance ==
    /\ callback = "play" /\ Len(out) = buf_size
    /\ heard' = out /\ out' = <<>>
    /\ read_buf' = (read_buf + 1) % buf_count
    /\ callback' = "post"
    /\ UNCHANGED <<bufs, free_sem, write_buf, write_pos, sound_open, writer, count, produced>>

\* Faulty variant: the buffer is not given back.
PostNot ==
    /\ callback = "post" /\ callback' = "off"
    /\ UNCHANGED <<bufs, free_sem, write_buf, write_pos, read_buf, sound_open, writer, count,
                   out, heard, produced>>

Post ==
    /\ callback = "post" /\ callback' = "off"
    /\ free_sem' = free_sem + 1
    /\ UNCHANGED <<bufs, write_buf, write_pos, read_buf, sound_open, writer, count, out,
                   heard, produced>>

-----------------------------------------------------------------------------

Writer == Copy \/ QueueFull \/ SemWait \/ Return
Callback == Fill \/ Play \/ Advance \/ Post

SoundNext == (\E n \in Counts : Write(n)) \/ Writer \/ Stop \/ Callback

SoundSpec == SoundInit /\ [][SoundNext]_soundVars

\* Both are threads of the host; an open device goes on asking for samples.
SoundFairness == WF_soundVars(Writer) /\ WF_soundVars(Callback)
SoundFairSpec == SoundSpec /\ SoundFairness

-----------------------------------------------------------------------------
(* Properties                                                              *)

\* The callback never copies from the buffer that write copies to.
NoOverwrite == callback = "play" /\ writer = "copy" => read_buf # write_buf

\* The buffers filled and not yet played.
Filled ==
    (buf_count - 1 - free_sem) + (IF writer = "wait" THEN 1 ELSE 0)
        - (IF callback = "post" THEN 1 ELSE 0)

\* The samples written and not yet played, from the indices alone.
Waiting ==
    [i \in 1..Filled * buf_size + write_pos |->
        bufs[(read_buf + (i - 1) \div buf_size) % buf_count][(i - 1) % buf_size]]

Queue == INSTANCE SampleQueue
    WITH Block <- buf_size, Capacity <- buf_size * buf_count, queue <- Waiting

\* The ring, its two indices and the semaphore are the queue that SampleQueue promises.
QueueSpec == Queue!Spec

\* The device hears the samples in the order the chip made them, none from a buffer
\* that is being filled.
QueueExact == [](SoundTypeOK /\ NoOverwrite) /\ QueueSpec

\* "block until enough space is available" (Sound_Queue.h:29): with an open device
\* every write returns.
WriteReturns == (writer \in {"copy", "wait"} /\ sound_open) ~> writer = "idle"
=============================================================================

---------------------------- MODULE SoundProofs ----------------------------
(***************************************************************************)
(* The ring of buffers between the emulator's thread and the audio thread  *)
(* is a queue of samples, for any number of buffers of any size: neither   *)
(* thread copies from or to the other's buffer, and nothing is lost,       *)
(* repeated or reordered.                                                  *)
(***************************************************************************)
EXTENDS SoundQueue, TLAPS, SequenceTheorems

USE SoundAssumption

\* Modular successor, for a modulus that is a parameter.
LEMMA Successor ==
    ASSUME NEW n \in Nat \ {0}, NEW i \in 0..n - 1
    PROVE  (i + 1) % n = IF i + 1 = n THEN 0 ELSE i + 1
<1>1. CASE i + 1 = n
  BY <1>1, SMT
<1>2. CASE i + 1 < n
  BY <1>2, SMT
<1> QED
  BY <1>1, <1>2

\* The indices are Filled apart, and the callback holds a filled buffer from the
\* moment it has seen one to the moment it gives it back.
IndexInv ==
    /\ Filled \in 0..buf_count
    /\ write_buf = read_buf + Filled \/ write_buf = read_buf + Filled - buf_count
    /\ callback # "off" => free_sem < buf_count - 1

Inv == SoundTypeOK /\ IndexInv

LEMMA InitInv == SoundInit => Inv
<1> SUFFICES ASSUME SoundInit PROVE Inv
  OBVIOUS
<1>1. buf_count \in Nat /\ buf_size \in Nat /\ Wrap \in Nat
  OBVIOUS
<1>2. bufs \in [Buffers -> [0..buf_size - 1 -> Samples]]
  BY DEF SoundInit, Samples
<1>3. out \in Seq(Samples) /\ heard \in Seq(Samples)
  BY EmptySeq DEF SoundInit
<1>4. SoundTypeOK
  BY <1>1, <1>2, <1>3 DEF SoundInit, SoundTypeOK, Buffers, Samples
<1>5. Filled = 0
  BY <1>1 DEF SoundInit, Filled
<1> QED
  BY <1>1, <1>4, <1>5 DEF SoundInit, Inv, IndexInv

-----------------------------------------------------------------------------
(* The emulator's thread                                                   *)

LEMMA WriteInv ==
    ASSUME Inv, NEW n \in Counts, Write(n) PROVE Inv'
BY DEF Write, Inv, SoundTypeOK, IndexInv, Filled

LEMMA CopyInv ==
    ASSUME Inv, Copy PROVE Inv'
<1>1. produced' \in Samples
  BY Successor DEF Copy, Inv, SoundTypeOK, Samples
<1>2. bufs' \in [Buffers -> [0..buf_size - 1 -> Samples]]
  BY DEF Copy, Inv, SoundTypeOK
<1>3. write_pos' \in 0..buf_size /\ count' \in Nat
  BY DEF Copy, Inv, SoundTypeOK
<1>4. SoundTypeOK'
  BY <1>1, <1>2, <1>3 DEF Copy, Inv, SoundTypeOK
<1>5. IndexInv'
  BY DEF Copy, Inv, IndexInv, Filled
<1> QED
  BY <1>4, <1>5 DEF Inv

LEMMA FullInv ==
    ASSUME Inv, QueueFull PROVE Inv'
<1>1. write_buf' = IF write_buf + 1 = buf_count THEN 0 ELSE write_buf + 1
  BY Successor DEF QueueFull, Inv, SoundTypeOK, Buffers
<1>2. SoundTypeOK'
  BY <1>1 DEF QueueFull, Inv, SoundTypeOK, Buffers
<1>3. Filled' = Filled + 1
  BY DEF QueueFull, Inv, SoundTypeOK, Filled
<1>4. Filled < buf_count
  BY DEF QueueFull, Inv, SoundTypeOK, Filled
<1>5. IndexInv'
  BY <1>1, <1>3, <1>4 DEF QueueFull, Inv, SoundTypeOK, IndexInv, Buffers
<1> QED
  BY <1>2, <1>5 DEF Inv

LEMMA SemWaitInv ==
    ASSUME Inv, SemWait PROVE Inv'
<1>1. SoundTypeOK'
  BY DEF SemWait, Inv, SoundTypeOK
<1>2. Filled' = Filled
  BY DEF SemWait, Inv, SoundTypeOK, Filled
<1>3. IndexInv'
  BY <1>2 DEF SemWait, Inv, SoundTypeOK, IndexInv
<1> QED
  BY <1>1, <1>3 DEF Inv

LEMMA ReturnStopInv ==
    ASSUME Inv, Return \/ Stop PROVE Inv'
<1>1. sound_open' \in BOOLEAN
  BY DEF Return, Stop, Inv, SoundTypeOK
<1> QED
  BY <1>1 DEF Return, Stop, Inv, SoundTypeOK, IndexInv, Filled

-----------------------------------------------------------------------------
(* The audio thread                                                        *)

LEMMA FillInv ==
    ASSUME Inv, Fill PROVE Inv'
<1>1. out' \in Seq(Samples) /\ heard' \in Seq(Samples)
  BY EmptySeq DEF Fill, Inv, SoundTypeOK
<1>2. SoundTypeOK'
  BY <1>1 DEF Fill, Inv, SoundTypeOK
<1>3. IndexInv'
  BY DEF Fill, Inv, SoundTypeOK, IndexInv, Filled
<1> QED
  BY <1>2, <1>3 DEF Inv

LEMMA PlayInv ==
    ASSUME Inv, Play PROVE Inv'
<1>1. Len(out) \in 0..buf_size - 1
  BY LenProperties DEF Play, Inv, SoundTypeOK
<1>2. bufs[read_buf][Len(out)] \in Samples
  BY <1>1 DEF Inv, SoundTypeOK
<1>3. out' \in Seq(Samples)
  BY <1>2, AppendProperties DEF Play, Inv, SoundTypeOK
<1>4. SoundTypeOK'
  BY <1>3 DEF Play, Inv, SoundTypeOK
<1>5. IndexInv'
  BY DEF Play, Inv, IndexInv, Filled
<1> QED
  BY <1>4, <1>5 DEF Inv

LEMMA AdvanceInv ==
    ASSUME Inv, Advance PROVE Inv'
<1>1. read_buf' = IF read_buf + 1 = buf_count THEN 0 ELSE read_buf + 1
  BY Successor DEF Advance, Inv, SoundTypeOK, Buffers
<1>2. out' \in Seq(Samples)
  BY EmptySeq DEF Advance
<1>3. SoundTypeOK'
  BY <1>1, <1>2 DEF Advance, Inv, SoundTypeOK, Buffers
<1>4. Filled' = Filled - 1 /\ Filled > 0
  BY DEF Advance, Inv, SoundTypeOK, IndexInv, Filled
<1>5. IndexInv'
  BY <1>1, <1>4 DEF Advance, Inv, SoundTypeOK, IndexInv, Buffers
<1> QED
  BY <1>3, <1>5 DEF Inv

LEMMA PostInv ==
    ASSUME Inv, Post PROVE Inv'
<1>1. SoundTypeOK'
  BY DEF Post, Inv, SoundTypeOK, IndexInv
<1>2. Filled' = Filled
  BY DEF Post, Inv, SoundTypeOK, Filled
<1>3. IndexInv'
  BY <1>2 DEF Post, Inv, SoundTypeOK, IndexInv
<1> QED
  BY <1>1, <1>3 DEF Inv

\* While the callback plays and the writer copies, Filled is neither 0 nor buf_count,
\* so the two indices differ.
LEMMA Apart == Inv => NoOverwrite
<1> SUFFICES ASSUME Inv, callback = "play", writer = "copy" PROVE read_buf # write_buf
  BY DEF NoOverwrite
<1>1. Filled = buf_count - 1 - free_sem
  BY DEF Inv, SoundTypeOK, Filled
<1>2. 0 < Filled /\ Filled < buf_count
  BY <1>1 DEF Inv, SoundTypeOK, IndexInv
<1> QED
  BY <1>2 DEF Inv, SoundTypeOK, IndexInv, Buffers

-----------------------------------------------------------------------------
(* The queue of samples                                                    *)

\* Division with a remainder, for a divisor that is a parameter.
LEMMA Division ==
    ASSUME NEW n \in Nat, NEW d \in Nat \ {0}
    PROVE  n \div d \in Nat /\ n % d \in 0..d - 1 /\ n = (n \div d) * d + (n % d)
OBVIOUS

LEMMA DivisionUnique ==
    ASSUME NEW q \in Nat, NEW d \in Nat \ {0}, NEW r \in 0..d - 1
    PROVE  (q * d + r) % d = r /\ (q * d + r) \div d = q
OBVIOUS

\* The buffer that is b after another.
LEMMA RingPlace ==
    ASSUME NEW r \in Buffers, NEW b \in 0..buf_count
    PROVE  (r + b) % buf_count = IF r + b < buf_count THEN r + b ELSE r + b - buf_count
<1>1. CASE r + b < buf_count
  <2>1. (0 * buf_count + (r + b)) % buf_count = r + b
    BY <1>1, DivisionUnique DEF Buffers
  <2>2. 0 * buf_count + (r + b) = r + b
    BY DEF Buffers
  <2> QED
    BY <1>1, <2>1, <2>2, Zenon
<1>2. CASE r + b >= buf_count
  <2>1. r + b - buf_count \in 0..buf_count - 1
    BY <1>2 DEF Buffers
  <2>2. (1 * buf_count + (r + b - buf_count)) % buf_count = r + b - buf_count
    BY <2>1, DivisionUnique
  <2>3. 1 * buf_count + (r + b - buf_count) = r + b
    BY DEF Buffers
  <2>4. ~(r + b < buf_count)
    BY <1>2 DEF Buffers
  <2> QED
    BY <2>2, <2>3, <2>4, Zenon
<1> QED
  BY <1>1, <1>2 DEF Buffers

\* The samples that wait, and the one at place k of them.
Held == Filled * buf_size + write_pos
Sample(k) == bufs[(read_buf + k \div buf_size) % buf_count][k % buf_size]

\* Inv, and the block that is being played is the buffer's so far.
QueueInv ==
    /\ Inv
    /\ writer = "wait" => write_pos = 0
    /\ callback = "play" =>
          Len(out) <= buf_size /\ \A j \in 1..Len(out) : out[j] = bufs[read_buf][j - 1]

LEMMA HeldRange ==
    ASSUME Inv
    PROVE  /\ Filled \in 0..buf_count /\ write_pos \in 0..buf_size
           /\ Filled * buf_size \in Nat /\ Held \in Nat
<1>1. Filled \in 0..buf_count /\ write_pos \in 0..buf_size
  BY DEF Inv, IndexInv, SoundTypeOK
<1> QED
  BY <1>1 DEF Held

LEMMA SampleTyped ==
    ASSUME Inv, NEW k \in Nat
    PROVE  Sample(k) \in Samples
<1>1. k \div buf_size \in Nat /\ k % buf_size \in 0..buf_size - 1
  BY Division
<1>2. read_buf + k \div buf_size \in Nat
  BY <1>1 DEF Inv, SoundTypeOK, Buffers
<1>3. (read_buf + k \div buf_size) % buf_count \in Buffers
  BY <1>2, Division DEF Buffers
<1> QED
  BY <1>1, <1>3 DEF Inv, SoundTypeOK, Sample

\* What waits are Held samples.
WaitingIs ==
    /\ Waiting \in Seq(Samples) /\ Len(Waiting) = Held /\ Held \in Nat
    /\ \A i \in 1..Held : Waiting[i] = Sample(i - 1)

LEMMA WaitingTyped == Inv => WaitingIs
<1> SUFFICES ASSUME Inv PROVE WaitingIs
  OBVIOUS
<1>1. Held \in Nat
  BY HeldRange
<1>2. Waiting = [i \in 1..Held |-> Sample(i - 1)]
  BY DEF Waiting, Held, Sample
<1>3. \A i \in 1..Held : Sample(i - 1) \in Samples
  BY <1>1, SampleTyped
<1>4. Waiting \in [1..Held -> Samples]
  BY <1>2, <1>3
<1>5. Waiting \in Seq(Samples)
  BY <1>1, <1>4, SeqDef
<1>6. Len(Waiting) = Held
  BY <1>1, <1>4, <1>5, LenProperties
<1> QED
  BY <1>1, <1>2, <1>5, <1>6 DEF WaitingIs

LEMMA WaitingNext == Inv' => WaitingIs'
BY WaitingTyped, PTL

\* Equal indices and samples make an equal queue.
LEMMA SameWaiting ==
    ASSUME Inv, Inv', Held' = Held, \A k \in 0..Held - 1 : Sample(k)' = Sample(k)
    PROVE  Waiting' = Waiting
<1>1. /\ Waiting \in Seq(Samples) /\ Len(Waiting) = Held /\ Held \in Nat
      /\ \A i \in 1..Held : Waiting[i] = Sample(i - 1)
  BY WaitingTyped, HeldRange DEF WaitingIs
<1>2. /\ Waiting' \in Seq(Samples) /\ Len(Waiting') = Held
      /\ \A i \in 1..Held : Waiting'[i] = Sample(i - 1)'
  BY WaitingNext DEF WaitingIs
<1>3. \A i \in 1..Len(Waiting') : Waiting'[i] = Waiting[i]
  BY <1>1, <1>2
<1> QED
  BY <1>1, <1>2, <1>3, SeqEqual

\* Copying a sample appends it: the place is after all that wait.
LEMMA CopyAppends ==
    ASSUME QueueInv, Copy, Inv'
    PROVE  Waiting' = Append(Waiting, produced) /\ Held < buf_size * buf_count
<1> DEFINE S == buf_size
           C == buf_count
<1>1. /\ Filled' = Filled /\ Filled \in 0..C - 1 /\ read_buf' = read_buf
      /\ write_pos \in 0..S - 1 /\ write_pos' = write_pos + 1
      /\ read_buf \in Buffers /\ write_buf \in Buffers
      /\ write_buf = read_buf + Filled \/ write_buf = read_buf + Filled - C
  BY DEF Copy, QueueInv, Inv, IndexInv, SoundTypeOK, Filled
<1>2. (read_buf + Filled) % C = write_buf
  <2>1. Filled \in 0..C
    BY <1>1
  <2>2. (read_buf + Filled) % C = IF read_buf + Filled < C THEN read_buf + Filled
                                                          ELSE read_buf + Filled - C
    BY <1>1, <2>1, RingPlace, Zenon
  <2> QED
    BY <1>1, <2>2 DEF Buffers
<1>3. Held' = Held + 1 /\ Held \in Nat /\ Held < S * C
  <2>1. (Filled + 1) * S <= C * S /\ (Filled + 1) * S = Filled * S + S /\ Filled * S \in Nat
    BY <1>1
  <2> HIDE DEF S, C
  <2>2. Held = Filled * S + write_pos /\ Held' = Filled * S + (write_pos + 1)
    BY <1>1 DEF Held, S
  <2>3. C * S = S * C /\ S \in Nat /\ C \in Nat
    BY DEF S, C
  <2> QED
    BY <1>1, <2>1, <2>2, <2>3
<1>4. \A x \in Buffers : \A o \in 0..S - 1 :
         bufs'[x][o] = IF x = write_buf /\ o = write_pos THEN produced ELSE bufs[x][o]
  BY <1>1 DEF Copy, QueueInv, Inv, SoundTypeOK
<1>5. ASSUME NEW k \in 0..Held - 1 PROVE Sample(k)' = Sample(k)
  <2> DEFINE b == k \div S
             o == k % S
  <2>1. b \in Nat /\ o \in 0..S - 1 /\ k = b * S + o
    <3>1. k \in Nat
      BY <1>3
    <3> QED
      BY <3>1, Division
  <2> HIDE DEF b, o
  <2>2. b <= Filled /\ (b = Filled => o < write_pos)
    <3>1. b * S + o < Filled * S + write_pos
      BY <1>3, <1>5, <2>1 DEF Held
    <3>2. CASE b >= Filled + 1
      <4>1. b * S >= (Filled + 1) * S /\ (Filled + 1) * S = Filled * S + S
        BY <1>1, <2>1, <3>2
      <4>2. b * S \in Nat /\ Filled * S \in Nat
        BY <1>1, <2>1
      <4> QED
        BY <1>1, <2>1, <3>1, <4>1, <4>2
    <3>3. CASE b = Filled
      <4>1. Filled * S \in Nat
        BY <1>1
      <4> QED
        BY <1>1, <2>1, <3>1, <3>3, <4>1
    <3> QED
      BY <1>1, <2>1, <3>2, <3>3
  <2>3. (read_buf + b) % C \in Buffers
    BY <1>1, <2>1, Division DEF Buffers
  <2>4. b < Filled => (read_buf + b) % C # write_buf
    <3>1. b < Filled => b \in 0..C
      BY <1>1, <2>1
    <3>2. b < Filled => (read_buf + b) % C = IF read_buf + b < C THEN read_buf + b
                                                                ELSE read_buf + b - C
      BY <1>1, <3>1, RingPlace, Zenon
    <3> QED
      BY <1>1, <2>1, <3>2 DEF Buffers
  <2>5. bufs'[(read_buf + b) % C][o] = bufs[(read_buf + b) % C][o]
    BY <1>1, <1>4, <2>1, <2>2, <2>3, <2>4
  <2> QED
    BY <1>1, <2>5 DEF Sample, b, o
<1>6. ASSUME NEW k \in Nat, k = Held PROVE Sample(k)' = produced
  <2>1. k \div S = Filled /\ k % S = write_pos
    BY <1>1, <1>6, DivisionUnique DEF Held
  <2>2. Sample(k)' = bufs'[(read_buf + k \div S) % C][k % S]
    BY <1>1 DEF Sample
  <2>3. Sample(k)' = bufs'[write_buf][write_pos]
    BY <1>2, <2>1, <2>2
  <2> QED
    BY <1>1, <1>4, <2>3
<1>7. /\ Waiting \in Seq(Samples) /\ Len(Waiting) = Held
      /\ \A i \in 1..Held : Waiting[i] = Sample(i - 1)
  BY WaitingTyped DEF QueueInv, WaitingIs
<1>8. /\ Waiting' \in Seq(Samples) /\ Len(Waiting') = Held + 1
      /\ \A i \in 1..Held + 1 : Waiting'[i] = Sample(i - 1)'
  BY <1>3, WaitingNext DEF WaitingIs
<1>9. produced \in Samples
  BY DEF QueueInv, Inv, SoundTypeOK
<1>10. /\ Append(Waiting, produced) \in Seq(Samples)
       /\ Len(Append(Waiting, produced)) = Held + 1
       /\ \A i \in 1..Held : Append(Waiting, produced)[i] = Waiting[i]
       /\ Append(Waiting, produced)[Held + 1] = produced
  BY <1>7, <1>9, AppendProperties
<1>11. \A i \in 1..Held + 1 : Waiting'[i] = Append(Waiting, produced)[i]
  <2> SUFFICES ASSUME NEW i \in 1..Held + 1 PROVE Waiting'[i] = Append(Waiting, produced)[i]
    OBVIOUS
  <2>1. CASE i = Held + 1
    <3>1. i - 1 = Held
      BY <1>3, <2>1
    <3> QED
      BY <1>6, <1>8, <1>10, <2>1, <3>1
  <2>2. CASE i \in 1..Held
    BY <1>3, <1>5, <1>7, <1>8, <1>10, <2>2
  <2>3. i = Held + 1 \/ i \in 1..Held
    <3>1. Held \in Nat
      BY <1>3
    <3> QED
      BY <3>1
  <2> QED
    BY <2>1, <2>2, <2>3
<1> QED
  BY <1>3, <1>8, <1>10, <1>11, SeqEqual

\* Playing a block takes it from the front, and what was after it moves up.
LEMMA AdvanceTakes ==
    ASSUME QueueInv, Advance, Inv'
    PROVE  /\ Len(Waiting) >= buf_size
           /\ heard' = SubSeq(Waiting, 1, buf_size)
           /\ Waiting' = SubSeq(Waiting, buf_size + 1, Len(Waiting))
<1> DEFINE S == buf_size
           C == buf_count
<1>1. /\ Filled' = Filled - 1 /\ Filled \in 1..C /\ read_buf \in Buffers
      /\ write_pos \in 0..S /\ write_pos' = write_pos /\ bufs' = bufs
      /\ read_buf' = (read_buf + 1) % C
      /\ S \in Nat \ {0} /\ C \in Nat \ {0, 1}
  BY DEF Advance, QueueInv, Inv, IndexInv, SoundTypeOK, Filled
<1>2. Held \in Nat /\ Held' = Held - S /\ Held >= S /\ Held < Filled * S + S + 1
  <2>1. Held = Filled * S + write_pos /\ Held' = (Filled - 1) * S + write_pos
    BY <1>1 DEF Held
  <2> HIDE DEF S, C
  <2>2. (Filled - 1) * S = Filled * S - S /\ (Filled - 1) * S \in Nat
    BY <1>1
  <2> QED
    BY <1>1, <2>1, <2>2
<1>3. ASSUME NEW k \in 0..S - 1 PROVE Sample(k) = bufs[read_buf][k]
  <2>1. (0 * S + k) % S = k /\ (0 * S + k) \div S = 0 /\ 0 * S + k = k
    BY DivisionUnique
  <2>2. (read_buf + 0) % C = read_buf
    <3>1. read_buf + 0 = read_buf /\ read_buf < C /\ 0 \in 0..C
      BY <1>1 DEF Buffers
    <3> QED
      BY <1>1, <3>1, RingPlace, Zenon
  <2> QED
    BY <2>1, <2>2 DEF Sample
<1>4. /\ Waiting \in Seq(Samples) /\ Len(Waiting) = Held
      /\ \A i \in 1..Held : Waiting[i] = Sample(i - 1)
  BY WaitingTyped DEF QueueInv, WaitingIs
<1>5. heard' = SubSeq(Waiting, 1, S)
  <2>1. /\ heard' \in Seq(Samples) /\ Len(heard') = S
        /\ \A i \in 1..S : heard'[i] = bufs[read_buf][i - 1]
    BY DEF Advance, QueueInv, Inv, SoundTypeOK
  <2>2. \A i \in 1..S : Waiting[i] \in Samples
    BY <1>1, <1>2, <1>4, ElementOfSeq
  <2>3. /\ SubSeq(Waiting, 1, S) \in Seq(Samples) /\ Len(SubSeq(Waiting, 1, S)) = S
        /\ \A i \in 1..S : SubSeq(Waiting, 1, S)[i] = Waiting[i]
    <3>1. /\ SubSeq(Waiting, 1, S) \in Seq(Samples)
          /\ Len(SubSeq(Waiting, 1, S)) = IF 1 <= S THEN S - 1 + 1 ELSE 0
          /\ \A i \in 1..S - 1 + 1 : SubSeq(Waiting, 1, S)[i] = Waiting[1 + i - 1]
      BY <1>1, <2>2, SubSeqProperties
    <3> QED
      BY <1>1, <3>1
  <2>4. \A i \in 1..S : heard'[i] = SubSeq(Waiting, 1, S)[i]
    <3>1. \A i \in 1..S : i - 1 \in 0..S - 1 /\ i \in 1..Held
      BY <1>1, <1>2
    <3> QED
      BY <1>3, <1>4, <2>1, <2>3, <3>1
  <2> QED
    BY <2>1, <2>3, <2>4, SeqEqual
<1>6. ASSUME NEW k \in 0..Held - S - 1 PROVE Sample(k)' = Sample(k + S)
  <2> DEFINE b == k \div S
             o == k % S
  <2>1. b \in Nat /\ o \in 0..S - 1 /\ k = b * S + o
    <3>1. k \in Nat
      BY <1>2
    <3> QED
      BY <3>1, Division
  <2> HIDE DEF b, o
  <2>2. (k + S) \div S = b + 1 /\ (k + S) % S = o
    <3>1. k + S = (b + 1) * S + o
      BY <1>1, <2>1
    <3>2. b + 1 \in Nat
      BY <2>1
    <3>3. ((b + 1) * S + o) \div S = b + 1 /\ ((b + 1) * S + o) % S = o
      BY <1>1, <2>1, <3>2, DivisionUnique
    <3> QED
      BY <3>1, <3>3, Zenon
  <2>3. b + 1 <= Filled
    <3>1. CASE b >= Filled
      <4>1. b * S >= Filled * S /\ b * S \in Nat /\ Filled * S \in Nat
        BY <1>1, <2>1, <3>1
      <4> QED
        BY <1>1, <1>2, <1>6, <2>1, <4>1
    <3> QED
      BY <1>1, <2>1, <3>1
  <2>4. (read_buf' + b) % C = (read_buf + (b + 1)) % C
    <3>1. read_buf' = IF read_buf + 1 < C THEN read_buf + 1 ELSE read_buf + 1 - C
      BY <1>1, RingPlace
    <3>2. read_buf' \in Buffers
      BY <1>1, <3>1 DEF Buffers
    <3>3. (read_buf' + b) % C = IF read_buf' + b < C THEN read_buf' + b ELSE read_buf' + b - C
      <4>1. b \in 0..C
        BY <1>1, <2>1, <2>3
      <4> QED
        BY <3>2, <4>1, RingPlace
    <3>4. (read_buf + (b + 1)) % C =
             IF read_buf + (b + 1) < C THEN read_buf + (b + 1) ELSE read_buf + (b + 1) - C
      <4>1. b + 1 \in 0..C
        BY <1>1, <2>1, <2>3
      <4> QED
        BY <1>1, <4>1, RingPlace
    <3> QED
      BY <1>1, <2>1, <2>3, <3>1, <3>3, <3>4 DEF Buffers
  <2> QED
    BY <1>1, <2>2, <2>4 DEF Sample, b, o
<1>7. Waiting' = SubSeq(Waiting, S + 1, Len(Waiting))
  <2> DEFINE rest == SubSeq(Waiting, S + 1, Held)
  <2>1. /\ Waiting' \in Seq(Samples) /\ Len(Waiting') = Held - S
        /\ \A i \in 1..Held - S : Waiting'[i] = Sample(i - 1)'
    BY <1>2, WaitingNext DEF WaitingIs
  <2>2. \A i \in S + 1..Held : Waiting[i] \in Samples
    BY <1>1, <1>2, <1>4, ElementOfSeq
  <2>3. /\ rest \in Seq(Samples)
        /\ Len(rest) = IF S + 1 <= Held THEN Held - (S + 1) + 1 ELSE 0
        /\ \A i \in 1..Held - (S + 1) + 1 : rest[i] = Waiting[(S + 1) + i - 1]
    BY <1>1, <1>2, <2>2, SubSeqProperties
  <2> HIDE DEF rest
  <2>4. Len(rest) = Held - S
    BY <1>1, <1>2, <2>3
  <2>5. ASSUME NEW i \in 1..Held - S PROVE Waiting'[i] = rest[i]
    <3>1. i - 1 \in 0..Held - S - 1 /\ i \in 1..Held - (S + 1) + 1 /\ S + i \in 1..Held
          /\ (S + 1) + i - 1 = S + i /\ (S + i) - 1 = (i - 1) + S
      BY <1>1, <1>2
    <3>2. rest[i] = Sample((i - 1) + S)
      BY <1>4, <2>3, <3>1
    <3>3. Waiting'[i] = Sample(i - 1)'
      BY <2>1
    <3> QED
      BY <1>6, <3>1, <3>2, <3>3
  <2> QED
    BY <1>4, <2>1, <2>3, <2>4, <2>5, SeqEqual DEF rest
<1> QED
  BY <1>2, <1>4, <1>5, <1>7

\* The steps that move neither samples nor the front of the queue.
LEMMA StillWaiting ==
    ASSUME Inv, Inv', UNCHANGED <<bufs, read_buf>>, Held' = Held
    PROVE  Waiting' = Waiting
BY SameWaiting DEF Sample

\* Each step of the two threads is one of the queue's, or none.
LEMMA QueueStep ==
    QueueInv /\ Inv' /\ [SoundNext]_soundVars =>
        QueueInv' /\ [Queue!Put \/ Queue!Take \/ Queue!Mute]_<<Waiting, heard>>
<1> SUFFICES ASSUME QueueInv, Inv', [SoundNext]_soundVars
             PROVE  QueueInv' /\ [Queue!Put \/ Queue!Take \/ Queue!Mute]_<<Waiting, heard>>
  OBVIOUS
<1> USE DEF Queue!Put, Queue!Take, Queue!Mute
<1>1. /\ Inv /\ free_sem \in 0..buf_count - 1 /\ Filled \in 0..buf_count
      /\ write_pos \in 0..buf_size /\ out \in Seq(Samples)
      /\ writer \in {"idle", "copy", "wait", "stopped"} /\ callback \in {"off", "play", "post"}
      /\ buf_size \in Nat \ {0} /\ buf_count \in Nat \ {0, 1}
  BY DEF QueueInv, Inv, IndexInv, SoundTypeOK
\* The block so far, where nothing of it changes.
<1>2. ASSUME UNCHANGED <<bufs, read_buf, out>>, callback' = "play" => callback = "play",
             writer' = "wait" => write_pos' = 0
      PROVE  QueueInv'
  BY <1>2 DEF QueueInv
<1>3. CASE (\E n \in Counts : Write(n)) \/ Return \/ Stop \/ UNCHANGED soundVars
  <2>1. Held' = Held /\ UNCHANGED <<bufs, read_buf, out, heard, callback, write_pos>>
        /\ (writer' = "wait" => writer = "wait")
    BY <1>3 DEF Write, Return, Stop, soundVars, Held, Filled
  <2>2. Waiting' = Waiting
    BY <1>1, <2>1, StillWaiting
  <2> QED
    BY <1>2, <2>1, <2>2 DEF QueueInv
<1>4. CASE QueueFull
  <2>1. Filled' = Filled + 1 /\ write_pos = buf_size /\ write_pos' = 0
        /\ UNCHANGED <<bufs, read_buf, out, heard, callback>>
    BY <1>1, <1>4 DEF QueueFull, Filled
  <2>2. Held' = Held
    BY <1>1, <2>1 DEF Held
  <2>3. Waiting' = Waiting
    BY <1>1, <2>1, <2>2, StillWaiting
  <2> QED
    BY <1>2, <2>1, <2>3
<1>5. CASE SemWait \/ Post
  <2>1. Filled' = Filled
    BY <1>1, <1>5 DEF SemWait, Post, Filled
  <2>2. UNCHANGED <<bufs, read_buf, out, heard, write_pos>>
        /\ (callback' = "play" => callback = "play") /\ (writer' = "wait" => writer = "wait")
    BY <1>5 DEF SemWait, Post
  <2>3. Held' = Held
    BY <2>1, <2>2 DEF Held
  <2>4. Waiting' = Waiting
    BY <1>1, <2>2, <2>3, StillWaiting
  <2> QED
    BY <1>2, <2>2, <2>4 DEF QueueInv
<1>6. CASE Copy
  <2>1. Waiting' = Append(Waiting, produced) /\ Len(Waiting) < buf_size * buf_count
    BY <1>1, <1>6, CopyAppends, WaitingTyped DEF WaitingIs
  <2>2. produced \in Samples /\ heard' = heard
    BY <1>1, <1>6 DEF Copy, Inv, SoundTypeOK
  <2>3. QueueInv'
    <3>1. CASE callback = "play"
      <4>1. read_buf # write_buf /\ read_buf \in Buffers
        BY <1>1, <1>6, <3>1, Apart DEF NoOverwrite, Copy, Inv, SoundTypeOK
      <4>2. bufs'[read_buf] = bufs[read_buf]
        BY <1>1, <1>6, <4>1 DEF Copy, Inv, SoundTypeOK
      <4> QED
        BY <1>6, <4>2 DEF Copy, QueueInv
    <3>2. CASE callback # "play"
      BY <1>6, <3>2 DEF Copy, QueueInv
    <3> QED
      BY <3>1, <3>2
  <2> QED
    BY <2>1, <2>2, <2>3
<1>7. CASE Fill
  <2>1. Held' = Held /\ UNCHANGED <<bufs, read_buf, write_pos, writer>>
    BY <1>7 DEF Fill, Held, Filled
  <2>2. Waiting' = Waiting
    BY <1>1, <2>1, StillWaiting
  <2>3. QueueInv'
    <3>1. callback' = "play" => Len(out') = 0
      BY <1>7, EmptySeq DEF Fill
    <3> QED
      BY <1>1, <2>1, <3>1 DEF QueueInv
  <2>4. CASE free_sem < buf_count - 1
    BY <1>7, <2>2, <2>3, <2>4 DEF Fill
  <2>5. CASE free_sem = buf_count - 1
    <3>1. Held <= buf_size
      BY <1>1, <1>7, <2>5 DEF Fill, Held, Filled, QueueInv
    <3>2. Len(Waiting) <= buf_size /\ heard' = <<>>
      BY <1>1, <1>7, <2>5, <3>1, WaitingTyped DEF Fill, WaitingIs
    <3> QED
      BY <2>2, <2>3, <3>2
  <2> QED
    BY <1>1, <2>4, <2>5
<1>8. CASE Play
  <2>1. Held' = Held /\ UNCHANGED <<bufs, read_buf, write_pos, writer, heard, callback>>
    BY <1>8 DEF Play, Held, Filled
  <2>2. Waiting' = Waiting
    BY <1>1, <2>1, StillWaiting
  <2> DEFINE s == bufs[read_buf][Len(out)]
  <2>3. Len(out) \in 0..buf_size - 1 /\ out' = Append(out, s)
    BY <1>1, <1>8, LenProperties DEF Play
  <2>4. s \in Samples
    BY <1>1, <2>3 DEF Inv, SoundTypeOK
  <2>5. /\ Len(out') = Len(out) + 1 /\ out'[Len(out) + 1] = s
        /\ \A j \in 1..Len(out) : out'[j] = out[j]
    <3> HIDE DEF s
    <3> QED
      BY <1>1, <2>3, <2>4, AppendProperties
  <2>6. \A j \in 1..Len(out') : out'[j] = bufs[read_buf][j - 1]
    <3> SUFFICES ASSUME NEW j \in 1..Len(out) + 1 PROVE out'[j] = bufs[read_buf][j - 1]
      BY <2>5
    <3>1. CASE j = Len(out) + 1
      <4>1. j - 1 = Len(out)
        BY <2>3, <3>1
      <4> QED
        BY <2>5, <3>1, <4>1
    <3>2. CASE j \in 1..Len(out)
      BY <1>8, <2>5, <3>2 DEF QueueInv, Play
    <3> QED
      BY <2>3, <3>1, <3>2
  <2>7. QueueInv'
    BY <2>1, <2>3, <2>5, <2>6 DEF QueueInv
  <2> QED
    BY <2>1, <2>2, <2>7
<1>9. CASE Advance
  <2>1. QueueInv'
    BY <1>9 DEF Advance, QueueInv
  <2> QED
    BY <1>9, <2>1, AdvanceTakes
<1> QED
  BY <1>3, <1>4, <1>5, <1>6, <1>7, <1>8, <1>9 DEF SoundNext, Writer, Callback

-----------------------------------------------------------------------------
(* The theorems                                                            *)

LEMMA Invariant == SoundSpec => []Inv
<1>1. Inv /\ [SoundNext]_soundVars => Inv'
  <2> SUFFICES ASSUME Inv, [SoundNext]_soundVars PROVE Inv'
    OBVIOUS
  <2>1. CASE UNCHANGED soundVars
    BY <2>1 DEF soundVars, Inv, SoundTypeOK, IndexInv, Filled
  <2>2. CASE SoundNext
    BY <2>2, WriteInv, CopyInv, FullInv, SemWaitInv, ReturnStopInv, FillInv, PlayInv,
       AdvanceInv, PostInv DEF SoundNext, Writer, Callback
  <2> QED
    BY <2>1, <2>2
<1> QED
  BY InitInv, <1>1, PTL DEF SoundSpec

\* Every index and count of the audio queue stays in range.
THEOREM TypeCorrect == SoundSpec => []SoundTypeOK
<1>1. Inv => SoundTypeOK
  BY DEF Inv
<1> QED
  BY <1>1, Invariant, PTL

\* The callback and the writer are never at the same buffer.
THEOREM NeverOverwritten == SoundSpec => []NoOverwrite
BY Apart, Invariant, PTL

\* The ring, its two indices and the semaphore are a queue: what the device hears are
\* the samples in the order in which the chip made them, each once, for any number of
\* buffers of any size, any lengths of the writes and every interleaving.
THEOREM QueueIsExact == SoundSpec => QueueExact
<1>1. SoundInit => QueueInv /\ Queue!Init
  <2> SUFFICES ASSUME SoundInit PROVE QueueInv /\ Queue!Init
    OBVIOUS
  <2>1. Inv
    BY InitInv
  <2>2. Held = 0
    BY DEF SoundInit, Held, Filled
  <2>3. Waiting = <<>>
    <3>1. Waiting \in Seq(Samples) /\ Len(Waiting) = 0
      BY <2>1, <2>2, WaitingTyped DEF WaitingIs
    <3> QED
      BY <3>1, EmptySeq
  <2> QED
    BY <2>1, <2>3 DEF SoundInit, QueueInv, Queue!Init
<1>2. QueueInv => SoundTypeOK /\ NoOverwrite
  BY Apart DEF QueueInv, Inv
<1> QED
  BY <1>1, <1>2, Invariant, QueueStep, PTL DEF SoundSpec, QueueExact, QueueSpec, Queue!Spec
=============================================================================

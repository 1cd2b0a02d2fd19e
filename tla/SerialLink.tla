----------------------------- MODULE SerialLink -----------------------------
(***************************************************************************)
(* Two emulators joined by the serial port: src/core/serial_io.c on each    *)
(* side of the TCP connection of src/shared_libs/SDL2/serial_io_SDL.c.      *)
(*                                                                         *)
(* An instruction may write SB or SC and then passes its cycles, in which   *)
(* inc_serial_cycles sends, polls or blocks: while a transfer with the      *)
(* internal clock waits for its answer the whole emulator stands still.     *)
(* A connection delivers bytes in order; once a side has quit, the other's  *)
(* sends may fail and its receives fail when nothing is left to read.       *)
(* Left out: the interrupt that ends a transfer (module Emulator takes it   *)
(* at any time) and bit 0 of SC, which start_transfer copies.               *)
(***************************************************************************)
EXTENDS Integers, Sequences

CONSTANTS
    Bytes,          \* what games send
    Period,         \* GB_CLOCK_SPEED_HZ / gb_io_freq, in the unit of Ticks
    Ticks           \* cycles one instruction passes

Sides == {"server", "client"}
NoGameBoy == 255    \* what the internal clock reads without an answer
Welcome == 256      \* the text a server sends first

ASSUME SerialAssumption ==
    /\ Bytes \subseteq 0 .. 255 /\ Bytes # {}
    /\ Period \in Nat \ {0} /\ Ticks \subseteq Nat \ {0} /\ Ticks # {}

VARIABLES
    SB,                     \* io_mem[SB], *recieved_location
    start_bit,              \* bit 7 of io_mem[SC], *control
    transfer_in_progress, internal_clock, cur_cycles, data_to_send,
    pc,                     \* where each emulator is
    recv,                   \* the byte an external transfer received
    chan,                   \* bytes on their way to each side
    linked,                 \* started with a connection
    swallowed,              \* history: a byte went with the welcome
    ahead,                  \* history: exchanges only this side has finished
    agreed                  \* history: both sides of every exchange agree

port == <<SB, start_bit, transfer_in_progress, internal_clock, cur_cycles, data_to_send>>
history == <<ahead, agreed>>
linkVars == <<port, pc, recv, chan, linked, swallowed, history>>

Peer(p) == IF p = "server" THEN "client" ELSE "server"
All(v) == [p \in Sides |-> v]

LinkInit ==
    /\ SB = All(0) /\ start_bit = All(FALSE)
    /\ transfer_in_progress = All(FALSE) /\ internal_clock = All(FALSE)
    /\ cur_cycles = All(0) /\ data_to_send = All(0)
    /\ recv = All(0) /\ chan = All(<<>>)
    /\ linked \in BOOLEAN
    /\ pc = IF linked THEN [server |-> "listen", client |-> "connect"] ELSE All("game")
    /\ swallowed = FALSE /\ ahead = All(<<>>) /\ agreed = TRUE

Goto(p, where) == pc' = [pc EXCEPT ![p] = where]
PeerQuit(p) == pc[Peer(p)] = "quit"

\* What is sent to a side that has quit is lost, if sending does not fail.
Send(p, byte) ==
    chan' = IF PeerQuit(p) THEN chan ELSE [chan EXCEPT ![Peer(p)] = Append(@, byte)]

-----------------------------------------------------------------------------
(* Setting up the connection                                               *)

setup_server ==
    /\ pc["server"] = "listen" /\ pc["client"] = "welcome"
    /\ Send("server", Welcome) /\ Goto("server", "game")
    /\ UNCHANGED <<port, recv, linked, swallowed, history>>

\* The connection opens while the server listens.
Connect ==
    /\ pc["client"] = "connect" /\ pc["server"] = "listen"
    /\ Goto("client", "welcome")
    /\ UNCHANGED <<port, recv, chan, linked, swallowed, history>>

\* Up to 100 bytes are read and shown: the welcome, and what else has arrived.
ReadWelcome ==
    /\ pc["client"] = "welcome" /\ Goto("client", "game")
    /\ \E n \in 1 .. Len(chan["client"]) :
          /\ chan' = [chan EXCEPT !["client"] = SubSeq(@, n + 1, Len(@))]
          /\ swallowed' = (n > 1)
    /\ UNCHANGED <<port, recv, linked, history>>

-----------------------------------------------------------------------------
(* The game                                                                *)

WriteSB(p, v) ==
    /\ pc[p] = "game" /\ SB' = [SB EXCEPT ![p] = v] /\ Goto(p, "tick")
    /\ UNCHANGED <<start_bit, transfer_in_progress, internal_clock, cur_cycles, data_to_send,
                   recv, chan, linked, swallowed, history>>

start_transfer(p, start, clock) ==
    /\ data_to_send' = [data_to_send EXCEPT ![p] = SB[p]]
    /\ transfer_in_progress' = [transfer_in_progress EXCEPT ![p] = start]
    /\ internal_clock' = [internal_clock EXCEPT ![p] = clock]
    /\ cur_cycles' = [cur_cycles EXCEPT ![p] = 0]

\* Starts a transfer with the internal or the external clock, or ends one.
WriteSC(p, start, clock) ==
    /\ pc[p] = "game" /\ Goto(p, "tick")
    /\ start_bit' = [start_bit EXCEPT ![p] = start]
    /\ start_transfer(p, start, clock)
    /\ UNCHANGED <<SB, recv, chan, linked, swallowed, history>>

\* Any other instruction, while a transfer waits for its cycles.
Other(p) ==
    /\ pc[p] = "game" /\ transfer_in_progress[p] /\ Goto(p, "tick")
    /\ UNCHANGED <<port, recv, chan, linked, swallowed, history>>

Quit(p) ==
    /\ pc[p] = "game" /\ Goto(p, "quit")
    /\ UNCHANGED <<port, recv, chan, linked, swallowed, history>>

-----------------------------------------------------------------------------
(* Transfers                                                               *)

Complete(p, byte) ==
    /\ SB' = [SB EXCEPT ![p] = byte]
    /\ start_bit' = [start_bit EXCEPT ![p] = FALSE]
    /\ transfer_in_progress' = [transfer_in_progress EXCEPT ![p] = FALSE]
    /\ internal_clock' = [internal_clock EXCEPT ![p] = FALSE]
    /\ cur_cycles' = [cur_cycles EXCEPT ![p] = 0]
    /\ Goto(p, "game") /\ UNCHANGED data_to_send

\* The exchange is compared with the other side's, whichever is finished last.
Exchanged(p, in) ==
    LET other == ahead[Peer(p)]
    IN  IF other = <<>>
        THEN ahead' = [ahead EXCEPT ![p] = Append(@, [out |-> data_to_send[p], in |-> in])]
             /\ UNCHANGED agreed
        ELSE ahead' = [ahead EXCEPT ![Peer(p)] = Tail(@)]
             /\ agreed' = (agreed /\ Head(other) = [out |-> in, in |-> data_to_send[p]])

NothingExchanged == UNCHANGED <<chan, recv, history>>

\* The byte a transfer sends is the one SB held when it was started.
Offered(p) == data_to_send[p]

\* Faulty variant: the byte is only sent once the answer has come.
TransferReceivesFirst(p) ==
    /\ linked /\ Goto(p, "recv")
    /\ UNCHANGED <<port, recv, chan, history>>

\* The internal clock: after a period the byte is sent, and the answer waited for.
\* Without a connection, or if sending fails, there is no other Game Boy.
transfer_int(p) ==
    \/ /\ linked /\ Send(p, Offered(p)) /\ Goto(p, "recv")
       /\ cur_cycles' = [cur_cycles EXCEPT ![p] = 0]
       /\ UNCHANGED <<SB, start_bit, transfer_in_progress, internal_clock, data_to_send, recv, history>>
    \/ /\ linked => PeerQuit(p)
       /\ Complete(p, NoGameBoy) /\ NothingExchanged

\* The external clock: polls, and takes a byte that has arrived.
transfer_ext(p) ==
    IF linked /\ chan[p] # <<>>
    THEN /\ recv' = [recv EXCEPT ![p] = Head(chan[p])]
         /\ chan' = [chan EXCEPT ![p] = Tail(@)]
         /\ Goto(p, "answer") /\ UNCHANGED <<port, history>>
    ELSE Goto(p, "game") /\ UNCHANGED port /\ NothingExchanged

inc_serial_cycles(p) ==
    /\ pc[p] = "tick"
    /\ IF ~transfer_in_progress[p]
       THEN Goto(p, "game") /\ UNCHANGED port /\ NothingExchanged
       ELSE IF ~internal_clock[p] THEN transfer_ext(p)
       ELSE \E c \in Ticks :
               IF cur_cycles[p] + c >= Period THEN transfer_int(p)
               ELSE /\ cur_cycles' = [cur_cycles EXCEPT ![p] = @ + c] /\ Goto(p, "game")
                    /\ UNCHANGED <<SB, start_bit, transfer_in_progress, internal_clock, data_to_send>>
                    /\ NothingExchanged
    /\ UNCHANGED <<linked, swallowed>>

\* The answer arrives, or the connection turns out to be closed.
Receive(p) ==
    /\ pc[p] = "recv"
    /\ \/ /\ chan[p] # <<>> /\ Complete(p, Head(chan[p])) /\ Exchanged(p, Head(chan[p]))
          /\ chan' = [chan EXCEPT ![p] = Tail(@)] /\ UNCHANGED recv
       \/ /\ chan[p] = <<>> /\ PeerQuit(p)
          /\ Complete(p, NoGameBoy) /\ NothingExchanged
    /\ UNCHANGED <<linked, swallowed>>

\* Faulty variant: the byte received is not answered.
AnswerNotSent(p) ==
    /\ pc[p] = "answer" /\ Complete(p, recv[p]) /\ Exchanged(p, recv[p])
    /\ UNCHANGED <<recv, chan, linked, swallowed>>

\* The external side sends its own byte; if that fails its transfer goes on.
Answer(p) ==
    /\ pc[p] = "answer"
    /\ \/ Send(p, Offered(p)) /\ Complete(p, recv[p]) /\ Exchanged(p, recv[p])
       \/ PeerQuit(p) /\ Goto(p, "game") /\ UNCHANGED <<port, chan, history>>
    /\ recv' = [recv EXCEPT ![p] = 0]
    /\ UNCHANGED <<linked, swallowed>>

Emulate(p) == inc_serial_cycles(p) \/ Receive(p) \/ Answer(p)

PlayOn(p) ==
    \/ \E v \in Bytes : WriteSB(p, v)
    \/ WriteSC(p, TRUE, TRUE) \/ WriteSC(p, TRUE, FALSE) \/ WriteSC(p, FALSE, FALSE)
    \/ Other(p) \/ Quit(p)

Setup == setup_server \/ Connect \/ ReadWelcome

LinkNext == Setup \/ \E p \in Sides : Emulate(p) \/ PlayOn(p)

\* An emulator that is not blocked goes on.
LinkFairness == WF_linkVars(Setup) /\ \A p \in Sides : WF_linkVars(Emulate(p))

LinkSpec == LinkInit /\ [][LinkNext]_linkVars /\ LinkFairness

-----------------------------------------------------------------------------
(* Properties                                                              *)

LinkTypeOK ==
    /\ SB \in [Sides -> Bytes \cup {0, NoGameBoy}]
    /\ data_to_send \in [Sides -> Bytes \cup {0, NoGameBoy}]
    /\ cur_cycles \in [Sides -> 0 .. Period - 1]
    /\ pc \in [Sides -> {"listen", "connect", "welcome", "game", "tick", "recv", "answer", "quit"}]

\* Bit 7 of SC, which a game waits for, is set exactly during a transfer.
StartBitTells == \A p \in Sides : start_bit[p] = transfer_in_progress[p]

\* The two sides of an exchange get each other's byte: the kth exchange of one side is
\* the kth of the other, whichever clocks they use and whatever the games write meanwhile.
InStep == ~swallowed => agreed

\* Two emulators that wait for an answer do not wait for each other.
NoMutualWait ==
    ~swallowed /\ (\A p \in Sides : pc[p] = "recv") => \E p \in Sides : chan[p] # <<>>

\* The sides of a link exchange byte for byte, and do not wait for each other.
LinkExact == LinkTypeOK /\ StartBitTells /\ InStep /\ NoMutualWait

\* A side that uses the external clock again and again, or quits, ends the wait of the
\* other: an emulator does not stand still for longer than its peer keeps it waiting.
Polls(p) == transfer_in_progress[p] /\ ~internal_clock[p] /\ pc[p] = "tick"
WaitEnds ==
    \A p \in Sides :
        []~swallowed /\ []<>(Polls(Peer(p)) \/ PeerQuit(p)) => (pc[p] = "recv" ~> pc[p] # "recv")
=============================================================================

----------------------------- MODULE MCConsole ------------------------------
(***************************************************************************)
(* Instances for TLC of the processor, the address space and what is behind *)
(* it on a cartridge: controllers with their saved RAM, and clocks.  A      *)
(* behaviour is of one of them, and leaves the others' state.               *)
(***************************************************************************)
EXTENDS Cpu, MCCartridge, Rtc, MemoryMap

VARIABLE part

-----------------------------------------------------------------------------
(* Programs for the processor: every opcode once with chosen operands,      *)
(* arithmetic on pairs of bytes with and without carry, and calls under     *)
(* interrupts.                                                              *)

Entry == \h100
Stored(addr, string) == [a \in addr .. addr + Len(string) - 1 |-> string[a - addr + 1]]
Off == Set(0, 0, 0, 0)
On == Set(1, 1, 1, 1)
Regs(a, b) ==
    [A |-> a, B |-> b, C |-> \h90, D |-> \hC0, E |-> \hFF, H |-> \hC0, L |-> \h0F]
Start(m, r, f, sp, ime) ==
    [mem |-> m, reg |-> r, flags |-> f, SP |-> sp, PC |-> Entry, ime |-> ime]

\* One instruction of each opcode, and each of the 0xCB page, with jumps to behind it.
DataBytes == Stored(\hC00F, <<\h9A, \h01>>)
Single ==
    {Start(Stored(Entry, <<op, n, \h01>>) @@ DataBytes, Regs(\h80, \hFF), f, sp, FALSE) :
        op \in 0 .. 255, n \in {\h03, \hF0}, f \in {Off, On}, sp \in {\hFFF8, 1}}
    \cup {Start(Stored(Entry, <<\hCB, ext>>) @@ DataBytes, Regs(a, a), f, \hFFFE, FALSE) :
        ext \in 0 .. 255, a \in {\h80, \h01, \h5A}, f \in {Off, On}}

\* The operation of each kind on two bytes, with the carry given, and DAA.
Samples == {0, 1, 9, 15, 16, 25, 69, 80, 127, 128, 136, 145, 153, 154, 160, 240, 255}
TwoBytes ==
    {Start(Stored(Entry, <<op, \h27>>), Regs(a, b), f, \hFFFE, FALSE) :
        op \in {\h80 + 8 * i : i \in 0 .. 7}, a \in Samples, b \in Samples, f \in {Off, On}}
TwoWords ==
    {Start(Stored(Entry, <<op, n>>), [Regs(0, h) EXCEPT !["C"] = l, !["H"] = h2], Off, sp, FALSE) :
        op \in {\h09, \hE8, \hF8, \h39}, n \in {0, 1, \h7F, \h80, \hFF}, h \in {\h0F, \hF0, \hFF},
        l \in {0, \hF1}, h2 \in {\h10, \h0F}, sp \in {0, \h00FF, \h0FF0, \hFFFF}}

\* Calls, conditional and not, from the program at Entry to a routine that calls on,
\* with interrupt routines that save what they use; the last one is entered from HALT
\* with the interrupts masked.
Calls ==
    LET routine == Stored(\h40, <<\hF5, \hC5, \h04, \hA8, \hC1, \hF1, \hD9>>)
        nested  == Stored(\h48, <<\hF5, \hE5, \h21, \h34, \h12, \h29, \hE1, \hF1, \hFB, \hC9>>)
        inner   == Stored(\h200, <<\hC5, \h06, \h7F, \h05, \hC1, \hC8, \hD0, \hC9>>)
        outer   == Stored(\h208, <<\hA7, \hCC, \h00, \h02, \hC4, \h00, \h02, \h3C, \hC9>>)
        rst     == Stored(\h18, <<\hD5, \hD1, \hC9>>)
        main    == Stored(Entry, <<\hC5, \hCD, \h08, \h02, \hDF, \hD1, \hF3, \h76, \h3C, \h3C,
                                \h20, \h01>>)
    IN  {Start(routine @@ nested @@ inner @@ outer @@ rst @@ main, Regs(a, b), f, sp, TRUE) :
            a \in {0, 5, 255}, b \in {0, 1}, f \in {Off, On}, sp \in {\hFFFE, \hD000}}

AllStarts == Single \cup TwoBytes \cup TwoWords \cup Calls

-----------------------------------------------------------------------------
Idle == CHOOSE s \in AllStarts : s.mem = Stored(Entry, <<0, \h03, 1>>) @@ DataBytes
NoCart == Cart("MBC0", 2, 0, FALSE)

MCInit ==
    /\ part \in {"cpu", "cartridge", "clock", "map"}
    /\ Init /\ (part # "cpu" => mem = Idle.mem /\ flags = Idle.flags /\ SP = Idle.SP)
    /\ CartridgeInit /\ (part # "cartridge" => cart = NoCart)
    /\ RtcInit /\ (part # "clock" => mbc = "MBC3")
    /\ MapInit /\ (part # "map" => ~cgb)

MCNext ==
    /\ \/ part = "cpu" /\ Next /\ UNCHANGED <<cartridgeVars, rtcVars, mapVars>>
       \/ part = "cartridge" /\ CartridgeNext /\ UNCHANGED <<vars, rtcVars, mapVars>>
       \/ part = "clock" /\ RtcNext /\ UNCHANGED <<vars, cartridgeVars, mapVars>>
       \/ part = "map" /\ MapNext /\ UNCHANGED <<vars, cartridgeVars, rtcVars>>
    /\ UNCHANGED part

MCSpec == MCInit /\ [][MCNext]_<<vars, cartridgeVars, rtcVars, mapVars, part>>

-----------------------------------------------------------------------------
(* Properties of a part together                                           *)

\* The programs with the routine outer keep their stack, as theorem ReturnsGoHome asks of a program.
StackKept ==
    [][\h208 \in code =>
          \E top \in {\hFFFE, \hD000} : {SP, SP'} \subseteq top - 32 .. top /\ StackStep(top)]_vars

\* Calls and interrupts, however nested, leave no trace but what the routines do.
CallsTransparent == ReturnsHome /\ HandlersTransparent /\ StackKept
=============================================================================

----------------------------- MODULE LcdFrames -----------------------------
(***************************************************************************)
(* Correctness of the LCD controller when no single update carries more    *)
(* than a fraction of a line, which is every update the emulator makes     *)
(* except a general-purpose DMA: at most 24 cycles for an                  *)
(* instruction and 36 for an H-Blank DMA block.                            *)
(***************************************************************************)
EXTENDS Lcd

CONSTANTS MaxStep,   \* the longest update
          MaxHdma    \* the most cycles perform_hdma adds

VARIABLE patient     \* whether the game is, once and for all

ASSUME StepAssumption ==
    /\ MaxStep \in Nat /\ MaxHdma \in Nat
    /\ Steps \subseteq 1 .. MaxStep
    /\ HdmaCosts \subseteq 0 .. MaxHdma
    /\ MaxStep <= HblankCycles
    /\ 2 * MaxStep + MaxHdma <= TransferCycles
    /\ MaxStep + ResetDelay <= LineCycles
    /\ VblankLines >= 2

-----------------------------------------------------------------------------
(* Safety                                                                  *)

\* Outside V-Blank the line counter names a line of the frame buffer: draw_row
\* (graphics.c:492) indexes the pixels with it and has no check of its own.
\* The counter is set back to 0 only if an update falls in the last V-Blank
\* line at the right time.
VisibleLine == ~screen_off /\ current_lcd_mode # 1 => ly_counter < VisibleLines

\* The position in a mode never runs past the mode by more than an update.
ModeClock ==
    ~screen_off =>
        /\ current_lcd_mode = 0 => current_cycles < HblankCycles
        /\ current_lcd_mode = 2 => current_cycles < OamCycles + MaxStep + MaxHdma
        /\ current_lcd_mode = 3 => current_cycles < TransferCycles

\* The two V-Blank clocks agree: current_cycles, which ends the V-Blank, is
\* vblank_line whole lines and current_aux_cycles, which counts the lines.
VblankClocks ==
    ~screen_off /\ current_lcd_mode = 1 =>
        /\ current_aux_cycles < LineCycles
        /\ vblank_line < VblankLines
        /\ current_cycles = LineCycles * vblank_line + current_aux_cycles

\* LY follows the V-Blank line by line and reads 0 for all but the first cycles
\* of the last one.
VblankLy ==
    ~screen_off /\ current_lcd_mode = 1 =>
        \/ /\ ly_counter = VisibleLines + vblank_line
           /\ vblank_line = VblankLines - 1 => current_aux_cycles < ResetDelay
        \/ ly_counter = 0 /\ vblank_line = VblankLines - 1

\* A source that no longer holds does not keep the STAT line up and so cannot
\* swallow the next interrupt: besides the coincidence, only the source of the
\* current mode drives the line, or the OAM source on the first line after the
\* screen is turned on.
SignalIsCurrent ==
    /\ signal \subseteq stat
    /\ signal \subseteq {"lyc", ModeSource} \cup
                        (IF current_lcd_mode = 0 /\ ly_counter = 0 THEN {"oam"} ELSE {})

\* The strengthening that makes VisibleLine inductive.
LineInv == VisibleLine /\ ModeClock /\ VblankClocks /\ VblankLy

-----------------------------------------------------------------------------
(* Action properties                                                       *)

\* LY reaches LYC, or the game moves LYC onto LY, with the screen on and the
\* coincidence source enabled.  The reset of LY to 0 in the last V-Blank line is
\* not compared with LYC (lcd.c:196): line 0 is reached when V-Blank ends.
CoincidenceArrives ==
    /\ ~screen_off /\ ~screen_off' /\ lcdc_on
    /\ ly_counter' = LYC' /\ "lyc" \in stat'
    /\ \/ ly_counter # LYC /\ ~(current_lcd_mode = 1 /\ ly_counter' = 0)
       \/ current_lcd_mode = 1 /\ current_lcd_mode' = 2

\* While LCDC bit 7 is clear, writes to STAT and LYC do not compare LY with LYC
\* (memory.c:593, 630), though the screen may be on: an original machine starts like
\* that, and the countdown that enable_screen leaves is not stopped by disable_screen.
\* A patient game writes STAT and LYC only while the bit is set or the screen is off.
Patient == lcdc_on \/ screen_off \/ (LYC' = LYC /\ stat' = stat)

\* Games of both kinds.
GamesInit == Init /\ patient \in BOOLEAN
GamesNext == Next /\ (patient => Patient) /\ UNCHANGED patient
GamesSpec == GamesInit /\ [][GamesNext]_<<vars, patient>> /\ Fairness

\* No coincidence is lost: when one arrives its source drives the STAT line, and
\* the LCD interrupt is pending unless another source held the line already.
CoincidenceNotLost ==
    [][patient /\ CoincidenceArrives =>
          /\ "lyc" \in signal'
          /\ "LCD" \in iflag' \/ signal \ {"lyc"} # {}]_vars

-----------------------------------------------------------------------------
(* Liveness                                                                *)

\* The screen shows frame after frame for as long as it stays on, whatever the
\* game writes to STAT and LYC.
VblankRecurs == []<>(current_lcd_mode = 1 \/ screen_off)

\* Once the game leaves LCDC and LY alone, a requested screen comes on.
ScreenComesOn ==
    <>[][~(LcdcOn \/ LcdcOff \/ WriteLY)]_vars
        => (screen_enable_delay_cycles > 0 ~> ~screen_off)

-----------------------------------------------------------------------------
(* The controller implements Frame                                         *)

NextLine ==
    IF screen_off THEN 0
    ELSE IF current_lcd_mode = 1 THEN VisibleLines
    ELSE IF current_lcd_mode = 2 \/ (current_lcd_mode = 3 /\ ~scanline_transferred)
         THEN ly_counter
    ELSE ly_counter + 1

F == INSTANCE Frame WITH
        Lines <- VisibleLines,
        phase <- IF screen_off THEN "off"
                 ELSE IF current_lcd_mode = 1 THEN "vblank" ELSE "lines",
        next <- NextLine,
        complete <- frame_drawn

\* Lines are drawn in order, each once per frame, and V-Blank follows the last.
FrameSpec == F!Spec
=============================================================================

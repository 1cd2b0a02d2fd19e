----------------------------- MODULE LcdProofs -----------------------------
(***************************************************************************)
(* Proofs about the LCD controller for all line and frame lengths and for  *)
(* all updates allowed by StepAssumption.                                  *)
(***************************************************************************)
EXTENDS LcdFrames, TLAPS

-----------------------------------------------------------------------------
(* Arithmetic                                                              *)

\* The line counter, a uint8_t, does not wrap while it is small enough.
LEMMA NoWrap ==
    ASSUME NEW n \in Nat, NEW m \in Nat, n < m
    PROVE  n % m = n
  OBVIOUS

LEMMA Wraps ==
    ASSUME NEW n \in Nat, NEW m \in Nat \ {0}
    PROVE  n % m \in 0 .. m - 1
  OBVIOUS

\* Whole lines and the position in the last of them determine each other.
LEMMA Distribute ==
    ASSUME NEW k \in Nat, NEW v \in Nat
    PROVE  k * (v + 1) = k * v + k
  OBVIOUS

LEMMA FirstLine ==
    ASSUME NEW k \in Nat, NEW x \in Nat
    PROVE  x = k * 0 + x
  OBVIOUS

LEMMA Monotone ==
    ASSUME NEW k \in Nat, NEW v \in Nat, NEW w \in Nat, v <= w
    PROVE  k * v <= k * w
  OBVIOUS

\* What the assumptions say of each constant.
LEMMA Constants ==
    /\ OamCycles \in Nat /\ TransferCycles \in Nat /\ HblankCycles \in Nat
    /\ LineCycles \in Nat /\ VisibleLines \in Nat /\ VblankLines \in Nat
    /\ ResetDelay \in Nat /\ EnableDelay \in Nat /\ LyValues \in Nat
    /\ ResetDelay > 0 /\ VisibleLines > 0 /\ VblankLines > 0 /\ LyValues > VisibleLines
    /\ \A c \in Steps : c \in Nat /\ c > 0
    /\ \A h \in HdmaCosts : h \in Nat
    /\ \A v \in LycValues : v \in 0 .. LyValues - 1
    /\ \A en \in StatValues : en \in SUBSET Sources
  BY LengthAssumption, InputAssumption

-----------------------------------------------------------------------------
(* Type correctness                                                        *)

LEMMA DriveType ==
    ASSUME stat \in SUBSET Sources, NEW s \in SUBSET Sources, NEW src \in Sources
    PROVE  Drive(src, s) \in SUBSET Sources
  BY DEF Drive

LEMMA CoincideType ==
    ASSUME stat \in SUBSET Sources, NEW s \in SUBSET Sources, NEW ly, NEW lyc
    PROVE  CoincideSignal(s, ly, lyc) \in SUBSET Sources
  BY DriveType DEF CoincideSignal, Sources

LEMMA RaiseType ==
    ASSUME iflag \in SUBSET {"VBLANK", "LCD"}, NEW ints \in SUBSET {"VBLANK", "LCD"},
           NEW lcd, Raise(ints, lcd)
    PROVE  iflag' \in SUBSET {"VBLANK", "LCD"}
  BY DEF Raise

\* Every variable keeps its type under every update and every register write.
LEMMA TypeStep == TypeOK /\ [Next]_vars => TypeOK'
<1> SUFFICES ASSUME TypeOK, [Next]_vars
             PROVE  TypeOK'
    OBVIOUS
<1> USE Constants
<1>1. ASSUME NEW c \in Steps, Wait(c)
      PROVE  TypeOK'
    BY <1>1 DEF Wait, TypeOK, screen, regs
<1>2. ASSUME NEW c \in Steps, OamToTransfer(c)
      PROVE  TypeOK'
    <2>1. signal' \in SUBSET Sources
        BY <1>2 DEF OamToTransfer, TypeOK
    <2>2. current_cycles' \in Nat
        BY <1>2 DEF OamToTransfer, TypeOK
    <2>3. scanline_transferred' \in BOOLEAN
        BY <1>2 DEF OamToTransfer
    <2> QED
        BY <1>2, <2>1, <2>2, <2>3 DEF OamToTransfer, TypeOK, screen, regs
<1>3. ASSUME NEW c \in Steps, TransferRun(c)
      PROVE  TypeOK'
    BY <1>3 DEF TransferRun, Transfer, Draws, TypeOK, screen, regs
<1>4. ASSUME NEW c \in Steps, TransferToHblank(c)
      PROVE  TypeOK'
    <2>1. signal' \in SUBSET Sources
        BY <1>4, DriveType DEF TransferToHblank, TypeOK, Sources
    <2>2. iflag' \in SUBSET {"VBLANK", "LCD"}
        BY <1>4, RaiseType DEF TransferToHblank, TypeOK
    <2> QED
        <3>1. current_cycles' \in Nat /\ LY' \in 0 .. LyValues - 1
            BY <1>4 DEF TransferToHblank, Transfer, TypeOK
        <3>2. scanline_transferred' \in BOOLEAN /\ frame_drawn' \in BOOLEAN
            BY <1>4 DEF TransferToHblank, Transfer, TypeOK
        <3>3. current_lcd_mode' = 0 /\ stat_mode' = 0
            BY <1>4 DEF TransferToHblank
        <3>4. UNCHANGED <<current_aux_cycles, vblank_line, screen, regs, ly_counter, coincidence>>
            BY <1>4 DEF TransferToHblank, Transfer
        <3> QED
            BY <2>1, <2>2, <3>1, <3>2, <3>3, <3>4 DEF TypeOK, screen, regs
<1>5. ASSUME NEW c \in Steps, NEW h \in HdmaCosts,
             NEW m \in {1, 2}, NEW src \in Sources, LeaveHblank(c, h, m, src)
      PROVE  /\ signal' \in SUBSET Sources
             /\ iflag' \in SUBSET {"VBLANK", "LCD"}
             /\ ly_counter' \in 0 .. LyValues - 1 /\ LY' = ly_counter'
             /\ current_cycles' \in Nat
             /\ current_lcd_mode' \in 0 .. 3 /\ stat_mode' \in 0 .. 3
             /\ coincidence' \in BOOLEAN
             /\ UNCHANGED <<screen, regs, scanline_transferred, frame_drawn>>
    <2> DEFINE ly == (ly_counter + 1) % LyValues
               s2 == CoincideSignal(signal, ly, LYC) \cap {"hblank", "vblank", "lyc"}
    <2>1. ly \in 0 .. LyValues - 1
        BY Wraps DEF TypeOK
    <2>2. /\ CoincideSignal(signal, ly, LYC) \in SUBSET Sources
          /\ CoincideSignal(signal, ly, LYC) \cap {"hblank", "lyc"} \in SUBSET Sources
        BY CoincideType DEF TypeOK
    <2>3. signal' \in SUBSET Sources
        BY <1>5, <2>2, DriveType DEF LeaveHblank, TypeOK
    <2>4. (IF m = 1 THEN {"VBLANK"} ELSE {}) \in SUBSET {"VBLANK", "LCD"}
        OBVIOUS
    <2>5. iflag' \in SUBSET {"VBLANK", "LCD"}
        BY <1>5, <2>4, RaiseType DEF LeaveHblank, TypeOK
    <2>6. current_cycles' \in Nat
        BY <1>5 DEF LeaveHblank, TypeOK
    <2>7. /\ ly_counter' = ly /\ LY' = ly
          /\ current_lcd_mode' = m /\ stat_mode' = m
          /\ UNCHANGED <<screen, regs, scanline_transferred, frame_drawn>>
        BY <1>5 DEF LeaveHblank
    <2>8. coincidence' \in BOOLEAN
        BY <1>5 DEF LeaveHblank
    <2> QED
        BY <2>1, <2>3, <2>5, <2>6, <2>7, <2>8
<1>6. ASSUME NEW c \in Steps, NEW h \in HdmaCosts, HblankToOam(c, h)
      PROVE  TypeOK'
    BY <1>6, <1>5 DEF HblankToOam, TypeOK, Sources, screen, regs
<1>7. ASSUME NEW c \in Steps, NEW h \in HdmaCosts, HblankToVblank(c, h)
      PROVE  TypeOK'
    BY <1>7, <1>5 DEF HblankToVblank, TypeOK, Sources, screen, regs
<1>8. ASSUME NEW c \in Steps, VblankCount(c)
      PROVE  /\ current_aux_cycles' \in Nat /\ vblank_line' \in Nat
             /\ LyCounted(c) \in 0 .. LyValues - 1 /\ LyAfter(c) \in 0 .. LyValues - 1
             /\ ly_counter' \in 0 .. LyValues - 1 /\ LY' \in 0 .. LyValues - 1
             /\ VblankSignal(c) \in SUBSET Sources
             /\ UNCHANGED <<screen, regs, scanline_transferred, frame_drawn>>
    <2>1. /\ AuxAfter(c) \in Nat /\ LineAfter(c) \in Nat
        BY DEF TypeOK, AuxAfter, LineAfter, LineOver
    <2>2. LyCounted(c) \in 0 .. LyValues - 1
        BY Wraps DEF LyCounted, TypeOK
    <2>3. LyAfter(c) \in 0 .. LyValues - 1
        BY <2>2 DEF LyAfter
    <2>4. VblankSignal(c) \in SUBSET Sources
        BY CoincideType DEF VblankSignal, TypeOK
    <2> QED
        BY <1>8, <2>1, <2>2, <2>3, <2>4 DEF VblankCount, TypeOK
<1>9. ASSUME NEW c \in Steps, VblankRun(c)
      PROVE  TypeOK'
    <2>1. iflag' \in SUBSET {"VBLANK", "LCD"}
        BY <1>9, RaiseType DEF VblankRun, TypeOK
    <2>2. coincidence' \in BOOLEAN
        BY <1>9 DEF VblankRun, TypeOK
    <2>3. current_cycles' \in Nat
        BY <1>9 DEF VblankRun, TypeOK
    <2> QED
        BY <1>9, <1>8, <2>1, <2>2, <2>3 DEF VblankRun, TypeOK, screen, regs
<1>10. ASSUME NEW c \in Steps, VblankToOam(c)
       PROVE  TypeOK'
    <2>1. VblankSignal(c) \in SUBSET Sources
        BY <1>10, <1>8 DEF VblankToOam
    <2>2. CoincideSignal(VblankSignal(c) \ {"lyc"}, LyAfter(c), LYC) \cap {"vblank", "lyc"}
             \in SUBSET Sources
        BY <2>1, CoincideType DEF TypeOK
    <2>3. signal' \in SUBSET Sources
        BY <1>10, <2>2, DriveType DEF VblankToOam, TypeOK, Sources
    <2>4. iflag' \in SUBSET {"VBLANK", "LCD"}
        BY <1>10, RaiseType DEF VblankToOam, TypeOK
    <2>5. current_cycles' \in Nat /\ coincidence' \in BOOLEAN
        BY <1>10 DEF VblankToOam, TypeOK
    <2>6. VblankCount(c) /\ current_lcd_mode' = 2 /\ stat_mode' = 2
        BY <1>10 DEF VblankToOam
    <2> QED
        BY <1>8, <2>3, <2>4, <2>5, <2>6 DEF TypeOK, screen, regs
<1>11. ASSUME NEW c \in Steps, EnableCountdown(c)
       PROVE  TypeOK'
    BY <1>11 DEF EnableCountdown, TypeOK, timing, regs
<1>12. ASSUME NEW c \in Steps, EnableDone(c)
       PROVE  TypeOK'
    <2>1. Drive("oam", {}) \in SUBSET Sources
        BY DriveType DEF TypeOK, Sources
    <2>2. signal' \in SUBSET Sources
        BY <1>12, <2>1, CoincideType DEF EnableDone, TypeOK
    <2>3. iflag' \in SUBSET {"VBLANK", "LCD"}
        BY <1>12, RaiseType DEF EnableDone, TypeOK
    <2>4. screen_off' \in BOOLEAN
        BY <1>12 DEF EnableDone
    <2>5. coincidence' \in BOOLEAN
        BY <1>12 DEF EnableDone
    <2>6. /\ screen_enable_delay_cycles' = 0 /\ current_lcd_mode' = 0
          /\ ly_counter' = 0 /\ LY' = 0
          /\ current_cycles' = 0 /\ current_aux_cycles' = 0 /\ vblank_line' = 0
          /\ UNCHANGED <<regs, scanline_transferred, stat_mode, frame_drawn>>
        BY <1>12 DEF EnableDone
    <2> QED
        BY <2>2, <2>3, <2>4, <2>5, <2>6 DEF TypeOK, regs
<1>13. CASE LcdcOn
    BY <1>13 DEF LcdcOn, TypeOK, timing
<1>14. CASE LcdcOff
    <2>1. signal' \in SUBSET Sources
        BY <1>14 DEF LcdcOff, disable_screen
    <2>2. lcdc_on' \in BOOLEAN
        BY <1>14 DEF LcdcOff
    <2> QED
        BY <1>14, <2>1, <2>2 DEF LcdcOff, disable_screen, TypeOK
<1>15. CASE WriteLY
    BY <1>15 DEF WriteLY, disable_screen, TypeOK, regs
<1>16. ASSUME NEW en \in StatValues, WriteSTAT(en)
       PROVE  TypeOK'
    <2>1. en \in SUBSET Sources
        OBVIOUS
    <2>2. signal' \in SUBSET Sources
        BY <1>16, <2>1 DEF WriteSTAT, TypeOK
    <2>3. iflag' \in SUBSET {"VBLANK", "LCD"}
        BY <1>16, RaiseType DEF WriteSTAT, TypeOK
    <2>4. coincidence' \in BOOLEAN
        BY <1>16 DEF WriteSTAT, TypeOK
    <2> QED
        BY <1>16, <2>1, <2>2, <2>3, <2>4 DEF WriteSTAT, TypeOK, timing, screen
<1>17. ASSUME NEW v \in LycValues, WriteLYC(v)
       PROVE  TypeOK'
    <2>1. signal' \in SUBSET Sources
        BY <1>17, CoincideType DEF WriteLYC, TypeOK
    <2>2. iflag' \in SUBSET {"VBLANK", "LCD"}
        BY <1>17, RaiseType DEF WriteLYC, TypeOK
    <2>3. coincidence' \in BOOLEAN
        BY <1>17 DEF WriteLYC, TypeOK
    <2> QED
        BY <1>17, <2>1, <2>2, <2>3 DEF WriteLYC, TypeOK, timing, screen
<1>18. ASSUME NEW i, Service(i)
       PROVE  TypeOK'
    BY <1>18 DEF Service, TypeOK, timing, screen, regs
<1>19. CASE NextFrame
    BY <1>19 DEF NextFrame, TypeOK, timing, screen, regs
<1>20. CASE UNCHANGED vars
    BY <1>20 DEF vars, TypeOK, timing, screen, regs
<1> QED
    BY <1>1, <1>2, <1>3, <1>4, <1>6, <1>7, <1>9, <1>10, <1>11, <1>12, <1>13, <1>14,
       <1>15, <1>16, <1>17, <1>18, <1>19, <1>20
    DEF Next, Update, Game

LEMMA InitType == Init => TypeOK
<1> SUFFICES ASSUME Init
             PROVE  TypeOK
    OBVIOUS
<1>1. signal \in SUBSET Sources /\ stat \in SUBSET Sources
    BY DEF Init
<1>2. lcdc_on \in BOOLEAN
    BY InputAssumption DEF Init
<1>3. iflag \in SUBSET {"VBLANK", "LCD"}
    BY DEF Init
<1>4. /\ scanline_transferred \in BOOLEAN /\ screen_off \in BOOLEAN
      /\ coincidence \in BOOLEAN /\ frame_drawn \in BOOLEAN
    BY DEF Init
<1> QED
    BY Constants, <1>1, <1>2, <1>3, <1>4 DEF Init, TypeOK

\* The controller's registers and counters keep their types: io_mem bytes stay
\* bytes and stat_interrupt_signal names existing sources.
THEOREM TypeCorrect == Spec => []TypeOK
  BY InitType, TypeStep, PTL DEF Spec

-----------------------------------------------------------------------------
(* The line counter                                                        *)

\* The step bounds, one update at a time.
LEMMA ShortSteps ==
    /\ MaxStep \in Nat /\ MaxHdma \in Nat
    /\ \A c \in Steps : /\ c <= MaxStep /\ c <= HblankCycles
                        /\ c + MaxStep + MaxHdma <= TransferCycles
                        /\ c + ResetDelay <= LineCycles
    /\ \A h \in HdmaCosts : h <= MaxHdma
    /\ \A c \in Steps, h \in HdmaCosts : c + h <= LineCycles
    /\ LineCycles = OamCycles + TransferCycles + HblankCycles
    /\ VblankLines - 1 \in Nat /\ VblankLines - 1 > 0
    /\ VisibleLines + VblankLines <= LyValues
  BY Constants, LengthAssumption, StepAssumption

\* An update in V-Blank crosses at most one line, so the two V-Blank clocks stay
\* in step, and the last line is over exactly when the V-Blank is.
LEMMA VblankPosition ==
    ASSUME TypeOK, VblankClocks, ~screen_off, current_lcd_mode = 1, NEW c \in Steps
    PROVE  /\ AuxAfter(c) \in 0 .. LineCycles - 1
           /\ LineAfter(c) \in 0 .. VblankLines
           /\ current_cycles + c = LineCycles * LineAfter(c) + AuxAfter(c)
           /\ current_cycles + c >= LineCycles * VblankLines <=> LineAfter(c) = VblankLines
           /\ LineAfter(c) = VblankLines - 1
                => current_cycles + c >= LineCycles * (VblankLines - 1)
<1> USE Constants, ShortSteps
<1> DEFINE a == AuxAfter(c)
           v == LineAfter(c)
<1>1. /\ c \in Nat /\ c <= LineCycles
      /\ current_cycles \in Nat /\ current_aux_cycles \in Nat /\ vblank_line \in Nat
      /\ current_aux_cycles < LineCycles /\ vblank_line < VblankLines
      /\ current_cycles = LineCycles * vblank_line + current_aux_cycles
    BY DEF TypeOK, VblankClocks
<1>2. a \in 0 .. LineCycles - 1
    BY <1>1 DEF AuxAfter, LineOver
<1>3. v \in 0 .. VblankLines
    BY <1>1 DEF LineAfter, LineOver
<1>4. LineCycles * (vblank_line + 1) = LineCycles * vblank_line + LineCycles
    BY <1>1, Distribute
<1>5. current_cycles + c = LineCycles * v + a
    BY <1>1, <1>4 DEF AuxAfter, LineAfter, LineOver
<1>6. current_cycles + c >= LineCycles * VblankLines <=> v = VblankLines
    <2>1. CASE v = VblankLines
        BY <1>2, <1>5, <2>1
    <2>2. CASE v + 1 <= VblankLines
        <3>1. LineCycles * (v + 1) = LineCycles * v + LineCycles
            BY <1>3, Distribute
        <3>2. LineCycles * (v + 1) <= LineCycles * VblankLines
            BY <1>3, <2>2, Monotone
        <3>3. LineCycles * v \in Nat /\ LineCycles * VblankLines \in Nat
            BY <1>3
        <3> HIDE DEF a, v
        <3>4. current_cycles + c < LineCycles * VblankLines
            BY <1>1, <1>2, <1>5, <3>1, <3>2, <3>3
        <3> QED
            BY <1>1, <1>3, <2>2, <3>3, <3>4
    <2> QED
        BY <1>3, <2>1, <2>2
<1>7. v = VblankLines - 1 => current_cycles + c >= LineCycles * (VblankLines - 1)
    BY <1>2, <1>5
<1> QED
    BY <1>2, <1>3, <1>5, <1>6, <1>7

\* Where the line counter stands after an update in V-Blank.
LEMMA VblankLyAfter ==
    ASSUME TypeOK, VblankClocks, VblankLy, ~screen_off, current_lcd_mode = 1,
           NEW c \in Steps
    PROVE  /\ LineAfter(c) = VblankLines => LyAfter(c) = 0
           /\ LineAfter(c) < VblankLines =>
                \/ /\ LyAfter(c) = VisibleLines + LineAfter(c)
                   /\ LineAfter(c) = VblankLines - 1 => AuxAfter(c) < ResetDelay
                \/ LyAfter(c) = 0 /\ LineAfter(c) = VblankLines - 1
<1> USE Constants, ShortSteps
<1>1. /\ c \in Nat /\ c + ResetDelay <= LineCycles
      /\ current_aux_cycles \in Nat /\ vblank_line \in Nat /\ vblank_line < VblankLines
      /\ current_cycles \in Nat
    BY DEF TypeOK, VblankClocks
<1>2. /\ AuxAfter(c) \in 0 .. LineCycles - 1 /\ LineAfter(c) \in 0 .. VblankLines
      /\ LineAfter(c) = VblankLines - 1
            => current_cycles + c >= LineCycles * (VblankLines - 1)
    BY VblankPosition
<1>3. CASE ly_counter = 0 /\ vblank_line = VblankLines - 1
    <2>1. LyCounted(c) = 0
        BY <1>1, <1>3 DEF LyCounted, Counted, LineAfter
    <2>2. LyAfter(c) = 0
        BY <2>1 DEF LyAfter
    <2>3. LineAfter(c) \in {VblankLines - 1, VblankLines}
        BY <1>1, <1>3 DEF LineAfter
    <2> QED
        BY <2>2, <2>3
<1>4. CASE /\ ly_counter = VisibleLines + vblank_line
           /\ vblank_line = VblankLines - 1 => current_aux_cycles < ResetDelay
    <2>1. LineAfter(c) < VblankLines
        BY <1>1, <1>4 DEF LineAfter, LineOver
    <2>2. LyCounted(c) = VisibleLines + LineAfter(c)
        <3>1. CASE LineOver(c)
            <4>1. Counted(c) /\ LineAfter(c) = vblank_line + 1
                BY <2>1, <3>1 DEF Counted, LineAfter
            <4>2. (ly_counter + 1) % LyValues = ly_counter + 1
                BY <1>1, <1>4, <2>1, <4>1, NoWrap
            <4> QED
                BY <1>1, <1>4, <4>1, <4>2 DEF LyCounted
        <3>2. CASE ~LineOver(c)
            BY <1>4, <3>2 DEF LyCounted, Counted, LineAfter
        <3> QED
            BY <3>1, <3>2
    <2>3. CASE LyResets(c)
        BY <1>1, <1>2, <2>1, <2>2, <2>3 DEF LyAfter, LyResets
    <2>4. CASE ~LyResets(c)
        <3>1. LineAfter(c) = VblankLines - 1 => ~(AuxAfter(c) >= ResetDelay)
            BY <1>2, <2>2, <2>4 DEF LyResets
        <3>2. LyAfter(c) = VisibleLines + LineAfter(c)
            BY <2>2, <2>4 DEF LyAfter
        <3> QED
            BY <1>2, <2>1, <3>1, <3>2
    <2> QED
        BY <2>3, <2>4
<1> QED
    BY <1>3, <1>4 DEF VblankLy

\* The line counter stays in its mode's range under every step.
LEMMA LineStep == TypeOK /\ TypeOK' /\ LineInv /\ [Next]_vars => LineInv'
<1> SUFFICES ASSUME TypeOK, TypeOK', LineInv, [Next]_vars
             PROVE  LineInv'
    OBVIOUS
<1> USE Constants, ShortSteps
<1>1. ASSUME NEW c \in Steps, Wait(c)
      PROVE  LineInv'
    BY <1>1 DEF Wait, screen, LineInv, VisibleLine, ModeClock, VblankClocks, VblankLy, TypeOK
<1>2. ASSUME NEW c \in Steps, OamToTransfer(c)
      PROVE  LineInv'
    BY <1>2 DEF OamToTransfer, screen, LineInv, VisibleLine, ModeClock, VblankClocks,
                VblankLy, TypeOK
<1>3. ASSUME NEW c \in Steps, TransferRun(c)
      PROVE  LineInv'
    BY <1>3 DEF TransferRun, Transfer, screen, LineInv, VisibleLine, ModeClock,
                VblankClocks, VblankLy, TypeOK
<1>4. ASSUME NEW c \in Steps, TransferToHblank(c)
      PROVE  LineInv'
    BY <1>4 DEF TransferToHblank, Transfer, screen, LineInv, VisibleLine, ModeClock,
                VblankClocks, VblankLy, TypeOK
<1>5. ASSUME NEW c \in Steps, NEW h \in HdmaCosts, HblankToOam(c, h)
      PROVE  LineInv'
    <2>1. /\ screen_off' = FALSE /\ current_lcd_mode' = 2
          /\ ly_counter < VisibleLines
          /\ current_cycles < HblankCycles
          /\ current_cycles' = current_cycles + c - HblankCycles + h
          /\ ly_counter' = (ly_counter + 1) % LyValues /\ ly_counter' # VisibleLines
        BY <1>5 DEF HblankToOam, LeaveHblank, screen, LineInv, VisibleLine, ModeClock, TypeOK
    <2>2. ly_counter' = ly_counter + 1
        <3>1. ly_counter + 1 \in Nat /\ ly_counter + 1 < LyValues
            BY <2>1 DEF TypeOK
        <3> QED
            BY <2>1, <3>1, NoWrap
    <2>3. ly_counter' < VisibleLines
        BY <2>1, <2>2 DEF TypeOK
    <2>4. current_cycles' < MaxStep + MaxHdma
        BY <2>1 DEF TypeOK
    <2> QED
        BY <2>1, <2>3, <2>4 DEF LineInv, VisibleLine, ModeClock, VblankClocks, VblankLy, TypeOK
<1>6. ASSUME NEW c \in Steps, NEW h \in HdmaCosts, HblankToVblank(c, h)
      PROVE  LineInv'
    <2>1. /\ screen_off' = FALSE /\ current_lcd_mode' = 1
          /\ current_cycles < HblankCycles
          /\ current_cycles' = current_cycles + c - HblankCycles + h
          /\ current_aux_cycles' = current_cycles' /\ vblank_line' = 0
          /\ ly_counter' = VisibleLines
        BY <1>6 DEF HblankToVblank, LeaveHblank, screen, LineInv, ModeClock, TypeOK
    <2>2. current_cycles' < LineCycles
        BY <2>1 DEF TypeOK
    <2>3. current_cycles' = LineCycles * vblank_line' + current_aux_cycles'
        BY <2>1, FirstLine DEF TypeOK
    <2> QED
        BY <2>1, <2>2, <2>3 DEF LineInv, VisibleLine, ModeClock, VblankClocks, VblankLy, TypeOK
<1>7. ASSUME NEW c \in Steps, VblankRun(c)
      PROVE  LineInv'
    <2>1. /\ ~screen_off /\ current_lcd_mode = 1
          /\ ~screen_off' /\ current_lcd_mode' = 1
          /\ current_cycles + c < LineCycles * VblankLines
          /\ current_cycles' = current_cycles + c
          /\ current_aux_cycles' = AuxAfter(c) /\ vblank_line' = LineAfter(c)
          /\ ly_counter' = LyAfter(c)
        BY <1>7 DEF VblankRun, VblankCount, screen
    <2>2. VblankClocks /\ VblankLy
        BY DEF LineInv
    <2>3. /\ AuxAfter(c) \in 0 .. LineCycles - 1 /\ LineAfter(c) \in 0 .. VblankLines
          /\ current_cycles + c = LineCycles * LineAfter(c) + AuxAfter(c)
          /\ current_cycles + c >= LineCycles * VblankLines <=> LineAfter(c) = VblankLines
        BY <2>1, <2>2, VblankPosition
    <2>4. LineAfter(c) < VblankLines
        <3>1. current_cycles + c \in Nat /\ LineCycles * VblankLines \in Nat
            BY DEF TypeOK
        <3> QED
            BY <2>1, <2>3, <3>1
    <2>5. \/ /\ LyAfter(c) = VisibleLines + LineAfter(c)
             /\ LineAfter(c) = VblankLines - 1 => AuxAfter(c) < ResetDelay
          \/ LyAfter(c) = 0 /\ LineAfter(c) = VblankLines - 1
        BY <2>1, <2>2, <2>4, VblankLyAfter
    <2> QED
        BY <2>1, <2>3, <2>4, <2>5 DEF LineInv, VisibleLine, ModeClock, VblankClocks, VblankLy
<1>8. ASSUME NEW c \in Steps, VblankToOam(c)
      PROVE  LineInv'
    <2>1. /\ ~screen_off /\ current_lcd_mode = 1
          /\ ~screen_off' /\ current_lcd_mode' = 2
          /\ current_cycles + c >= LineCycles * VblankLines
          /\ current_cycles' = current_cycles + c - LineCycles * VblankLines
          /\ ly_counter' = LyAfter(c)
        BY <1>8 DEF VblankToOam, VblankCount, screen
    <2>2. VblankClocks /\ VblankLy
        BY DEF LineInv
    <2>3. LineAfter(c) = VblankLines
        BY <2>1, <2>2, VblankPosition
    <2>4. ly_counter' = 0
        BY <2>1, <2>2, <2>3, VblankLyAfter
    <2>5. current_cycles' < MaxStep
        <3>1. current_cycles < LineCycles * VblankLines
            <4>1. /\ vblank_line \in Nat /\ vblank_line + 1 <= VblankLines
                  /\ current_aux_cycles \in Nat /\ current_aux_cycles < LineCycles
                  /\ current_cycles = LineCycles * vblank_line + current_aux_cycles
                BY <2>1, <2>2 DEF VblankClocks, TypeOK
            <4>2. LineCycles * (vblank_line + 1) = LineCycles * vblank_line + LineCycles
                BY <4>1, Distribute
            <4>3. LineCycles * (vblank_line + 1) <= LineCycles * VblankLines
                BY <4>1, Monotone
            <4>4. LineCycles * vblank_line \in Nat /\ LineCycles * VblankLines \in Nat
                BY <4>1
            <4> QED
                BY <4>1, <4>2, <4>3, <4>4
        <3>2. LineCycles * VblankLines \in Nat
            OBVIOUS
        <3> QED
            BY <2>1, <3>1, <3>2 DEF TypeOK
    <2> QED
        BY <2>1, <2>4, <2>5 DEF LineInv, VisibleLine, ModeClock, VblankClocks, VblankLy, TypeOK
<1>9. ASSUME NEW c \in Steps, EnableCountdown(c)
      PROVE  LineInv'
    BY <1>9 DEF EnableCountdown, LineInv, VisibleLine, ModeClock, VblankClocks, VblankLy
<1>10. ASSUME NEW c \in Steps, EnableDone(c)
       PROVE  LineInv'
    <2>1. current_lcd_mode' = 0 /\ current_cycles' = 0 /\ ly_counter' = 0
        BY <1>10 DEF EnableDone
    <2> QED
        BY <2>1, LengthAssumption
        DEF LineInv, VisibleLine, ModeClock, VblankClocks, VblankLy
<1>11. CASE LcdcOff \/ WriteLY
    <2>1. screen_off' = TRUE
        BY <1>11 DEF LcdcOff, WriteLY, disable_screen
    <2> QED
        BY <2>1 DEF LineInv, VisibleLine, ModeClock, VblankClocks, VblankLy
<1>12. CASE UNCHANGED <<timing, screen_off, current_lcd_mode, ly_counter>>
    BY <1>12 DEF timing, LineInv, VisibleLine, ModeClock, VblankClocks, VblankLy
<1>13. CASE LcdcOn
    BY <1>12, <1>13 DEF LcdcOn
<1>14. ASSUME NEW en \in StatValues, WriteSTAT(en)
       PROVE  LineInv'
    BY <1>12, <1>14 DEF WriteSTAT, screen
<1>15. ASSUME NEW v \in LycValues, WriteLYC(v)
       PROVE  LineInv'
    BY <1>12, <1>15 DEF WriteLYC, screen
<1>16. ASSUME NEW i, Service(i)
       PROVE  LineInv'
    BY <1>12, <1>16 DEF Service, screen
<1>17. CASE NextFrame \/ UNCHANGED vars
    BY <1>12, <1>17 DEF NextFrame, vars, screen
<1> QED
    BY <1>1, <1>2, <1>3, <1>4, <1>5, <1>6, <1>7, <1>8, <1>9, <1>10, <1>11, <1>13, <1>14,
       <1>15, <1>16, <1>17
    DEF Next, Update, Game

LEMMA LineInit == Init => LineInv
<1> SUFFICES ASSUME Init
             PROVE  LineInv
    OBVIOUS
<1>1. /\ current_lcd_mode = 1 /\ ly_counter = VisibleLines + vblank_line
      /\ current_cycles = 0 /\ current_aux_cycles = 0 /\ vblank_line = 0
    BY Constants DEF Init
<1>2. LineCycles * 0 + 0 = 0 /\ LineCycles > 0
    BY Constants, LengthAssumption
<1> QED
    BY <1>1, <1>2, Constants, ShortSteps
    DEF LineInv, VisibleLine, ModeClock, VblankClocks, VblankLy

\* The inductive invariant: mode, line counter and V-Blank clocks agree.
THEOREM LineInvariant == Spec => [](TypeOK /\ LineInv)
<1>1. Init => TypeOK /\ LineInv
    BY InitType, LineInit
<1>2. TypeOK /\ LineInv /\ [Next]_vars => (TypeOK /\ LineInv)'
    BY TypeStep, LineStep
<1> QED
    BY <1>1, <1>2, PTL DEF Spec

\* No update outside V-Blank ever finds the line counter past the last visible
\* line, so draw_row stays inside the frame buffer.
THEOREM LinesVisible == Spec => []VisibleLine
  BY LineInvariant, PTL DEF LineInv

-----------------------------------------------------------------------------
(* The STAT line                                                           *)

\* Comparing LY with LYC changes nothing but the coincidence source.
LEMMA CoincideKeeps ==
    ASSUME NEW s \in SUBSET stat, NEW ly, NEW lyc, NEW current, s \subseteq current,
           "lyc" \in current
    PROVE  /\ CoincideSignal(s, ly, lyc) \in SUBSET stat
           /\ CoincideSignal(s, ly, lyc) \subseteq current
  BY DEF CoincideSignal, Drive

\* What may drive the line in mode m with the line counter at ly.
Current(m, ly) ==
    {"lyc"} \cup (IF m = 0 THEN {"hblank"} ELSE IF m = 1 THEN {"vblank"}
                  ELSE IF m = 2 THEN {"oam"} ELSE {"none"})
            \cup (IF m = 0 /\ ly = 0 THEN {"oam"} ELSE {})

LEMMA CurrentSignal ==
    SignalIsCurrent <=> signal \in SUBSET stat /\ signal \subseteq Current(current_lcd_mode, ly_counter)
  BY DEF SignalIsCurrent, Current, ModeSource

\* A mode that is left takes its source off the line, and a write of STAT those it disables.
LEMMA SignalStep == TypeOK /\ SignalIsCurrent /\ [Next]_vars => SignalIsCurrent'
<1> SUFFICES ASSUME TypeOK, SignalIsCurrent, [Next]_vars
             PROVE  /\ signal' \in SUBSET stat'
                    /\ signal' \subseteq Current(current_lcd_mode', ly_counter')
    BY DEF SignalIsCurrent, Current, ModeSource
<1>1. signal \in SUBSET stat /\ signal \subseteq Current(current_lcd_mode, ly_counter)
    BY CurrentSignal
<1>2. ASSUME NEW c \in Steps, OamToTransfer(c)
      PROVE  signal' \in SUBSET stat' /\ signal' \subseteq Current(current_lcd_mode', ly_counter')
    BY <1>1, <1>2 DEF OamToTransfer, regs, Current
<1>3. ASSUME NEW c \in Steps, TransferToHblank(c)
      PROVE  signal' \in SUBSET stat' /\ signal' \subseteq Current(current_lcd_mode', ly_counter')
    BY <1>1, <1>3 DEF TransferToHblank, Transfer, regs, Current, Drive
<1>4. ASSUME NEW c \in Steps, NEW h \in HdmaCosts, HblankToOam(c, h) \/ HblankToVblank(c, h)
      PROVE  signal' \in SUBSET stat' /\ signal' \subseteq Current(current_lcd_mode', ly_counter')
    <2> DEFINE s1 == CoincideSignal(signal, (ly_counter + 1) % LyValues, LYC)
               s2 == s1 \cap {"hblank", "lyc"}
    <2>1. s1 \in SUBSET stat
        BY <1>1, CoincideKeeps DEF Current
    <2>2. stat' = stat
        BY <1>4 DEF HblankToOam, HblankToVblank, LeaveHblank, regs
    <2>3. CASE HblankToOam(c, h)
        <3>1. current_lcd_mode' = 2 /\ signal' = Drive("oam", s2) \ {"hblank"}
            BY <2>3 DEF HblankToOam, LeaveHblank
        <3> QED
            BY <2>1, <2>2, <3>1 DEF Drive, Current
    <2>4. CASE HblankToVblank(c, h)
        <3>1. current_lcd_mode' = 1 /\ signal' = Drive("vblank", s2) \ {"hblank"}
            BY <2>4 DEF HblankToVblank, LeaveHblank
        <3> QED
            BY <2>1, <2>2, <3>1 DEF Drive, Current
    <2> QED
        BY <1>4, <2>3, <2>4
<1>5. ASSUME NEW c \in Steps, VblankCount(c)
      PROVE  VblankSignal(c) \in SUBSET stat /\ VblankSignal(c) \subseteq {"lyc", "vblank"}
    <2>1. signal \subseteq {"lyc", "vblank"}
        BY <1>1, <1>5 DEF VblankCount, Current
    <2> QED
        BY <1>1, <2>1, CoincideKeeps DEF VblankSignal
<1>6. ASSUME NEW c \in Steps, VblankRun(c)
      PROVE  signal' \in SUBSET stat' /\ signal' \subseteq Current(current_lcd_mode', ly_counter')
    <2>1. current_lcd_mode' = 1 /\ signal' = VblankSignal(c) /\ stat' = stat /\ VblankCount(c)
        BY <1>6 DEF VblankRun, VblankCount, regs
    <2> QED
        BY <1>5, <2>1 DEF Current
<1>7. ASSUME NEW c \in Steps, VblankToOam(c)
      PROVE  signal' \in SUBSET stat' /\ signal' \subseteq Current(current_lcd_mode', ly_counter')
    <2> DEFINE s1 == CoincideSignal(VblankSignal(c) \ {"lyc"}, LyAfter(c), LYC)
               s2 == s1 \cap {"vblank", "lyc"}
    <2>1. /\ current_lcd_mode' = 2 /\ signal' = Drive("oam", s2) \ {"vblank"}
          /\ stat' = stat /\ VblankCount(c)
        BY <1>7 DEF VblankToOam, VblankCount, regs
    <2>2. VblankSignal(c) \ {"lyc"} \in SUBSET stat
        BY <1>5, <2>1
    <2>3. VblankSignal(c) \ {"lyc"} \subseteq {"lyc", "vblank"}
        BY <1>5, <2>1
    <2>4. s1 \in SUBSET stat
        BY <2>2, <2>3, CoincideKeeps
    <2> QED
        BY <2>1, <2>4 DEF Drive, Current
<1>8. ASSUME NEW c \in Steps, EnableDone(c)
      PROVE  signal' \in SUBSET stat' /\ signal' \subseteq Current(current_lcd_mode', ly_counter')
    <2>1. /\ current_lcd_mode' = 0 /\ ly_counter' = 0 /\ stat' = stat
          /\ signal' = CoincideSignal(Drive("oam", {}), 0, LYC)
        BY <1>8 DEF EnableDone, regs
    <2>2. Drive("oam", {}) \in SUBSET stat /\ Drive("oam", {}) \subseteq {"lyc", "oam"}
        BY DEF Drive
    <2>3. signal' \in SUBSET stat /\ signal' \subseteq {"lyc", "oam"}
        BY <2>1, <2>2, CoincideKeeps
    <2> QED
        BY <2>1, <2>3 DEF Current
<1>9. CASE LcdcOff \/ WriteLY
    <2>1. signal' = {}
        BY <1>9 DEF LcdcOff, WriteLY, disable_screen
    <2> QED
        BY <2>1
<1>10. ASSUME NEW en \in StatValues, WriteSTAT(en)
       PROVE  signal' \in SUBSET stat' /\ signal' \subseteq Current(current_lcd_mode', ly_counter')
    BY <1>1, <1>10 DEF WriteSTAT, Current
<1>11. ASSUME NEW v \in LycValues, WriteLYC(v)
       PROVE  signal' \in SUBSET stat' /\ signal' \subseteq Current(current_lcd_mode', ly_counter')
    <2>1. /\ UNCHANGED <<stat, current_lcd_mode, ly_counter>>
          /\ signal' = signal \/ signal' = CoincideSignal(signal, ly_counter, v)
        BY <1>11 DEF WriteLYC
    <2>2. "lyc" \in Current(current_lcd_mode, ly_counter)
        BY DEF Current
    <2>3. /\ CoincideSignal(signal, ly_counter, v) \in SUBSET stat
          /\ CoincideSignal(signal, ly_counter, v) \subseteq Current(current_lcd_mode, ly_counter)
        BY <1>1, <2>2, CoincideKeeps
    <2> QED
        BY <1>1, <2>1, <2>3
<1>12. CASE UNCHANGED <<signal, stat, current_lcd_mode, ly_counter>>
    BY <1>1, <1>12
<1>13. ASSUME NEW c \in Steps, Wait(c) \/ TransferRun(c) \/ EnableCountdown(c)
       PROVE  UNCHANGED <<signal, stat, current_lcd_mode, ly_counter>>
    BY <1>13 DEF Wait, TransferRun, Transfer, EnableCountdown, regs
<1>14. ASSUME LcdcOn \/ NextFrame \/ UNCHANGED vars
       PROVE  UNCHANGED <<signal, stat, current_lcd_mode, ly_counter>>
    BY <1>14 DEF LcdcOn, NextFrame, vars, regs
<1>15. ASSUME NEW i, Service(i)
       PROVE  UNCHANGED <<signal, stat, current_lcd_mode, ly_counter>>
    BY <1>15 DEF Service, regs
<1> QED
    BY <1>2, <1>3, <1>4, <1>6, <1>7, <1>8, <1>9, <1>10, <1>11, <1>12, <1>13, <1>14, <1>15
    DEF Next, Update, Game

\* No source that no longer holds keeps the STAT line up, where it would swallow the
\* next interrupt, whatever the game writes to STAT and LYC between two updates.
THEOREM SignalAlwaysCurrent == Spec => []SignalIsCurrent
<1>1. Init => SignalIsCurrent
    BY DEF Init, SignalIsCurrent
<1> QED
    BY <1>1, SignalStep, TypeCorrect, PTL DEF Spec

-----------------------------------------------------------------------------
(* Coincidences                                                            *)

\* The coincidence source drives the line only while LY equals LYC, or in the rest of
\* the last V-Blank line after LY was reset.
LycIsCurrent ==
    ~screen_off /\ "lyc" \in signal =>
        ly_counter = LYC \/ (current_lcd_mode = 1 /\ ly_counter = 0)

\* What an arriving coincidence does.
Served == /\ "lyc" \in signal'
          /\ "LCD" \in iflag' \/ signal \ {"lyc"} # {}

\* A comparison of LY and LYC that finds them equal drives the line, and asks unless
\* another source does.
LEMMA Coincides ==
    ASSUME NEW s \in SUBSET Sources, NEW ly, NEW lyc
    PROVE  /\ "lyc" \in CoincideSignal(s, ly, lyc) => ly = lyc
           /\ ly = lyc /\ "lyc" \in stat =>
                /\ "lyc" \in CoincideSignal(s, ly, lyc)
                /\ s = {} => CoincideAsks(s, ly, lyc)
  BY DEF CoincideSignal, CoincideAsks, Drive, Asks

LEMMA CoincidenceStep ==
    TypeOK /\ LineInv /\ LineInv' /\ LycIsCurrent /\ [Next]_vars /\ Patient
        => LycIsCurrent' /\ (CoincidenceArrives => Served)
<1> SUFFICES ASSUME TypeOK, LineInv, LineInv', LycIsCurrent, [Next]_vars, Patient
             PROVE  LycIsCurrent' /\ (CoincidenceArrives => Served)
    OBVIOUS
<1> USE Constants, ShortSteps
<1>1. signal \in SUBSET Sources /\ stat \in SUBSET Sources
    BY DEF TypeOK
<1>2. CASE /\ UNCHANGED <<ly_counter, LYC, current_lcd_mode>> /\ signal' \subseteq signal
           /\ screen_off' = screen_off
    <2>1. LycIsCurrent'
        BY <1>2 DEF LycIsCurrent
    <2>2. ~CoincidenceArrives
        BY <1>2 DEF CoincidenceArrives
    <2> QED
        BY <2>1, <2>2
<1>3. ASSUME NEW c \in Steps, Wait(c) \/ EnableCountdown(c) \/ TransferRun(c)
      PROVE  LycIsCurrent' /\ (CoincidenceArrives => Served)
    BY <1>2, <1>3 DEF Wait, EnableCountdown, TransferRun, Transfer, regs, screen
<1>4. ASSUME NEW c \in Steps, OamToTransfer(c) \/ TransferToHblank(c)
      PROVE  LycIsCurrent' /\ (CoincidenceArrives => Served)
    <2>1. /\ UNCHANGED <<ly_counter, LYC>> /\ current_lcd_mode \in {2, 3} /\ screen_off' = screen_off
          /\ "lyc" \in signal' => "lyc" \in signal
        BY <1>4 DEF OamToTransfer, TransferToHblank, Transfer, regs, screen, Drive
    <2> QED
        BY <2>1 DEF LycIsCurrent, CoincidenceArrives
<1>5. ASSUME NEW c \in Steps, NEW h \in HdmaCosts, NEW m \in {1, 2}, NEW src \in {"oam", "vblank"},
             LeaveHblank(c, h, m, src)
      PROVE  LycIsCurrent' /\ (CoincidenceArrives => Served)
    <2> DEFINE ly == (ly_counter + 1) % LyValues
               s1 == CoincideSignal(signal, ly, LYC)
               s2 == s1 \cap {"hblank", "lyc"}
    <2>1. /\ ~screen_off /\ current_lcd_mode = 0 /\ ly_counter' = ly /\ LYC' = LYC /\ stat' = stat
          /\ signal' = Drive(src, s2) \ {"hblank"} /\ current_lcd_mode' = m
          /\ CoincideAsks(signal, ly, LYC) => "LCD" \in iflag'
        BY <1>5 DEF LeaveHblank, regs, Raise
    <2>2. "lyc" \in signal' <=> "lyc" \in s1
        BY <2>1 DEF Drive
    <2> HIDE DEF ly, s1, s2
    <2>3. /\ "lyc" \in s1 => ly = LYC
          /\ ly = LYC /\ "lyc" \in stat =>
                "lyc" \in s1 /\ (signal = {} => CoincideAsks(signal, ly, LYC))
        BY <1>1, Coincides DEF s1
    <2>4. LycIsCurrent'
        BY <2>1, <2>2, <2>3 DEF LycIsCurrent
    <2>5. ASSUME CoincidenceArrives PROVE Served
        <3>1. ly = LYC /\ "lyc" \in stat /\ ly_counter # LYC
            BY <2>1, <2>5 DEF CoincidenceArrives
        <3>2. "lyc" \notin signal
            BY <2>1, <3>1 DEF LycIsCurrent
        <3>3. signal \ {"lyc"} = signal
            BY <3>2
        <3> QED
            <4>1. "lyc" \in signal'
                BY <2>2, <2>3, <3>1
            <4>2. signal = {} => "LCD" \in iflag'
                BY <2>1, <2>3, <3>1
            <4> QED
                BY <3>3, <4>1, <4>2 DEF Served
    <2> QED
        BY <2>4, <2>5
<1>6. ASSUME NEW c \in Steps, NEW h \in HdmaCosts, HblankToOam(c, h) \/ HblankToVblank(c, h)
      PROVE  LycIsCurrent' /\ (CoincidenceArrives => Served)
    BY <1>5, <1>6 DEF HblankToOam, HblankToVblank
<1>7. ASSUME NEW c \in Steps, VblankRun(c)
      PROVE  LycIsCurrent' /\ (CoincidenceArrives => Served)
    <2>1. /\ ~screen_off /\ ~screen_off' /\ current_lcd_mode = 1 /\ current_lcd_mode' = 1
          /\ ly_counter' = LyAfter(c) /\ LYC' = LYC /\ stat' = stat /\ signal' = VblankSignal(c)
          /\ VblankAsks(c) => "LCD" \in iflag'
        BY <1>7 DEF VblankRun, VblankCount, regs, screen, Raise
    <2>2. LyAfter(c) # 0 => LyAfter(c) = LyCounted(c)
        BY DEF LyAfter
    <2>3. CASE Counted(c)
        <3>1. /\ "lyc" \in signal' => LyCounted(c) = LYC
              /\ LyCounted(c) = LYC /\ "lyc" \in stat =>
                    "lyc" \in signal' /\ (signal = {} => VblankAsks(c))
            BY <1>1, <2>1, <2>3, Coincides DEF VblankSignal, VblankAsks
        <3>2. LycIsCurrent'
            BY <2>1, <2>2, <3>1 DEF LycIsCurrent
        <3>3. ASSUME CoincidenceArrives PROVE Served
            <4>1. LyCounted(c) = LYC /\ "lyc" \in stat /\ ly_counter # LYC
                BY <2>1, <2>2, <3>3 DEF CoincidenceArrives
            <4>2. ly_counter # 0
                <5>1. vblank_line < VblankLines - 1
                    BY <2>3 DEF Counted, LineAfter, TypeOK
                <5> QED
                    BY <2>1, <5>1 DEF LineInv, VblankLy, TypeOK
            <4>3. "lyc" \notin signal
                BY <2>1, <4>1, <4>2 DEF LycIsCurrent
            <4>4. signal \ {"lyc"} = signal
                BY <4>3
            <4> QED
                BY <2>1, <3>1, <4>1, <4>4 DEF Served
        <3> QED
            BY <3>2, <3>3
    <2>4. CASE ~Counted(c)
        <3>1. LyCounted(c) = ly_counter /\ signal' = signal
            BY <2>1, <2>4 DEF LyCounted, VblankSignal
        <3>2. LycIsCurrent'
            BY <2>1, <2>2, <3>1 DEF LycIsCurrent
        <3>3. ~CoincidenceArrives
            BY <2>1, <2>2, <3>1 DEF CoincidenceArrives
        <3> QED
            BY <3>2, <3>3
    <2> QED
        BY <2>3, <2>4
<1>8. ASSUME NEW c \in Steps, VblankToOam(c)
      PROVE  LycIsCurrent' /\ (CoincidenceArrives => Served)
    <2> DEFINE s0 == VblankSignal(c) \ {"lyc"}
               s1 == CoincideSignal(s0, LyAfter(c), LYC)
               s2 == s1 \cap {"vblank", "lyc"}
    <2>1. /\ ly_counter' = LyAfter(c) /\ LYC' = LYC /\ stat' = stat
          /\ signal' = Drive("oam", s2) \ {"vblank"}
          /\ CoincideAsks(s0, LyAfter(c), LYC) => "LCD" \in iflag'
        BY <1>8 DEF VblankToOam, VblankCount, regs, Raise
    <2>2. "lyc" \in signal' <=> "lyc" \in s1
        BY <2>1 DEF Drive
    <2>3. s0 = signal \ {"lyc"} /\ s0 \in SUBSET Sources
        BY <1>1 DEF VblankSignal, CoincideSignal, Drive
    <2> HIDE DEF s0, s1, s2
    <2>4. /\ "lyc" \in s1 => LyAfter(c) = LYC
          /\ LyAfter(c) = LYC /\ "lyc" \in stat =>
                "lyc" \in s1 /\ (s0 = {} => CoincideAsks(s0, LyAfter(c), LYC))
        BY <2>3, Coincides DEF s1
    <2>5. LycIsCurrent'
        BY <2>1, <2>2, <2>4 DEF LycIsCurrent
    <2>6. ASSUME CoincidenceArrives PROVE Served
        <3>1. LyAfter(c) = LYC /\ "lyc" \in stat
            BY <2>1, <2>6 DEF CoincidenceArrives
        <3>2. "lyc" \in signal'
            BY <2>2, <2>4, <3>1
        <3>3. signal \ {"lyc"} = {} => "LCD" \in iflag'
            BY <2>1, <2>3, <2>4, <3>1
        <3> QED
            BY <3>2, <3>3 DEF Served
    <2> QED
        BY <2>5, <2>6
<1>9. ASSUME NEW c \in Steps, EnableDone(c)
      PROVE  LycIsCurrent' /\ (CoincidenceArrives => Served)
    <2>1. /\ screen_off /\ ly_counter' = 0 /\ LYC' = LYC
          /\ signal' = CoincideSignal(Drive("oam", {}), 0, LYC)
        BY <1>9 DEF EnableDone, regs
    <2>2. "lyc" \in signal' => LYC = 0
        BY <2>1 DEF CoincideSignal, Drive
    <2> QED
        BY <2>1, <2>2 DEF LycIsCurrent, CoincidenceArrives
<1>10. CASE LcdcOff \/ WriteLY
    <2>1. screen_off'
        BY <1>10 DEF LcdcOff, WriteLY, disable_screen
    <2> QED
        BY <2>1 DEF LycIsCurrent, CoincidenceArrives
<1>11. ASSUME NEW en \in StatValues, WriteSTAT(en)
       PROVE  LycIsCurrent' /\ (CoincidenceArrives => Served)
    <2>1. UNCHANGED <<ly_counter, LYC, current_lcd_mode, screen_off>>
        BY <1>11 DEF WriteSTAT, screen
    <2>2. "lyc" \in signal' => "lyc" \in signal \/ ly_counter = LYC
        BY <1>11 DEF WriteSTAT
    <2> QED
        BY <2>1, <2>2 DEF LycIsCurrent, CoincidenceArrives
<1>12. ASSUME NEW v \in LycValues, WriteLYC(v)
       PROVE  LycIsCurrent' /\ (CoincidenceArrives => Served)
    <2>1. /\ UNCHANGED <<ly_counter, stat, current_lcd_mode, screen_off>> /\ LYC' = v /\ v # LYC
          /\ ~screen_off => lcdc_on
        BY <1>12 DEF WriteLYC, screen, Patient
    <2>2. CASE screen_off
        BY <2>1, <2>2 DEF LycIsCurrent, CoincidenceArrives
    <2>3. CASE ~screen_off
        <3>1. /\ signal' = CoincideSignal(signal, ly_counter, v)
              /\ CoincideAsks(signal, ly_counter, v) => "LCD" \in iflag'
            BY <1>12, <2>1, <2>3 DEF WriteLYC, Raise
        <3>2. /\ "lyc" \in signal' => ly_counter = v
              /\ ly_counter = v /\ "lyc" \in stat =>
                    "lyc" \in signal' /\ (signal = {} => CoincideAsks(signal, ly_counter, v))
            BY <1>1, <3>1, Coincides
        <3>3. LycIsCurrent'
            BY <2>1, <3>2 DEF LycIsCurrent
        <3>4. ASSUME CoincidenceArrives PROVE Served
            <4>1. /\ ly_counter = v /\ "lyc" \in stat /\ ly_counter # LYC
                  /\ ~(current_lcd_mode = 1 /\ ly_counter = 0)
                BY <2>1, <3>4 DEF CoincidenceArrives
            <4>2. signal \ {"lyc"} = signal
                BY <2>3, <4>1 DEF LycIsCurrent
            <4> QED
                BY <3>1, <3>2, <4>1, <4>2 DEF Served
        <3> QED
            BY <3>3, <3>4
    <2> QED
        BY <2>2, <2>3
<1>13. ASSUME LcdcOn \/ NextFrame \/ UNCHANGED vars
       PROVE  LycIsCurrent' /\ (CoincidenceArrives => Served)
    BY <1>2, <1>13 DEF LcdcOn, NextFrame, vars, regs, screen
<1>14. ASSUME NEW i, Service(i)
       PROVE  LycIsCurrent' /\ (CoincidenceArrives => Served)
    BY <1>2, <1>14 DEF Service, regs, screen
<1> QED
    BY <1>3, <1>4, <1>6, <1>7, <1>8, <1>9, <1>10, <1>11, <1>12, <1>13, <1>14
    DEF Next, Update, Game

\* However the game sets STAT and LYC between the updates, a patient one gets every
\* coincidence: its source drives the line, and the interrupt is asked for unless another
\* source held the line before.
THEOREM NoCoincidenceLost == GamesSpec => CoincidenceNotLost
<1> DEFINE gameVars == <<vars, patient>>
<1>1. Init => LycIsCurrent
    BY DEF Init, LycIsCurrent
<1>2. [GamesNext]_gameVars => [Next]_vars
    BY DEF GamesNext
<1>3. GamesSpec => [](TypeOK /\ LineInv)
    BY <1>2, LineInvariant, PTL DEF GamesSpec, GamesInit, Spec
<1>4. /\ TypeOK /\ LineInv /\ LineInv' /\ (patient => LycIsCurrent) /\ [GamesNext]_gameVars
      => (patient => LycIsCurrent)'
    <2> SUFFICES ASSUME TypeOK, LineInv, LineInv', patient => LycIsCurrent, [GamesNext]_gameVars,
                        patient'
                 PROVE  LycIsCurrent'
        OBVIOUS
    <2>1. CASE GamesNext
        BY <2>1, CoincidenceStep DEF GamesNext
    <2>2. CASE UNCHANGED gameVars
        BY <2>2 DEF vars, regs, screen, LycIsCurrent
    <2> QED
        BY <2>1, <2>2
<1>5. /\ TypeOK /\ LineInv /\ LineInv' /\ (patient => LycIsCurrent) /\ [GamesNext]_gameVars
      => [patient /\ CoincidenceArrives => Served]_vars
    BY CoincidenceStep DEF GamesNext
<1>6. CoincidenceNotLost <=> [][patient /\ CoincidenceArrives => Served]_vars
    BY PTL DEF CoincidenceNotLost, Served
<1> QED
    BY <1>1, <1>3, <1>4, <1>5, <1>6, PTL DEF GamesSpec, GamesInit

-----------------------------------------------------------------------------
(* Refinement                                                              *)

\* The abstract state, named for the proof.
Phase == IF screen_off THEN "off" ELSE IF current_lcd_mode = 1 THEN "vblank" ELSE "lines"

\* Every step of the controller is a step of Frame or leaves it alone.
LEMMA FrameStep ==
    TypeOK /\ TypeOK' /\ LineInv /\ LineInv' /\ [Next]_vars => [F!Next]_(F!vars)
<1> SUFFICES ASSUME TypeOK, TypeOK', LineInv, LineInv', [Next]_vars
             PROVE  F!Next \/ UNCHANGED <<Phase, NextLine, frame_drawn>>
    BY DEF F!vars, Phase
<1> USE Constants, ShortSteps
<1>1. ASSUME NEW c \in Steps, Wait(c)
      PROVE  UNCHANGED <<Phase, NextLine, frame_drawn>>
    BY <1>1 DEF Wait, screen, Phase, NextLine
<1>2. ASSUME NEW c \in Steps, OamToTransfer(c)
      PROVE  UNCHANGED <<Phase, NextLine, frame_drawn>>
    BY <1>2 DEF OamToTransfer, screen, Phase, NextLine
<1>3. ASSUME NEW c \in Steps, Transfer(c), Draws(c), current_lcd_mode' \in {0, 3},
             current_lcd_mode' = 3 => scanline_transferred'
      PROVE  F!DrawLine
    <2>1. /\ ~screen_off /\ ~screen_off' /\ current_lcd_mode = 3 /\ ~scanline_transferred
          /\ ly_counter' = ly_counter /\ scanline_transferred'
          /\ frame_drawn' = (frame_drawn \/ ly_counter >= VisibleLines - 1)
        BY <1>3 DEF Transfer, Draws, screen
    <2>2. ly_counter < VisibleLines /\ ly_counter \in Nat
        BY <2>1 DEF LineInv, VisibleLine, TypeOK
    <2>3. NextLine = ly_counter /\ NextLine' = ly_counter + 1
        BY <1>3, <2>1 DEF NextLine
    <2>4. ly_counter >= VisibleLines - 1 <=> ly_counter = VisibleLines - 1
        BY <2>2
    <2>5. Phase = "lines" /\ Phase' = "lines"
        BY <1>3, <2>1 DEF Phase
    <2> QED
        BY <2>1, <2>2, <2>3, <2>4, <2>5 DEF F!DrawLine, Phase
<1>4. ASSUME NEW c \in Steps, Transfer(c), ~Draws(c), current_lcd_mode' \in {0, 3},
             current_lcd_mode' = 0 => scanline_transferred
      PROVE  UNCHANGED <<Phase, NextLine, frame_drawn>>
    BY <1>4 DEF Transfer, screen, Phase, NextLine, TypeOK
<1>5. ASSUME NEW c \in Steps, TransferRun(c)
      PROVE  F!Next \/ UNCHANGED <<Phase, NextLine, frame_drawn>>
    <2>1. Transfer(c) /\ current_lcd_mode' = 3
        BY <1>5 DEF TransferRun, Transfer
    <2>2. Draws(c) => scanline_transferred'
        BY <2>1 DEF Transfer
    <2> QED
        BY <1>3, <1>4, <2>1, <2>2 DEF F!Next
<1>6. ASSUME NEW c \in Steps, TransferToHblank(c)
      PROVE  F!Next \/ UNCHANGED <<Phase, NextLine, frame_drawn>>
    <2>1. /\ Transfer(c) /\ current_lcd_mode' = 0
          /\ current_cycles + c >= TransferCycles
        BY <1>6 DEF TransferToHblank
    <2>2. Draws(c) \/ scanline_transferred
        BY <2>1, LengthAssumption DEF Draws, TypeOK
    <2> QED
        BY <1>3, <1>4, <2>1, <2>2 DEF F!Next
<1>7. ASSUME NEW c \in Steps, NEW h \in HdmaCosts, NEW m, NEW src, LeaveHblank(c, h, m, src)
      PROVE  /\ ly_counter' = ly_counter + 1
             /\ ~screen_off /\ ~screen_off' /\ current_lcd_mode = 0
             /\ current_lcd_mode' = m /\ (m = 1 <=> ly_counter' = VisibleLines)
             /\ frame_drawn' = frame_drawn
    <2>1. /\ ~screen_off /\ ~screen_off' /\ current_lcd_mode = 0
          /\ ly_counter' = (ly_counter + 1) % LyValues
          /\ current_lcd_mode' = m /\ (m = 1 <=> ly_counter' = VisibleLines)
          /\ frame_drawn' = frame_drawn
        BY <1>7 DEF LeaveHblank, screen
    <2>2. ly_counter + 1 \in Nat /\ ly_counter + 1 < LyValues
        BY <2>1 DEF LineInv, VisibleLine, TypeOK
    <2> QED
        BY <2>1, <2>2, NoWrap
<1>8. ASSUME NEW c \in Steps, NEW h \in HdmaCosts, HblankToOam(c, h)
      PROVE  UNCHANGED <<Phase, NextLine, frame_drawn>>
    BY <1>7, <1>8 DEF HblankToOam, Phase, NextLine
<1>9. ASSUME NEW c \in Steps, NEW h \in HdmaCosts, HblankToVblank(c, h)
      PROVE  F!EnterVblank
    BY <1>7, <1>9 DEF HblankToVblank, F!EnterVblank, NextLine
<1>10. ASSUME NEW c \in Steps, VblankRun(c)
       PROVE  UNCHANGED <<Phase, NextLine, frame_drawn>>
    BY <1>10 DEF VblankRun, VblankCount, screen, Phase, NextLine
<1>11. ASSUME NEW c \in Steps, VblankToOam(c)
       PROVE  F!StartFrame
    <2>1. /\ ~screen_off /\ ~screen_off' /\ current_lcd_mode = 1 /\ current_lcd_mode' = 2
          /\ current_cycles + c >= LineCycles * VblankLines
          /\ ly_counter' = LyAfter(c) /\ frame_drawn' = frame_drawn
        BY <1>11 DEF VblankToOam, VblankCount, screen
    <2>2. LyAfter(c) = 0
        BY <2>1, VblankPosition, VblankLyAfter DEF LineInv
    <2> QED
        BY <2>1, <2>2 DEF F!StartFrame, NextLine
<1>12. ASSUME NEW c \in Steps, EnableCountdown(c)
       PROVE  UNCHANGED <<Phase, NextLine, frame_drawn>>
    BY <1>12 DEF EnableCountdown, Phase, NextLine
<1>13. ASSUME NEW c \in Steps, EnableDone(c)
       PROVE  F!TurnOn
    <2>1. /\ screen_off /\ ~screen_off' /\ current_lcd_mode' = 0 /\ ly_counter' = 0
          /\ frame_drawn' = frame_drawn
        BY <1>13 DEF EnableDone
    <2> QED
        BY <2>1 DEF F!TurnOn, NextLine
<1>14. CASE LcdcOff \/ WriteLY
    <2>1. screen_off' /\ frame_drawn' = frame_drawn
        BY <1>14 DEF LcdcOff, WriteLY, disable_screen
    <2>2. F!TurnOff
        BY <2>1 DEF F!TurnOff, NextLine
    <2> QED
        BY <2>2 DEF F!Next
<1>15. CASE UNCHANGED <<screen_off, current_lcd_mode, ly_counter, scanline_transferred>>
            /\ UNCHANGED frame_drawn
    BY <1>15 DEF Phase, NextLine
<1>16. CASE LcdcOn
    BY <1>15, <1>16 DEF LcdcOn
<1>17. ASSUME NEW en \in StatValues, WriteSTAT(en)
       PROVE  UNCHANGED <<Phase, NextLine, frame_drawn>>
    BY <1>15, <1>17 DEF WriteSTAT, screen, Phase, NextLine
<1>18. ASSUME NEW v \in LycValues, WriteLYC(v)
       PROVE  UNCHANGED <<Phase, NextLine, frame_drawn>>
    BY <1>18 DEF WriteLYC, screen, Phase, NextLine
<1>19. ASSUME NEW i, Service(i)
       PROVE  UNCHANGED <<Phase, NextLine, frame_drawn>>
    BY <1>19 DEF Service, screen, Phase, NextLine
<1>20. CASE NextFrame
    <2>1. F!TakeFrame
        BY <1>20 DEF NextFrame, F!TakeFrame, screen, NextLine
    <2> QED
        BY <2>1 DEF F!Next
<1>21. CASE UNCHANGED vars
    BY <1>15, <1>21 DEF vars, screen
<1> QED
    BY <1>1, <1>2, <1>5, <1>6, <1>8, <1>9, <1>10, <1>11, <1>12, <1>13, <1>14, <1>16,
       <1>17, <1>18, <1>19, <1>20, <1>21
    DEF Next, Update, Game, F!Next

\* The controller implements Frame: every line of every frame is drawn once, from
\* the top, V-Blank comes after the last line, and the main loop gets a frame
\* exactly when its last line is drawn.
THEOREM ImplementsFrame == Spec => FrameSpec
<1>1. Init => F!Init
    BY DEF Init, F!Init, NextLine
<1>2. TypeOK /\ LineInv /\ (TypeOK /\ LineInv)' /\ [Next]_vars => [F!Next]_(F!vars)
    BY FrameStep
<1> QED
    BY <1>1, <1>2, LineInvariant, PTL DEF Spec, FrameSpec, F!Spec
=============================================================================

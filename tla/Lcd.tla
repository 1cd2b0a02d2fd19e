-------------------------------- MODULE Lcd --------------------------------
(***************************************************************************)
(* The LCD controller of src/core/lcd.c with the register writes of        *)
(* src/core/mmu/memory.c that reach it.                                    *)
(*                                                                         *)
(* The emulator has one thread: every instruction reports the clock cycles *)
(* it took to update_lcd, which moves the controller through OAM scan (2), *)
(* pixel transfer (3), H-Blank (0) and, after the last visible line,       *)
(* V-Blank (1).  Between two updates the game may write LCDC, STAT, LY and *)
(* LYC in any order, so the hard part is what a write leaves behind for    *)
(* the next update.                                                        *)
(*                                                                         *)
(* Left out: window_line and hide_frames, which lcd.c writes and nothing   *)
(* reads, the pixels of draw_row, and current_cycles while the screen is   *)
(* off, which is reset before it is read again.                            *)
(***************************************************************************)
EXTENDS Integers

CONSTANTS
    OamCycles,       \* length of mode 2:  80 in the code
    TransferCycles,  \* length of mode 3: 172
    HblankCycles,    \* length of mode 0: 204
    LineCycles,      \* length of a line: 456
    DrawAt,          \* cycle of mode 3 at which a line is drawn: 48 ...
    DrawAtFirst,     \* ... and 160 for line 0
    VisibleLines,    \* 144
    VblankLines,     \* 10
    ResetDelay,      \* cycles of the last line after which LY reads 0: 4
    EnableDelay,     \* cycles from LCDC bit 7 to the first line: 244
    LyValues,        \* size of the uint8_t ly_counter: 256
    Cgb,             \* TRUE for a Game Boy Color (cgb)
    Steps,           \* the cycle counts one call of update_lcd may carry
    HdmaCosts,       \* cycles perform_hdma adds at the end of an H-Blank,
                     \* 0 when there is nothing to transfer
    LycValues,       \* values the game writes to LYC
    StatValues       \* sets of STAT sources the game enables

\* The four sources of the STAT interrupt: bits 3..6 of STAT, and bits 0..3
\* of stat_interrupt_signal.
Sources == {"hblank", "vblank", "oam", "lyc"}

ASSUME LengthAssumption ==
    /\ OamCycles \in Nat \ {0} /\ TransferCycles \in Nat \ {0}
    /\ HblankCycles \in Nat \ {0}
    /\ LineCycles = OamCycles + TransferCycles + HblankCycles
    /\ DrawAt \in 1 .. TransferCycles /\ DrawAtFirst \in 1 .. TransferCycles
    /\ VisibleLines \in Nat \ {0} /\ VblankLines \in Nat \ {0}
    /\ ResetDelay \in Nat \ {0} /\ EnableDelay \in Nat \ {0}
    /\ LyValues \in Nat /\ VisibleLines + VblankLines <= LyValues

ASSUME InputAssumption ==
    /\ Cgb \in BOOLEAN
    /\ Steps \subseteq Nat \ {0}
    /\ HdmaCosts \subseteq Nat
    /\ LycValues \subseteq 0 .. LyValues - 1
    /\ StatValues \subseteq SUBSET Sources

VARIABLES
    current_lcd_mode,
    current_cycles,
    current_aux_cycles,   \* position inside a V-Blank line
    vblank_line,
    ly_counter,
    scanline_transferred,
    screen_off,
    screen_enable_delay_cycles,
    signal,               \* stat_interrupt_signal: the sources holding the line
    LY, LYC,              \* io_mem[LY_REG], io_mem[LYC_REG]
    stat,                 \* sources enabled in STAT
    stat_mode,            \* bits 0..1 of STAT
    coincidence,          \* bit 2 of STAT
    lcdc_on,              \* bit 7 of LCDC
    iflag,                \* the VBLANK and LCD bits of io_mem[INTERRUPT_REG]
    frame_drawn           \* row 143 was drawn: run_one_frame returns

timing == <<current_cycles, current_aux_cycles, vblank_line>>
screen == <<screen_off, screen_enable_delay_cycles>>
regs   == <<LYC, stat, lcdc_on>>
vars == <<timing, screen, regs, current_lcd_mode, ly_counter, scanline_transferred,
          signal, LY, stat_mode, coincidence, iflag, frame_drawn>>

TypeOK ==
    /\ current_lcd_mode \in 0 .. 3 /\ stat_mode \in 0 .. 3
    /\ current_cycles \in Nat /\ current_aux_cycles \in Nat
    /\ vblank_line \in Nat
    /\ ly_counter \in 0 .. LyValues - 1
    /\ LY \in 0 .. LyValues - 1 /\ LYC \in 0 .. LyValues - 1
    /\ scanline_transferred \in BOOLEAN /\ screen_off \in BOOLEAN
    /\ coincidence \in BOOLEAN /\ lcdc_on \in BOOLEAN /\ frame_drawn \in BOOLEAN
    /\ screen_enable_delay_cycles \in 0 .. EnableDelay
    /\ signal \in SUBSET Sources /\ stat \in SUBSET Sources
    /\ iflag \in SUBSET {"VBLANK", "LCD"}

\* Static initialisers of lcd.c and the power-up io_mem of load_rom: the
\* machine starts in V-Blank, a Color Game Boy with LCDC bit 7 set.
Init ==
    /\ current_lcd_mode = 1 /\ ly_counter = VisibleLines
    /\ current_cycles = 0 /\ current_aux_cycles = 0 /\ vblank_line = 0
    /\ scanline_transferred = FALSE
    /\ screen_off = FALSE /\ screen_enable_delay_cycles = 0
    /\ signal = {} /\ LY = 0 /\ LYC = 0
    /\ stat = {} /\ stat_mode = 0 /\ coincidence = FALSE
    /\ lcdc_on = Cgb /\ iflag = {"VBLANK"} /\ frame_drawn = FALSE

-----------------------------------------------------------------------------
(* The STAT line.  A source drives the line when STAT enables it, and asks *)
(* for an LCD interrupt only when no source was driving the line before.   *)

\* Faulty variants, here and below, name a slip in the definition that follows;
\* the runs must notice each of them.
DriveDisabled(src, s) == s \cup {src}

Drive(src, s) == IF src \in stat THEN s \cup {src} ELSE s
Asks(src, s)  == src \in stat /\ s = {}

CoincideSticky(s, ly, lyc) == IF ly = lyc THEN s \cup (stat \cap {"lyc"}) ELSE s

\* check_lcd_coincidence: the signal it leaves, and whether it raises.
CoincideSignal(s, ly, lyc) == IF ly = lyc THEN Drive("lyc", s) ELSE s \ {"lyc"}
CoincideAsks(s, ly, lyc)   == ly = lyc /\ Asks("lyc", s)

\* raise_interrupt
Raise(ints, lcd) == iflag' = iflag \cup ints \cup (IF lcd THEN {"LCD"} ELSE {})

-----------------------------------------------------------------------------
(* update_lcd, one action per path through the switch                      *)

\* H-Blank is over: the line counter moves on, a pending HDMA block may stretch
\* the new line by h cycles, and the controller enters mode m, driving src.
LeaveHblank(c, h, m, src) ==
    LET t  == current_cycles + c
        ly == (ly_counter + 1) % LyValues
        s1 == CoincideSignal(signal, ly, LYC)
        s2 == s1 \cap {"hblank", "lyc"}
    IN  /\ ~screen_off /\ current_lcd_mode = 0 /\ t >= HblankCycles
        /\ (m = 1) <=> (ly = VisibleLines)
        /\ current_cycles' = t - HblankCycles + h
        /\ current_lcd_mode' = m /\ stat_mode' = m
        /\ ly_counter' = ly /\ LY' = ly /\ coincidence' = (ly = LYC)
        /\ signal' = Drive(src, s2) \ {"hblank"}
        /\ Raise(IF m = 1 THEN {"VBLANK"} ELSE {},
                 CoincideAsks(signal, ly, LYC) \/ Asks(src, s2))
        /\ UNCHANGED <<screen, regs, scanline_transferred, frame_drawn>>

HblankToOam(c, h) ==
    /\ LeaveHblank(c, h, 2, "oam")
    /\ UNCHANGED <<current_aux_cycles, vblank_line>>

HblankToVblank(c, h) ==
    /\ LeaveHblank(c, h, 1, "vblank")
    /\ vblank_line' = 0 /\ current_aux_cycles' = current_cycles'

\* Modes 0 and 2 before their time is up.
Wait(c) ==
    /\ ~screen_off
    /\ \/ current_lcd_mode = 0 /\ current_cycles + c < HblankCycles
       \/ current_lcd_mode = 2 /\ current_cycles + c < OamCycles
    /\ current_cycles' = current_cycles + c
    /\ UNCHANGED <<current_aux_cycles, vblank_line, screen, regs, current_lcd_mode,
                   ly_counter, scanline_transferred, signal, LY, stat_mode,
                   coincidence, iflag, frame_drawn>>

\* The V-Blank lines are counted by current_aux_cycles, one per call; the
\* length of the V-Blank by current_cycles.
LineOver(c) == current_aux_cycles + c >= LineCycles
AuxAfter(c) == current_aux_cycles + c - (IF LineOver(c) THEN LineCycles ELSE 0)
LineAfter(c) == IF LineOver(c) THEN vblank_line + 1 ELSE vblank_line
Counted(c) == LineOver(c) /\ LineAfter(c) < VblankLines
LyCounted(c) == IF Counted(c) THEN (ly_counter + 1) % LyValues ELSE ly_counter
LyResetsNever(c) == /\ AuxAfter(c) >= ResetDelay
                    /\ LyCounted(c) = VisibleLines + VblankLines
LyResets(c) == /\ current_cycles + c >= LineCycles * (VblankLines - 1)
               /\ AuxAfter(c) >= ResetDelay
               /\ LyCounted(c) = VisibleLines + VblankLines - 1
LyAfter(c) == IF LyResets(c) THEN 0 ELSE LyCounted(c)

VblankCount(c) ==
    /\ ~screen_off /\ current_lcd_mode = 1
    /\ current_aux_cycles' = AuxAfter(c) /\ vblank_line' = LineAfter(c)
    /\ ly_counter' = LyAfter(c)
    /\ LY' = IF Counted(c) \/ LyResets(c) THEN LyAfter(c) ELSE LY
    /\ UNCHANGED <<screen, regs, scanline_transferred, frame_drawn>>

VblankSignal(c) ==
    IF Counted(c) THEN CoincideSignal(signal, LyCounted(c), LYC) ELSE signal
VblankAsks(c) == Counted(c) /\ CoincideAsks(signal, LyCounted(c), LYC)

VblankRun(c) ==
    /\ VblankCount(c)
    /\ current_cycles + c < LineCycles * VblankLines
    /\ current_cycles' = current_cycles + c
    /\ coincidence' = IF Counted(c) THEN LyCounted(c) = LYC ELSE coincidence
    /\ signal' = VblankSignal(c)
    /\ Raise({}, VblankAsks(c))
    /\ UNCHANGED <<current_lcd_mode, stat_mode>>

VblankToOam(c) ==
    LET s0 == VblankSignal(c) \ {"lyc"}
        s1 == CoincideSignal(s0, LyAfter(c), LYC)
        s2 == s1 \cap {"vblank", "lyc"}
    IN  /\ VblankCount(c)
        /\ current_cycles + c >= LineCycles * VblankLines
        /\ current_cycles' = current_cycles + c - LineCycles * VblankLines
        /\ current_lcd_mode' = 2 /\ stat_mode' = 2
        /\ coincidence' = (LyAfter(c) = LYC)
        /\ signal' = Drive("oam", s2) \ {"vblank"}
        /\ Raise({}, VblankAsks(c) \/ CoincideAsks(s0, LyAfter(c), LYC) \/ Asks("oam", s2))

OamToTransfer(c) ==
    /\ ~screen_off /\ current_lcd_mode = 2
    /\ current_cycles + c >= OamCycles
    /\ current_cycles' = current_cycles + c - OamCycles
    /\ current_lcd_mode' = 3 /\ stat_mode' = 3
    /\ scanline_transferred' = FALSE
    /\ signal' = signal \cap {"lyc"}
    /\ UNCHANGED <<current_aux_cycles, vblank_line, screen, regs, ly_counter, LY,
                   coincidence, iflag, frame_drawn>>

DrawsAgain(c) == current_cycles + c >= (IF ly_counter = 0 THEN DrawAtFirst ELSE DrawAt)

\* Mode 3 draws its line once, when enough of it has passed.
Draws(c) == /\ ~scanline_transferred
            /\ current_cycles + c >= (IF ly_counter = 0 THEN DrawAtFirst ELSE DrawAt)

Transfer(c) ==
    /\ ~screen_off /\ current_lcd_mode = 3
    /\ scanline_transferred' = (scanline_transferred \/ Draws(c))
    /\ LY' = IF Draws(c) THEN ly_counter ELSE LY
    /\ frame_drawn' = (frame_drawn \/ (Draws(c) /\ ly_counter >= VisibleLines - 1))
    /\ UNCHANGED <<current_aux_cycles, vblank_line, screen, regs, ly_counter, coincidence>>

TransferRun(c) ==
    /\ Transfer(c)
    /\ current_cycles + c < TransferCycles
    /\ current_cycles' = current_cycles + c
    /\ UNCHANGED <<current_lcd_mode, stat_mode, signal, iflag>>

TransferToHblank(c) ==
    LET s == signal \cap {"lyc"}
    IN  /\ Transfer(c)
        /\ current_cycles + c >= TransferCycles
        /\ current_cycles' = current_cycles + c - TransferCycles
        /\ current_lcd_mode' = 0 /\ stat_mode' = 0
        /\ signal' = Drive("hblank", s)
        /\ Raise({}, Asks("hblank", s))

CountdownToZero(c) ==
    /\ screen_off /\ screen_enable_delay_cycles > 0 /\ screen_enable_delay_cycles >= c
    /\ screen_enable_delay_cycles' = screen_enable_delay_cycles - c
    /\ UNCHANGED <<timing, regs, screen_off, current_lcd_mode, ly_counter,
                   scanline_transferred, signal, LY, stat_mode, coincidence, iflag,
                   frame_drawn>>

\* The screen is off: only the enable delay counts.
EnableCountdown(c) ==
    /\ screen_off /\ screen_enable_delay_cycles > c
    /\ screen_enable_delay_cycles' = screen_enable_delay_cycles - c
    /\ UNCHANGED <<timing, regs, screen_off, current_lcd_mode, ly_counter,
                   scanline_transferred, signal, LY, stat_mode, coincidence, iflag,
                   frame_drawn>>

EnableDone(c) ==
    LET s == Drive("oam", {})
    IN  /\ screen_off
        /\ screen_enable_delay_cycles > 0 /\ screen_enable_delay_cycles <= c
        /\ screen_off' = FALSE /\ screen_enable_delay_cycles' = 0
        /\ current_lcd_mode' = 0 /\ ly_counter' = 0 /\ LY' = 0
        /\ current_cycles' = 0 /\ current_aux_cycles' = 0 /\ vblank_line' = 0
        /\ coincidence' = (LYC = 0)
        /\ signal' = CoincideSignal(s, 0, LYC)
        /\ Raise({}, Asks("oam", {}) \/ CoincideAsks(s, 0, LYC))
        /\ UNCHANGED <<regs, scanline_transferred, stat_mode, frame_drawn>>

UpdateWithoutVblank(c) ==
    \/ Wait(c) \/ OamToTransfer(c) \/ TransferRun(c) \/ TransferToHblank(c)
    \/ \E h \in HdmaCosts : HblankToOam(c, h)
    \/ VblankRun(c) \/ VblankToOam(c)
    \/ EnableCountdown(c) \/ EnableDone(c)

Update(c) ==
    \/ Wait(c) \/ OamToTransfer(c) \/ TransferRun(c) \/ TransferToHblank(c)
    \/ \E h \in HdmaCosts : HblankToOam(c, h) \/ HblankToVblank(c, h)
    \/ VblankRun(c) \/ VblankToOam(c)
    \/ EnableCountdown(c) \/ EnableDone(c)

-----------------------------------------------------------------------------
(* Register writes of the game                                             *)

disable_screen ==
    /\ screen_off' = TRUE /\ LY' = 0 /\ stat_mode' = 0
    /\ current_lcd_mode' = 0 /\ current_cycles' = 0 /\ current_aux_cycles' = 0
    /\ ly_counter' = 0 /\ signal' = {}
    /\ UNCHANGED <<screen_enable_delay_cycles, vblank_line, scanline_transferred,
                   coincidence, iflag, frame_drawn>>

LcdcOn ==
    /\ lcdc_on' = TRUE
    /\ screen_enable_delay_cycles' =
          IF screen_off THEN EnableDelay ELSE screen_enable_delay_cycles
    /\ UNCHANGED <<timing, screen_off, LYC, stat, current_lcd_mode, ly_counter,
                   scanline_transferred, signal, LY, stat_mode, coincidence, iflag,
                   frame_drawn>>

LcdcOff == lcdc_on' = FALSE /\ disable_screen /\ UNCHANGED <<LYC, stat>>

\* LY has its top bit set and is written with a value that has not.
WriteLY == 2 * LY >= LyValues /\ disable_screen /\ UNCHANGED regs

\* The source that the current mode drives.
ModeSource == CASE current_lcd_mode = 0 -> "hblank"
                [] current_lcd_mode = 1 -> "vblank"
                [] current_lcd_mode = 2 -> "oam"
                [] OTHER -> "none"

\* The signal keeps only the sources still enabled; the mode's own source may
\* raise, but only the coincidence source is driven afterwards.
WriteSTAT(en) ==
    LET s == signal \cap en
        check == lcdc_on /\ ~screen_off
    IN  /\ stat' = en
        /\ signal' = IF ~check THEN s
                     ELSE IF ly_counter # LYC THEN s \ {"lyc"}
                     ELSE s \cup (en \cap {"lyc"})
        /\ coincidence' = IF check THEN ly_counter = LYC ELSE coincidence
        /\ Raise({}, \/ ~Cgb /\ ~screen_off /\ current_lcd_mode \in {0, 1}
                     \/ lcdc_on /\ s = {} /\ ModeSource \in en
                     \/ check /\ s = {} /\ "lyc" \in en /\ ly_counter = LYC)
        /\ UNCHANGED <<timing, screen, LYC, lcdc_on, current_lcd_mode, ly_counter,
                       scanline_transferred, LY, stat_mode, frame_drawn>>

WriteLYC(v) ==
    LET check == lcdc_on /\ ~screen_off
    IN  /\ v # LYC /\ LYC' = v
        /\ signal' = IF check THEN CoincideSignal(signal, ly_counter, v) ELSE signal
        /\ coincidence' = IF check THEN ly_counter = v ELSE coincidence
        /\ Raise({}, check /\ CoincideAsks(signal, ly_counter, v))
        /\ UNCHANGED <<timing, screen, stat, lcdc_on, current_lcd_mode, ly_counter,
                       scanline_transferred, LY, stat_mode, frame_drawn>>

\* The CPU services an interrupt.
Service(i) ==
    /\ i \in iflag /\ iflag' = iflag \ {i}
    /\ UNCHANGED <<timing, screen, regs, current_lcd_mode, ly_counter,
                   scanline_transferred, signal, LY, stat_mode, coincidence, frame_drawn>>

\* run_one_frame returns and is called again.
NextFrame ==
    /\ frame_drawn /\ frame_drawn' = FALSE
    /\ UNCHANGED <<timing, screen, regs, current_lcd_mode, ly_counter,
                   scanline_transferred, signal, LY, stat_mode, coincidence, iflag>>

Game ==
    \/ LcdcOn \/ LcdcOff \/ WriteLY
    \/ \E en \in StatValues : WriteSTAT(en)
    \/ \E v \in LycValues : WriteLYC(v)

Next ==
    \/ \E c \in Steps : Update(c)
    \/ Game
    \/ \E i \in {"VBLANK", "LCD"} : Service(i)
    \/ NextFrame

Spec == Init /\ [][Next]_vars

\* The main loop always executes another instruction, or idles while halted,
\* and reports its cycles.
Fairness == WF_vars(\E c \in Steps : Update(c))
=============================================================================

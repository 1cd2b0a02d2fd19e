-------------------------------- MODULE Menu --------------------------------
(* The file menu (shared_libs/SDL2/UI/menu.c and filebrowser.c): a directory  *)
(* is listed, one entry of it is highlighted, a file is chosen or a directory *)
(* is entered, until a file is chosen or the window is closed.                *)
(*                                                                            *)
(* A path is the sequence of its components, the first one empty when the     *)
(* path is absolute.  Drawing is modelled by what it puts where: which rows,  *)
(* which highlight, and the rectangle of the picture.                         *)
EXTENDS Integers, Sequences, SequencesExt, FiniteSets

CONSTANTS
  Tree,        \* of each directory, the sequence of its entries as the system
               \* lists them: [name, is_dir, image], image = <<width, height>>
  Busy,        \* the directories whose last file comes and goes meanwhile
  Homes,       \* of each platform, the directories tried at the start, in order
  Screens,     \* of each platform, the size of its screen, <<width, height>>
  TextHeight,  \* height of a rendered file name
  Points       \* the places a finger may be: a button, "corner" or "none"

VARIABLES platform, context, buttons, quit, phase, ret_val

menuVars == <<platform, context, buttons, quit, phase, ret_val>>

\* "vita" and "switch" reduce paths themselves, "touch" (iOS) uses realpath
Platforms == DOMAIN Homes
Root == ""
NoFile == <<"none">>
NoDir == [path |-> <<>>, entries |-> <<>>, slots |-> 0]

ButtonOrder == <<"UP", "DOWN", "LEFT", "RIGHT", "A", "B", "START", "SELECT">>
AllButtons == Range(ButtonOrder)

(* -------------------------- the platform's layout ------------------------ *)

screen_width == Screens[platform][1]
screen_height == Screens[platform][2]
text_y_start == 100
text_y_spacing == 20
banner_height == screen_height \div 10

(* -------------------------- directories ---------------------------------- *)

Names == STRING
Entries == [name : Names, is_dir : BOOLEAN, image : Nat \X Nat]

\* Homes are paths that are reduced, or the current directory.  On every screen the
\* last row that NAV_DOWN goes to without scrolling is a row that is drawn.
ASSUME MenuAssumption ==
  /\ {".", "..", "none"} \subseteq Names
  /\ \A path \in DOMAIN Tree : path \in Seq(Names) /\ Tree[path] \in Seq(Entries)
  /\ \A path \in Busy \cap DOMAIN Tree : Tree[path] # <<>>
  /\ \A p \in Platforms :
       /\ Homes[p] \in Seq(Seq(Names)) /\ Homes[p] # <<>>
       /\ \A i \in DOMAIN Homes[p] :
            \/ Homes[p][i] = <<".">>
            \/ Homes[p][i] \notin {<<>>, <<Root>>} /\ Last(Homes[p][i]) \notin {".", ".."}
  /\ TextHeight \in Nat
  /\ \A p \in Platforms :
       LET height == Screens[p][2]
           bottom == height - height \div 10
           last == (bottom - text_y_start) \div (text_y_spacing + 1)
       IN /\ Screens[p] \in (Nat \ {0}) \X (Nat \ {0})
          /\ bottom >= text_y_start
          /\ text_y_start + text_y_spacing * last + TextHeight < bottom

\* The path holds one component, after the root or alone
AtTop(path) == Len(path) = 1 \/ (Len(path) = 2 /\ path[1] = Root)

\* A path that ends in "." or "..", without it
Reduced(path) ==
  IF AtTop(path) \/ Last(path) \notin {".", ".."} THEN path
  ELSE IF Last(path) = "." \/ AtTop(Front(path)) THEN Front(path)
  ELSE Front(Front(path))

\* realpath: the root is its own parent, and has no component of its own
RealPath(path) ==
  CASE Last(path) = "." -> IF path = <<".">> THEN Homes["touch"][1] ELSE Front(path)
    [] Last(path) = ".." -> IF Len(path) = 2 THEN Front(path) ELSE Front(Front(path))
    [] OTHER -> path

FullPath(path) == IF platform = "touch" THEN RealPath(path) ELSE Reduced(path)

Dots == <<[name |-> ".", is_dir |-> TRUE, image |-> <<0, 0>>],
          [name |-> "..", is_dir |-> TRUE, image |-> <<0, 0>>]>>

\* readdir lists "." and ".." on iOS; Vita's and Switch's does not, and get_dir
\* puts them before the entries
FoundIn(path) == IF platform = "touch" THEN Dots \o Tree[path] ELSE Tree[path]
Prepended == IF platform = "touch" THEN <<>> ELSE Dots

\* How many entries a pass over the directory may find
Passes(path) ==
  LET all == Len(FoundIn(path)) IN IF path \in Busy THEN {all - 1, all} ELSE {all}

\* One pass counts the entries and allocates, a second one reads that many
ReadEntries(path, counted, found) ==
  LET slots == counted + Len(Prepended)
      entries == Prepended \o SubSeq(FoundIn(path), 1, found)
  IN [path |-> path, slots |-> slots,
      entries |-> SubSeq(entries, 1, IF Len(entries) < slots THEN Len(entries) ELSE slots)]

get_dir(raw) ==
  LET path == FullPath(raw) IN
  {NoDir} \cup
  IF path \notin DOMAIN Tree THEN {}
  ELSE {ReadEntries(path, counted, found) : counted, found \in Passes(path)}

(* -------------------------- drawing -------------------------------------- *)

\* The rows of the names drawn below the banner: the first one that would
\* reach the bottom banner ends them
redraw_filenames(s) ==
  {row \in 0 .. s.fname_textures - s.scroll_offset - 1 :
      text_y_start + text_y_spacing * row + TextHeight < screen_height - banner_height}

max_art_height == screen_height - 3 * banner_height

\* Where the picture of the highlighted file goes; a file that is no picture
\* gets a black one of the screen's size
draw_box_art(image) ==
  LET x == (screen_width * 5) \div 8
      max_width == screen_width - x - screen_width \div 20
      width == IF image = <<0, 0>> THEN screen_width ELSE image[1]
      height == IF image = <<0, 0>> THEN screen_height ELSE image[2]
      scaled == IF width > max_width THEN height * (width \div max_width) ELSE height
      h == IF scaled > max_art_height THEN max_art_height ELSE scaled
  IN [x |-> x, y |-> (screen_height - h) \div 2,
      w |-> IF width > max_width THEN max_width ELSE width, h |-> h]

redraw_screen(s) ==
  [s EXCEPT !.drawn = [rows |-> redraw_filenames(s), first |-> s.scroll_offset,
                       highlight |-> s.current_highlighted - s.scroll_offset,
                       art |-> draw_box_art(s.dir.entries[s.current_highlighted + 1].image)]]

(* -------------------------- navigation ----------------------------------- *)

\* The textures of the names, one for each entry, are made anew
Entered(s, dir) ==
  [s EXCEPT !.dir = dir, !.fname_textures = Len(dir.entries),
            !.current_highlighted = 0, !.scroll_offset = 0]

\* Allocations of directories and texture lists, and their release
AllocDir(s) == [s EXCEPT !.dirs = @ + 1]
AllocTextures(s) == [s EXCEPT !.lists = @ + 1]
free_dir(s) == [s EXCEPT !.dirs = @ - 1]
free_dir_fname_textures(s) == [s EXCEPT !.lists = @ - 1]

\* Nothing changes when the directory cannot be opened or its names cannot be
\* rendered; else the old directory and its textures go after the redraw
SelectDir(s, raw) ==
  {s} \cup UNION {
    {free_dir(AllocDir(s)),
     free_dir(free_dir_fname_textures(
       redraw_screen(Entered(AllocTextures(AllocDir(s)), dir))))}
    : dir \in get_dir(raw) \ {NoDir}}

NavSelect(s) ==
  LET entry == s.dir.entries[s.current_highlighted + 1]
      path == Append(s.dir.path, entry.name)
  IN IF entry.is_dir THEN SelectDir(s, path)
     ELSE {[s EXCEPT !.selected_rom_path = path]}

\* Faulty variant: the list scrolls once the row's top passes the banner
NavDownTight(s) ==
  IF s.current_highlighted + 1 >= Len(s.dir.entries) THEN s ELSE
  LET row == s.current_highlighted + 1 - s.scroll_offset
      below == text_y_start + row * text_y_spacing > screen_height - banner_height
  IN redraw_screen([s EXCEPT !.current_highlighted = @ + 1,
                             !.scroll_offset = IF below THEN @ + 1 ELSE @])

NavDown(s) ==
  IF s.current_highlighted + 1 >= Len(s.dir.entries) THEN s ELSE
  LET row == s.current_highlighted + 1 - s.scroll_offset
      below == text_y_start + row * (text_y_spacing + 1) > screen_height - banner_height
  IN redraw_screen([s EXCEPT !.current_highlighted = @ + 1,
                             !.scroll_offset = IF below THEN @ + 1 ELSE @])

NavUp(s) ==
  IF s.current_highlighted = 0 THEN s ELSE
  redraw_screen([s EXCEPT !.current_highlighted = @ - 1,
                          !.scroll_offset = IF s.current_highlighted - 1 < @ THEN @ - 1 ELSE @])

\* What the menu may be after one navigation
navigation(s, option) ==
  CASE option = "NAV_SELECT" -> NavSelect(s)
    [] option = "NAV_DOWN" -> {NavDown(s)}
    [] option = "NAV_UP" -> {NavUp(s)}

\* What it may be after one, from any of these
Navigated(S, option) == UNION {navigation(s, option) : s \in S}

(* -------------------------- touch buttons -------------------------------- *)

\* Only touch platforms lay the buttons out (and never SELECT): elsewhere
\* every rectangle is the point at the origin and every key code is 0
Hits(point) ==
  CASE point = "corner" -> IF platform = "touch" THEN {"SELECT"} ELSE AllButtons
    [] platform = "touch" /\ point \in AllButtons -> {point}
    [] OTHER -> {}
key_code(button) == IF platform = "touch" THEN button ELSE "0"

\* What pressing one button does: each comparison of key codes on its own
PressButton(S, button) ==
  LET Is(b) == key_code(button) = key_code(b)
      up == IF Is("UP") THEN Navigated(S, "NAV_UP") ELSE S
      down == IF Is("DOWN") THEN Navigated(up, "NAV_DOWN") ELSE up
  IN IF Is("A") THEN Navigated(down, "NAV_SELECT") ELSE down

\* The buttons at a place are pressed one after the other
Press(S, point) ==
  LET after[i \in 0 .. 8] ==
        IF i = 0 THEN S
        ELSE IF ButtonOrder[i] \in Hits(point) THEN PressButton(after[i - 1], ButtonOrder[i])
        ELSE after[i - 1]
  IN after[8]

(* -------------------------- ui_menu -------------------------------------- *)

NotDrawn == [rows |-> {}, first |-> 0, highlight |-> -1,
             art |-> [x |-> 0, y |-> 0, w |-> 0, h |-> 0]]

MenuInit ==
  /\ platform \in Platforms
  /\ context = [dir |-> NoDir, fname_textures |-> 0, current_highlighted |-> 0,
                scroll_offset |-> 0, selected_rom_path |-> NoFile,
                drawn |-> NotDrawn, dirs |-> 0, lists |-> 0]
  /\ buttons = {} /\ quit = FALSE /\ phase = "start" /\ ret_val = 0

\* The first directory that opens is listed; the first screen has the names
\* and no highlight
OpenHome ==
  /\ phase = "start"
  /\ UNCHANGED <<platform, buttons, quit, ret_val>>
  /\ \/ \* none opens, or the names cannot be rendered
        phase' = "failed" /\ UNCHANGED context
     \/ \E i \in DOMAIN Homes[platform] :
          \E dir \in get_dir(Homes[platform][i]) \ {NoDir} :
            LET s == Entered(AllocTextures(AllocDir(context)), dir) IN
            /\ context' = [s EXCEPT !.drawn.rows = redraw_filenames(s)]
            /\ phase' = "menu"

\* An event of a window, key, pad or finger; the inner loop takes every one
\* that waits, even after a file was chosen or the window closed
Quit == phase = "menu" /\ quit' = TRUE /\ UNCHANGED <<platform, context, buttons, phase, ret_val>>

\* check_keys_pressed, where S is what the menu may be before
Finger(point, state, S) ==
  /\ buttons' = IF state THEN buttons \cup Hits(point) ELSE buttons \ Hits(point)
  /\ context' \in IF state THEN Press(S, point) ELSE S

KeyActions == {"NAV_UP", "NAV_DOWN", "NAV_SELECT", "other"}

\* A key or a pad's button; but for the Vita the case falls through to that of
\* a finger, whose place is whatever the event's memory holds
KeyDown ==
  /\ phase = "menu"
  /\ \E key \in KeyActions :
       LET S == IF key = "other" THEN {context} ELSE navigation(context, key)
       IN IF platform = "vita"
          THEN context' \in S /\ UNCHANGED buttons
          ELSE \E point \in Points : Finger(point, TRUE, S)
  /\ UNCHANGED <<platform, quit, phase, ret_val>>

FingerDown ==
  /\ phase = "menu" /\ platform # "vita"
  /\ \E point \in Points : Finger(point, TRUE, {context})
  /\ UNCHANGED <<platform, quit, phase, ret_val>>

FingerUp ==
  /\ phase = "menu" /\ platform # "vita"
  /\ \E point \in Points : Finger(point, FALSE, {context})
  /\ UNCHANGED <<platform, quit, phase, ret_val>>

\* check_keys_moved: sliding onto a button presses it without navigating
FingerMotion ==
  /\ phase = "menu" /\ platform # "vita"
  /\ \E from, to \in Points : buttons' = (buttons \ (Hits(from) \ Hits(to))) \cup (Hits(to) \ Hits(from))
  /\ UNCHANGED <<platform, context, quit, phase, ret_val>>

\* No event waits: the outer loop ends with a file or without one
Leave ==
  /\ phase = "menu" /\ (quit \/ context.selected_rom_path # NoFile)
  /\ phase' = "done"
  /\ ret_val' = IF context.selected_rom_path # NoFile THEN 0 ELSE -1
  /\ context' = free_dir(free_dir_fname_textures(context))
  /\ UNCHANGED <<platform, buttons, quit>>

MenuNext == OpenHome \/ Quit \/ KeyDown \/ FingerDown \/ FingerUp \/ FingerMotion \/ Leave

MenuSpec == MenuInit /\ [][MenuNext]_menuVars

(* -------------------------- properties ----------------------------------- *)

\* The highlight is on the screen: while the menu runs the highlighted entry
\* is one of the list, its row is among those drawn, and the screen was drawn
\* after the last change.  NAV_DOWN measures rows of 21 lines and the drawing
\* rows of 20 with the height of the text, and two counters move on their own.
HighlightShown ==
  phase = "menu" =>
    LET row == context.current_highlighted - context.scroll_offset
        drawn == context.drawn
    IN /\ context.current_highlighted < Len(context.dir.entries)
       /\ row \in drawn.rows
       /\ drawn.highlight # -1 => drawn.highlight = row /\ drawn.first = context.scroll_offset

\* One listing: however many directories were opened and failed to open, the
\* menu holds one directory, no longer than the slots allocated for it, and
\* one list of textures of the same length, and gives them back when it ends.
OneListing ==
  /\ phase = "menu" =>
       /\ context.dirs = 1 /\ context.lists = 1
       /\ Len(context.dir.entries) <= context.dir.slots
       /\ context.fname_textures = Len(context.dir.entries)
  /\ phase = "done" => context.dirs = 0 /\ context.lists = 0

\* Walking the tree: the directory a selection opens is the one its name says:
\* itself, the one above (or itself at the top), or the one below.
WalksTree ==
  phase = "menu" =>
    LET path == context.dir.path
        entry == context.dir.entries[context.current_highlighted + 1]
        top == IF platform = "touch" THEN 1 ELSE IF path[1] = Root THEN 2 ELSE 1
    IN entry.is_dir =>
         FullPath(Append(path, entry.name)) =
           CASE entry.name = "." -> path
             [] entry.name = ".." -> IF Len(path) = top THEN path ELSE Front(path)
             [] OTHER -> Append(path, entry.name)

\* The picture stays right of the names, left of the margin and clear of both
\* banners, whatever its size.
ArtBetweenBanners ==
  context.drawn.highlight # -1 =>
    LET art == context.drawn.art IN
    /\ art.x + art.w <= screen_width - screen_width \div 20
    /\ art.y >= banner_height /\ art.y + art.h <= screen_height - banner_height

\* The menu shows what it highlights, walks the tree as its names say, and holds one
\* listing.
MenuExact == HighlightShown /\ OneListing /\ WalksTree /\ ArtBetweenBanners
=============================================================================

------------------------------- MODULE Joypad -------------------------------
(* Keys and touch (shared_libs/SDL2/joypad_SDL.c) as the game reads them: the *)
(* player presses keys and moves fingers, SDL queues an event for each,       *)
(* update_keys takes one event at a time, and a write to P1 shows the state   *)
(* of one group of buttons (joypad_write, core/mmu/memory.c).                 *)
EXTENDS Integers, Sequences

CONSTANTS
  Keys,      \* keys of the keyboard: names of buttons, or others
  Fingers,
  Places,    \* of each place a finger may be, the buttons drawn there
  MaxEvents  \* bound: events that wait

VARIABLES ready, held, fingers, events, pressed, P1, fresh, interrupt, quit

joypadVars == <<ready, held, fingers, events, pressed, P1, fresh, interrupt, quit>>

Directions == {"DOWN", "UP", "LEFT", "RIGHT"}
Actions == {"START", "SELECT", "B", "A"}
Buttons == Directions \cup Actions
Up == "up"  \* a finger that does not touch

(* -------------------------- the player ----------------------------------- *)

\* The buttons a held key or a finger stands for
On(place) == IF place = Up THEN {} ELSE Places[place]
HeldButtons == (held \cap Buttons) \cup UNION {On(fingers[f]) : f \in Fingers}

\* "Assume only one finger can be on a button at a time": nor a finger and a key
OneSource(h, at) ==
  /\ \A f, g \in Fingers : f # g => On(at[f]) \cap On(at[g]) = {}
  /\ \A f \in Fingers : On(at[f]) \cap h = {}

PostEvent(event) == Len(events) < MaxEvents /\ events' = Append(events, event)

PressKey ==
  \E key \in Keys \ held :
    /\ OneSource(held \cup {key}, fingers)
    /\ held' = held \cup {key}
    /\ PostEvent([type |-> "key", key |-> key, state |-> TRUE])
    /\ UNCHANGED <<ready, fingers, pressed, P1, fresh, interrupt, quit>>

ReleaseKey ==
  \E key \in held :
    /\ held' = held \ {key}
    /\ PostEvent([type |-> "key", key |-> key, state |-> FALSE])
    /\ UNCHANGED <<ready, fingers, pressed, P1, fresh, interrupt, quit>>

Touch ==
  \E f \in Fingers, to \in DOMAIN Places :
    LET from == fingers[f] IN
    /\ from # to /\ OneSource(held, [fingers EXCEPT ![f] = to])
    /\ fingers' = [fingers EXCEPT ![f] = to]
    /\ PostEvent(IF from = Up THEN [type |-> "finger", at |-> to, state |-> TRUE]
            ELSE [type |-> "motion", from |-> from, to |-> to])
    /\ UNCHANGED <<ready, held, pressed, P1, fresh, interrupt, quit>>

Lift ==
  \E f \in Fingers :
    /\ fingers[f] # Up
    /\ fingers' = [fingers EXCEPT ![f] = Up]
    /\ PostEvent([type |-> "finger", at |-> fingers[f], state |-> FALSE])
    /\ UNCHANGED <<ready, held, pressed, P1, fresh, interrupt, quit>>

Close ==
  /\ PostEvent([type |-> "quit"])
  /\ UNCHANGED <<ready, held, fingers, pressed, P1, fresh, interrupt, quit>>

(* -------------------------- joypad_SDL.c --------------------------------- *)

\* Before init_joypad every key code is 0 and every rectangle is the origin
key_code(button) == IF ready THEN button ELSE "0"
Hits(place) ==
  IF ready THEN On(place) ELSE IF place = "origin" THEN Buttons ELSE {}

\* The first button in the order of the table whose key code is the event's
KeyButton(key) ==
  IF ready THEN {key} \cap Buttons ELSE IF key = "0" THEN {"UP"} ELSE {}

init_joypad ==
  /\ ~ready /\ ready' = TRUE /\ pressed' = {}
  /\ UNCHANGED <<held, fingers, events, P1, fresh, interrupt, quit>>

\* Faulty variant: lifting a finger leaves its button pressed
CheckKeysDown(place, state) == IF state THEN pressed \cup Hits(place) ELSE pressed

check_keys_pressed(place, state) ==
  IF state THEN pressed \cup Hits(place) ELSE pressed \ Hits(place)

\* Faulty variant: the button a finger slides off stays pressed
CheckKeysOnto(from, to) == pressed \cup (Hits(to) \ Hits(from))

check_keys_moved(from, to) ==
  (pressed \ (Hits(from) \ Hits(to))) \cup (Hits(to) \ Hits(from))

\* One event of the queue; the window's closing and Escape end the program
update_keys ==
  /\ events # <<>> /\ events' = Tail(events) /\ fresh' = FALSE
  /\ UNCHANGED <<ready, held, fingers, P1, interrupt>>
  /\ LET e == Head(events) IN
     \/ e.type = "quit" /\ quit' = TRUE /\ UNCHANGED pressed
     \/ /\ e.type = "key" /\ UNCHANGED quit
        /\ pressed' = IF e.state THEN pressed \cup KeyButton(e.key)
                      ELSE pressed \ KeyButton(e.key)
     \/ e.type = "finger" /\ pressed' = check_keys_pressed(e.at, e.state) /\ UNCHANGED quit
     \/ e.type = "motion" /\ pressed' = check_keys_moved(e.from, e.to) /\ UNCHANGED quit

(* -------------------------- memory.c ------------------------------------- *)

\* The group of buttons a write to P1 shows
Group(bit5, bit4) == IF bit5 THEN Directions ELSE IF bit4 THEN Actions ELSE {}

\* The game writes P1, which shows the group's pressed buttons from then on
joypad_write ==
  \E bit5, bit4 \in BOOLEAN :
    /\ P1' = [bit5 |-> bit5, bit4 |-> bit4, keys |-> pressed \cap Group(bit5, bit4)]
    /\ interrupt' = (interrupt \/ P1'.keys # {})
    /\ fresh' = TRUE
    /\ UNCHANGED <<ready, held, fingers, events, pressed, quit>>

\* The CPU takes the interrupt
Take == interrupt /\ interrupt' = FALSE
        /\ UNCHANGED <<ready, held, fingers, events, pressed, P1, fresh, quit>>

JoypadInit ==
  /\ ready = FALSE /\ held = {} /\ fingers = [f \in Fingers |-> Up]
  /\ events = <<>> /\ pressed = {} /\ interrupt = FALSE /\ quit = FALSE
  /\ P1 = [bit5 |-> FALSE, bit4 |-> FALSE, keys |-> {}] /\ fresh = FALSE

Playing == PressKey \/ ReleaseKey \/ Touch \/ Lift \/ Close \/ update_keys
           \/ joypad_write \/ Take

\* As the comment of init_joypad asks: before every other function
JoypadNext == init_joypad \/ (ready /\ Playing)

\* run_one_frame polls again and again until the program ends
JoypadFair == WF_joypadVars(ready /\ ~quit /\ update_keys)
JoypadSpec == JoypadInit /\ [][JoypadNext]_joypadVars /\ JoypadFair

\* As the program is built: init_emu calls it no more
BuiltSpec == JoypadInit /\ [][Playing]_joypadVars

(* -------------------------- properties ----------------------------------- *)

\* No key sticks: once every event is taken the pressed buttons are those the
\* player holds, whatever keys and fingers went down, slid and came up between
\* two polls (update_keys takes one event a poll).
NoStuckKey == ready /\ events = <<>> => pressed = HeldButtons

\* The game reads what is held: after a write to P1 that no event follows the
\* register shows the held buttons of the group the write selects: the
\* directions by bit 5, else the others by bit 4.
GameReadsHeld ==
  fresh /\ events = <<>> =>
    P1.keys = HeldButtons \cap (IF P1.bit5 THEN {"DOWN", "UP", "LEFT", "RIGHT"}
                                ELSE IF P1.bit4 THEN {"START", "SELECT", "B", "A"} ELSE {})

\* The game reads the buttons that are held, and no key sticks.
HeldExact == NoStuckKey /\ GameReadsHeld

\* "Returns 1 if the specified key is being held down, 0 otherwise": once the
\* events are taken the pressed buttons are the held ones, in the program as it
\* is built, which never calls init_joypad.
HeldKeyReads == events = <<>> => pressed = HeldButtons

\* A button held for good is pressed for good some day, and one left alone is
\* released, though events keep coming: the queue is taken in order.
HoldsArrive ==
  \A b \in Buttons :
    /\ <>[](~quit /\ ready /\ b \in HeldButtons) => <>[](b \in pressed)
    /\ <>[](~quit /\ ready /\ b \notin HeldButtons) => <>[](b \notin pressed)
=============================================================================

-------------------------- MODULE SpritePriorities --------------------------
(***************************************************************************)
(* src/core/sprite_priorities.c: the sprites in a doubly linked ring with  *)
(* a sentinel, sorted by x position and sprite number with the lowest, of  *)
(* highest priority, first, spliced when a sprite's x position is written,  *)
(* and read by draw_sprite_row of src/core/graphics.c from head_ptr on: the *)
(* first sprites of a row are drawn, and the first lies on top.            *)
(*                                                                         *)
(* update_sprite_prios is one call in one thread; its loops are steps of   *)
(* their own, so that what they find can be stated as an invariant.  A row *)
(* intersects any set of sprites.                                          *)
(***************************************************************************)
EXTENDS Naturals, Sequences

CONSTANTS
    MAX_SPRITES,    \* 40
    Xs,             \* x positions written to OAM
    Limit           \* sprites drawn in a row: 10

ASSUME SpriteAssumption ==
    /\ MAX_SPRITES \in 2..256
    /\ Xs \subseteq 0..255 /\ Limit \in Nat

Sprites == 0..MAX_SPRITES - 1
sentinal == MAX_SPRITES
Nodes == Sprites \cup {sentinal}

\* By x position, then by number; a sprite never written comes last.
Value(n, x) == 256 * x + n
Unwritten == 65535
uint16_t == 0..Unwritten
Keys == {Value(n, x) : n \in Sprites, x \in Xs}

VARIABLES
    x_pos, prev, next,          \* the nodes
    head_ptr,
    pc,                         \* "idle", or the loop of update_sprite_prios: "up", "down"
    current_node, swap_node,    \* its locals
    settled,                    \* history: x_pos as of the last update completed
    drawn                       \* history: the last row since then, and its sprites

ring == <<prev, next, head_ptr>>
vars == <<x_pos, ring, pc, current_node, swap_node, settled, drawn>>

TypeOK ==
    /\ x_pos \in [Nodes -> uint16_t] /\ settled \in [Sprites -> uint16_t]
    /\ prev \in [Nodes -> Nodes] /\ next \in [Nodes -> Nodes]
    /\ head_ptr \in Sprites
    /\ pc \in {"idle", "up", "down"}
    /\ current_node \in Sprites /\ swap_node \in Sprites
    /\ drawn \in (SUBSET Sprites) \X Seq(Sprites)

\* init_sprite_prio_list
Init ==
    /\ x_pos = [n \in Nodes |-> IF n = sentinal THEN 0 ELSE Unwritten]
    /\ next = [n \in Nodes |-> IF n = sentinal THEN 0 ELSE n + 1]
    /\ prev = [n \in Nodes |-> IF n = 0 THEN sentinal ELSE n - 1]
    /\ head_ptr = 0
    /\ pc = "idle" /\ current_node = 0 /\ swap_node = 0
    /\ settled = [n \in Sprites |-> Unwritten] /\ drawn = <<{}, <<>>>>

-----------------------------------------------------------------------------
(* update_sprite_prios                                                     *)

val == x_pos[current_node]

\* origin is unlinked and linked again behind destination.
MoveAfter(origin, destination) ==
    LET after  == [next EXCEPT ![prev[origin]] = next[origin]]
        before == [prev EXCEPT ![next[origin]] = prev[origin]]
        follower == after[destination]
    IN  /\ next' = [after EXCEPT ![origin] = follower, ![destination] = origin]
        /\ prev' = [before EXCEPT ![origin] = destination, ![follower] = origin]

\* The last lines of update_sprite_prios.
NewHead ==
    head_ptr' = IF current_node # swap_node /\ swap_node = head_ptr
                THEN current_node ELSE head_ptr

Above(n, v) == prev[n] # sentinal /\ v < x_pos[prev[n]]
Below(n, v) == next[n] # sentinal /\ v > x_pos[next[n]]

Settled ==
    /\ pc' = "idle" /\ settled' = [settled EXCEPT ![current_node'] = x_pos'[current_node']]
    /\ drawn' = <<{}, <<>>>>

\* Faulty variant: no sprite moves down.
UpdateUpOnly(n, x) ==
    /\ pc = "idle"
    /\ current_node' = n /\ swap_node' = n
    /\ x_pos' = [x_pos EXCEPT ![n] = Value(n, x)]
    /\ IF Above(n, Value(n, x)) THEN pc' = "up" /\ UNCHANGED <<settled, drawn>>
                                ELSE Settled
    /\ UNCHANGED ring

\* The write of the key, and the choice of a loop.
Update(n, x) ==
    /\ pc = "idle"
    /\ current_node' = n /\ swap_node' = n
    /\ x_pos' = [x_pos EXCEPT ![n] = Value(n, x)]
    /\ IF Above(n, Value(n, x)) THEN pc' = "up" /\ UNCHANGED <<settled, drawn>>
       ELSE IF Below(n, Value(n, x)) THEN pc' = "down" /\ UNCHANGED <<settled, drawn>>
       ELSE Settled
    /\ UNCHANGED ring

\* Faulty variant: the loop does not advance.
UpStays ==
    /\ pc = "up" /\ Above(swap_node, val)
    /\ UNCHANGED vars

Up ==
    /\ pc = "up" /\ Above(swap_node, val)
    /\ swap_node' = prev[swap_node]
    /\ UNCHANGED <<x_pos, ring, pc, current_node, settled, drawn>>

MoveUp ==
    /\ pc = "up" /\ ~Above(swap_node, val)
    /\ MoveAfter(current_node, prev[swap_node])
    /\ UNCHANGED <<x_pos, current_node, swap_node>>
    /\ NewHead /\ Settled

Down ==
    /\ pc = "down" /\ Below(swap_node, val)
    /\ swap_node' = next[swap_node]
    /\ UNCHANGED <<x_pos, ring, pc, current_node, settled, drawn>>

MoveDown ==
    /\ pc = "down" /\ ~Below(swap_node, val)
    /\ MoveAfter(current_node, swap_node)
    /\ UNCHANGED <<x_pos, current_node, swap_node>>
    /\ NewHead /\ Settled

-----------------------------------------------------------------------------
(* The iterator and draw_sprite_row                                        *)

\* What sprite_iterator_next returns from node h on, up to the sentinel.
Listed(h) ==
    LET at[i \in 1..MAX_SPRITES + 1] == IF i = 1 THEN h ELSE next[at[i - 1]]
        end == CHOOSE n \in 0..MAX_SPRITES :
                  /\ \A i \in 1..n : at[i] # sentinal
                  /\ at[n + 1] = sentinal \/ n = MAX_SPRITES
    IN  [i \in 1..end |-> at[i]]

\* The loop over them: those that intersect the row, until there are enough.
Picked(s, row) ==
    LET sprite_nos[i \in 0..Len(s)] ==
            IF i = 0 THEN <<>>
            ELSE LET nos == sprite_nos[i - 1]
                 IN  IF s[i] \in row /\ Len(nos) < Limit THEN Append(nos, s[i]) ELSE nos
    IN  sprite_nos[Len(s)]

DrawRow(row) ==
    /\ pc = "idle"
    /\ drawn' = <<row, Picked(Listed(head_ptr), row)>>
    /\ UNCHANGED <<x_pos, ring, pc, current_node, swap_node, settled>>

Loops == Up \/ MoveUp \/ Down \/ MoveDown

Next ==
    \/ \E n \in Sprites, x \in Xs : Update(n, x)
    \/ Loops
    \/ \E row \in SUBSET Sprites : DrawRow(row)

Spec == Init /\ [][Next]_vars

\* update_sprite_prios is a call: nothing else runs until it returns.
Fairness == WF_vars(Loops)
FairSpec == Spec /\ Fairness

-----------------------------------------------------------------------------
(* Properties                                                              *)

First == next[sentinal]

\* Splicing keeps one ring: prev undoes next, and following next from the sentinel
\* meets every sprite, once, before the sentinel.
OneRing ==
    /\ \A n \in Nodes : prev[next[n]] = n /\ next[prev[n]] = n
    /\ LET listed == Listed(First)
       IN  /\ Len(listed) = MAX_SPRITES
           /\ \A i, j \in 1..MAX_SPRITES : i # j => listed[i] # listed[j]

\* Neighbours are in order, except for a sprite that is being moved.  A single pass
\* in one direction, chosen by one comparison, is enough to restore the order.
Sorted ==
    \A n \in Sprites :
        \/ next[n] = sentinal \/ x_pos[n] <= x_pos[next[n]]
        \/ pc # "idle" /\ current_node \in {n, next[n]}

\* "current head of queue" (sprite_priorities.c:18)
HeadIsFirst == pc = "idle" => head_ptr = First

\* The list is the queue of SpriteOrder.
Order == INSTANCE SpriteOrder WITH queue <- Listed(First), key <- settled

\* The pointers implement the queue: one sprite moves per update, to the place where
\* its key belongs, and rows are drawn in the queue's order up to its end.
OrderSpec == Order!Spec

\* One sorted ring that implements the queue: OrderSpec, of the steps that change it.
\* The order is that of the code, highest priority first; the repository's own test of
\* it states the opposite one (sprite_prio_tests.c:52-57, and so does graphics.c:157).
OrderExact ==
    /\ [](TypeOK /\ OneRing /\ Sorted)
    /\ Order!Init /\ [][vars' = vars \/ [Order!Next]_(Order!orderVars)]_vars

\* The loops of an update end.
UpdateEnds == pc # "idle" ~> pc = "idle"
=============================================================================

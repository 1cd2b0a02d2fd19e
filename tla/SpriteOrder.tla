----------------------------- MODULE SpriteOrder -----------------------------
(***************************************************************************)
(* What the sprite priorities do: a queue of all sprites in which only the  *)
(* sprite that is written moves, and rows drawn in the order of the queue,  *)
(* up to a limit.  The sprite of highest priority is first: the one of the  *)
(* lowest key, that is of the lowest x position and then number; prev is    *)
(* "Next node with higher priority" (sprite_priorities.c:7).  The comment   *)
(* of the row's loop, "from least priority to most priority"                *)
(* (graphics.c:157), and src/core/tests/sprite_prio_tests.c:52-57 and 90-93 *)
(* want the opposite order, which the code does not have.                   *)
(*                                                                         *)
(* A row should look at the whole queue; the code starts at a head that may *)
(* have fallen behind, so this asks only that a row leave out a first part  *)
(* of the queue.                                                           *)
(***************************************************************************)
EXTENDS Naturals, Sequences

CONSTANTS Sprites, Keys, Limit

VARIABLES queue, key, drawn

\* s with its element at i moved to j, and those between closing up.
Moved(s, i, j) ==
    [m \in DOMAIN s |-> s[IF m = j THEN i
                          ELSE IF i <= m /\ m < j THEN m + 1
                          ELSE IF j < m /\ m <= i THEN m - 1 ELSE m]]

\* t are the first Limit sprites in row from place h of s on, each once: the ith is at
\* place at[i], and none is left out before the last, nor after it while t has room.
Draws(t, s, h, row) ==
    \E at \in [DOMAIN t -> h .. Len(s)] :
        /\ Len(t) <= Limit
        /\ \A i \in DOMAIN t : t[i] = s[at[i]] /\ t[i] \in row
        /\ \A i, j \in DOMAIN t : i < j => at[i] < at[j]
        /\ \A m \in h .. Len(s) :
              \/ s[m] \notin row
              \/ \E i \in DOMAIN t : at[i] = m
              \/ Len(t) = Limit /\ \A i \in DOMAIN t : at[i] < m

\* drawn is the last row, and its sprites in order, since a sprite moved.
Nothing == <<{}, <<>>>>

\* Highest priority first.
Ascending(s, k) == \A i, j \in DOMAIN s : i < j => k[s[i]] <= k[s[j]]

Init ==
    /\ queue \in Seq(Sprites)
    /\ \A n \in Sprites : \E i \in DOMAIN queue : \A j \in DOMAIN queue : queue[j] = n <=> j = i
    /\ Ascending(queue, key) /\ drawn = Nothing

\* n is taken out and put back where its new key belongs.
Update(n, k) ==
    /\ drawn' = Nothing
    /\ key' = [key EXCEPT ![n] = k]
    /\ \E i, j \in DOMAIN queue : queue[i] = n /\ queue' = Moved(queue, i, j)
    /\ Ascending(queue', key')

\* Rows draw from some sprite of the queue on.
DrawRow ==
    /\ UNCHANGED <<queue, key>>
    /\ drawn'[1] \subseteq Sprites
    /\ \E h \in DOMAIN queue : Draws(drawn'[2], queue, h, drawn'[1])

Move == \E n \in Sprites, k \in Keys : Update(n, k)

Next == DrawRow \/ Move

orderVars == <<queue, key, drawn>>

Spec == Init /\ [][Next]_orderVars
=============================================================================

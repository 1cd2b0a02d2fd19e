----------------------------- MODULE EdgeCounter -----------------------------
(***************************************************************************)
(* What the timer promises: TIMA counts the falling edges of a line, which *)
(* is one bit of a clock counter while the timer is on and low otherwise.  *)
(***************************************************************************)
EXTENDS Naturals, FiniteSets

CONSTANTS
    Period,         \* the counter wraps at Period
    Tima,           \* TIMA overflows at Tima
    Weight,         \* of the bit of the counter that each value of TAC selects
    Cycles

VARIABLES counter, on, sel, tima, tma, requested

vars == <<counter, on, sel, tima, tma, requested>>

SelectedBit(c) == ((c % Period) \div Weight[sel]) % 2 = 1
Line == on /\ SelectedBit(counter)

\* n edges: TIMA restarts from TMA whenever it overflows, and asks for an interrupt.
Count(n) ==
    /\ tima' = IF tima + n < Tima THEN tima + n
               ELSE tma + ((tima + n - Tima) % (Tima - tma))
    /\ requested' = (requested \/ tima + n >= Tima)

\* c clock cycles pass.
Advance(c) ==
    /\ counter' = (counter + c) % Period
    /\ Count(IF on THEN Cardinality({t \in 1..c : SelectedBit(counter + t - 1) /\ ~SelectedBit(counter + t)})
                   ELSE 0)
    /\ UNCHANGED <<on, sel, tma>>

\* Resetting the counter, or switching the timer off, drops a line that is high.
Reset ==
    /\ counter' = 0 /\ Count(IF Line THEN 1 ELSE 0)
    /\ UNCHANGED <<on, sel, tma>>

Control ==
    /\ on' \in BOOLEAN /\ sel' \in DOMAIN Weight
    /\ Count(IF Line /\ ~on' THEN 1 ELSE 0)
    /\ UNCHANGED <<counter, tma>>

Load ==
    /\ tima' \in 0..Tima - 1 /\ tma' \in 0..Tima - 1
    /\ UNCHANGED <<counter, on, sel, requested>>

Acknowledge == requested' = FALSE /\ UNCHANGED <<counter, on, sel, tima, tma>>

Init ==
    /\ counter \in 0..Period - 1 /\ on = FALSE /\ sel \in DOMAIN Weight
    /\ tima = 0 /\ tma = 0 /\ requested = FALSE

Next == (\E c \in Cycles : Advance(c)) \/ Reset \/ Control \/ Load \/ Acknowledge

Spec == Init /\ [][Next]_vars
=============================================================================

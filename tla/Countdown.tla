----------------------------- MODULE Countdown ------------------------------
(***************************************************************************)
(* What the timer wheel is for: every timer that is set counts the ticks   *)
(* that are left, and expires when more ticks pass than that.              *)
(***************************************************************************)
EXTENDS Integers

CONSTANTS Timers, Ticks   \* how many ticks a timer is set to or pass at once

VARIABLES left     \* ticks left, or -1 for a timer that is not set

Init == left = [p \in Timers |-> -1]

Set(p, ticks) == left[p] = -1 /\ left' = [left EXCEPT ![p] = ticks]

Cancel(p) == left' = [left EXCEPT ![p] = -1]

Pass(dt) == left' = [p \in Timers |-> IF left[p] < dt THEN -1 ELSE left[p] - dt]

Next == \E ticks \in Ticks : \/ Pass(ticks)
                            \/ \E p \in Timers : Set(p, ticks) \/ Cancel(p)

Spec == Init /\ [][Next]_left
=============================================================================

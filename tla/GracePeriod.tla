----------------------------- MODULE GracePeriod ----------------------------
(***************************************************************************)
(* What thread progress promises its users: a thread that waits for a      *)
(* value is done only when every thread that was inside, with references   *)
(* to shared data perhaps, has been outside since.                         *)
(***************************************************************************)
CONSTANTS Threads, Waiters, NotWaiting

VARIABLES inside,  \* threads that may hold references
          waits    \* per waiter, the threads it still has to wait for

vars == <<inside, waits>>

Init == /\ inside \subseteq Threads
        /\ waits = [x \in Waiters |-> NotWaiting]

Enter(t) == inside' = inside \cup {t} /\ UNCHANGED waits

Leave(t) ==
  /\ inside' = inside \ {t}
  /\ waits' = [x \in Waiters |->
                 IF waits[x] = NotWaiting THEN NotWaiting ELSE waits[x] \ {t}]

Start(x) == /\ waits[x] = NotWaiting
            /\ waits' = [waits EXCEPT ![x] = inside]
            /\ UNCHANGED inside

Finish(x) == /\ waits[x] = {}
             /\ waits' = [waits EXCEPT ![x] = NotWaiting]
             /\ UNCHANGED inside

Next == \/ \E t \in Threads : Enter(t) \/ Leave(t)
        \/ \E x \in Waiters : Start(x) \/ Finish(x)

Spec == Init /\ [][Next]_vars
=============================================================================

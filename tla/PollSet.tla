------------------------------- MODULE PollSet -------------------------------
(***************************************************************************)
(* The poll set of erl_poll.c: the word wakeup_state with which the        *)
(* polling thread and those that wake it agree, the wakeup pipe, and the   *)
(* update requests of threads that select a file descriptor.  Every        *)
(* operator is one access to memory or one system call.                    *)
(***************************************************************************)
EXTENDS Integers

VARIABLES
  wakeup_state,
  pipe,                   \* there is something to read in the wakeup pipe
  have_update_requests,
  ready                   \* the file descriptor of the driver is readable

pollset == <<wakeup_state, pipe, have_update_requests, ready>>

NOT_WOKEN == 0
WOKEN == -1
WOKEN_INTR == 1

PollInit == /\ wakeup_state = NOT_WOKEN /\ pipe = FALSE
            /\ have_update_requests = FALSE /\ ready = FALSE

reset_wakeup_state == /\ wakeup_state' = NOT_WOKEN
                      /\ UNCHANGED <<pipe, have_update_requests, ready>>

is_woken == wakeup_state # NOT_WOKEN

woke_up == /\ wakeup_state' = IF is_woken THEN wakeup_state ELSE WOKEN
           /\ UNCHANGED <<pipe, have_update_requests, ready>>

is_interrupted_reset == reset_wakeup_state

\* wake_poller() of an interrupt: a read, an assignment, a write to the pipe
\* if nobody had woken the poller before.
set_woken_intr == /\ wakeup_state' = WOKEN_INTR
                  /\ UNCHANGED <<pipe, have_update_requests, ready>>

\* wake_poller() of an update request.
set_woken == /\ wakeup_state' = IF is_woken THEN wakeup_state ELSE WOKEN
             /\ UNCHANGED <<pipe, have_update_requests, ready>>

write_pipe == pipe' = TRUE /\ UNCHANGED <<wakeup_state, have_update_requests, ready>>

cleanup_wakeup_pipe == /\ pipe' = FALSE
                       /\ UNCHANGED <<wakeup_state, have_update_requests, ready>>

\* poll_control() with the lock of the poll set.
enqueue_update_request == /\ ~have_update_requests /\ have_update_requests' = TRUE
                          /\ UNCHANGED <<wakeup_state, pipe, ready>>

handle_update_requests == /\ have_update_requests' = FALSE
                          /\ UNCHANGED <<wakeup_state, pipe, ready>>

\* The environment: data arrives, the driver reads it.
Readable == ~ready /\ ready' = TRUE /\ UNCHANGED <<wakeup_state, pipe, have_update_requests>>
ReadAll == ready' = FALSE /\ UNCHANGED <<wakeup_state, pipe, have_update_requests>>
=============================================================================

----------------------------- MODULE SchedSleep ------------------------------
(***************************************************************************)
(* How schedulers wait and are woken: scheduler_wait() of erl_process.c    *)
(* with the sleep flags of a scheduler, its event and its aux work, the    *)
(* one scheduler that polls (doing_sys_schedule), erts_check_io() and      *)
(* erts_poll_wait(), and everyone who wakes a scheduler or the poller.     *)
(*                                                                         *)
(* A step is one access to shared memory or one system call, but for       *)
(* PollIo; what is done with a run queue locked excludes those who enqueue *)
(* on it.                                                                  *)
(***************************************************************************)
EXTENDS Integers, FiniteSets, FiniteSetsExt, PollSet

CONSTANTS Schedulers,
          Wakers,        \* other threads, that make requests
          NoSched,
          MaxPending,    \* bound: requests that are not yet served
          AuxPieces      \* bound: how often work is handled until it is done

Threads == Schedulers \cup Wakers

ASSUME ThreadAssumption ==
  /\ NoSched \notin Schedulers /\ Schedulers \cap Wakers = {}
  /\ Schedulers # {}   \* erts_init_scheduling() starts at least one
ASSUME AuxAssumption == {AuxPieces, MaxPending} \subseteq Nat \ {0}

VARIABLES
  pc, ret,               \* of a scheduler; where prepare_for_sys_schedule returns
  flags, event,          \* its ErtsSchedulerSleepInfo
  aux_work, more,        \* work requested; does it go on at once
  rq, waiting,           \* its run queue: "proc" and "io", a port with I/O tasks
  doing_sys_schedule, outstanding_io_tasks,
  zero, res,             \* poll with a zero timeout; what poll() has returned
  wpc, target, seen      \* of a thread that wakes another

sched == <<pc, ret, more, zero, res>>
ssi == <<flags, event, aux_work>>
sys == <<doing_sys_schedule, outstanding_io_tasks>>
wake == <<wpc, target, seen>>
vars == <<pollset, sched, ssi, rq, waiting, sys, wake>>

Init ==
  /\ PollInit
  /\ pc = [s \in Schedulers |-> "run"] /\ ret = [s \in Schedulers |-> "none"]
  /\ flags = [s \in Schedulers |-> {}] /\ event = [s \in Schedulers |-> FALSE]
  /\ aux_work = [s \in Schedulers |-> 0] /\ more = [s \in Schedulers |-> FALSE]
  /\ rq = [s \in Schedulers |-> {}] /\ waiting = [s \in Schedulers |-> 0]
  /\ doing_sys_schedule = FALSE /\ outstanding_io_tasks = 0
  /\ zero = [s \in Schedulers |-> FALSE] /\ res = [s \in Schedulers |-> {}]
  /\ wpc = [w \in Threads |-> "idle"] /\ target = [w \in Threads |-> NoSched]
  /\ seen = [w \in Threads |-> NOT_WOKEN]

\* What a thread keeps for itself is forgotten when it is done with it.
At(s, l) == pc[s] = l /\ wpc[s] = "idle"
Goto(s, l) == pc' = [pc EXCEPT ![s] = l]
Return(s, l) == /\ Goto(s, l) /\ ret' = [ret EXCEPT ![s] = "none"]
                /\ more' = [more EXCEPT ![s] = FALSE]

Call(s, l) == Goto(s, "poll") /\ ret' = [ret EXCEPT ![s] = l]

\* Places where a scheduler holds the lock of its run queue.
RunqIsLocked(s) ==
  \/ pc[s] \in {"prep1", "prep2", "prep3"} /\ ret[s] # "loop"
  \/ pc[s] \in {"sys_lock", "sys_reset", "sys_set"}

-----------------------------------------------------------------------------
(* Those who wake.                                                         *)

WakeGoto(w, l) ==
  /\ wpc' = [wpc EXCEPT ![w] = l]
  /\ target' = IF l \in {"tse_set", "poke"} THEN target ELSE [target EXCEPT ![w] = NoSched]

\* erts_sched_finish_poke(): what was cleared says where the scheduler sleeps.
finish_poke(w, old) ==
  CASE "POLL_SLEEPING" \in old -> WakeGoto(w, "intr_read")
    [] "POLL_SLEEPING" \notin old /\ "TSE_SLEEPING" \in old -> WakeGoto(w, "tse_set")
    [] OTHER -> WakeGoto(w, "idle")

\* smp_notify_inc_runq(): ssi_flags_set_wake() in wake_scheduler().
WakeScheduler(w) ==
  /\ wpc[w] = "wake"
  /\ flags' = [flags EXCEPT ![target[w]] = {}] /\ finish_poke(w, flags[target[w]])
  /\ UNCHANGED <<pollset, sched, event, aux_work, rq, waiting, sys, seen>>

\* erts_sched_poke() reads the flags first.
PokeRead(w) ==
  /\ wpc[w] = "poke_read"
  /\ WakeGoto(w, IF "SLEEPING" \in flags[target[w]] THEN "poke" ELSE "idle")
  /\ UNCHANGED <<pollset, sched, ssi, rq, waiting, sys, seen>>

SLEEP == {"SLEEPING", "POLL_SLEEPING", "TSE_SLEEPING"}

Poke(w) ==
  /\ wpc[w] = "poke"
  /\ flags' = [flags EXCEPT ![target[w]] = @ \ SLEEP] /\ finish_poke(w, flags[target[w]])
  /\ UNCHANGED <<pollset, sched, event, aux_work, rq, waiting, sys, seen>>

TseSet(w) ==
  /\ wpc[w] = "tse_set" /\ WakeGoto(w, "idle")
  /\ event' = [event EXCEPT ![target[w]] = TRUE]
  /\ UNCHANGED <<pollset, sched, flags, aux_work, rq, waiting, sys, seen>>

\* erts_poll_interrupt(): wake_poller() reads wakeup_state, ...
IntrRead(w) ==
  /\ wpc[w] = "intr_read" /\ wpc' = [wpc EXCEPT ![w] = "intr_set"]
  /\ seen' = [seen EXCEPT ![w] = wakeup_state]
  /\ UNCHANGED <<pollset, sched, ssi, rq, waiting, sys, target>>

\* ... sets it, ...
IntrSet(w) ==
  /\ wpc[w] = "intr_set" /\ set_woken_intr
  /\ wpc' = [wpc EXCEPT ![w] = IF seen[w] = NOT_WOKEN THEN "write" ELSE "idle"]
  /\ seen' = [seen EXCEPT ![w] = NOT_WOKEN]
  /\ UNCHANGED <<sched, ssi, rq, waiting, sys, target>>

\* ... and writes to the pipe.
Write(w) ==
  /\ wpc[w] = "write" /\ wpc' = [wpc EXCEPT ![w] = "idle"] /\ write_pipe
  /\ UNCHANGED <<sched, ssi, rq, waiting, sys, target, seen>>

\* erts_poll_control(): wake_poller() of an update request.
SelectWake(w) ==
  /\ wpc[w] = "select" /\ set_woken
  /\ wpc' = [wpc EXCEPT ![w] = IF is_woken THEN "idle" ELSE "write"]
  /\ UNCHANGED <<sched, ssi, rq, waiting, sys, target, seen>>

WakeStep(w) == \/ WakeScheduler(w) \/ PokeRead(w) \/ Poke(w) \/ TseSet(w)
               \/ IntrRead(w) \/ IntrSet(w) \/ Write(w) \/ SelectWake(w)

MayRequest ==
  MapThenSumSet(LAMBDA s : Cardinality(rq[s] \ {"io"}) + (IF aux_work[s] > 0 THEN 1 ELSE 0), Schedulers)
    + (IF have_update_requests THEN 1 ELSE 0) < MaxPending

\* A thread makes a process runnable: add2runq().
Enqueue(w, s) ==
  /\ wpc[w] = "idle" /\ ~RunqIsLocked(s) /\ "proc" \notin rq[s]
  /\ rq' = [rq EXCEPT ![s] = @ \cup {"proc"}]
  /\ wpc' = [wpc EXCEPT ![w] = "wake"] /\ target' = [target EXCEPT ![w] = s]
  /\ UNCHANGED <<pollset, sched, ssi, waiting, sys, seen>>

\* set_aux_work_flags_wakeup_relb()
RequestAuxWork(w, s) ==
  /\ wpc[w] = "idle" /\ aux_work[s] = 0
  /\ aux_work' = [aux_work EXCEPT ![s] = AuxPieces]
  /\ wpc' = [wpc EXCEPT ![w] = "poke_read"] /\ target' = [target EXCEPT ![w] = s]
  /\ UNCHANGED <<pollset, sched, flags, event, rq, waiting, sys, seen>>

\* erts_poll_control() adds an event.
Select(w) ==
  /\ wpc[w] = "idle" /\ enqueue_update_request /\ wpc' = [wpc EXCEPT ![w] = "select"]
  /\ UNCHANGED <<sched, ssi, rq, waiting, sys, target, seen>>

Request(w) == MayRequest /\ (Select(w) \/ \E s \in Schedulers : Enqueue(w, s) \/ RequestAuxWork(w, s))

DataArrives == Readable /\ UNCHANGED <<sched, ssi, rq, waiting, sys, wake>>

-----------------------------------------------------------------------------
(* schedule()                                                              *)

\* A process runs and is taken out.
RunProcess(s) ==
  /\ At(s, "pick") /\ "proc" \in rq[s] /\ rq' = [rq EXCEPT ![s] = @ \ {"proc"}]
  /\ Goto(s, "run")
  /\ UNCHANGED <<pollset, ret, more, zero, res, ssi, waiting, sys, wake>>

\* erts_port_task_execute(): the driver reads, ...
RunPort(s) ==
  /\ At(s, "pick") /\ "io" \in rq[s] /\ rq' = [rq EXCEPT ![s] = @ \ {"io"}]
  /\ ReadAll /\ Goto(s, "run_io")
  /\ UNCHANGED <<ret, more, zero, res, ssi, waiting, sys, wake>>

\* ... then the I/O tasks that are executed are counted.
RunPortDone(s) ==
  /\ At(s, "run_io") /\ Goto(s, "run") /\ outstanding_io_tasks' = outstanding_io_tasks - 1
  /\ UNCHANGED <<pollset, ret, more, zero, res, ssi, rq, waiting, doing_sys_schedule, wake>>

\* handle_aux_work() returns the flags of work that can continue at once.
handle_aux_work(s) ==
  aux_work' = [aux_work EXCEPT ![s] = IF @ > 0 THEN @ - 1 ELSE 0]

\* Every time before it looks for something to run.
RunAuxWork(s) ==
  /\ At(s, "run") /\ Goto(s, "pick") /\ handle_aux_work(s)
  /\ UNCHANGED <<pollset, ret, more, zero, res, flags, event, rq, waiting, sys, wake>>

\* Enough reductions are executed since the last poll.
PollBusy(s) ==
  /\ At(s, "pick") /\ rq[s] # {} /\ Goto(s, "prep1") /\ ret' = [ret EXCEPT ![s] = "run"]
  /\ UNCHANGED <<pollset, more, zero, res, ssi, rq, waiting, sys, wake>>

\* Nothing to do: scheduler_wait() starts with sched_prep_spin_wait().
Wait(s) ==
  /\ At(s, "pick") /\ rq[s] = {}
  /\ flags' = [flags EXCEPT ![s] = {"SLEEPING", "WAITING"}]
  /\ Goto(s, "prep1") /\ ret' = [ret EXCEPT ![s] = "wait"]
  /\ UNCHANGED <<pollset, more, zero, res, event, aux_work, rq, waiting, sys, wake>>

Run(s) == \/ RunProcess(s) \/ RunPort(s) \/ RunPortDone(s) \/ RunAuxWork(s)
          \/ PollBusy(s) \/ Wait(s)

-----------------------------------------------------------------------------
(* prepare_for_sys_schedule(), called from four places.                    *)

\* The caller goes on without the right to poll: it waits for its event.
SysDenied(s) ==
  /\ Return(s, IF ret[s] = "run" THEN "run" ELSE "tse")
  /\ waiting' = [waiting EXCEPT ![s] = CASE ret[s] = "wait"  -> 1    \* sched_waiting()
                                         [] ret[s] = "sleep" -> 1    \* sched_change_...()
                                         [] OTHER            -> @]

\* Work that goes on is handled after another poll.
SleepUnlessMore(s) ==
  IF more[s] THEN Call(s, "poll") ELSE Goto(s, "sys_reset") /\ UNCHANGED ret

\* The loop in scheduler_wait(): it polls, or goes on; without spinning it is
\* entered at the aux work.
SysLoop(s) ==
  \/ Call(s, "poll")
  \/ ret[s] = "wait" /\ Goto(s, "sys_aux") /\ ret' = [ret EXCEPT ![s] = "loop"]
  \/ ret[s] # "wait" /\ Goto(s, "sys_lock") /\ UNCHANGED ret

\* Mutant: sched_waiting() counts a scheduler that is going to poll.
GrantedAsWaiting(s) ==
  /\ CASE ret[s] \in {"wait", "loop"} -> SysLoop(s)
       [] ret[s] = "sleep" -> SleepUnlessMore(s)
       [] ret[s] = "run" -> Goto(s, "poll") /\ UNCHANGED ret
  /\ waiting' = [waiting EXCEPT ![s] = IF ret[s] = "wait" THEN 1 ELSE @]

SysGranted(s) ==
  /\ CASE ret[s] \in {"wait", "loop"} -> SysLoop(s)
       [] ret[s] = "sleep" -> SleepUnlessMore(s)
       [] ret[s] = "run" -> Goto(s, "poll") /\ UNCHANGED ret
  /\ waiting' = [waiting EXCEPT ![s] = IF ret[s] = "wait" THEN -1 ELSE @]   \* sched_waiting_sys()

PrepIo(s) ==
  /\ At(s, "prep1")
  /\ IF outstanding_io_tasks > 0 THEN SysDenied(s)
     ELSE Goto(s, "prep2") /\ UNCHANGED <<ret, more, waiting>>
  /\ UNCHANGED <<pollset, zero, res, ssi, rq, sys, wake>>

try_set_sys_scheduling(s) ==
  /\ At(s, "prep2")
  /\ IF doing_sys_schedule THEN SysDenied(s)
     ELSE Goto(s, "prep3") /\ UNCHANGED <<ret, more, waiting>>
  /\ doing_sys_schedule' = TRUE
  /\ UNCHANGED <<pollset, zero, res, ssi, rq, outstanding_io_tasks, wake>>

\* Mutant: the tasks are not looked at again.
PrepUnchecked(s) ==
  /\ At(s, "prep3") /\ SysGranted(s)
  /\ UNCHANGED <<pollset, more, zero, res, ssi, rq, sys, wake>>

PrepCheckIo(s) ==
  /\ At(s, "prep3")
  /\ IF outstanding_io_tasks = 0
     THEN SysGranted(s) /\ UNCHANGED doing_sys_schedule
     ELSE /\ Goto(s, "prep1") /\ doing_sys_schedule' = FALSE
          /\ UNCHANGED <<ret, waiting>>
  /\ UNCHANGED <<pollset, more, zero, res, ssi, rq, outstanding_io_tasks, wake>>

Prepare(s) == PrepIo(s) \/ try_set_sys_scheduling(s) \/ PrepCheckIo(s)

-----------------------------------------------------------------------------
(* scheduler_wait() with the event of the thread.                          *)

TseAuxWork(s) ==
  /\ At(s, "tse") /\ handle_aux_work(s)
  /\ Goto(s, IF aux_work[s] > 1 THEN "tse_cont" ELSE "tse_spin")
  /\ UNCHANGED <<pollset, ret, more, zero, res, flags, event, rq, waiting, sys, wake>>

IsSleeping(s) == {"SLEEPING", "WAITING"} \subseteq flags[s]

\* sched_spin_wait() ends when the flags are cleared, or after a while; then
\* sched_set_sleeptype() resets the event, which only a thread that is late
\* could set now.
TseSpin(s) ==
  /\ At(s, "tse_spin")
  /\ IF IsSleeping(s) THEN Goto(s, "tse_set") /\ event' = [event EXCEPT ![s] = FALSE]
     ELSE Goto(s, "tse_cont") /\ UNCHANGED event
  /\ UNCHANGED <<pollset, ret, more, zero, res, flags, aux_work, rq, waiting, sys, wake>>

\* Mutant: the flag is set although the thread has been woken meanwhile.
SleepAnyway(s, type) ==
  flags' = [flags EXCEPT ![s] = @ \cup {"SLEEPING", "WAITING", type}]

set_sleeptype(s, type) ==
  flags' = [flags EXCEPT ![s] = IF IsSleeping(s) THEN @ \cup {type} ELSE @]

TseSetType(s) ==
  /\ At(s, "tse_set") /\ set_sleeptype(s, "TSE_SLEEPING")
  /\ Goto(s, IF "TSE_SLEEPING" \in flags'[s] THEN "tse_wait" ELSE "tse_cont")
  /\ UNCHANGED <<pollset, ret, more, zero, res, event, aux_work, rq, waiting, sys, wake>>

\* The event is reset before it is looked at again, so that it may as well be
\* forgotten here.
TseWait(s) ==
  /\ At(s, "tse_wait") /\ event[s] /\ Goto(s, "tse_cont")
  /\ event' = [event EXCEPT ![s] = FALSE]
  /\ UNCHANGED <<pollset, ret, more, zero, res, flags, aux_work, rq, waiting, sys, wake>>

\* sched_prep_cont_spin_wait(): only a wakeup ends the wait, a poke does not.
prep_cont_spin_wait(s) ==
  flags' = [flags EXCEPT ![s] = IF "WAITING" \in @ THEN {"SLEEPING", "WAITING"} ELSE @]

\* sched_active() when it is woken.
TseCont(s) ==
  /\ At(s, "tse_cont") /\ prep_cont_spin_wait(s)
  /\ IF "WAITING" \in flags[s] THEN Goto(s, "tse") /\ UNCHANGED waiting
     ELSE /\ Goto(s, "run")
          /\ waiting' = [waiting EXCEPT ![s] = IF @ < 0 THEN @ + 1 ELSE @ - 1]
  /\ UNCHANGED <<pollset, ret, more, zero, res, event, aux_work, rq, sys, wake>>

WaitTse(s) == TseAuxWork(s) \/ TseSpin(s) \/ TseSetType(s) \/ TseWait(s) \/ TseCont(s)

-----------------------------------------------------------------------------
(* scheduler_wait() in erl_sys_schedule().                                 *)

\* After a poll it looks for aux work, a wakeup and I/O tasks.
SysAuxWork(s) ==
  /\ At(s, "sys_aux") /\ handle_aux_work(s) /\ Goto(s, "sys_flags")
  /\ more' = [more EXCEPT ![s] = aux_work[s] > 1]
  /\ UNCHANGED <<pollset, ret, zero, res, flags, event, rq, waiting, sys, wake>>

SysFlags(s) ==
  /\ At(s, "sys_flags") /\ Goto(s, IF "WAITING" \in flags[s] THEN "sys_io" ELSE "sys_woken")
  /\ UNCHANGED <<pollset, ret, more, zero, res, ssi, rq, waiting, sys, wake>>

\* With I/O tasks to execute nobody may poll.  The test is made in the loop
\* and, with the run queue locked, before the thread goes to sleep.
SysIo(s, caller, Otherwise(_)) ==
  /\ IF outstanding_io_tasks > 0
     THEN /\ doing_sys_schedule' = FALSE
          /\ Goto(s, "prep1") /\ ret' = [ret EXCEPT ![s] = caller]
     ELSE Otherwise(s) /\ UNCHANGED doing_sys_schedule
  /\ UNCHANGED <<pollset, more, zero, res, ssi, rq, waiting, outstanding_io_tasks, wake>>

SysLoopIo(s) == At(s, "sys_io") /\ SysIo(s, "loop", SysLoop)
SysSleepIo(s) == At(s, "sys_lock") /\ SysIo(s, "sleep", SleepUnlessMore)

SysReset(s) ==
  /\ At(s, "sys_reset") /\ Goto(s, "sys_set") /\ reset_wakeup_state
  /\ UNCHANGED <<ret, more, zero, res, ssi, rq, waiting, sys, wake>>

SysSetType(s) ==
  /\ At(s, "sys_set") /\ set_sleeptype(s, "POLL_SLEEPING")
  /\ IF "POLL_SLEEPING" \in flags'[s] THEN Call(s, "doze")
     ELSE /\ Goto(s, IF "WAITING" \in flags[s] THEN "sys_cont" ELSE "sys_woken")
          /\ ret' = [ret EXCEPT ![s] = "poll"]
  /\ UNCHANGED <<pollset, more, zero, res, event, aux_work, rq, waiting, sys, wake>>

\* After a poke that came before the sleep the thread polls once more; after
\* the sleep it looks for aux work.
SysCont(s) ==
  /\ At(s, "sys_cont") /\ prep_cont_spin_wait(s)
  /\ CASE "WAITING" \notin flags[s] -> Goto(s, "sys_woken") /\ UNCHANGED ret
       [] "WAITING" \in flags[s] /\ ret[s] = "doze" -> Goto(s, "sys_aux") /\ UNCHANGED ret
       [] OTHER -> Call(s, "poll")
  /\ UNCHANGED <<pollset, more, zero, res, event, aux_work, rq, waiting, sys, wake>>

\* Mutant: the right to poll is kept by a thread that does not poll.
WokenStillPolls(s) ==
  /\ At(s, "sys_woken") /\ Return(s, "run") /\ waiting' = [waiting EXCEPT ![s] = -@ - 1]
  /\ UNCHANGED <<pollset, zero, res, ssi, rq, sys, wake>>

\* sys_woken: clear_sys_scheduling(), sched_active_sys()
SysWoken(s) ==
  /\ At(s, "sys_woken") /\ Return(s, "run") /\ doing_sys_schedule' = FALSE
  /\ waiting' = [waiting EXCEPT ![s] = -@ - 1]
  /\ UNCHANGED <<pollset, zero, res, ssi, rq, outstanding_io_tasks, wake>>

WaitSys(s) == \/ SysAuxWork(s) \/ SysFlags(s) \/ SysLoopIo(s) \/ SysSleepIo(s)
              \/ SysReset(s) \/ SysSetType(s) \/ SysCont(s) \/ SysWoken(s)

-----------------------------------------------------------------------------
(* erl_sys_schedule(): erts_check_io() and erts_poll_wait().               *)

\* Poll without waiting if the poller is woken.
PollIn(s) ==
  /\ At(s, "poll") /\ Goto(s, "poll_upd")
  /\ zero' = [zero EXCEPT ![s] = ret[s] # "doze" \/ is_woken]
  /\ UNCHANGED <<pollset, ret, more, res, ssi, rq, waiting, sys, wake>>

PollUpdate(s) ==
  /\ At(s, "poll_upd") /\ handle_update_requests /\ Goto(s, "poll_fds")
  /\ UNCHANGED <<ret, more, zero, res, ssi, rq, waiting, sys, wake>>

Pollable == (IF pipe THEN {"pipe"} ELSE {}) \cup (IF ready THEN {"fd"} ELSE {})

PollReturns(s) == /\ Goto(s, "poll_woke") /\ res' = [res EXCEPT ![s] = Pollable]
                  /\ zero' = [zero EXCEPT ![s] = FALSE]
                  /\ UNCHANGED <<pollset, ret, more, ssi, rq, waiting, sys, wake>>

\* check_fd_events()
PollFds(s) == At(s, "poll_fds") /\ (zero[s] \/ Pollable # {}) /\ PollReturns(s)

\* A timer is due.
PollTimeout(s) == At(s, "poll_fds") /\ ~zero[s] /\ Pollable = {} /\ PollReturns(s)

PollWokeUp(s) ==
  /\ At(s, "poll_woke") /\ woke_up /\ Goto(s, IF res[s] = {} THEN "poll_ret" ELSE "poll_save")
  /\ UNCHANGED <<ret, more, zero, res, ssi, rq, waiting, sys, wake>>

\* save_poll_result()
PollSave(s) ==
  /\ At(s, "poll_save") /\ Goto(s, IF "fd" \in res[s] THEN "poll_io" ELSE "poll_intr")
  /\ IF "pipe" \in res[s] THEN cleanup_wakeup_pipe ELSE UNCHANGED pollset
  /\ res' = [res EXCEPT ![s] = {}]
  /\ UNCHANGED <<ret, more, zero, ssi, rq, waiting, sys, wake>>

\* EINTR ends the poll, EAGAIN starts it again.
PollInterrupted(s) ==
  /\ At(s, "poll_intr") /\ is_interrupted_reset
  /\ Goto(s, IF wakeup_state = WOKEN_INTR THEN "poll_ret" ELSE "poll")
  /\ UNCHANGED <<ret, more, zero, res, ssi, rq, waiting, sys, wake>>

\* iready(): erts_port_task_schedule() counts the task, enqueues the port on
\* its run queue and wakes the scheduler of that.
PollIo(s) ==
  /\ At(s, "poll_io") /\ Goto(s, "poll_ret")
  /\ outstanding_io_tasks' = outstanding_io_tasks + 1
  /\ \E t \in Schedulers :
       /\ ~RunqIsLocked(t) /\ rq' = [rq EXCEPT ![t] = @ \cup {"io"}]
       /\ wpc' = [wpc EXCEPT ![s] = "wake"] /\ target' = [target EXCEPT ![s] = t]
  /\ UNCHANGED <<pollset, ret, more, zero, res, ssi, waiting, doing_sys_schedule, seen>>

PollReturn(s) ==
  /\ At(s, "poll_ret")
  /\ CASE ret[s] = "poll" -> Goto(s, "sys_aux") /\ UNCHANGED <<ret, more>>
       [] ret[s] = "doze" -> Goto(s, "sys_cont") /\ UNCHANGED <<ret, more>>
       [] ret[s] = "run" -> Return(s, "run")
  /\ doing_sys_schedule' = (ret[s] # "run")
  /\ UNCHANGED <<pollset, zero, res, ssi, rq, waiting, outstanding_io_tasks, wake>>

Poll(s) == \/ PollIn(s) \/ PollUpdate(s) \/ PollFds(s) \/ PollWokeUp(s) \/ PollSave(s)
           \/ PollInterrupted(s) \/ PollIo(s) \/ PollReturn(s)

-----------------------------------------------------------------------------
Sched(s) == Run(s) \/ Prepare(s) \/ WaitTse(s) \/ WaitSys(s) \/ Poll(s)

Next == \/ \E s \in Schedulers : Sched(s) \/ PollTimeout(s)
        \/ \E w \in Wakers : Request(w)
        \/ \E w \in Threads : WakeStep(w)
        \/ DataArrives

Spec == Init /\ [][Next]_vars

-----------------------------------------------------------------------------
(* Properties.                                                             *)

\* Types.
TypeOK ==
  /\ wakeup_state \in {NOT_WOKEN, WOKEN, WOKEN_INTR} /\ {pipe, have_update_requests, ready} \subseteq BOOLEAN
  /\ flags \in [Schedulers -> SUBSET (SLEEP \cup {"WAITING"})]
  /\ aux_work \in [Schedulers -> 0 .. AuxPieces]
  /\ rq \in [Schedulers -> SUBSET {"proc", "io"}] /\ waiting \in [Schedulers -> -1 .. 1]
  /\ outstanding_io_tasks \in 0 .. 1
  /\ target \in [Threads -> Schedulers \cup {NoSched}]

PollPlaces == {"poll", "poll_upd", "poll_fds", "poll_woke", "poll_save", "poll_intr"}

\* One scheduler at a time polls, and never while an I/O task that an earlier
\* poll has found is still to be executed (the ASSERTs before the calls of
\* erl_sys_schedule()): the same event would be scheduled twice.
PollIsExclusive ==
  /\ Cardinality({s \in Schedulers : pc[s] \in PollPlaces}) <= 1
  /\ (\E s \in Schedulers : pc[s] \in PollPlaces) => outstanding_io_tasks = 0

\* A scheduler that waits, in whichever way it does it now.
WaitsForEvent(s) == pc[s] \in {"tse", "tse_spin", "tse_set", "tse_wait", "tse_cont"}
WaitsInPoll(s) ==
  \/ pc[s] \in {"sys_aux", "sys_flags", "sys_io", "sys_lock", "sys_reset", "sys_set", "sys_cont",
                "sys_woken"}
  \/ pc[s] \in {"prep1", "prep2", "prep3"} /\ ret[s] \notin {"run", "wait"}
  \/ pc[s] \in PollPlaces \cup {"poll_io", "poll_ret"} /\ ret[s] # "run"

\* rq->waiting counts the scheduler when it waits and not when it runs, on
\* every way through scheduler_wait(), and it is negative while the scheduler
\* polls or is about to: sched_active_sys() and
\* sched_change_waiting_sys_to_waiting() change the sign without looking at
\* it.  A scheduler that stops polling in the loop keeps the sign until
\* sched_active(), which looks.
WaitingIsExact ==
  \A s \in Schedulers :
    /\ waiting[s] = 0 <=> ~WaitsForEvent(s) /\ ~WaitsInPoll(s)
    /\ WaitsInPoll(s) => waiting[s] = -1
    /\ WaitsForEvent(s) => waiting[s] \in {-1, 1}

Asleep(s) == pc[s] = "tse_wait" /\ ~event[s]

\* "If all schedulers are waiting, one of them *should* be waiting in
\* erl_sys_schedule()": when nobody is about to be woken.
OnePolls == ~ /\ \A s \in Schedulers : Asleep(s)
              /\ \A w \in Threads : wpc[w] = "idle"

\* The poller sleeps although wakeup_state says that it is woken: whoever
\* interrupts it now does not write to the pipe.
Deaf == /\ \E s \in Schedulers : pc[s] = "poll_fds" /\ ~zero[s]
        /\ is_woken /\ ~pipe

Sleeps(s) == Asleep(s) \/ (pc[s] = "poll_fds" /\ ~zero[s] /\ Pollable = {})

Forgotten(s) == /\ Sleeps(s) /\ \A w \in Threads : wpc[w] = "idle"
                /\ \/ rq[s] # {} \/ aux_work[s] > 0
                   \/ pc[s] = "poll_fds" /\ have_update_requests

\* Nobody sleeps on a runnable process, a port, aux work or a file descriptor
\* to poll that others have notified, unless the poller has become deaf.
OnlyTheDeafSleep == \A s \in Schedulers : Forgotten(s) => Deaf

\* Writing to the pipe or not "isn't problematic": nobody sleeps on work that
\* others have notified.
NoLostWakeup == \A s \in Schedulers : ~Forgotten(s)
=============================================================================

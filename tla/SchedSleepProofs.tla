-------------------------- MODULE SchedSleepProofs ---------------------------
(***************************************************************************)
(* One scheduler polls at a time, the count of waiting schedulers is       *)
(* exact, not all schedulers sleep on their events, and nobody who has     *)
(* been notified goes on sleeping except behind a deaf poller: for any     *)
(* number of schedulers and of threads that wake them.                     *)
(***************************************************************************)
EXTENDS SchedSleep, FiniteSetTheorems, TLAPS

-----------------------------------------------------------------------------
(* The inductive invariant.                                                *)

RunPlaces == {"run", "pick", "run_io"}
PrepPlaces == {"prep1", "prep2", "prep3"}
TsePlaces == {"tse", "tse_spin", "tse_set", "tse_wait", "tse_cont"}
CheckIoPlaces == PollPlaces \cup {"poll_io", "poll_ret"}
SysPlaces == {"sys_aux", "sys_flags", "sys_io", "sys_lock", "sys_reset", "sys_set", "sys_cont",
              "sys_woken"}
Places == RunPlaces \cup PrepPlaces \cup TsePlaces \cup CheckIoPlaces \cup SysPlaces
Callers == {"none", "run", "wait", "loop", "sleep", "poll", "doze"}
WakePlaces == {"idle", "wake", "poke_read", "poke", "tse_set", "intr_read", "intr_set", "write",
               "select"}

\* Types.
TypeInv ==
  /\ TypeOK
  /\ pc \in [Schedulers -> Places] /\ ret \in [Schedulers -> Callers]
  /\ event \in [Schedulers -> BOOLEAN] /\ more \in [Schedulers -> BOOLEAN]
  /\ zero \in [Schedulers -> BOOLEAN] /\ doing_sys_schedule \in BOOLEAN
  /\ wpc \in [Threads -> WakePlaces]

\* Where a scheduler is says who has called prepare_for_sys_schedule() or
\* erl_sys_schedule(), and how rq->waiting counts it.
Ctl(s) ==
  \/ pc[s] \in RunPlaces /\ ret[s] = "none" /\ waiting[s] = 0
  \/ pc[s] \in PrepPlaces /\ ret[s] \in {"run", "wait"} /\ waiting[s] = 0
  \/ pc[s] \in PrepPlaces /\ ret[s] \in {"loop", "sleep"} /\ waiting[s] = -1
  \/ pc[s] \in CheckIoPlaces /\ ret[s] = "run" /\ waiting[s] = 0
  \/ pc[s] \in CheckIoPlaces /\ ret[s] \in {"poll", "doze"} /\ waiting[s] = -1
  \/ pc[s] \in SysPlaces /\ ret[s] \in {"loop", "sleep", "poll", "doze"} /\ waiting[s] = -1
  \/ pc[s] \in TsePlaces /\ ret[s] = "none" /\ waiting[s] \in {-1, 1}

CtlInv == \A s \in Schedulers : Ctl(s)

\* Only a scheduler that has set its sleep flags polls with a timeout.
ZeroInv == \A s \in Schedulers : pc[s] \in {"poll_upd", "poll_fds"} /\ ~zero[s] => ret[s] = "doze"

\* doing_sys_schedule is set by the one scheduler that polls, or is about to.
Holds(s) == pc[s] \in {"prep3"} \cup CheckIoPlaces \cup SysPlaces

HolderInv ==
  /\ doing_sys_schedule <=> \E s \in Schedulers : Holds(s)
  /\ \A s, u \in Schedulers : Holds(s) /\ Holds(u) => s = u

\* outstanding_io_tasks counts the port that is enqueued or executed.
Queued(s) == "io" \in rq[s]
Executes(s) == pc[s] = "run_io"

IoInv ==
  /\ outstanding_io_tasks = 1 <=> \E s \in Schedulers : Queued(s) \/ Executes(s)
  /\ \A s, u \in Schedulers : /\ Queued(s) /\ Queued(u) => s = u
                              /\ Executes(s) /\ Executes(u) => s = u
                              /\ ~(Queued(s) /\ Executes(u))

\* A scheduler that has looked at the tasks while it may poll.
Clear(s) == \/ pc[s] \in PollPlaces \cup {"poll_io", "sys_reset", "sys_set"}
            \/ pc[s] = "sys_cont" /\ ret[s] # "doze"

ClearInv == \A s \in Schedulers : Clear(s) => outstanding_io_tasks = 0

\* Somebody polls, has a port to execute, or will yet look whether it may poll.
ActiveInv == \/ doing_sys_schedule \/ outstanding_io_tasks = 1
             \/ \E s \in Schedulers : pc[s] \in {"run", "pick", "prep1", "prep2"}

\* The sleep flags are set in order, and a scheduler sets its own ones only.
FlagInv ==
  \A s \in Schedulers :
    /\ flags[s] # {} => "WAITING" \in flags[s]
    /\ "POLL_SLEEPING" \in flags[s] \/ "TSE_SLEEPING" \in flags[s] => "SLEEPING" \in flags[s]
    /\ "POLL_SLEEPING" \in flags[s] => pc[s] \in CheckIoPlaces \cup {"sys_cont"} /\ ret[s] = "doze"
    /\ "TSE_SLEEPING" \in flags[s] => pc[s] \in {"tse_wait", "tse_cont"}

\* Whoever wakes a scheduler knows which.
Waking(s, places) == \E w \in Threads : wpc[w] \in places /\ target[w] = s

TargetInv ==
  \A w \in Threads : wpc[w] \in {"wake", "poke_read", "poke", "tse_set"} => target[w] \in Schedulers

\* A scheduler that waits, with something in its run queue, is about to be woken.
RunqInv ==
  \A s \in Schedulers : rq[s] # {} /\ "WAITING" \in flags[s] => Waking(s, {"wake"})

\* Whoever clears the flag of a scheduler that waits for its event sets the event.
EventInv ==
  \A s \in Schedulers :
    pc[s] = "tse_wait" => "TSE_SLEEPING" \in flags[s] \/ event[s] \/ Waking(s, {"tse_set"})

\* A scheduler that goes to sleep after it has handled its aux work, ...
AuxDone(s) ==
  \/ pc[s] \in {"tse_spin", "tse_set", "tse_wait", "sys_reset", "sys_set"}
  \/ pc[s] \in PollPlaces /\ ret[s] = "doze"
  \/ ~more[s] /\ \/ pc[s] \in {"sys_flags", "sys_io", "sys_lock"}
                 \/ pc[s] \in PrepPlaces /\ ret[s] \in {"loop", "sleep"}

\* ... has none, or is about to be poked.
AuxInv ==
  \A s \in Schedulers : AuxDone(s) /\ "SLEEPING" \in flags[s] /\ aux_work[s] > 0
                          => Waking(s, {"poke_read", "poke"})

\* Whoever clears the flag of the poller interrupts it.
IntrInv ==
  \A s \in Schedulers :
    pc[s] \in PollPlaces /\ ret[s] = "doze" =>
      \/ "POLL_SLEEPING" \in flags[s] \/ wakeup_state = WOKEN_INTR
      \/ \E w \in Threads : wpc[w] \in {"intr_read", "intr_set"}

\* Whoever enqueues an update request after the poller has handled them wakes it.
UpdateInv ==
  \A s \in Schedulers : pc[s] = "poll_fds" /\ have_update_requests =>
                          is_woken \/ \E w \in Threads : wpc[w] = "select"

IInv == /\ TypeInv /\ CtlInv /\ ZeroInv /\ HolderInv /\ IoInv /\ ClearInv /\ ActiveInv
        /\ FlagInv /\ TargetInv /\ RunqInv /\ EventInv /\ AuxInv /\ IntrInv /\ UpdateInv

-----------------------------------------------------------------------------
(* Every step preserves the invariant: one lemma for every action, with    *)
(* one step for every part that the action can disturb.                    *)

\* A process runs.
LEMMA RunProcessStep ==
  ASSUME IInv, NEW s \in Schedulers, RunProcess(s)
  PROVE  IInv'
<1> USE DEF RunProcess, At, Goto, pollset, ssi, sys, wake
<1>1. TypeInv'
  BY DEF IInv, TypeInv, TypeOK, NOT_WOKEN, WOKEN, WOKEN_INTR, SLEEP, Threads, Places, RunPlaces,
         PrepPlaces, TsePlaces, CheckIoPlaces, PollPlaces, SysPlaces, Callers, WakePlaces
<1>2. CtlInv'
  BY DEF IInv, CtlInv, Ctl, RunPlaces, PrepPlaces, CheckIoPlaces, PollPlaces, SysPlaces,
         TsePlaces
<1>3. ZeroInv'
  BY DEF IInv, ZeroInv
<1>4. HolderInv'
  BY DEF IInv, HolderInv, Holds, CheckIoPlaces, PollPlaces, SysPlaces
<1>5. IoInv'
  BY DEF IInv, IoInv, Queued, Executes
<1>6. ClearInv'
  BY DEF IInv, ClearInv, Clear, PollPlaces
<1>7. ActiveInv'
  BY DEF IInv, ActiveInv
<1>8. FlagInv'
  BY DEF IInv, FlagInv, CheckIoPlaces, PollPlaces
<1>9. RunqInv'
  BY DEF IInv, RunqInv, Waking, Threads
<1>10. EventInv'
  BY DEF IInv, EventInv, Waking, Threads
<1>11. AuxInv'
  BY DEF IInv, AuxInv, AuxDone, PollPlaces, PrepPlaces, Waking, Threads
<1>12. IntrInv'
  BY DEF IInv, IntrInv, PollPlaces, WOKEN_INTR, Threads
<1>13. UpdateInv'
  BY DEF IInv, UpdateInv, is_woken, NOT_WOKEN, Threads
<1>14. TargetInv'
  BY DEF IInv, TargetInv, Threads
<1> QED BY <1>1, <1>2, <1>3, <1>4, <1>5, <1>6, <1>7, <1>8, <1>9, <1>10, <1>11, <1>12, <1>13,
               <1>14 DEF IInv

\* A port task runs: the task moves from the run queue to its executor.
LEMMA RunPortStep ==
  ASSUME IInv, NEW s \in Schedulers, RunPort(s)
  PROVE  IInv'
<1> USE DEF RunPort, At, ReadAll, Goto, ssi, sys, wake
<1>1. TypeInv'
  BY DEF IInv, TypeInv, TypeOK, NOT_WOKEN, WOKEN, WOKEN_INTR, SLEEP, Threads, Places, RunPlaces,
         PrepPlaces, TsePlaces, CheckIoPlaces, PollPlaces, SysPlaces, Callers, WakePlaces
<1>2. CtlInv'
  BY DEF IInv, CtlInv, Ctl, RunPlaces, PrepPlaces, CheckIoPlaces, PollPlaces, SysPlaces,
         TsePlaces
<1>3. ZeroInv'
  BY DEF IInv, ZeroInv
<1>4. HolderInv'
  BY DEF IInv, HolderInv, Holds, CheckIoPlaces, PollPlaces, SysPlaces
<1>5. IoInv'
  BY DEF IInv, TypeInv, TypeOK, NOT_WOKEN, WOKEN, WOKEN_INTR, SLEEP, Threads, Places, RunPlaces,
         PrepPlaces, TsePlaces, CheckIoPlaces, PollPlaces, SysPlaces, Callers, WakePlaces,
         IoInv, Queued, Executes
<1>6. ClearInv'
  BY DEF IInv, ClearInv, Clear, PollPlaces
<1>7. ActiveInv'
  BY DEF IInv, TypeInv, TypeOK, NOT_WOKEN, WOKEN, WOKEN_INTR, SLEEP, Threads, Places, RunPlaces,
         PrepPlaces, TsePlaces, CheckIoPlaces, PollPlaces, SysPlaces, Callers, WakePlaces,
         IoInv, Queued, Executes, ActiveInv
<1>8. FlagInv'
  BY DEF IInv, FlagInv, CheckIoPlaces, PollPlaces
<1>9. RunqInv'
  BY DEF IInv, RunqInv, Waking, Threads
<1>10. EventInv'
  BY DEF IInv, EventInv, Waking, Threads
<1>11. AuxInv'
  BY DEF IInv, AuxInv, AuxDone, PollPlaces, PrepPlaces, Waking, Threads
<1>12. IntrInv'
  BY DEF IInv, IntrInv, PollPlaces, WOKEN_INTR, Threads
<1>13. UpdateInv'
  BY DEF IInv, UpdateInv, is_woken, NOT_WOKEN, Threads
<1>14. TargetInv'
  BY DEF IInv, TargetInv, Threads
<1> QED BY <1>1, <1>2, <1>3, <1>4, <1>5, <1>6, <1>7, <1>8, <1>9, <1>10, <1>11, <1>12, <1>13,
               <1>14 DEF IInv

\* The task is counted as executed: its executor goes on, and may poll.
LEMMA RunPortDoneStep ==
  ASSUME IInv, NEW s \in Schedulers, RunPortDone(s)
  PROVE  IInv'
<1> USE DEF RunPortDone, At, Goto, pollset, ssi, wake
<1>1. TypeInv'
  BY DEF IInv, TypeInv, TypeOK, NOT_WOKEN, WOKEN, WOKEN_INTR, SLEEP, Threads, Places, RunPlaces,
         PrepPlaces, TsePlaces, CheckIoPlaces, PollPlaces, SysPlaces, Callers, WakePlaces,
         IoInv, Queued, Executes
<1>2. CtlInv'
  BY DEF IInv, CtlInv, Ctl, RunPlaces, PrepPlaces, CheckIoPlaces, PollPlaces, SysPlaces,
         TsePlaces
<1>3. ZeroInv'
  BY DEF IInv, ZeroInv
<1>4. HolderInv'
  BY DEF IInv, HolderInv, Holds, CheckIoPlaces, PollPlaces, SysPlaces
<1>5. IoInv'
  BY DEF IInv, TypeInv, TypeOK, NOT_WOKEN, WOKEN, WOKEN_INTR, SLEEP, Threads, Places, RunPlaces,
         PrepPlaces, TsePlaces, CheckIoPlaces, PollPlaces, SysPlaces, Callers, WakePlaces,
         IoInv, Queued, Executes
<1>6. ClearInv'
  BY DEF IInv, TypeInv, TypeOK, NOT_WOKEN, WOKEN, WOKEN_INTR, SLEEP, Threads, Places, RunPlaces,
         PrepPlaces, TsePlaces, CheckIoPlaces, PollPlaces, SysPlaces, Callers, WakePlaces,
         IoInv, Queued, Executes, ClearInv, Clear
<1>7. ActiveInv'
  BY DEF IInv, TypeInv, TypeOK, NOT_WOKEN, WOKEN, WOKEN_INTR, SLEEP, Threads, Places, RunPlaces,
         PrepPlaces, TsePlaces, CheckIoPlaces, PollPlaces, SysPlaces, Callers, WakePlaces,
         ActiveInv
<1>8. FlagInv'
  BY DEF IInv, FlagInv, CheckIoPlaces, PollPlaces
<1>9. EventInv'
  BY DEF IInv, EventInv, Waking, Threads
<1>10. AuxInv'
  BY DEF IInv, AuxInv, AuxDone, PollPlaces, PrepPlaces, Waking, Threads
<1>11. IntrInv'
  BY DEF IInv, IntrInv, PollPlaces, WOKEN_INTR, Threads
<1>12. UpdateInv'
  BY DEF IInv, UpdateInv, is_woken, NOT_WOKEN, Threads
<1>13. TargetInv' /\ RunqInv'
  BY DEF IInv, TargetInv, Threads, RunqInv, Waking
<1> QED BY <1>1, <1>2, <1>3, <1>4, <1>5, <1>6, <1>7, <1>8, <1>9, <1>10, <1>11, <1>12, <1>13 DEF
               IInv

\* Aux work of a scheduler that does not sleep.
LEMMA RunAuxWorkStep ==
  ASSUME IInv, NEW s \in Schedulers, RunAuxWork(s)
  PROVE  IInv'
<1> USE DEF RunAuxWork, At, Goto, handle_aux_work, pollset, sys, wake
<1>1. TypeInv'
  <2>1. aux_work' \in [Schedulers -> 0 .. AuxPieces]
    BY AuxAssumption DEF IInv, TypeInv, TypeOK
  <2>2. pc' \in [Schedulers -> Places]
    BY DEF IInv, TypeInv, Places, RunPlaces, PrepPlaces, TsePlaces, CheckIoPlaces,
           PollPlaces, SysPlaces
  <2> QED BY <2>1, <2>2 DEF IInv, TypeInv, TypeOK
<1>2. CtlInv'
  BY DEF IInv, CtlInv, Ctl, RunPlaces, PrepPlaces, CheckIoPlaces, PollPlaces, SysPlaces,
         TsePlaces
<1>3. ZeroInv'
  BY DEF IInv, ZeroInv
<1>4. HolderInv'
  BY DEF IInv, HolderInv, Holds, CheckIoPlaces, PollPlaces, SysPlaces
<1>5. IoInv'
  BY DEF IInv, IoInv, Queued, Executes
<1>6. ClearInv'
  BY DEF IInv, ClearInv, Clear, PollPlaces
<1>7. ActiveInv'
  BY DEF IInv, ActiveInv
<1>8. FlagInv'
  BY DEF IInv, FlagInv, CheckIoPlaces, PollPlaces
<1>9. EventInv'
  BY DEF IInv, EventInv, Waking, Threads
<1>10. AuxInv'
  BY DEF IInv, AuxInv, AuxDone, PollPlaces, PrepPlaces, Waking, Threads
<1>11. IntrInv'
  BY DEF IInv, IntrInv, PollPlaces, WOKEN_INTR, Threads
<1>12. UpdateInv'
  BY DEF IInv, UpdateInv, is_woken, NOT_WOKEN, Threads
<1>13. TargetInv' /\ RunqInv'
  BY DEF IInv, TargetInv, Threads, RunqInv, Waking
<1> QED BY <1>1, <1>2, <1>3, <1>4, <1>5, <1>6, <1>7, <1>8, <1>9, <1>10, <1>11, <1>12, <1>13 DEF
               IInv

\* A busy scheduler asks for the right to poll.
LEMMA PollBusyStep ==
  ASSUME IInv, NEW s \in Schedulers, PollBusy(s)
  PROVE  IInv'
<1> USE DEF PollBusy, At, Goto, pollset, ssi, sys, wake
<1>1. TypeInv'
  BY DEF IInv, TypeInv, TypeOK, NOT_WOKEN, WOKEN, WOKEN_INTR, SLEEP, Threads, Places, RunPlaces,
         PrepPlaces, TsePlaces, CheckIoPlaces, PollPlaces, SysPlaces, Callers, WakePlaces
<1>2. CtlInv'
  BY DEF IInv, TypeInv, TypeOK, NOT_WOKEN, WOKEN, WOKEN_INTR, SLEEP, Threads, Places, RunPlaces,
         PrepPlaces, TsePlaces, CheckIoPlaces, PollPlaces, SysPlaces, Callers, WakePlaces,
         CtlInv, Ctl
<1>3. ZeroInv'
  BY DEF IInv, ZeroInv
<1>4. HolderInv'
  BY DEF IInv, HolderInv, Holds, CheckIoPlaces, PollPlaces, SysPlaces
<1>5. IoInv'
  BY DEF IInv, IoInv, Queued, Executes
<1>6. ClearInv'
  BY DEF IInv, ClearInv, Clear, PollPlaces
<1>7. ActiveInv'
  BY DEF IInv, ActiveInv
<1>8. FlagInv'
  BY DEF IInv, FlagInv, CheckIoPlaces, PollPlaces
<1>9. EventInv'
  BY DEF IInv, EventInv, Waking, Threads
<1>10. AuxInv'
  BY DEF IInv, TypeInv, TypeOK, NOT_WOKEN, WOKEN, WOKEN_INTR, SLEEP, Threads, Places, RunPlaces,
         PrepPlaces, TsePlaces, CheckIoPlaces, PollPlaces, SysPlaces, Callers, WakePlaces,
         AuxInv, AuxDone, Waking
<1>11. IntrInv'
  BY DEF IInv, IntrInv, PollPlaces, WOKEN_INTR, Threads
<1>12. UpdateInv'
  BY DEF IInv, UpdateInv, is_woken, NOT_WOKEN, Threads
<1>13. TargetInv' /\ RunqInv'
  BY DEF IInv, TargetInv, Threads, RunqInv, Waking
<1> QED BY <1>1, <1>2, <1>3, <1>4, <1>5, <1>6, <1>7, <1>8, <1>9, <1>10, <1>11, <1>12, <1>13 DEF
               IInv

\* The run queue is empty when the flags are set, so that nobody's wakeup is overwritten.
LEMMA WaitStep ==
  ASSUME IInv, NEW s \in Schedulers, Wait(s)
  PROVE  IInv'
<1> USE DEF Wait, At, Goto, pollset, sys, wake
<1>1. TypeInv'
  BY DEF IInv, TypeInv, TypeOK, NOT_WOKEN, WOKEN, WOKEN_INTR, SLEEP, Threads, Places, RunPlaces,
         PrepPlaces, TsePlaces, CheckIoPlaces, PollPlaces, SysPlaces, Callers, WakePlaces
<1>2. CtlInv'
  BY DEF IInv, TypeInv, TypeOK, NOT_WOKEN, WOKEN, WOKEN_INTR, SLEEP, Threads, Places, RunPlaces,
         PrepPlaces, TsePlaces, CheckIoPlaces, PollPlaces, SysPlaces, Callers, WakePlaces,
         CtlInv, Ctl
<1>3. ZeroInv'
  BY DEF IInv, ZeroInv
<1>4. HolderInv'
  BY DEF IInv, HolderInv, Holds, CheckIoPlaces, PollPlaces, SysPlaces
<1>5. IoInv'
  BY DEF IInv, IoInv, Queued, Executes
<1>6. ClearInv'
  BY DEF IInv, ClearInv, Clear, PollPlaces
<1>7. ActiveInv'
  BY DEF IInv, ActiveInv
<1>8. FlagInv'
  BY DEF IInv, FlagInv, CheckIoPlaces, PollPlaces
<1>9. RunqInv'
  BY DEF IInv, RunqInv, Waking, Threads
<1>10. EventInv'
  BY DEF IInv, EventInv, Waking, Threads
<1>11. AuxInv'
  BY DEF IInv, TypeInv, TypeOK, NOT_WOKEN, WOKEN, WOKEN_INTR, SLEEP, Threads, Places, RunPlaces,
         PrepPlaces, TsePlaces, CheckIoPlaces, PollPlaces, SysPlaces, Callers, WakePlaces,
         AuxInv, AuxDone, Waking
<1>12. IntrInv'
  BY DEF IInv, IntrInv, PollPlaces, WOKEN_INTR, Threads
<1>13. UpdateInv'
  BY DEF IInv, UpdateInv, is_woken, NOT_WOKEN, Threads
<1>14. TargetInv'
  BY DEF IInv, TargetInv, Threads
<1> QED BY <1>1, <1>2, <1>3, <1>4, <1>5, <1>6, <1>7, <1>8, <1>9, <1>10, <1>11, <1>12, <1>13,
               <1>14 DEF IInv

\* The first look at the I/O tasks.
LEMMA PrepIoStep ==
  ASSUME IInv, NEW s \in Schedulers, PrepIo(s)
  PROVE  IInv'
<1> USE DEF PrepIo, At, SysDenied, Return, Goto, pollset, ssi, sys, wake
<1>1. TypeInv'
  <2>1. pc' \in [Schedulers -> Places] /\ ret' \in [Schedulers -> Callers]
    BY DEF IInv, TypeInv, TypeOK, Places, Callers, RunPlaces, PrepPlaces, TsePlaces, CheckIoPlaces,
           PollPlaces, SysPlaces
  <2>2. more' \in [Schedulers -> BOOLEAN]
    BY DEF IInv, TypeInv, TypeOK
  <2>3. waiting' \in [Schedulers -> -1 .. 1]
    BY DEF IInv, TypeInv, TypeOK
  <2>4. doing_sys_schedule' \in BOOLEAN
    BY DEF IInv, TypeInv, TypeOK
  <2> QED BY <2>1, <2>2, <2>3, <2>4 DEF IInv, TypeInv, TypeOK
<1>2. CtlInv'
  BY DEF IInv, TypeInv, TypeOK, NOT_WOKEN, WOKEN, WOKEN_INTR, SLEEP, Threads, Places, RunPlaces,
         PrepPlaces, TsePlaces, CheckIoPlaces, PollPlaces, SysPlaces, Callers, WakePlaces,
         CtlInv, Ctl
<1>3. ZeroInv'
  BY DEF IInv, TypeInv, TypeOK, NOT_WOKEN, WOKEN, WOKEN_INTR, SLEEP, Threads, Places, RunPlaces,
         PrepPlaces, TsePlaces, CheckIoPlaces, PollPlaces, SysPlaces, Callers, WakePlaces,
         ZeroInv
<1>4. HolderInv'
  BY DEF IInv, TypeInv, TypeOK, NOT_WOKEN, WOKEN, WOKEN_INTR, SLEEP, Threads, Places, RunPlaces,
         PrepPlaces, TsePlaces, CheckIoPlaces, PollPlaces, SysPlaces, Callers, WakePlaces,
         HolderInv, Holds
<1>5. IoInv'
  BY DEF IInv, TypeInv, TypeOK, NOT_WOKEN, WOKEN, WOKEN_INTR, SLEEP, Threads, Places, RunPlaces,
         PrepPlaces, TsePlaces, CheckIoPlaces, PollPlaces, SysPlaces, Callers, WakePlaces,
         IoInv, Queued, Executes
<1>6. ClearInv'
  BY DEF IInv, TypeInv, TypeOK, NOT_WOKEN, WOKEN, WOKEN_INTR, SLEEP, Threads, Places, RunPlaces,
         PrepPlaces, TsePlaces, CheckIoPlaces, PollPlaces, SysPlaces, Callers, WakePlaces,
         ClearInv, Clear
<1>7. ActiveInv'
  BY DEF IInv, TypeInv, TypeOK, NOT_WOKEN, WOKEN, WOKEN_INTR, SLEEP, Threads, Places, RunPlaces,
         PrepPlaces, TsePlaces, CheckIoPlaces, PollPlaces, SysPlaces, Callers, WakePlaces,
         ActiveInv
<1>8. FlagInv'
  BY DEF IInv, TypeInv, TypeOK, NOT_WOKEN, WOKEN, WOKEN_INTR, SLEEP, Threads, Places, RunPlaces,
         PrepPlaces, TsePlaces, CheckIoPlaces, PollPlaces, SysPlaces, Callers, WakePlaces,
         FlagInv
<1>9. EventInv'
  BY DEF IInv, TypeInv, TypeOK, NOT_WOKEN, WOKEN, WOKEN_INTR, SLEEP, Threads, Places, RunPlaces,
         PrepPlaces, TsePlaces, CheckIoPlaces, PollPlaces, SysPlaces, Callers, WakePlaces,
         EventInv, Waking
<1>10. AuxInv'
  BY DEF IInv, TypeInv, TypeOK, NOT_WOKEN, WOKEN, WOKEN_INTR, SLEEP, Threads, Places, RunPlaces,
         PrepPlaces, TsePlaces, CheckIoPlaces, PollPlaces, SysPlaces, Callers, WakePlaces,
         AuxInv, AuxDone, Waking
<1>11. IntrInv'
  BY DEF IInv, TypeInv, TypeOK, NOT_WOKEN, WOKEN, WOKEN_INTR, SLEEP, Threads, Places, RunPlaces,
         PrepPlaces, TsePlaces, CheckIoPlaces, PollPlaces, SysPlaces, Callers, WakePlaces,
         IntrInv
<1>12. UpdateInv'
  BY DEF IInv, TypeInv, TypeOK, NOT_WOKEN, WOKEN, WOKEN_INTR, SLEEP, Threads, Places, RunPlaces,
         PrepPlaces, TsePlaces, CheckIoPlaces, PollPlaces, SysPlaces, Callers, WakePlaces,
         UpdateInv, is_woken
<1>13. TargetInv' /\ RunqInv'
  BY DEF IInv, TargetInv, Threads, RunqInv, Waking
<1> QED BY <1>1, <1>2, <1>3, <1>4, <1>5, <1>6, <1>7, <1>8, <1>9, <1>10, <1>11, <1>12, <1>13 DEF
               IInv

\* Only one scheduler gets doing_sys_schedule.
LEMMA try_set_sys_schedulingStep ==
  ASSUME IInv, NEW s \in Schedulers, try_set_sys_scheduling(s)
  PROVE  IInv'
<1> USE DEF try_set_sys_scheduling, At, SysDenied, Return, Goto, pollset, ssi, wake
<1>1. TypeInv'
  <2>1. pc' \in [Schedulers -> Places] /\ ret' \in [Schedulers -> Callers]
    BY DEF IInv, TypeInv, TypeOK, Places, Callers, RunPlaces, PrepPlaces, TsePlaces, CheckIoPlaces,
           PollPlaces, SysPlaces
  <2>2. more' \in [Schedulers -> BOOLEAN]
    BY DEF IInv, TypeInv, TypeOK
  <2>3. waiting' \in [Schedulers -> -1 .. 1]
    BY DEF IInv, TypeInv, TypeOK
  <2>4. doing_sys_schedule' \in BOOLEAN
    BY DEF IInv, TypeInv, TypeOK
  <2> QED BY <2>1, <2>2, <2>3, <2>4 DEF IInv, TypeInv, TypeOK
<1>2. CtlInv'
  BY DEF IInv, TypeInv, TypeOK, NOT_WOKEN, WOKEN, WOKEN_INTR, SLEEP, Threads, Places, RunPlaces,
         PrepPlaces, TsePlaces, CheckIoPlaces, PollPlaces, SysPlaces, Callers, WakePlaces,
         CtlInv, Ctl
<1>3. ZeroInv'
  BY DEF IInv, TypeInv, TypeOK, NOT_WOKEN, WOKEN, WOKEN_INTR, SLEEP, Threads, Places, RunPlaces,
         PrepPlaces, TsePlaces, CheckIoPlaces, PollPlaces, SysPlaces, Callers, WakePlaces,
         ZeroInv
<1>4. HolderInv'
  BY DEF IInv, TypeInv, TypeOK, NOT_WOKEN, WOKEN, WOKEN_INTR, SLEEP, Threads, Places, RunPlaces,
         PrepPlaces, TsePlaces, CheckIoPlaces, PollPlaces, SysPlaces, Callers, WakePlaces,
         HolderInv, Holds
<1>5. IoInv'
  BY DEF IInv, TypeInv, TypeOK, NOT_WOKEN, WOKEN, WOKEN_INTR, SLEEP, Threads, Places, RunPlaces,
         PrepPlaces, TsePlaces, CheckIoPlaces, PollPlaces, SysPlaces, Callers, WakePlaces,
         IoInv, Queued, Executes
<1>6. ClearInv'
  BY DEF IInv, TypeInv, TypeOK, NOT_WOKEN, WOKEN, WOKEN_INTR, SLEEP, Threads, Places, RunPlaces,
         PrepPlaces, TsePlaces, CheckIoPlaces, PollPlaces, SysPlaces, Callers, WakePlaces,
         ClearInv, Clear
<1>7. ActiveInv'
  BY DEF IInv, ActiveInv
<1>8. FlagInv'
  BY DEF IInv, TypeInv, TypeOK, NOT_WOKEN, WOKEN, WOKEN_INTR, SLEEP, Threads, Places, RunPlaces,
         PrepPlaces, TsePlaces, CheckIoPlaces, PollPlaces, SysPlaces, Callers, WakePlaces,
         FlagInv
<1>9. EventInv'
  BY DEF IInv, TypeInv, TypeOK, NOT_WOKEN, WOKEN, WOKEN_INTR, SLEEP, Threads, Places, RunPlaces,
         PrepPlaces, TsePlaces, CheckIoPlaces, PollPlaces, SysPlaces, Callers, WakePlaces,
         EventInv, Waking
<1>10. AuxInv'
  BY DEF IInv, TypeInv, TypeOK, NOT_WOKEN, WOKEN, WOKEN_INTR, SLEEP, Threads, Places, RunPlaces,
         PrepPlaces, TsePlaces, CheckIoPlaces, PollPlaces, SysPlaces, Callers, WakePlaces,
         AuxInv, AuxDone, Waking
<1>11. IntrInv'
  BY DEF IInv, TypeInv, TypeOK, NOT_WOKEN, WOKEN, WOKEN_INTR, SLEEP, Threads, Places, RunPlaces,
         PrepPlaces, TsePlaces, CheckIoPlaces, PollPlaces, SysPlaces, Callers, WakePlaces,
         IntrInv
<1>12. UpdateInv'
  BY DEF IInv, TypeInv, TypeOK, NOT_WOKEN, WOKEN, WOKEN_INTR, SLEEP, Threads, Places, RunPlaces,
         PrepPlaces, TsePlaces, CheckIoPlaces, PollPlaces, SysPlaces, Callers, WakePlaces,
         UpdateInv, is_woken
<1>13. TargetInv' /\ RunqInv'
  BY DEF IInv, TargetInv, Threads, RunqInv, Waking
<1> QED BY <1>1, <1>2, <1>3, <1>4, <1>5, <1>6, <1>7, <1>8, <1>9, <1>10, <1>11, <1>12, <1>13 DEF
               IInv

\* The second look at the I/O tasks, and where each caller goes on.
LEMMA PrepCheckIoStep ==
  ASSUME IInv, NEW s \in Schedulers, PrepCheckIo(s)
  PROVE  IInv'
<1>1. pc[s] = "prep3" /\ ret[s] \in {"run", "wait", "loop", "sleep"}
  BY DEF PrepCheckIo, At, IInv, CtlInv, Ctl, RunPlaces, PrepPlaces, TsePlaces, CheckIoPlaces,
         PollPlaces, SysPlaces
<1>2. UNCHANGED <<pollset, more, zero, res, ssi, rq, outstanding_io_tasks, wake>>
  BY DEF PrepCheckIo
<1>3. \/ /\ outstanding_io_tasks # 0 /\ pc' = [pc EXCEPT ![s] = "prep1"]
         /\ doing_sys_schedule' = FALSE /\ UNCHANGED <<ret, waiting>>
      \/ /\ outstanding_io_tasks = 0 /\ UNCHANGED doing_sys_schedule
         /\ waiting' = [waiting EXCEPT ![s] = IF ret[s] = "wait" THEN -1 ELSE @]
         /\ \/ /\ ret[s] # "run" /\ pc' = [pc EXCEPT ![s] = "poll"]
               /\ ret' = [ret EXCEPT ![s] = "poll"]
            \/ /\ ret[s] = "wait" /\ pc' = [pc EXCEPT ![s] = "sys_aux"]
               /\ ret' = [ret EXCEPT ![s] = "loop"]
            \/ /\ ret[s] = "loop" /\ pc' = [pc EXCEPT ![s] = "sys_lock"] /\ UNCHANGED ret
            \/ /\ ret[s] = "sleep" /\ ~more[s]
               /\ pc' = [pc EXCEPT ![s] = "sys_reset"] /\ UNCHANGED ret
            \/ /\ ret[s] = "run" /\ pc' = [pc EXCEPT ![s] = "poll"] /\ UNCHANGED ret
  <2>1. CASE outstanding_io_tasks # 0
    BY <2>1 DEF PrepCheckIo, Goto
  <2>2. CASE outstanding_io_tasks = 0
    <3>1. SysGranted(s) /\ UNCHANGED doing_sys_schedule
      BY <2>2 DEF PrepCheckIo
    <3>2. waiting' = [waiting EXCEPT ![s] = IF ret[s] = "wait" THEN -1 ELSE @]
      BY <3>1 DEF SysGranted
    <3>3. CASE ret[s] \in {"wait", "loop"}
      <4>1. SysLoop(s)
        BY <3>1, <3>3 DEF SysGranted
      <4> QED BY <2>2, <3>1, <3>2, <3>3, <4>1 DEF SysLoop, Call, Goto
    <3>4. CASE ret[s] = "sleep"
      <4>1. SleepUnlessMore(s)
        BY <3>1, <3>4 DEF SysGranted
      <4> QED BY <2>2, <3>1, <3>2, <3>4, <4>1 DEF SleepUnlessMore, Call, Goto
    <3>5. CASE ret[s] = "run"
      <4>1. Goto(s, "poll") /\ UNCHANGED ret
        BY <3>1, <3>5 DEF SysGranted
      <4> QED BY <2>2, <3>1, <3>2, <3>5, <4>1 DEF Goto
    <3> QED BY <1>1, <3>3, <3>4, <3>5
  <2> QED BY <2>1, <2>2
<1>4. TypeInv'
  <2>1. pc' \in [Schedulers -> Places] /\ ret' \in [Schedulers -> Callers]
    BY <1>3 DEF IInv, TypeInv, TypeOK, Places, Callers, RunPlaces, PrepPlaces, TsePlaces, CheckIoPlaces,
           PollPlaces, SysPlaces
  <2>2. waiting' \in [Schedulers -> -1 .. 1]
    <3>1. UNCHANGED waiting \/ waiting' = [waiting EXCEPT ![s] = -1]
      BY <1>3 DEF IInv, TypeInv, TypeOK
    <3> QED BY <3>1 DEF IInv, TypeInv, TypeOK
  <2>3. doing_sys_schedule' \in BOOLEAN
    BY <1>3 DEF IInv, TypeInv, TypeOK
  <2> QED BY <1>2, <2>1, <2>2, <2>3 DEF IInv, TypeInv, TypeOK, pollset, ssi, wake
<1>5. CtlInv'
  BY <1>1, <1>2, <1>3 DEF IInv, TypeInv, TypeOK, NOT_WOKEN, WOKEN, WOKEN_INTR, SLEEP, Threads,
         Places, RunPlaces, PrepPlaces, TsePlaces, CheckIoPlaces, PollPlaces, SysPlaces,
         Callers, WakePlaces, CtlInv, Ctl, HolderInv, Holds, pollset, ssi, wake
<1>6. ZeroInv'
  BY <1>1, <1>2, <1>3 DEF IInv, TypeInv, TypeOK, NOT_WOKEN, WOKEN, WOKEN_INTR, SLEEP, Threads,
         Places, RunPlaces, PrepPlaces, TsePlaces, CheckIoPlaces, PollPlaces, SysPlaces,
         Callers, WakePlaces, CtlInv, Ctl, ZeroInv, HolderInv, Holds, pollset, ssi, wake
<1>7. HolderInv'
  BY <1>1, <1>2, <1>3 DEF IInv, TypeInv, TypeOK, NOT_WOKEN, WOKEN, WOKEN_INTR, SLEEP, Threads,
         Places, RunPlaces, PrepPlaces, TsePlaces, CheckIoPlaces, PollPlaces, SysPlaces,
         Callers, WakePlaces, CtlInv, Ctl, HolderInv, Holds, pollset, ssi, wake
<1>8. IoInv'
  BY <1>1, <1>2, <1>3 DEF IInv, TypeInv, TypeOK, NOT_WOKEN, WOKEN, WOKEN_INTR, SLEEP, Threads,
         Places, RunPlaces, PrepPlaces, TsePlaces, CheckIoPlaces, PollPlaces, SysPlaces,
         Callers, WakePlaces, CtlInv, Ctl, HolderInv, Holds, IoInv, Queued, Executes, pollset,
         ssi, wake
<1>9. ClearInv'
  BY <1>1, <1>2, <1>3 DEF IInv, TypeInv, TypeOK, NOT_WOKEN, WOKEN, WOKEN_INTR, SLEEP, Threads,
         Places, RunPlaces, PrepPlaces, TsePlaces, CheckIoPlaces, PollPlaces, SysPlaces,
         Callers, WakePlaces, CtlInv, Ctl, HolderInv, Holds, ClearInv, Clear, pollset, ssi, wake
<1>10. ActiveInv'
  BY <1>1, <1>2, <1>3 DEF IInv, TypeInv, TypeOK, NOT_WOKEN, WOKEN, WOKEN_INTR, SLEEP, Threads,
         Places, RunPlaces, PrepPlaces, TsePlaces, CheckIoPlaces, PollPlaces, SysPlaces,
         Callers, WakePlaces, CtlInv, Ctl, HolderInv, Holds, ActiveInv, pollset, ssi, wake
<1>11. FlagInv'
  BY <1>1, <1>2, <1>3 DEF IInv, TypeInv, TypeOK, NOT_WOKEN, WOKEN, WOKEN_INTR, SLEEP, Threads,
         Places, RunPlaces, PrepPlaces, TsePlaces, CheckIoPlaces, PollPlaces, SysPlaces,
         Callers, WakePlaces, CtlInv, Ctl, HolderInv, Holds, FlagInv, pollset, ssi, wake
<1>12. EventInv'
  BY <1>1, <1>2, <1>3 DEF IInv, TypeInv, TypeOK, NOT_WOKEN, WOKEN, WOKEN_INTR, SLEEP, Threads,
         Places, RunPlaces, PrepPlaces, TsePlaces, CheckIoPlaces, PollPlaces, SysPlaces,
         Callers, WakePlaces, CtlInv, Ctl, HolderInv, Holds, EventInv, Waking, pollset, ssi,
         wake
<1>13. AuxInv'
  BY <1>1, <1>2, <1>3 DEF IInv, TypeInv, TypeOK, NOT_WOKEN, WOKEN, WOKEN_INTR, SLEEP, Threads,
         Places, RunPlaces, PrepPlaces, TsePlaces, CheckIoPlaces, PollPlaces, SysPlaces,
         Callers, WakePlaces, CtlInv, Ctl, HolderInv, Holds, AuxInv, AuxDone, Waking, pollset,
         ssi, wake
<1>14. IntrInv'
  BY <1>1, <1>2, <1>3 DEF IInv, TypeInv, TypeOK, NOT_WOKEN, WOKEN, WOKEN_INTR, SLEEP, Threads,
         Places, RunPlaces, PrepPlaces, TsePlaces, CheckIoPlaces, PollPlaces, SysPlaces,
         Callers, WakePlaces, CtlInv, Ctl, HolderInv, Holds, IntrInv, pollset, ssi, wake
<1>15. UpdateInv'
  BY <1>1, <1>2, <1>3 DEF IInv, TypeInv, TypeOK, NOT_WOKEN, WOKEN, WOKEN_INTR, SLEEP, Threads,
         Places, RunPlaces, PrepPlaces, TsePlaces, CheckIoPlaces, PollPlaces, SysPlaces,
         Callers, WakePlaces, CtlInv, Ctl, HolderInv, Holds, UpdateInv, is_woken, pollset, ssi,
         wake
<1>16. TargetInv' /\ RunqInv'
  BY <1>2 DEF IInv, TargetInv, Threads, RunqInv, Waking, pollset, ssi, wake
<1> QED BY <1>4, <1>5, <1>6, <1>7, <1>8, <1>9, <1>10, <1>11, <1>12, <1>13, <1>14, <1>15, <1>16
               DEF IInv

\* A scheduler that goes on to spin has no aux work left.
LEMMA TseAuxWorkStep ==
  ASSUME IInv, NEW s \in Schedulers, TseAuxWork(s)
  PROVE  IInv'
<1> USE DEF TseAuxWork, At, handle_aux_work, Goto, pollset, sys, wake
<1>1. TypeInv'
  <2>1. aux_work' \in [Schedulers -> 0 .. AuxPieces]
    BY AuxAssumption DEF IInv, TypeInv, TypeOK
  <2>2. pc' \in [Schedulers -> Places]
    BY DEF IInv, TypeInv, Places, RunPlaces, PrepPlaces, TsePlaces, CheckIoPlaces,
           PollPlaces, SysPlaces
  <2> QED BY <2>1, <2>2 DEF IInv, TypeInv, TypeOK
<1>2. CtlInv'
  BY DEF IInv, CtlInv, Ctl, RunPlaces, PrepPlaces, CheckIoPlaces, PollPlaces, SysPlaces,
         TsePlaces
<1>3. ZeroInv'
  BY DEF IInv, ZeroInv
<1>4. HolderInv'
  BY DEF IInv, HolderInv, Holds, CheckIoPlaces, PollPlaces, SysPlaces
<1>5. IoInv'
  BY DEF IInv, IoInv, Queued, Executes
<1>6. ClearInv'
  BY DEF IInv, ClearInv, Clear, PollPlaces
<1>7. ActiveInv'
  BY DEF IInv, ActiveInv
<1>8. FlagInv'
  BY DEF IInv, FlagInv, CheckIoPlaces, PollPlaces
<1>9. EventInv'
  BY DEF IInv, EventInv, Waking, Threads
<1>10. AuxInv'
  BY DEF IInv, TypeInv, TypeOK, NOT_WOKEN, WOKEN, WOKEN_INTR, SLEEP, Threads, Places, RunPlaces,
         PrepPlaces, TsePlaces, CheckIoPlaces, PollPlaces, SysPlaces, Callers, WakePlaces,
         AuxInv, AuxDone, Waking
<1>11. IntrInv'
  BY DEF IInv, IntrInv, PollPlaces, WOKEN_INTR, Threads
<1>12. UpdateInv'
  BY DEF IInv, UpdateInv, is_woken, NOT_WOKEN, Threads
<1>13. TargetInv' /\ RunqInv'
  BY DEF IInv, TargetInv, Threads, RunqInv, Waking
<1> QED BY <1>1, <1>2, <1>3, <1>4, <1>5, <1>6, <1>7, <1>8, <1>9, <1>10, <1>11, <1>12, <1>13 DEF
               IInv

\* The event is reset before the sleep flag is set.
LEMMA TseSpinStep ==
  ASSUME IInv, NEW s \in Schedulers, TseSpin(s)
  PROVE  IInv'
<1> USE DEF TseSpin, At, IsSleeping, Goto, pollset, sys, wake
<1>1. TypeInv'
  BY DEF IInv, TypeInv, TypeOK, NOT_WOKEN, WOKEN, WOKEN_INTR, SLEEP, Threads, Places, RunPlaces,
         PrepPlaces, TsePlaces, CheckIoPlaces, PollPlaces, SysPlaces, Callers, WakePlaces
<1>2. CtlInv'
  BY DEF IInv, TypeInv, TypeOK, NOT_WOKEN, WOKEN, WOKEN_INTR, SLEEP, Threads, Places, RunPlaces,
         PrepPlaces, TsePlaces, CheckIoPlaces, PollPlaces, SysPlaces, Callers, WakePlaces,
         CtlInv, Ctl
<1>3. ZeroInv'
  BY DEF IInv, TypeInv, TypeOK, NOT_WOKEN, WOKEN, WOKEN_INTR, SLEEP, Threads, Places, RunPlaces,
         PrepPlaces, TsePlaces, CheckIoPlaces, PollPlaces, SysPlaces, Callers, WakePlaces,
         ZeroInv
<1>4. HolderInv'
  BY DEF IInv, TypeInv, TypeOK, NOT_WOKEN, WOKEN, WOKEN_INTR, SLEEP, Threads, Places, RunPlaces,
         PrepPlaces, TsePlaces, CheckIoPlaces, PollPlaces, SysPlaces, Callers, WakePlaces,
         HolderInv, Holds
<1>5. IoInv'
  BY DEF IInv, TypeInv, TypeOK, NOT_WOKEN, WOKEN, WOKEN_INTR, SLEEP, Threads, Places, RunPlaces,
         PrepPlaces, TsePlaces, CheckIoPlaces, PollPlaces, SysPlaces, Callers, WakePlaces,
         IoInv, Queued, Executes
<1>6. ClearInv'
  BY DEF IInv, TypeInv, TypeOK, NOT_WOKEN, WOKEN, WOKEN_INTR, SLEEP, Threads, Places, RunPlaces,
         PrepPlaces, TsePlaces, CheckIoPlaces, PollPlaces, SysPlaces, Callers, WakePlaces,
         ClearInv, Clear
<1>7. ActiveInv'
  BY DEF IInv, TypeInv, TypeOK, NOT_WOKEN, WOKEN, WOKEN_INTR, SLEEP, Threads, Places, RunPlaces,
         PrepPlaces, TsePlaces, CheckIoPlaces, PollPlaces, SysPlaces, Callers, WakePlaces,
         ActiveInv
<1>8. FlagInv'
  BY DEF IInv, TypeInv, TypeOK, NOT_WOKEN, WOKEN, WOKEN_INTR, SLEEP, Threads, Places, RunPlaces,
         PrepPlaces, TsePlaces, CheckIoPlaces, PollPlaces, SysPlaces, Callers, WakePlaces,
         FlagInv
<1>9. EventInv'
  BY DEF IInv, TypeInv, TypeOK, NOT_WOKEN, WOKEN, WOKEN_INTR, SLEEP, Threads, Places, RunPlaces,
         PrepPlaces, TsePlaces, CheckIoPlaces, PollPlaces, SysPlaces, Callers, WakePlaces,
         EventInv, Waking
<1>10. AuxInv'
  BY DEF IInv, TypeInv, TypeOK, NOT_WOKEN, WOKEN, WOKEN_INTR, SLEEP, Threads, Places, RunPlaces,
         PrepPlaces, TsePlaces, CheckIoPlaces, PollPlaces, SysPlaces, Callers, WakePlaces,
         AuxInv, AuxDone, Waking
<1>11. IntrInv'
  BY DEF IInv, TypeInv, TypeOK, NOT_WOKEN, WOKEN, WOKEN_INTR, SLEEP, Threads, Places, RunPlaces,
         PrepPlaces, TsePlaces, CheckIoPlaces, PollPlaces, SysPlaces, Callers, WakePlaces,
         IntrInv
<1>12. UpdateInv'
  BY DEF IInv, TypeInv, TypeOK, NOT_WOKEN, WOKEN, WOKEN_INTR, SLEEP, Threads, Places, RunPlaces,
         PrepPlaces, TsePlaces, CheckIoPlaces, PollPlaces, SysPlaces, Callers, WakePlaces,
         UpdateInv, is_woken
<1>13. TargetInv' /\ RunqInv'
  BY DEF IInv, TargetInv, Threads, RunqInv, Waking
<1> QED BY <1>1, <1>2, <1>3, <1>4, <1>5, <1>6, <1>7, <1>8, <1>9, <1>10, <1>11, <1>12, <1>13 DEF
               IInv

\* The flag is set only over flags that nobody has cleared.
LEMMA TseSetTypeStep ==
  ASSUME IInv, NEW s \in Schedulers, TseSetType(s)
  PROVE  IInv'
<1> USE DEF TseSetType, At, set_sleeptype, IsSleeping, Goto, pollset, sys, wake
<1>1. TypeInv'
  BY DEF IInv, TypeInv, TypeOK, NOT_WOKEN, WOKEN, WOKEN_INTR, SLEEP, Threads, Places, RunPlaces,
         PrepPlaces, TsePlaces, CheckIoPlaces, PollPlaces, SysPlaces, Callers, WakePlaces
<1>2. CtlInv'
  BY DEF IInv, CtlInv, Ctl, RunPlaces, PrepPlaces, CheckIoPlaces, PollPlaces, SysPlaces,
         TsePlaces
<1>3. ZeroInv'
  BY DEF IInv, ZeroInv
<1>4. HolderInv'
  BY DEF IInv, HolderInv, Holds, CheckIoPlaces, PollPlaces, SysPlaces
<1>5. IoInv'
  BY DEF IInv, IoInv, Queued, Executes
<1>6. ClearInv'
  BY DEF IInv, ClearInv, Clear, PollPlaces
<1>7. ActiveInv'
  BY DEF IInv, ActiveInv
<1>8. FlagInv'
  BY DEF IInv, TypeInv, TypeOK, NOT_WOKEN, WOKEN, WOKEN_INTR, SLEEP, Threads, Places, RunPlaces,
         PrepPlaces, TsePlaces, CheckIoPlaces, PollPlaces, SysPlaces, Callers, WakePlaces,
         FlagInv
<1>9. RunqInv'
  BY DEF IInv, RunqInv, Waking, Threads
<1>10. EventInv'
  BY DEF IInv, EventInv, Waking, Threads
<1>11. AuxInv'
  BY DEF IInv, AuxInv, AuxDone, PollPlaces, PrepPlaces, Waking, Threads
<1>12. IntrInv'
  BY DEF IInv, IntrInv, PollPlaces, WOKEN_INTR, Threads
<1>13. UpdateInv'
  BY DEF IInv, UpdateInv, is_woken, NOT_WOKEN, Threads
<1>14. TargetInv'
  BY DEF IInv, TargetInv, Threads
<1> QED BY <1>1, <1>2, <1>3, <1>4, <1>5, <1>6, <1>7, <1>8, <1>9, <1>10, <1>11, <1>12, <1>13,
               <1>14 DEF IInv

\* The event ends the wait.
LEMMA TseWaitStep ==
  ASSUME IInv, NEW s \in Schedulers, TseWait(s)
  PROVE  IInv'
<1> USE DEF TseWait, At, Goto, pollset, sys, wake
<1>1. TypeInv'
  BY DEF IInv, TypeInv, TypeOK, NOT_WOKEN, WOKEN, WOKEN_INTR, SLEEP, Threads, Places, RunPlaces,
         PrepPlaces, TsePlaces, CheckIoPlaces, PollPlaces, SysPlaces, Callers, WakePlaces
<1>2. CtlInv'
  BY DEF IInv, CtlInv, Ctl, RunPlaces, PrepPlaces, CheckIoPlaces, PollPlaces, SysPlaces,
         TsePlaces
<1>3. ZeroInv'
  BY DEF IInv, ZeroInv
<1>4. HolderInv'
  BY DEF IInv, HolderInv, Holds, CheckIoPlaces, PollPlaces, SysPlaces
<1>5. IoInv'
  BY DEF IInv, IoInv, Queued, Executes
<1>6. ClearInv'
  BY DEF IInv, ClearInv, Clear, PollPlaces
<1>7. ActiveInv'
  BY DEF IInv, ActiveInv
<1>8. FlagInv'
  BY DEF IInv, FlagInv, CheckIoPlaces, PollPlaces
<1>9. EventInv'
  BY DEF IInv, TypeInv, TypeOK, NOT_WOKEN, WOKEN, WOKEN_INTR, SLEEP, Threads, Places, RunPlaces,
         PrepPlaces, TsePlaces, CheckIoPlaces, PollPlaces, SysPlaces, Callers, WakePlaces,
         EventInv, Waking
<1>10. AuxInv'
  BY DEF IInv, AuxInv, AuxDone, PollPlaces, PrepPlaces, Waking, Threads
<1>11. IntrInv'
  BY DEF IInv, IntrInv, PollPlaces, WOKEN_INTR, Threads
<1>12. UpdateInv'
  BY DEF IInv, UpdateInv, is_woken, NOT_WOKEN, Threads
<1>13. TargetInv' /\ RunqInv'
  BY DEF IInv, TargetInv, Threads, RunqInv, Waking
<1> QED BY <1>1, <1>2, <1>3, <1>4, <1>5, <1>6, <1>7, <1>8, <1>9, <1>10, <1>11, <1>12, <1>13 DEF
               IInv

\* A poke starts another round, a wakeup ends the wait.
LEMMA TseContStep ==
  ASSUME IInv, NEW s \in Schedulers, TseCont(s)
  PROVE  IInv'
<1> USE DEF TseCont, At, prep_cont_spin_wait, Goto, pollset, sys, wake
<1>1. TypeInv'
  BY DEF IInv, TypeInv, TypeOK, NOT_WOKEN, WOKEN, WOKEN_INTR, SLEEP, Threads, Places, RunPlaces,
         PrepPlaces, TsePlaces, CheckIoPlaces, PollPlaces, SysPlaces, Callers, WakePlaces
<1>2. CtlInv'
  BY DEF IInv, TypeInv, TypeOK, NOT_WOKEN, WOKEN, WOKEN_INTR, SLEEP, Threads, Places, RunPlaces,
         PrepPlaces, TsePlaces, CheckIoPlaces, PollPlaces, SysPlaces, Callers, WakePlaces,
         CtlInv, Ctl
<1>3. ZeroInv'
  BY DEF IInv, TypeInv, TypeOK, NOT_WOKEN, WOKEN, WOKEN_INTR, SLEEP, Threads, Places, RunPlaces,
         PrepPlaces, TsePlaces, CheckIoPlaces, PollPlaces, SysPlaces, Callers, WakePlaces,
         ZeroInv
<1>4. HolderInv'
  BY DEF IInv, TypeInv, TypeOK, NOT_WOKEN, WOKEN, WOKEN_INTR, SLEEP, Threads, Places, RunPlaces,
         PrepPlaces, TsePlaces, CheckIoPlaces, PollPlaces, SysPlaces, Callers, WakePlaces,
         HolderInv, Holds
<1>5. IoInv'
  BY DEF IInv, TypeInv, TypeOK, NOT_WOKEN, WOKEN, WOKEN_INTR, SLEEP, Threads, Places, RunPlaces,
         PrepPlaces, TsePlaces, CheckIoPlaces, PollPlaces, SysPlaces, Callers, WakePlaces,
         IoInv, Queued, Executes
<1>6. ClearInv'
  BY DEF IInv, TypeInv, TypeOK, NOT_WOKEN, WOKEN, WOKEN_INTR, SLEEP, Threads, Places, RunPlaces,
         PrepPlaces, TsePlaces, CheckIoPlaces, PollPlaces, SysPlaces, Callers, WakePlaces,
         ClearInv, Clear
<1>7. ActiveInv'
  BY DEF IInv, TypeInv, TypeOK, NOT_WOKEN, WOKEN, WOKEN_INTR, SLEEP, Threads, Places, RunPlaces,
         PrepPlaces, TsePlaces, CheckIoPlaces, PollPlaces, SysPlaces, Callers, WakePlaces,
         ActiveInv
<1>8. FlagInv'
  BY DEF IInv, TypeInv, TypeOK, NOT_WOKEN, WOKEN, WOKEN_INTR, SLEEP, Threads, Places, RunPlaces,
         PrepPlaces, TsePlaces, CheckIoPlaces, PollPlaces, SysPlaces, Callers, WakePlaces,
         FlagInv
<1>9. RunqInv'
  BY DEF IInv, RunqInv, Waking, Threads
<1>10. EventInv'
  BY DEF IInv, TypeInv, TypeOK, NOT_WOKEN, WOKEN, WOKEN_INTR, SLEEP, Threads, Places, RunPlaces,
         PrepPlaces, TsePlaces, CheckIoPlaces, PollPlaces, SysPlaces, Callers, WakePlaces,
         EventInv, Waking
<1>11. AuxInv'
  BY DEF IInv, TypeInv, TypeOK, NOT_WOKEN, WOKEN, WOKEN_INTR, SLEEP, Threads, Places, RunPlaces,
         PrepPlaces, TsePlaces, CheckIoPlaces, PollPlaces, SysPlaces, Callers, WakePlaces,
         AuxInv, AuxDone, Waking
<1>12. IntrInv'
  BY DEF IInv, TypeInv, TypeOK, NOT_WOKEN, WOKEN, WOKEN_INTR, SLEEP, Threads, Places, RunPlaces,
         PrepPlaces, TsePlaces, CheckIoPlaces, PollPlaces, SysPlaces, Callers, WakePlaces,
         IntrInv
<1>13. UpdateInv'
  BY DEF IInv, TypeInv, TypeOK, NOT_WOKEN, WOKEN, WOKEN_INTR, SLEEP, Threads, Places, RunPlaces,
         PrepPlaces, TsePlaces, CheckIoPlaces, PollPlaces, SysPlaces, Callers, WakePlaces,
         UpdateInv, is_woken
<1>14. TargetInv'
  BY DEF IInv, TargetInv, Threads
<1> QED BY <1>1, <1>2, <1>3, <1>4, <1>5, <1>6, <1>7, <1>8, <1>9, <1>10, <1>11, <1>12, <1>13,
               <1>14 DEF IInv

\* Work that goes on is remembered, the rest is done.
LEMMA SysAuxWorkStep ==
  ASSUME IInv, NEW s \in Schedulers, SysAuxWork(s)
  PROVE  IInv'
<1> USE DEF SysAuxWork, At, handle_aux_work, Goto, pollset, sys, wake
<1>1. TypeInv'
  <2>1. aux_work' \in [Schedulers -> 0 .. AuxPieces]
    BY AuxAssumption DEF IInv, TypeInv, TypeOK
  <2>2. pc' \in [Schedulers -> Places] /\ more' \in [Schedulers -> BOOLEAN]
    BY DEF IInv, TypeInv, Places, RunPlaces, PrepPlaces, TsePlaces, CheckIoPlaces,
           PollPlaces, SysPlaces
  <2> QED BY <2>1, <2>2 DEF IInv, TypeInv, TypeOK
<1>2. CtlInv'
  BY DEF IInv, CtlInv, Ctl, RunPlaces, PrepPlaces, CheckIoPlaces, PollPlaces, SysPlaces,
         TsePlaces
<1>3. ZeroInv'
  BY DEF IInv, ZeroInv
<1>4. HolderInv'
  BY DEF IInv, HolderInv, Holds, CheckIoPlaces, PollPlaces, SysPlaces
<1>5. IoInv'
  BY DEF IInv, IoInv, Queued, Executes
<1>6. ClearInv'
  BY DEF IInv, ClearInv, Clear, PollPlaces
<1>7. ActiveInv'
  BY DEF IInv, ActiveInv
<1>8. FlagInv'
  BY DEF IInv, FlagInv, CheckIoPlaces, PollPlaces
<1>9. EventInv'
  BY DEF IInv, EventInv, Waking, Threads
<1>10. AuxInv'
  BY DEF IInv, TypeInv, TypeOK, NOT_WOKEN, WOKEN, WOKEN_INTR, SLEEP, Threads, Places, RunPlaces,
         PrepPlaces, TsePlaces, CheckIoPlaces, PollPlaces, SysPlaces, Callers, WakePlaces,
         HolderInv, Holds, AuxInv, AuxDone, Waking
<1>11. IntrInv'
  BY DEF IInv, IntrInv, PollPlaces, WOKEN_INTR, Threads
<1>12. UpdateInv'
  BY DEF IInv, UpdateInv, is_woken, NOT_WOKEN, Threads
<1>13. TargetInv' /\ RunqInv'
  BY DEF IInv, TargetInv, Threads, RunqInv, Waking
<1> QED BY <1>1, <1>2, <1>3, <1>4, <1>5, <1>6, <1>7, <1>8, <1>9, <1>10, <1>11, <1>12, <1>13 DEF
               IInv

\* A scheduler that has been woken leaves.
LEMMA SysFlagsStep ==
  ASSUME IInv, NEW s \in Schedulers, SysFlags(s)
  PROVE  IInv'
<1> USE DEF SysFlags, At, Goto, pollset, ssi, sys, wake
<1>1. TypeInv'
  BY DEF IInv, TypeInv, TypeOK, NOT_WOKEN, WOKEN, WOKEN_INTR, SLEEP, Threads, Places, RunPlaces,
         PrepPlaces, TsePlaces, CheckIoPlaces, PollPlaces, SysPlaces, Callers, WakePlaces
<1>2. CtlInv'
  BY DEF IInv, CtlInv, Ctl, RunPlaces, PrepPlaces, CheckIoPlaces, PollPlaces, SysPlaces,
         TsePlaces
<1>3. ZeroInv'
  BY DEF IInv, ZeroInv
<1>4. HolderInv'
  BY DEF IInv, HolderInv, Holds, CheckIoPlaces, PollPlaces, SysPlaces
<1>5. IoInv'
  BY DEF IInv, IoInv, Queued, Executes
<1>6. ClearInv'
  BY DEF IInv, ClearInv, Clear, PollPlaces
<1>7. ActiveInv'
  BY DEF IInv, ActiveInv
<1>8. FlagInv'
  BY DEF IInv, FlagInv, CheckIoPlaces, PollPlaces
<1>9. EventInv'
  BY DEF IInv, EventInv, Waking, Threads
<1>10. AuxInv'
  BY DEF IInv, AuxInv, AuxDone, PollPlaces, PrepPlaces, Waking, Threads
<1>11. IntrInv'
  BY DEF IInv, IntrInv, PollPlaces, WOKEN_INTR, Threads
<1>12. UpdateInv'
  BY DEF IInv, UpdateInv, is_woken, NOT_WOKEN, Threads
<1>13. TargetInv' /\ RunqInv'
  BY DEF IInv, TargetInv, Threads, RunqInv, Waking
<1> QED BY <1>1, <1>2, <1>3, <1>4, <1>5, <1>6, <1>7, <1>8, <1>9, <1>10, <1>11, <1>12, <1>13 DEF
               IInv

\* The poller gives up its right when there are I/O tasks, ...
LEMMA SysLoopIoStep ==
  ASSUME IInv, NEW s \in Schedulers, SysLoopIo(s)
  PROVE  IInv'
<1> USE DEF SysLoopIo, At, SysIo, Goto, pollset, ssi, wake, SysLoop, Call
<1>1. TypeInv'
  BY DEF IInv, TypeInv, TypeOK, NOT_WOKEN, WOKEN, WOKEN_INTR, SLEEP, Threads, Places, RunPlaces,
         PrepPlaces, TsePlaces, CheckIoPlaces, PollPlaces, SysPlaces, Callers, WakePlaces
<1>2. CtlInv'
  BY DEF IInv, TypeInv, TypeOK, NOT_WOKEN, WOKEN, WOKEN_INTR, SLEEP, Threads, Places, RunPlaces,
         PrepPlaces, TsePlaces, CheckIoPlaces, PollPlaces, SysPlaces, Callers, WakePlaces,
         CtlInv, Ctl
<1>3. ZeroInv'
  BY DEF IInv, TypeInv, TypeOK, NOT_WOKEN, WOKEN, WOKEN_INTR, SLEEP, Threads, Places, RunPlaces,
         PrepPlaces, TsePlaces, CheckIoPlaces, PollPlaces, SysPlaces, Callers, WakePlaces,
         ZeroInv
<1>4. HolderInv'
  BY DEF IInv, TypeInv, TypeOK, NOT_WOKEN, WOKEN, WOKEN_INTR, SLEEP, Threads, Places, RunPlaces,
         PrepPlaces, TsePlaces, CheckIoPlaces, PollPlaces, SysPlaces, Callers, WakePlaces,
         HolderInv, Holds
<1>5. IoInv'
  BY DEF IInv, TypeInv, TypeOK, NOT_WOKEN, WOKEN, WOKEN_INTR, SLEEP, Threads, Places, RunPlaces,
         PrepPlaces, TsePlaces, CheckIoPlaces, PollPlaces, SysPlaces, Callers, WakePlaces,
         IoInv, Queued, Executes
<1>6. ClearInv'
  BY DEF IInv, TypeInv, TypeOK, NOT_WOKEN, WOKEN, WOKEN_INTR, SLEEP, Threads, Places, RunPlaces,
         PrepPlaces, TsePlaces, CheckIoPlaces, PollPlaces, SysPlaces, Callers, WakePlaces,
         ClearInv, Clear
<1>7. ActiveInv'
  BY DEF IInv, TypeInv, TypeOK, NOT_WOKEN, WOKEN, WOKEN_INTR, SLEEP, Threads, Places, RunPlaces,
         PrepPlaces, TsePlaces, CheckIoPlaces, PollPlaces, SysPlaces, Callers, WakePlaces,
         ActiveInv
<1>8. FlagInv'
  BY DEF IInv, TypeInv, TypeOK, NOT_WOKEN, WOKEN, WOKEN_INTR, SLEEP, Threads, Places, RunPlaces,
         PrepPlaces, TsePlaces, CheckIoPlaces, PollPlaces, SysPlaces, Callers, WakePlaces,
         FlagInv
<1>9. EventInv'
  BY DEF IInv, TypeInv, TypeOK, NOT_WOKEN, WOKEN, WOKEN_INTR, SLEEP, Threads, Places, RunPlaces,
         PrepPlaces, TsePlaces, CheckIoPlaces, PollPlaces, SysPlaces, Callers, WakePlaces,
         EventInv, Waking
<1>10. AuxInv'
  BY DEF IInv, TypeInv, TypeOK, NOT_WOKEN, WOKEN, WOKEN_INTR, SLEEP, Threads, Places, RunPlaces,
         PrepPlaces, TsePlaces, CheckIoPlaces, PollPlaces, SysPlaces, Callers, WakePlaces,
         AuxInv, AuxDone, Waking
<1>11. IntrInv'
  BY DEF IInv, TypeInv, TypeOK, NOT_WOKEN, WOKEN, WOKEN_INTR, SLEEP, Threads, Places, RunPlaces,
         PrepPlaces, TsePlaces, CheckIoPlaces, PollPlaces, SysPlaces, Callers, WakePlaces,
         IntrInv
<1>12. UpdateInv'
  BY DEF IInv, TypeInv, TypeOK, NOT_WOKEN, WOKEN, WOKEN_INTR, SLEEP, Threads, Places, RunPlaces,
         PrepPlaces, TsePlaces, CheckIoPlaces, PollPlaces, SysPlaces, Callers, WakePlaces,
         UpdateInv, is_woken
<1>13. TargetInv' /\ RunqInv'
  BY DEF IInv, TargetInv, Threads, RunqInv, Waking
<1> QED BY <1>1, <1>2, <1>3, <1>4, <1>5, <1>6, <1>7, <1>8, <1>9, <1>10, <1>11, <1>12, <1>13 DEF
               IInv

\* ... and looks again before it goes to sleep.
LEMMA SysSleepIoStep ==
  ASSUME IInv, NEW s \in Schedulers, SysSleepIo(s)
  PROVE  IInv'
<1> USE DEF SysSleepIo, At, SysIo, Goto, pollset, ssi, wake, SleepUnlessMore, Call
<1>1. TypeInv'
  BY DEF IInv, TypeInv, TypeOK, NOT_WOKEN, WOKEN, WOKEN_INTR, SLEEP, Threads, Places, RunPlaces,
         PrepPlaces, TsePlaces, CheckIoPlaces, PollPlaces, SysPlaces, Callers, WakePlaces
<1>2. CtlInv'
  BY DEF IInv, TypeInv, TypeOK, NOT_WOKEN, WOKEN, WOKEN_INTR, SLEEP, Threads, Places, RunPlaces,
         PrepPlaces, TsePlaces, CheckIoPlaces, PollPlaces, SysPlaces, Callers, WakePlaces,
         CtlInv, Ctl
<1>3. ZeroInv'
  BY DEF IInv, TypeInv, TypeOK, NOT_WOKEN, WOKEN, WOKEN_INTR, SLEEP, Threads, Places, RunPlaces,
         PrepPlaces, TsePlaces, CheckIoPlaces, PollPlaces, SysPlaces, Callers, WakePlaces,
         ZeroInv
<1>4. HolderInv'
  BY DEF IInv, TypeInv, TypeOK, NOT_WOKEN, WOKEN, WOKEN_INTR, SLEEP, Threads, Places, RunPlaces,
         PrepPlaces, TsePlaces, CheckIoPlaces, PollPlaces, SysPlaces, Callers, WakePlaces,
         HolderInv, Holds
<1>5. IoInv'
  BY DEF IInv, TypeInv, TypeOK, NOT_WOKEN, WOKEN, WOKEN_INTR, SLEEP, Threads, Places, RunPlaces,
         PrepPlaces, TsePlaces, CheckIoPlaces, PollPlaces, SysPlaces, Callers, WakePlaces,
         IoInv, Queued, Executes
<1>6. ClearInv'
  BY DEF IInv, TypeInv, TypeOK, NOT_WOKEN, WOKEN, WOKEN_INTR, SLEEP, Threads, Places, RunPlaces,
         PrepPlaces, TsePlaces, CheckIoPlaces, PollPlaces, SysPlaces, Callers, WakePlaces,
         ClearInv, Clear
<1>7. ActiveInv'
  BY DEF IInv, TypeInv, TypeOK, NOT_WOKEN, WOKEN, WOKEN_INTR, SLEEP, Threads, Places, RunPlaces,
         PrepPlaces, TsePlaces, CheckIoPlaces, PollPlaces, SysPlaces, Callers, WakePlaces,
         ActiveInv
<1>8. FlagInv'
  BY DEF IInv, TypeInv, TypeOK, NOT_WOKEN, WOKEN, WOKEN_INTR, SLEEP, Threads, Places, RunPlaces,
         PrepPlaces, TsePlaces, CheckIoPlaces, PollPlaces, SysPlaces, Callers, WakePlaces,
         FlagInv
<1>9. EventInv'
  BY DEF IInv, TypeInv, TypeOK, NOT_WOKEN, WOKEN, WOKEN_INTR, SLEEP, Threads, Places, RunPlaces,
         PrepPlaces, TsePlaces, CheckIoPlaces, PollPlaces, SysPlaces, Callers, WakePlaces,
         EventInv, Waking
<1>10. AuxInv'
  BY DEF IInv, TypeInv, TypeOK, NOT_WOKEN, WOKEN, WOKEN_INTR, SLEEP, Threads, Places, RunPlaces,
         PrepPlaces, TsePlaces, CheckIoPlaces, PollPlaces, SysPlaces, Callers, WakePlaces,
         AuxInv, AuxDone, Waking
<1>11. IntrInv'
  BY DEF IInv, TypeInv, TypeOK, NOT_WOKEN, WOKEN, WOKEN_INTR, SLEEP, Threads, Places, RunPlaces,
         PrepPlaces, TsePlaces, CheckIoPlaces, PollPlaces, SysPlaces, Callers, WakePlaces,
         IntrInv
<1>12. UpdateInv'
  BY DEF IInv, TypeInv, TypeOK, NOT_WOKEN, WOKEN, WOKEN_INTR, SLEEP, Threads, Places, RunPlaces,
         PrepPlaces, TsePlaces, CheckIoPlaces, PollPlaces, SysPlaces, Callers, WakePlaces,
         UpdateInv, is_woken
<1>13. TargetInv' /\ RunqInv'
  BY DEF IInv, TargetInv, Threads, RunqInv, Waking
<1> QED BY <1>1, <1>2, <1>3, <1>4, <1>5, <1>6, <1>7, <1>8, <1>9, <1>10, <1>11, <1>12, <1>13 DEF
               IInv

\* wakeup_state is reset before the sleep flag is set.
LEMMA SysResetStep ==
  ASSUME IInv, NEW s \in Schedulers, SysReset(s)
  PROVE  IInv'
<1> USE DEF SysReset, At, Goto, reset_wakeup_state, NOT_WOKEN, ssi, sys, wake
<1>1. TypeInv'
  BY DEF IInv, TypeInv, TypeOK, WOKEN, WOKEN_INTR, SLEEP, Threads, Places, RunPlaces,
         PrepPlaces, TsePlaces, CheckIoPlaces, PollPlaces, SysPlaces, Callers, WakePlaces
<1>2. CtlInv'
  BY DEF IInv, CtlInv, Ctl, RunPlaces, PrepPlaces, CheckIoPlaces, PollPlaces, SysPlaces,
         TsePlaces
<1>3. ZeroInv'
  BY DEF IInv, ZeroInv
<1>4. HolderInv'
  BY DEF IInv, HolderInv, Holds, CheckIoPlaces, PollPlaces, SysPlaces
<1>5. IoInv'
  BY DEF IInv, IoInv, Queued, Executes
<1>6. ClearInv'
  BY DEF IInv, ClearInv, Clear, PollPlaces
<1>7. ActiveInv'
  BY DEF IInv, ActiveInv
<1>8. FlagInv'
  BY DEF IInv, FlagInv, CheckIoPlaces, PollPlaces
<1>9. EventInv'
  BY DEF IInv, EventInv, Waking, Threads
<1>10. AuxInv'
  BY DEF IInv, AuxInv, AuxDone, PollPlaces, PrepPlaces, Waking, Threads
<1>11. IntrInv'
  BY DEF IInv, TypeInv, TypeOK, WOKEN, WOKEN_INTR, SLEEP, Threads, Places, RunPlaces,
         PrepPlaces, TsePlaces, CheckIoPlaces, PollPlaces, SysPlaces, Callers, WakePlaces,
         HolderInv, Holds, IntrInv
<1>12. UpdateInv'
  BY DEF IInv, TypeInv, TypeOK, WOKEN, WOKEN_INTR, SLEEP, Threads, Places, RunPlaces,
         PrepPlaces, TsePlaces, CheckIoPlaces, PollPlaces, SysPlaces, Callers, WakePlaces,
         HolderInv, Holds, UpdateInv, is_woken
<1>13. TargetInv' /\ RunqInv'
  BY DEF IInv, TargetInv, Threads, RunqInv, Waking
<1> QED BY <1>1, <1>2, <1>3, <1>4, <1>5, <1>6, <1>7, <1>8, <1>9, <1>10, <1>11, <1>12, <1>13 DEF
               IInv

\* The flag is set only over flags that nobody has cleared.
LEMMA SysSetTypeStep ==
  ASSUME IInv, NEW s \in Schedulers, SysSetType(s)
  PROVE  IInv'
<1> USE DEF SysSetType, At, set_sleeptype, IsSleeping, Call, Goto, pollset, sys, wake
<1>1. TypeInv'
  BY DEF IInv, TypeInv, TypeOK, NOT_WOKEN, WOKEN, WOKEN_INTR, SLEEP, Threads, Places, RunPlaces,
         PrepPlaces, TsePlaces, CheckIoPlaces, PollPlaces, SysPlaces, Callers, WakePlaces
<1>2. CtlInv'
  BY DEF IInv, TypeInv, TypeOK, NOT_WOKEN, WOKEN, WOKEN_INTR, SLEEP, Threads, Places, RunPlaces,
         PrepPlaces, TsePlaces, CheckIoPlaces, PollPlaces, SysPlaces, Callers, WakePlaces,
         CtlInv, Ctl
<1>3. ZeroInv'
  BY DEF IInv, TypeInv, TypeOK, NOT_WOKEN, WOKEN, WOKEN_INTR, SLEEP, Threads, Places, RunPlaces,
         PrepPlaces, TsePlaces, CheckIoPlaces, PollPlaces, SysPlaces, Callers, WakePlaces,
         ZeroInv
<1>4. HolderInv'
  BY DEF IInv, TypeInv, TypeOK, NOT_WOKEN, WOKEN, WOKEN_INTR, SLEEP, Threads, Places, RunPlaces,
         PrepPlaces, TsePlaces, CheckIoPlaces, PollPlaces, SysPlaces, Callers, WakePlaces,
         HolderInv, Holds
<1>5. IoInv'
  BY DEF IInv, TypeInv, TypeOK, NOT_WOKEN, WOKEN, WOKEN_INTR, SLEEP, Threads, Places, RunPlaces,
         PrepPlaces, TsePlaces, CheckIoPlaces, PollPlaces, SysPlaces, Callers, WakePlaces,
         IoInv, Queued, Executes
<1>6. ClearInv'
  BY DEF IInv, ClearInv, Clear, PollPlaces
<1>7. ActiveInv'
  BY DEF IInv, TypeInv, TypeOK, NOT_WOKEN, WOKEN, WOKEN_INTR, SLEEP, Threads, Places, RunPlaces,
         PrepPlaces, TsePlaces, CheckIoPlaces, PollPlaces, SysPlaces, Callers, WakePlaces,
         ActiveInv
<1>8. FlagInv'
  BY DEF IInv, TypeInv, TypeOK, NOT_WOKEN, WOKEN, WOKEN_INTR, SLEEP, Threads, Places, RunPlaces,
         PrepPlaces, TsePlaces, CheckIoPlaces, PollPlaces, SysPlaces, Callers, WakePlaces,
         FlagInv
<1>9. RunqInv'
  BY DEF IInv, RunqInv, Waking, Threads
<1>10. EventInv'
  BY DEF IInv, TypeInv, TypeOK, NOT_WOKEN, WOKEN, WOKEN_INTR, SLEEP, Threads, Places, RunPlaces,
         PrepPlaces, TsePlaces, CheckIoPlaces, PollPlaces, SysPlaces, Callers, WakePlaces,
         EventInv, Waking
<1>11. AuxInv'
  BY DEF IInv, TypeInv, TypeOK, NOT_WOKEN, WOKEN, WOKEN_INTR, SLEEP, Threads, Places, RunPlaces,
         PrepPlaces, TsePlaces, CheckIoPlaces, PollPlaces, SysPlaces, Callers, WakePlaces,
         AuxInv, AuxDone, Waking
<1>12. IntrInv'
  BY DEF IInv, TypeInv, TypeOK, NOT_WOKEN, WOKEN, WOKEN_INTR, SLEEP, Threads, Places, RunPlaces,
         PrepPlaces, TsePlaces, CheckIoPlaces, PollPlaces, SysPlaces, Callers, WakePlaces,
         IntrInv
<1>13. UpdateInv'
  BY DEF IInv, TypeInv, TypeOK, NOT_WOKEN, WOKEN, WOKEN_INTR, SLEEP, Threads, Places, RunPlaces,
         PrepPlaces, TsePlaces, CheckIoPlaces, PollPlaces, SysPlaces, Callers, WakePlaces,
         UpdateInv, is_woken
<1>14. TargetInv'
  BY DEF IInv, TargetInv, Threads
<1> QED BY <1>1, <1>2, <1>3, <1>4, <1>5, <1>6, <1>7, <1>8, <1>9, <1>10, <1>11, <1>12, <1>13,
               <1>14 DEF IInv

\* As TseCont.
LEMMA SysContStep ==
  ASSUME IInv, NEW s \in Schedulers, SysCont(s)
  PROVE  IInv'
<1> USE DEF SysCont, At, prep_cont_spin_wait, Goto, Call, pollset, sys, wake
<1>1. TypeInv'
  BY DEF IInv, TypeInv, TypeOK, NOT_WOKEN, WOKEN, WOKEN_INTR, SLEEP, Threads, Places, RunPlaces,
         PrepPlaces, TsePlaces, CheckIoPlaces, PollPlaces, SysPlaces, Callers, WakePlaces
<1>2. CtlInv'
  BY DEF IInv, TypeInv, TypeOK, NOT_WOKEN, WOKEN, WOKEN_INTR, SLEEP, Threads, Places, RunPlaces,
         PrepPlaces, TsePlaces, CheckIoPlaces, PollPlaces, SysPlaces, Callers, WakePlaces,
         CtlInv, Ctl
<1>3. ZeroInv'
  BY DEF IInv, TypeInv, TypeOK, NOT_WOKEN, WOKEN, WOKEN_INTR, SLEEP, Threads, Places, RunPlaces,
         PrepPlaces, TsePlaces, CheckIoPlaces, PollPlaces, SysPlaces, Callers, WakePlaces,
         ZeroInv
<1>4. HolderInv'
  BY DEF IInv, TypeInv, TypeOK, NOT_WOKEN, WOKEN, WOKEN_INTR, SLEEP, Threads, Places, RunPlaces,
         PrepPlaces, TsePlaces, CheckIoPlaces, PollPlaces, SysPlaces, Callers, WakePlaces,
         HolderInv, Holds
<1>5. IoInv'
  BY DEF IInv, TypeInv, TypeOK, NOT_WOKEN, WOKEN, WOKEN_INTR, SLEEP, Threads, Places, RunPlaces,
         PrepPlaces, TsePlaces, CheckIoPlaces, PollPlaces, SysPlaces, Callers, WakePlaces,
         IoInv, Queued, Executes
<1>6. ClearInv'
  BY DEF IInv, TypeInv, TypeOK, NOT_WOKEN, WOKEN, WOKEN_INTR, SLEEP, Threads, Places, RunPlaces,
         PrepPlaces, TsePlaces, CheckIoPlaces, PollPlaces, SysPlaces, Callers, WakePlaces,
         ClearInv, Clear
<1>7. ActiveInv'
  BY DEF IInv, TypeInv, TypeOK, NOT_WOKEN, WOKEN, WOKEN_INTR, SLEEP, Threads, Places, RunPlaces,
         PrepPlaces, TsePlaces, CheckIoPlaces, PollPlaces, SysPlaces, Callers, WakePlaces,
         ActiveInv
<1>8. FlagInv'
  BY DEF IInv, TypeInv, TypeOK, NOT_WOKEN, WOKEN, WOKEN_INTR, SLEEP, Threads, Places, RunPlaces,
         PrepPlaces, TsePlaces, CheckIoPlaces, PollPlaces, SysPlaces, Callers, WakePlaces,
         FlagInv
<1>9. RunqInv'
  BY DEF IInv, RunqInv, Waking, Threads
<1>10. EventInv'
  BY DEF IInv, TypeInv, TypeOK, NOT_WOKEN, WOKEN, WOKEN_INTR, SLEEP, Threads, Places, RunPlaces,
         PrepPlaces, TsePlaces, CheckIoPlaces, PollPlaces, SysPlaces, Callers, WakePlaces,
         EventInv, Waking
<1>11. AuxInv'
  BY DEF IInv, TypeInv, TypeOK, NOT_WOKEN, WOKEN, WOKEN_INTR, SLEEP, Threads, Places, RunPlaces,
         PrepPlaces, TsePlaces, CheckIoPlaces, PollPlaces, SysPlaces, Callers, WakePlaces,
         AuxInv, AuxDone, Waking
<1>12. IntrInv'
  BY DEF IInv, TypeInv, TypeOK, NOT_WOKEN, WOKEN, WOKEN_INTR, SLEEP, Threads, Places, RunPlaces,
         PrepPlaces, TsePlaces, CheckIoPlaces, PollPlaces, SysPlaces, Callers, WakePlaces,
         IntrInv
<1>13. UpdateInv'
  BY DEF IInv, TypeInv, TypeOK, NOT_WOKEN, WOKEN, WOKEN_INTR, SLEEP, Threads, Places, RunPlaces,
         PrepPlaces, TsePlaces, CheckIoPlaces, PollPlaces, SysPlaces, Callers, WakePlaces,
         UpdateInv, is_woken
<1>14. TargetInv'
  BY DEF IInv, TargetInv, Threads
<1> QED BY <1>1, <1>2, <1>3, <1>4, <1>5, <1>6, <1>7, <1>8, <1>9, <1>10, <1>11, <1>12, <1>13,
               <1>14 DEF IInv

\* The right to poll is given up with the wait.
LEMMA SysWokenStep ==
  ASSUME IInv, NEW s \in Schedulers, SysWoken(s)
  PROVE  IInv'
<1> USE DEF SysWoken, At, Return, Goto, pollset, ssi, wake
<1>1. TypeInv'
  <2>1. waiting[s] = -1
    BY DEF IInv, CtlInv, Ctl, RunPlaces, PrepPlaces, TsePlaces, CheckIoPlaces,
           PollPlaces, SysPlaces
  <2>2. waiting' \in [Schedulers -> -1 .. 1]
    <3>1. \A n \in Int : -n = 0 - n
      OBVIOUS
    <3>2. waiting[s] \in Int /\ -waiting[s] - 1 = (0 - waiting[s]) - 1
      BY <3>1 DEF IInv, TypeInv, TypeOK
    <3>3. (0 - waiting[s]) - 1 = 0
      BY <2>1
    <3>4. waiting' = [waiting EXCEPT ![s] = 0]
      BY <3>2, <3>3
    <3> QED BY <3>4 DEF IInv, TypeInv, TypeOK
  <2>3. pc' \in [Schedulers -> Places] /\ ret' \in [Schedulers -> Callers]
    BY DEF IInv, TypeInv, TypeOK, Places, Callers, RunPlaces, PrepPlaces, TsePlaces, CheckIoPlaces,
           PollPlaces, SysPlaces
  <2> QED BY <2>2, <2>3 DEF IInv, TypeInv, TypeOK
<1>2. CtlInv'
  BY DEF IInv, TypeInv, TypeOK, NOT_WOKEN, WOKEN, WOKEN_INTR, SLEEP, Threads, Places, RunPlaces,
         PrepPlaces, TsePlaces, CheckIoPlaces, PollPlaces, SysPlaces, Callers, WakePlaces,
         CtlInv, Ctl
<1>3. ZeroInv'
  BY DEF IInv, ZeroInv
<1>4. HolderInv'
  BY DEF IInv, TypeInv, TypeOK, NOT_WOKEN, WOKEN, WOKEN_INTR, SLEEP, Threads, Places, RunPlaces,
         PrepPlaces, TsePlaces, CheckIoPlaces, PollPlaces, SysPlaces, Callers, WakePlaces,
         HolderInv, Holds
<1>5. IoInv'
  BY DEF IInv, IoInv, Queued, Executes
<1>6. ClearInv'
  BY DEF IInv, ClearInv, Clear, PollPlaces
<1>7. ActiveInv'
  BY DEF IInv, TypeInv, TypeOK, NOT_WOKEN, WOKEN, WOKEN_INTR, SLEEP, Threads, Places, RunPlaces,
         PrepPlaces, TsePlaces, CheckIoPlaces, PollPlaces, SysPlaces, Callers, WakePlaces,
         ActiveInv
<1>8. FlagInv'
  BY DEF IInv, FlagInv, CheckIoPlaces, PollPlaces
<1>9. EventInv'
  BY DEF IInv, EventInv, Waking, Threads
<1>10. AuxInv'
  BY DEF IInv, AuxInv, AuxDone, PollPlaces, PrepPlaces, Waking, Threads
<1>11. IntrInv'
  BY DEF IInv, IntrInv, PollPlaces, WOKEN_INTR, Threads
<1>12. UpdateInv'
  BY DEF IInv, UpdateInv, is_woken, NOT_WOKEN, Threads
<1>13. TargetInv' /\ RunqInv'
  BY DEF IInv, TargetInv, Threads, RunqInv, Waking
<1> QED BY <1>1, <1>2, <1>3, <1>4, <1>5, <1>6, <1>7, <1>8, <1>9, <1>10, <1>11, <1>12, <1>13 DEF
               IInv

\* Only a scheduler with its flags set polls with a timeout.
LEMMA PollInStep ==
  ASSUME IInv, NEW s \in Schedulers, PollIn(s)
  PROVE  IInv'
<1> USE DEF PollIn, At, Goto, is_woken, NOT_WOKEN, pollset, ssi, sys, wake
<1>1. TypeInv'
  BY DEF IInv, TypeInv, TypeOK, WOKEN, WOKEN_INTR, SLEEP, Threads, Places, RunPlaces,
         PrepPlaces, TsePlaces, CheckIoPlaces, PollPlaces, SysPlaces, Callers, WakePlaces
<1>2. CtlInv'
  BY DEF IInv, CtlInv, Ctl, RunPlaces, PrepPlaces, CheckIoPlaces, PollPlaces, SysPlaces,
         TsePlaces
<1>3. ZeroInv'
  BY DEF IInv, TypeInv, TypeOK, WOKEN, WOKEN_INTR, SLEEP, Threads, Places, RunPlaces,
         PrepPlaces, TsePlaces, CheckIoPlaces, PollPlaces, SysPlaces, Callers, WakePlaces,
         ZeroInv
<1>4. HolderInv'
  BY DEF IInv, HolderInv, Holds, CheckIoPlaces, PollPlaces, SysPlaces
<1>5. IoInv'
  BY DEF IInv, IoInv, Queued, Executes
<1>6. ClearInv'
  BY DEF IInv, ClearInv, Clear, PollPlaces
<1>7. ActiveInv'
  BY DEF IInv, ActiveInv
<1>8. FlagInv'
  BY DEF IInv, FlagInv, CheckIoPlaces, PollPlaces
<1>9. EventInv'
  BY DEF IInv, EventInv, Waking, Threads
<1>10. AuxInv'
  BY DEF IInv, AuxInv, AuxDone, PollPlaces, PrepPlaces, Waking, Threads
<1>11. IntrInv'
  BY DEF IInv, IntrInv, PollPlaces, WOKEN_INTR, Threads
<1>12. UpdateInv'
  BY DEF IInv, UpdateInv, Threads
<1>13. TargetInv' /\ RunqInv'
  BY DEF IInv, TargetInv, Threads, RunqInv, Waking
<1> QED BY <1>1, <1>2, <1>3, <1>4, <1>5, <1>6, <1>7, <1>8, <1>9, <1>10, <1>11, <1>12, <1>13 DEF
               IInv

\* Update requests are handled before poll() is called.
LEMMA PollUpdateStep ==
  ASSUME IInv, NEW s \in Schedulers, PollUpdate(s)
  PROVE  IInv'
<1> USE DEF PollUpdate, At, handle_update_requests, Goto, ssi, sys, wake
<1>1. TypeInv'
  BY DEF IInv, TypeInv, TypeOK, NOT_WOKEN, WOKEN, WOKEN_INTR, SLEEP, Threads, Places, RunPlaces,
         PrepPlaces, TsePlaces, CheckIoPlaces, PollPlaces, SysPlaces, Callers, WakePlaces
<1>2. CtlInv'
  BY DEF IInv, CtlInv, Ctl, RunPlaces, PrepPlaces, CheckIoPlaces, PollPlaces, SysPlaces,
         TsePlaces
<1>3. ZeroInv'
  BY DEF IInv, ZeroInv
<1>4. HolderInv'
  BY DEF IInv, HolderInv, Holds, CheckIoPlaces, PollPlaces, SysPlaces
<1>5. IoInv'
  BY DEF IInv, IoInv, Queued, Executes
<1>6. ClearInv'
  BY DEF IInv, ClearInv, Clear, PollPlaces
<1>7. ActiveInv'
  BY DEF IInv, ActiveInv
<1>8. FlagInv'
  BY DEF IInv, FlagInv, CheckIoPlaces, PollPlaces
<1>9. EventInv'
  BY DEF IInv, EventInv, Waking, Threads
<1>10. AuxInv'
  BY DEF IInv, AuxInv, AuxDone, PollPlaces, PrepPlaces, Waking, Threads
<1>11. IntrInv'
  BY DEF IInv, IntrInv, PollPlaces, WOKEN_INTR, Threads
<1>12. UpdateInv'
  BY DEF IInv, UpdateInv, is_woken, NOT_WOKEN, Threads
<1>13. TargetInv' /\ RunqInv'
  BY DEF IInv, TargetInv, Threads, RunqInv, Waking
<1> QED BY <1>1, <1>2, <1>3, <1>4, <1>5, <1>6, <1>7, <1>8, <1>9, <1>10, <1>11, <1>12, <1>13 DEF
               IInv

\* poll() returns with events, or at once, ...
LEMMA PollFdsStep ==
  ASSUME IInv, NEW s \in Schedulers, PollFds(s)
  PROVE  IInv'
<1> USE DEF PollFds, At, Pollable, PollReturns, Goto, pollset, ssi, sys, wake
<1>1. TypeInv'
  BY DEF IInv, TypeInv, TypeOK, NOT_WOKEN, WOKEN, WOKEN_INTR, SLEEP, Threads, Places, RunPlaces,
         PrepPlaces, TsePlaces, CheckIoPlaces, PollPlaces, SysPlaces, Callers, WakePlaces
<1>2. CtlInv'
  BY DEF IInv, CtlInv, Ctl, RunPlaces, PrepPlaces, CheckIoPlaces, PollPlaces, SysPlaces,
         TsePlaces
<1>3. ZeroInv'
  BY DEF IInv, TypeInv, TypeOK, NOT_WOKEN, WOKEN, WOKEN_INTR, SLEEP, Threads, Places, RunPlaces,
         PrepPlaces, TsePlaces, CheckIoPlaces, PollPlaces, SysPlaces, Callers, WakePlaces,
         ZeroInv
<1>4. HolderInv'
  BY DEF IInv, HolderInv, Holds, CheckIoPlaces, PollPlaces, SysPlaces
<1>5. IoInv'
  BY DEF IInv, IoInv, Queued, Executes
<1>6. ClearInv'
  BY DEF IInv, ClearInv, Clear, PollPlaces
<1>7. ActiveInv'
  BY DEF IInv, ActiveInv
<1>8. FlagInv'
  BY DEF IInv, FlagInv, CheckIoPlaces, PollPlaces
<1>9. EventInv'
  BY DEF IInv, EventInv, Waking, Threads
<1>10. AuxInv'
  BY DEF IInv, AuxInv, AuxDone, PollPlaces, PrepPlaces, Waking, Threads
<1>11. IntrInv'
  BY DEF IInv, IntrInv, PollPlaces, WOKEN_INTR, Threads
<1>12. UpdateInv'
  BY DEF IInv, UpdateInv, is_woken, NOT_WOKEN, Threads
<1>13. TargetInv' /\ RunqInv'
  BY DEF IInv, TargetInv, Threads, RunqInv, Waking
<1> QED BY <1>1, <1>2, <1>3, <1>4, <1>5, <1>6, <1>7, <1>8, <1>9, <1>10, <1>11, <1>12, <1>13 DEF
               IInv

\* ... or by its timeout.
LEMMA PollTimeoutStep ==
  ASSUME IInv, NEW s \in Schedulers, PollTimeout(s)
  PROVE  IInv'
<1> USE DEF PollTimeout, At, Pollable, PollReturns, Goto, pollset, ssi, sys, wake
<1>1. TypeInv'
  BY DEF IInv, TypeInv, TypeOK, NOT_WOKEN, WOKEN, WOKEN_INTR, SLEEP, Threads, Places, RunPlaces,
         PrepPlaces, TsePlaces, CheckIoPlaces, PollPlaces, SysPlaces, Callers, WakePlaces
<1>2. CtlInv'
  BY DEF IInv, CtlInv, Ctl, RunPlaces, PrepPlaces, CheckIoPlaces, PollPlaces, SysPlaces,
         TsePlaces
<1>3. ZeroInv'
  BY DEF IInv, ZeroInv
<1>4. HolderInv'
  BY DEF IInv, HolderInv, Holds, CheckIoPlaces, PollPlaces, SysPlaces
<1>5. IoInv'
  BY DEF IInv, IoInv, Queued, Executes
<1>6. ClearInv'
  BY DEF IInv, ClearInv, Clear, PollPlaces
<1>7. ActiveInv'
  BY DEF IInv, ActiveInv
<1>8. FlagInv'
  BY DEF IInv, FlagInv, CheckIoPlaces, PollPlaces
<1>9. EventInv'
  BY DEF IInv, EventInv, Waking, Threads
<1>10. AuxInv'
  BY DEF IInv, AuxInv, AuxDone, PollPlaces, PrepPlaces, Waking, Threads
<1>11. IntrInv'
  BY DEF IInv, IntrInv, PollPlaces, WOKEN_INTR, Threads
<1>12. UpdateInv'
  BY DEF IInv, UpdateInv, is_woken, NOT_WOKEN, Threads
<1>13. TargetInv' /\ RunqInv'
  BY DEF IInv, TargetInv, Threads, RunqInv, Waking
<1> QED BY <1>1, <1>2, <1>3, <1>4, <1>5, <1>6, <1>7, <1>8, <1>9, <1>10, <1>11, <1>12, <1>13 DEF
               IInv

\* The poller takes itself for woken.
LEMMA PollWokeUpStep ==
  ASSUME IInv, NEW s \in Schedulers, PollWokeUp(s)
  PROVE  IInv'
<1> USE DEF PollWokeUp, At, woke_up, is_woken, NOT_WOKEN, WOKEN, Goto, ssi, sys, wake
<1>1. TypeInv'
  BY DEF IInv, TypeInv, TypeOK, WOKEN_INTR, SLEEP, Threads, Places, RunPlaces, PrepPlaces,
         TsePlaces, CheckIoPlaces, PollPlaces, SysPlaces, Callers, WakePlaces
<1>2. CtlInv'
  BY DEF IInv, CtlInv, Ctl, RunPlaces, PrepPlaces, CheckIoPlaces, PollPlaces, SysPlaces,
         TsePlaces
<1>3. ZeroInv'
  BY DEF IInv, ZeroInv
<1>4. HolderInv'
  BY DEF IInv, HolderInv, Holds, CheckIoPlaces, PollPlaces, SysPlaces
<1>5. IoInv'
  BY DEF IInv, IoInv, Queued, Executes
<1>6. ClearInv'
  BY DEF IInv, ClearInv, Clear, PollPlaces
<1>7. ActiveInv'
  BY DEF IInv, ActiveInv
<1>8. FlagInv'
  BY DEF IInv, FlagInv, CheckIoPlaces, PollPlaces
<1>9. EventInv'
  BY DEF IInv, EventInv, Waking, Threads
<1>10. AuxInv'
  BY DEF IInv, AuxInv, AuxDone, PollPlaces, PrepPlaces, Waking, Threads
<1>11. IntrInv'
  BY DEF IInv, IntrInv, PollPlaces, WOKEN_INTR, Threads
<1>12. UpdateInv'
  BY DEF IInv, UpdateInv, Threads
<1>13. TargetInv' /\ RunqInv'
  BY DEF IInv, TargetInv, Threads, RunqInv, Waking
<1> QED BY <1>1, <1>2, <1>3, <1>4, <1>5, <1>6, <1>7, <1>8, <1>9, <1>10, <1>11, <1>12, <1>13 DEF
               IInv

\* The pipe is emptied.
LEMMA PollSaveStep ==
  ASSUME IInv, NEW s \in Schedulers, PollSave(s)
  PROVE  IInv'
<1> USE DEF PollSave, At, Goto, cleanup_wakeup_pipe, pollset, ssi, sys, wake
<1>1. TypeInv'
  BY DEF IInv, TypeInv, TypeOK, NOT_WOKEN, WOKEN, WOKEN_INTR, SLEEP, Threads, Places, RunPlaces,
         PrepPlaces, TsePlaces, CheckIoPlaces, PollPlaces, SysPlaces, Callers, WakePlaces
<1>2. CtlInv'
  BY DEF IInv, CtlInv, Ctl, RunPlaces, PrepPlaces, CheckIoPlaces, PollPlaces, SysPlaces,
         TsePlaces
<1>3. ZeroInv'
  BY DEF IInv, ZeroInv
<1>4. HolderInv'
  BY DEF IInv, HolderInv, Holds, CheckIoPlaces, PollPlaces, SysPlaces
<1>5. IoInv'
  BY DEF IInv, IoInv, Queued, Executes
<1>6. ClearInv'
  BY DEF IInv, ClearInv, Clear, PollPlaces
<1>7. ActiveInv'
  BY DEF IInv, ActiveInv
<1>8. FlagInv'
  BY DEF IInv, FlagInv, CheckIoPlaces, PollPlaces
<1>9. EventInv'
  BY DEF IInv, EventInv, Waking, Threads
<1>10. AuxInv'
  BY DEF IInv, AuxInv, AuxDone, PollPlaces, PrepPlaces, Waking, Threads
<1>11. IntrInv'
  BY DEF IInv, IntrInv, PollPlaces, WOKEN_INTR, Threads
<1>12. UpdateInv'
  BY DEF IInv, TypeInv, TypeOK, NOT_WOKEN, WOKEN, WOKEN_INTR, SLEEP, Threads, Places, RunPlaces,
         PrepPlaces, TsePlaces, CheckIoPlaces, PollPlaces, SysPlaces, Callers, WakePlaces,
         UpdateInv, is_woken
<1>13. TargetInv' /\ RunqInv'
  BY DEF IInv, TargetInv, Threads, RunqInv, Waking
<1> QED BY <1>1, <1>2, <1>3, <1>4, <1>5, <1>6, <1>7, <1>8, <1>9, <1>10, <1>11, <1>12, <1>13 DEF
               IInv

\* An interrupt ends the poll, another wakeup does not.
LEMMA PollInterruptedStep ==
  ASSUME IInv, NEW s \in Schedulers, PollInterrupted(s)
  PROVE  IInv'
<1> USE DEF PollInterrupted, At, is_interrupted_reset, reset_wakeup_state, NOT_WOKEN, Goto,
            WOKEN_INTR, ssi, sys, wake
<1>1. TypeInv'
  BY DEF IInv, TypeInv, TypeOK, WOKEN, SLEEP, Threads, Places, RunPlaces, PrepPlaces, TsePlaces,
         CheckIoPlaces, PollPlaces, SysPlaces, Callers, WakePlaces
<1>2. CtlInv'
  BY DEF IInv, CtlInv, Ctl, RunPlaces, PrepPlaces, CheckIoPlaces, PollPlaces, SysPlaces,
         TsePlaces
<1>3. ZeroInv'
  BY DEF IInv, ZeroInv
<1>4. HolderInv'
  BY DEF IInv, HolderInv, Holds, CheckIoPlaces, PollPlaces, SysPlaces
<1>5. IoInv'
  BY DEF IInv, IoInv, Queued, Executes
<1>6. ClearInv'
  BY DEF IInv, ClearInv, Clear, PollPlaces
<1>7. ActiveInv'
  BY DEF IInv, ActiveInv
<1>8. FlagInv'
  BY DEF IInv, FlagInv, CheckIoPlaces, PollPlaces
<1>9. EventInv'
  BY DEF IInv, EventInv, Waking, Threads
<1>10. AuxInv'
  BY DEF IInv, AuxInv, AuxDone, PollPlaces, PrepPlaces, Waking, Threads
<1>11. IntrInv'
  BY DEF IInv, TypeInv, TypeOK, WOKEN, SLEEP, Threads, Places, RunPlaces, PrepPlaces, TsePlaces,
         CheckIoPlaces, PollPlaces, SysPlaces, Callers, WakePlaces, HolderInv, Holds, IntrInv
<1>12. UpdateInv'
  BY DEF IInv, TypeInv, TypeOK, WOKEN, SLEEP, Threads, Places, RunPlaces, PrepPlaces, TsePlaces,
         CheckIoPlaces, PollPlaces, SysPlaces, Callers, WakePlaces, HolderInv, Holds, UpdateInv,
         is_woken
<1>13. TargetInv' /\ RunqInv'
  BY DEF IInv, TargetInv, Threads, RunqInv, Waking
<1> QED BY <1>1, <1>2, <1>3, <1>4, <1>5, <1>6, <1>7, <1>8, <1>9, <1>10, <1>11, <1>12, <1>13 DEF
               IInv

\* One task is counted and enqueued, for nobody else has found one.
LEMMA PollIoStep ==
  ASSUME IInv, NEW s \in Schedulers, PollIo(s)
  PROVE  IInv'
<1> USE DEF PollIo, At, Goto, RunqIsLocked, pollset, ssi
<1>1. TypeInv'
  BY DEF IInv, TypeInv, TypeOK, NOT_WOKEN, WOKEN, WOKEN_INTR, SLEEP, Threads, Places, RunPlaces,
         PrepPlaces, TsePlaces, CheckIoPlaces, PollPlaces, SysPlaces, Callers, WakePlaces,
         IoInv, Queued, Executes, ClearInv, Clear
<1>2. CtlInv'
  BY DEF IInv, CtlInv, Ctl, RunPlaces, PrepPlaces, CheckIoPlaces, PollPlaces, SysPlaces,
         TsePlaces
<1>3. ZeroInv'
  BY DEF IInv, ZeroInv
<1>4. HolderInv'
  BY DEF IInv, HolderInv, Holds, CheckIoPlaces, PollPlaces, SysPlaces
<1>5. IoInv'
  BY DEF IInv, TypeInv, TypeOK, NOT_WOKEN, WOKEN, WOKEN_INTR, SLEEP, Threads, Places, RunPlaces,
         PrepPlaces, TsePlaces, CheckIoPlaces, PollPlaces, SysPlaces, Callers, WakePlaces,
         IoInv, Queued, Executes, ClearInv, Clear
<1>6. ClearInv'
  BY DEF IInv, TypeInv, TypeOK, NOT_WOKEN, WOKEN, WOKEN_INTR, SLEEP, Threads, Places, RunPlaces,
         PrepPlaces, TsePlaces, CheckIoPlaces, PollPlaces, SysPlaces, Callers, WakePlaces,
         HolderInv, Holds, ClearInv, Clear
<1>7. ActiveInv'
  BY DEF IInv, TypeInv, TypeOK, NOT_WOKEN, WOKEN, WOKEN_INTR, SLEEP, Threads, Places, RunPlaces,
         PrepPlaces, TsePlaces, CheckIoPlaces, PollPlaces, SysPlaces, Callers, WakePlaces,
         HolderInv, Holds, ActiveInv
<1>8. FlagInv'
  BY DEF IInv, FlagInv, CheckIoPlaces, PollPlaces
<1>9. TargetInv'
  BY DEF IInv, TypeInv, TypeOK, NOT_WOKEN, WOKEN, WOKEN_INTR, SLEEP, Threads, Places, RunPlaces,
         PrepPlaces, TsePlaces, CheckIoPlaces, PollPlaces, SysPlaces, Callers, WakePlaces,
         TargetInv
<1>10. RunqInv'
  BY DEF IInv, TypeInv, TypeOK, NOT_WOKEN, WOKEN, WOKEN_INTR, SLEEP, Threads, Places, RunPlaces,
         PrepPlaces, TsePlaces, CheckIoPlaces, PollPlaces, SysPlaces, Callers, WakePlaces,
         RunqInv, Waking
<1>11. EventInv'
  BY DEF IInv, EventInv, Waking, Threads
<1>12. AuxInv'
  BY DEF IInv, AuxInv, AuxDone, PollPlaces, PrepPlaces, Waking, Threads
<1>13. IntrInv'
  BY DEF IInv, IntrInv, PollPlaces, WOKEN_INTR, Threads
<1>14. UpdateInv'
  BY DEF IInv, UpdateInv, is_woken, NOT_WOKEN, Threads
<1> QED BY <1>1, <1>2, <1>3, <1>4, <1>5, <1>6, <1>7, <1>8, <1>9, <1>10, <1>11, <1>12, <1>13,
               <1>14 DEF IInv

\* Where each caller of erl_sys_schedule() goes on.
LEMMA PollReturnStep ==
  ASSUME IInv, NEW s \in Schedulers, PollReturn(s)
  PROVE  IInv'
<1>1. pc[s] = "poll_ret" /\ ret[s] \in {"run", "poll", "doze"}
  BY DEF PollReturn, At, IInv, CtlInv, Ctl, RunPlaces, PrepPlaces, TsePlaces, CheckIoPlaces,
         PollPlaces, SysPlaces
<1>2. /\ UNCHANGED <<pollset, zero, res, ssi, rq, waiting, outstanding_io_tasks, wake>>
      /\ doing_sys_schedule' = (ret[s] # "run")
  BY DEF PollReturn
<1>3. \/ /\ ret[s] = "poll" /\ pc' = [pc EXCEPT ![s] = "sys_aux"]
         /\ UNCHANGED <<ret, more>>
      \/ /\ ret[s] = "doze" /\ pc' = [pc EXCEPT ![s] = "sys_cont"]
         /\ UNCHANGED <<ret, more>>
      \/ /\ ret[s] = "run" /\ pc' = [pc EXCEPT ![s] = "run"]
         /\ ret' = [ret EXCEPT ![s] = "none"] /\ more' = [more EXCEPT ![s] = FALSE]
  <2>1. CASE ret[s] = "poll"
    BY <2>1 DEF PollReturn, Goto
  <2>2. CASE ret[s] = "doze"
    BY <2>2 DEF PollReturn, Goto
  <2>3. CASE ret[s] = "run"
    BY <2>3 DEF PollReturn, Return, Goto
  <2> QED BY <1>1, <2>1, <2>2, <2>3
<1>4. TypeInv'
  BY <1>1, <1>2, <1>3 DEF IInv, TypeInv, TypeOK, NOT_WOKEN, WOKEN, WOKEN_INTR, SLEEP, Threads,
         Places, RunPlaces, PrepPlaces, TsePlaces, CheckIoPlaces, PollPlaces, SysPlaces,
         Callers, WakePlaces, CtlInv, Ctl, pollset, ssi, wake
<1>5. CtlInv'
  BY <1>1, <1>2, <1>3 DEF IInv, TypeInv, TypeOK, NOT_WOKEN, WOKEN, WOKEN_INTR, SLEEP, Threads,
         Places, RunPlaces, PrepPlaces, TsePlaces, CheckIoPlaces, PollPlaces, SysPlaces,
         Callers, WakePlaces, CtlInv, Ctl, HolderInv, Holds, pollset, ssi, wake
<1>6. ZeroInv'
  BY <1>1, <1>2, <1>3 DEF IInv, TypeInv, TypeOK, NOT_WOKEN, WOKEN, WOKEN_INTR, SLEEP, Threads,
         Places, RunPlaces, PrepPlaces, TsePlaces, CheckIoPlaces, PollPlaces, SysPlaces,
         Callers, WakePlaces, CtlInv, Ctl, ZeroInv, HolderInv, Holds, pollset, ssi, wake
<1>7. HolderInv'
  <2>1. Holds(s) /\ (Holds(s)' <=> ret[s] # "run")
    BY <1>1, <1>3 DEF IInv, TypeInv, TypeOK, Holds, CheckIoPlaces, PollPlaces, SysPlaces
  <2>2. \A u \in Schedulers : u # s => ~Holds(u) /\ ~Holds(u)'
    BY <2>1, <1>3 DEF IInv, HolderInv, TypeInv, TypeOK, Holds
  <2>3. doing_sys_schedule' <=> Holds(s)'
    BY <1>2, <2>1
  <2> QED BY <2>2, <2>3 DEF HolderInv
<1>8. IoInv'
  BY <1>1, <1>2, <1>3 DEF IInv, TypeInv, TypeOK, NOT_WOKEN, WOKEN, WOKEN_INTR, SLEEP, Threads,
         Places, RunPlaces, PrepPlaces, TsePlaces, CheckIoPlaces, PollPlaces, SysPlaces,
         Callers, WakePlaces, CtlInv, Ctl, HolderInv, Holds, IoInv, Queued, Executes, pollset,
         ssi, wake
<1>9. ClearInv'
  BY <1>1, <1>2, <1>3 DEF IInv, TypeInv, TypeOK, NOT_WOKEN, WOKEN, WOKEN_INTR, SLEEP, Threads,
         Places, RunPlaces, PrepPlaces, TsePlaces, CheckIoPlaces, PollPlaces, SysPlaces,
         Callers, WakePlaces, CtlInv, Ctl, HolderInv, Holds, ClearInv, Clear, pollset, ssi, wake
<1>10. ActiveInv'
  BY <1>1, <1>2, <1>3 DEF IInv, TypeInv, TypeOK, NOT_WOKEN, WOKEN, WOKEN_INTR, SLEEP, Threads,
         Places, RunPlaces, PrepPlaces, TsePlaces, CheckIoPlaces, PollPlaces, SysPlaces,
         Callers, WakePlaces, CtlInv, Ctl, HolderInv, Holds, ActiveInv, pollset, ssi, wake
<1>11. FlagInv'
  BY <1>1, <1>2, <1>3 DEF IInv, TypeInv, TypeOK, NOT_WOKEN, WOKEN, WOKEN_INTR, SLEEP, Threads,
         Places, RunPlaces, PrepPlaces, TsePlaces, CheckIoPlaces, PollPlaces, SysPlaces,
         Callers, WakePlaces, CtlInv, Ctl, HolderInv, Holds, FlagInv, pollset, ssi, wake
<1>12. EventInv'
  BY <1>1, <1>2, <1>3 DEF IInv, TypeInv, TypeOK, NOT_WOKEN, WOKEN, WOKEN_INTR, SLEEP, Threads,
         Places, RunPlaces, PrepPlaces, TsePlaces, CheckIoPlaces, PollPlaces, SysPlaces,
         Callers, WakePlaces, CtlInv, Ctl, HolderInv, Holds, EventInv, Waking, pollset, ssi,
         wake
<1>13. AuxInv'
  BY <1>1, <1>2, <1>3 DEF IInv, TypeInv, TypeOK, NOT_WOKEN, WOKEN, WOKEN_INTR, SLEEP, Threads,
         Places, RunPlaces, PrepPlaces, TsePlaces, CheckIoPlaces, PollPlaces, SysPlaces,
         Callers, WakePlaces, CtlInv, Ctl, HolderInv, Holds, AuxInv, AuxDone, Waking, pollset,
         ssi, wake
<1>14. IntrInv'
  BY <1>1, <1>2, <1>3 DEF IInv, TypeInv, TypeOK, NOT_WOKEN, WOKEN, WOKEN_INTR, SLEEP, Threads,
         Places, RunPlaces, PrepPlaces, TsePlaces, CheckIoPlaces, PollPlaces, SysPlaces,
         Callers, WakePlaces, CtlInv, Ctl, HolderInv, Holds, IntrInv, pollset, ssi, wake
<1>15. UpdateInv'
  BY <1>1, <1>2, <1>3 DEF IInv, TypeInv, TypeOK, NOT_WOKEN, WOKEN, WOKEN_INTR, SLEEP, Threads,
         Places, RunPlaces, PrepPlaces, TsePlaces, CheckIoPlaces, PollPlaces, SysPlaces,
         Callers, WakePlaces, CtlInv, Ctl, HolderInv, Holds, UpdateInv, is_woken, pollset, ssi,
         wake
<1>16. TargetInv' /\ RunqInv'
  BY <1>2 DEF IInv, TargetInv, Threads, RunqInv, Waking, pollset, ssi, wake
<1> QED BY <1>4, <1>5, <1>6, <1>7, <1>8, <1>9, <1>10, <1>11, <1>12, <1>13, <1>14, <1>15, <1>16
               DEF IInv

\* wake_scheduler() clears all flags, and wakes the scheduler where they say it sleeps.
LEMMA WakeSchedulerStep ==
  ASSUME IInv, NEW w \in Threads, WakeScheduler(w)
  PROVE  IInv'
<1> USE DEF WakeScheduler, finish_poke, WakeGoto, pollset, sched, sys
<1>1. TypeInv'
  <2>1. target[w] \in Schedulers \cup {NoSched} /\ w \in DOMAIN wpc /\ w \in DOMAIN target
    BY DEF IInv, TypeInv, TypeOK, Threads
  <2>2. PICK l \in {"intr_read", "tse_set", "idle"} : WakeGoto(w, l)
    BY DEF finish_poke
  <2>3. wpc' \in [Threads -> WakePlaces] /\ target' \in [Threads -> Schedulers \cup {NoSched}]
    BY <2>1, <2>2 DEF IInv, TypeInv, TypeOK, WakePlaces
  <2>4. flags' \in [Schedulers -> SUBSET (SLEEP \cup {"WAITING"})]
    BY DEF IInv, TypeInv, TypeOK
  <2>5. UNCHANGED <<wakeup_state, pipe, have_update_requests, ready, pc, ret, more, zero, event,
                    aux_work, rq, waiting, doing_sys_schedule, outstanding_io_tasks>>
    OBVIOUS
  <2> QED BY <2>3, <2>4, <2>5 DEF IInv, TypeInv, TypeOK
<1>2. FlagInv'
  BY DEF IInv, FlagInv, CheckIoPlaces, PollPlaces
<1>3. TargetInv'
  BY DEF IInv, TypeInv, TypeOK, NOT_WOKEN, WOKEN, WOKEN_INTR, SLEEP, Threads, Places, RunPlaces,
         PrepPlaces, TsePlaces, CheckIoPlaces, PollPlaces, SysPlaces, Callers, WakePlaces,
         TargetInv
<1>4. RunqInv'
  BY DEF IInv, TypeInv, TypeOK, NOT_WOKEN, WOKEN, WOKEN_INTR, SLEEP, Threads, Places, RunPlaces,
         PrepPlaces, TsePlaces, CheckIoPlaces, PollPlaces, SysPlaces, Callers, WakePlaces,
         RunqInv, Waking
<1>5. EventInv'
  BY DEF IInv, TypeInv, TypeOK, NOT_WOKEN, WOKEN, WOKEN_INTR, SLEEP, Threads, Places, RunPlaces,
         PrepPlaces, TsePlaces, CheckIoPlaces, PollPlaces, SysPlaces, Callers, WakePlaces,
         FlagInv, EventInv, Waking
<1>6. AuxInv'
  BY DEF IInv, TypeInv, TypeOK, NOT_WOKEN, WOKEN, WOKEN_INTR, SLEEP, Threads, Places, RunPlaces,
         PrepPlaces, TsePlaces, CheckIoPlaces, PollPlaces, SysPlaces, Callers, WakePlaces,
         AuxInv, AuxDone, Waking
<1>7. IntrInv'
  BY DEF IInv, TypeInv, TypeOK, NOT_WOKEN, WOKEN, WOKEN_INTR, SLEEP, Threads, Places, RunPlaces,
         PrepPlaces, TsePlaces, CheckIoPlaces, PollPlaces, SysPlaces, Callers, WakePlaces,
         IntrInv
<1>8. UpdateInv'
  BY DEF IInv, TypeInv, TypeOK, NOT_WOKEN, WOKEN, WOKEN_INTR, SLEEP, Threads, Places, RunPlaces,
         PrepPlaces, TsePlaces, CheckIoPlaces, PollPlaces, SysPlaces, Callers, WakePlaces,
         UpdateInv, is_woken
<1>9. CtlInv' /\ ZeroInv' /\ HolderInv' /\ IoInv' /\ ClearInv' /\ ActiveInv'
  BY DEF IInv, CtlInv, Ctl, RunPlaces, PrepPlaces, CheckIoPlaces, PollPlaces, SysPlaces,
         TsePlaces, ZeroInv, HolderInv, Holds, IoInv, Queued, Executes, ClearInv, Clear,
         ActiveInv
<1> QED BY <1>1, <1>2, <1>3, <1>4, <1>5, <1>6, <1>7, <1>8, <1>9 DEF IInv

\* erts_sched_poke() does nothing for a scheduler that has not set its flag.
LEMMA PokeReadStep ==
  ASSUME IInv, NEW w \in Threads, PokeRead(w)
  PROVE  IInv'
<1> USE DEF PokeRead, WakeGoto, pollset, sched, ssi, sys
<1>1. TypeInv'
  BY DEF IInv, TypeInv, TypeOK, NOT_WOKEN, WOKEN, WOKEN_INTR, SLEEP, Threads, Places, RunPlaces,
         PrepPlaces, TsePlaces, CheckIoPlaces, PollPlaces, SysPlaces, Callers, WakePlaces
<1>2. TargetInv'
  BY DEF IInv, TypeInv, TypeOK, NOT_WOKEN, WOKEN, WOKEN_INTR, SLEEP, Threads, Places, RunPlaces,
         PrepPlaces, TsePlaces, CheckIoPlaces, PollPlaces, SysPlaces, Callers, WakePlaces,
         TargetInv
<1>3. RunqInv'
  BY DEF IInv, RunqInv, Waking, Threads
<1>4. EventInv'
  BY DEF IInv, EventInv, Waking, Threads
<1>5. AuxInv'
  BY DEF IInv, AuxInv, AuxDone, PollPlaces, PrepPlaces, Waking, Threads
<1>6. IntrInv'
  BY DEF IInv, IntrInv, PollPlaces, WOKEN_INTR, Threads
<1>7. UpdateInv'
  BY DEF IInv, UpdateInv, is_woken, NOT_WOKEN, Threads
<1>8. CtlInv' /\ ZeroInv' /\ HolderInv' /\ IoInv' /\ ClearInv' /\ ActiveInv' /\ FlagInv'
  BY DEF IInv, CtlInv, Ctl, RunPlaces, PrepPlaces, CheckIoPlaces, PollPlaces, SysPlaces,
         TsePlaces, ZeroInv, HolderInv, Holds, IoInv, Queued, Executes, ClearInv, Clear,
         ActiveInv, FlagInv
<1> QED BY <1>1, <1>2, <1>3, <1>4, <1>5, <1>6, <1>7, <1>8 DEF IInv

\* erts_sched_poke() clears the sleep flags, and wakes the scheduler where they say it sleeps.
LEMMA PokeStep ==
  ASSUME IInv, NEW w \in Threads, Poke(w)
  PROVE  IInv'
<1> USE DEF Poke, SLEEP, finish_poke, WakeGoto, pollset, sched, sys
<1>1. TypeInv'
  BY DEF IInv, TypeInv, TypeOK, NOT_WOKEN, WOKEN, WOKEN_INTR, Threads, Places, RunPlaces,
         PrepPlaces, TsePlaces, CheckIoPlaces, PollPlaces, SysPlaces, Callers, WakePlaces,
         CtlInv, Ctl
<1>2. FlagInv'
  BY DEF IInv, FlagInv, CheckIoPlaces, PollPlaces
<1>3. TargetInv'
  BY DEF IInv, TypeInv, TypeOK, NOT_WOKEN, WOKEN, WOKEN_INTR, Threads, Places, RunPlaces,
         PrepPlaces, TsePlaces, CheckIoPlaces, PollPlaces, SysPlaces, Callers, WakePlaces,
         TargetInv
<1>4. RunqInv'
  BY DEF IInv, TypeInv, TypeOK, NOT_WOKEN, WOKEN, WOKEN_INTR, Threads, Places, RunPlaces,
         PrepPlaces, TsePlaces, CheckIoPlaces, PollPlaces, SysPlaces, Callers, WakePlaces,
         RunqInv, Waking
<1>5. EventInv'
  BY DEF IInv, TypeInv, TypeOK, NOT_WOKEN, WOKEN, WOKEN_INTR, Threads, Places, RunPlaces,
         PrepPlaces, TsePlaces, CheckIoPlaces, PollPlaces, SysPlaces, Callers, WakePlaces,
         FlagInv, EventInv, Waking
<1>6. AuxInv'
  BY DEF IInv, TypeInv, TypeOK, NOT_WOKEN, WOKEN, WOKEN_INTR, Threads, Places, RunPlaces,
         PrepPlaces, TsePlaces, CheckIoPlaces, PollPlaces, SysPlaces, Callers, WakePlaces,
         AuxInv, AuxDone, Waking
<1>7. IntrInv'
  BY DEF IInv, TypeInv, TypeOK, NOT_WOKEN, WOKEN, WOKEN_INTR, Threads, Places, RunPlaces,
         PrepPlaces, TsePlaces, CheckIoPlaces, PollPlaces, SysPlaces, Callers, WakePlaces,
         IntrInv
<1>8. UpdateInv'
  BY DEF IInv, TypeInv, TypeOK, NOT_WOKEN, WOKEN, WOKEN_INTR, Threads, Places, RunPlaces,
         PrepPlaces, TsePlaces, CheckIoPlaces, PollPlaces, SysPlaces, Callers, WakePlaces,
         UpdateInv, is_woken
<1>9. CtlInv' /\ ZeroInv' /\ HolderInv' /\ IoInv' /\ ClearInv' /\ ActiveInv'
  BY DEF IInv, CtlInv, Ctl, RunPlaces, PrepPlaces, CheckIoPlaces, PollPlaces, SysPlaces,
         TsePlaces, ZeroInv, HolderInv, Holds, IoInv, Queued, Executes, ClearInv, Clear,
         ActiveInv
<1> QED BY <1>1, <1>2, <1>3, <1>4, <1>5, <1>6, <1>7, <1>8, <1>9 DEF IInv

\* The event is set.
LEMMA TseSetStep ==
  ASSUME IInv, NEW w \in Threads, TseSet(w)
  PROVE  IInv'
<1> USE DEF TseSet, WakeGoto, pollset, sched, sys
<1>1. TypeInv'
  BY DEF IInv, TypeInv, TypeOK, NOT_WOKEN, WOKEN, WOKEN_INTR, SLEEP, Threads, Places, RunPlaces,
         PrepPlaces, TsePlaces, CheckIoPlaces, PollPlaces, SysPlaces, Callers, WakePlaces
<1>2. TargetInv'
  BY DEF IInv, TypeInv, TypeOK, NOT_WOKEN, WOKEN, WOKEN_INTR, SLEEP, Threads, Places, RunPlaces,
         PrepPlaces, TsePlaces, CheckIoPlaces, PollPlaces, SysPlaces, Callers, WakePlaces,
         TargetInv
<1>3. RunqInv'
  BY DEF IInv, RunqInv, Waking, Threads
<1>4. EventInv'
  BY DEF IInv, TypeInv, TypeOK, NOT_WOKEN, WOKEN, WOKEN_INTR, SLEEP, Threads, Places, RunPlaces,
         PrepPlaces, TsePlaces, CheckIoPlaces, PollPlaces, SysPlaces, Callers, WakePlaces,
         EventInv, Waking
<1>5. AuxInv'
  BY DEF IInv, AuxInv, AuxDone, PollPlaces, PrepPlaces, Waking, Threads
<1>6. IntrInv'
  BY DEF IInv, IntrInv, PollPlaces, WOKEN_INTR, Threads
<1>7. UpdateInv'
  BY DEF IInv, UpdateInv, is_woken, NOT_WOKEN, Threads
<1>8. CtlInv' /\ ZeroInv' /\ HolderInv' /\ IoInv' /\ ClearInv' /\ ActiveInv' /\ FlagInv'
  BY DEF IInv, CtlInv, Ctl, RunPlaces, PrepPlaces, CheckIoPlaces, PollPlaces, SysPlaces,
         TsePlaces, ZeroInv, HolderInv, Holds, IoInv, Queued, Executes, ClearInv, Clear,
         ActiveInv, FlagInv
<1> QED BY <1>1, <1>2, <1>3, <1>4, <1>5, <1>6, <1>7, <1>8 DEF IInv

\* wakeup_state is read, ...
LEMMA IntrReadStep ==
  ASSUME IInv, NEW w \in Threads, IntrRead(w)
  PROVE  IInv'
<1> USE DEF IntrRead, pollset, sched, ssi, sys
<1>1. TypeInv'
  BY DEF IInv, TypeInv, TypeOK, NOT_WOKEN, WOKEN, WOKEN_INTR, SLEEP, Threads, Places, RunPlaces,
         PrepPlaces, TsePlaces, CheckIoPlaces, PollPlaces, SysPlaces, Callers, WakePlaces
<1>2. TargetInv'
  BY DEF IInv, TargetInv, Threads
<1>3. RunqInv'
  BY DEF IInv, RunqInv, Waking, Threads
<1>4. EventInv'
  BY DEF IInv, EventInv, Waking, Threads
<1>5. AuxInv'
  BY DEF IInv, AuxInv, AuxDone, PollPlaces, PrepPlaces, Waking, Threads
<1>6. IntrInv'
  BY DEF IInv, IntrInv, PollPlaces, WOKEN_INTR, Threads
<1>7. UpdateInv'
  BY DEF IInv, UpdateInv, is_woken, NOT_WOKEN, Threads
<1>8. CtlInv' /\ ZeroInv' /\ HolderInv' /\ IoInv' /\ ClearInv' /\ ActiveInv' /\ FlagInv'
  BY DEF IInv, CtlInv, Ctl, RunPlaces, PrepPlaces, CheckIoPlaces, PollPlaces, SysPlaces,
         TsePlaces, ZeroInv, HolderInv, Holds, IoInv, Queued, Executes, ClearInv, Clear,
         ActiveInv, FlagInv
<1> QED BY <1>1, <1>2, <1>3, <1>4, <1>5, <1>6, <1>7, <1>8 DEF IInv

\* ... set, ...
LEMMA IntrSetStep ==
  ASSUME IInv, NEW w \in Threads, IntrSet(w)
  PROVE  IInv'
<1> USE DEF IntrSet, set_woken_intr, WOKEN_INTR, NOT_WOKEN, sched, ssi, sys
<1>1. TypeInv'
  BY DEF IInv, TypeInv, TypeOK, WOKEN, SLEEP, Threads, Places, RunPlaces, PrepPlaces, TsePlaces,
         CheckIoPlaces, PollPlaces, SysPlaces, Callers, WakePlaces
<1>2. TargetInv'
  BY DEF IInv, TargetInv, Threads
<1>3. RunqInv'
  BY DEF IInv, RunqInv, Waking, Threads
<1>4. EventInv'
  BY DEF IInv, EventInv, Waking, Threads
<1>5. AuxInv'
  BY DEF IInv, AuxInv, AuxDone, PollPlaces, PrepPlaces, Waking, Threads
<1>6. IntrInv'
  BY DEF IInv, IntrInv, PollPlaces, Threads
<1>7. UpdateInv'
  BY DEF IInv, UpdateInv, is_woken, Threads
<1>8. CtlInv' /\ ZeroInv' /\ HolderInv' /\ IoInv' /\ ClearInv' /\ ActiveInv' /\ FlagInv'
  BY DEF IInv, CtlInv, Ctl, RunPlaces, PrepPlaces, CheckIoPlaces, PollPlaces, SysPlaces,
         TsePlaces, ZeroInv, HolderInv, Holds, IoInv, Queued, Executes, ClearInv, Clear,
         ActiveInv, FlagInv
<1> QED BY <1>1, <1>2, <1>3, <1>4, <1>5, <1>6, <1>7, <1>8 DEF IInv

\* ... and the pipe is written to.
LEMMA WriteStep ==
  ASSUME IInv, NEW w \in Threads, Write(w)
  PROVE  IInv'
<1> USE DEF Write, write_pipe, sched, ssi, sys
<1>1. TypeInv'
  BY DEF IInv, TypeInv, TypeOK, NOT_WOKEN, WOKEN, WOKEN_INTR, SLEEP, Threads, Places, RunPlaces,
         PrepPlaces, TsePlaces, CheckIoPlaces, PollPlaces, SysPlaces, Callers, WakePlaces
<1>2. TargetInv'
  BY DEF IInv, TargetInv, Threads
<1>3. RunqInv'
  BY DEF IInv, RunqInv, Waking, Threads
<1>4. EventInv'
  BY DEF IInv, EventInv, Waking, Threads
<1>5. AuxInv'
  BY DEF IInv, AuxInv, AuxDone, PollPlaces, PrepPlaces, Waking, Threads
<1>6. IntrInv'
  BY DEF IInv, IntrInv, PollPlaces, WOKEN_INTR, Threads
<1>7. UpdateInv'
  BY DEF IInv, UpdateInv, is_woken, NOT_WOKEN, Threads
<1>8. CtlInv' /\ ZeroInv' /\ HolderInv' /\ IoInv' /\ ClearInv' /\ ActiveInv' /\ FlagInv'
  BY DEF IInv, CtlInv, Ctl, RunPlaces, PrepPlaces, CheckIoPlaces, PollPlaces, SysPlaces,
         TsePlaces, ZeroInv, HolderInv, Holds, IoInv, Queued, Executes, ClearInv, Clear,
         ActiveInv, FlagInv
<1> QED BY <1>1, <1>2, <1>3, <1>4, <1>5, <1>6, <1>7, <1>8 DEF IInv

\* An update request wakes the poller.
LEMMA SelectWakeStep ==
  ASSUME IInv, NEW w \in Threads, SelectWake(w)
  PROVE  IInv'
<1> USE DEF SelectWake, set_woken, is_woken, NOT_WOKEN, WOKEN, sched, ssi, sys
<1>1. TypeInv'
  BY DEF IInv, TypeInv, TypeOK, WOKEN_INTR, SLEEP, Threads, Places, RunPlaces, PrepPlaces,
         TsePlaces, CheckIoPlaces, PollPlaces, SysPlaces, Callers, WakePlaces
<1>2. TargetInv'
  BY DEF IInv, TargetInv, Threads
<1>3. RunqInv'
  BY DEF IInv, RunqInv, Waking, Threads
<1>4. EventInv'
  BY DEF IInv, EventInv, Waking, Threads
<1>5. AuxInv'
  BY DEF IInv, AuxInv, AuxDone, PollPlaces, PrepPlaces, Waking, Threads
<1>6. IntrInv'
  BY DEF IInv, IntrInv, PollPlaces, WOKEN_INTR, Threads
<1>7. UpdateInv'
  BY DEF IInv, UpdateInv, Threads
<1>8. CtlInv' /\ ZeroInv' /\ HolderInv' /\ IoInv' /\ ClearInv' /\ ActiveInv' /\ FlagInv'
  BY DEF IInv, CtlInv, Ctl, RunPlaces, PrepPlaces, CheckIoPlaces, PollPlaces, SysPlaces,
         TsePlaces, ZeroInv, HolderInv, Holds, IoInv, Queued, Executes, ClearInv, Clear,
         ActiveInv, FlagInv
<1> QED BY <1>1, <1>2, <1>3, <1>4, <1>5, <1>6, <1>7, <1>8 DEF IInv

\* Whoever enqueues goes on to wake the scheduler.
LEMMA EnqueueStep ==
  ASSUME IInv, NEW w \in Wakers, NEW s \in Schedulers, Enqueue(w, s)
  PROVE  IInv'
<1> USE DEF Enqueue, RunqIsLocked, pollset, sched, ssi, sys
<1>1. TypeInv'
  BY DEF IInv, TypeInv, TypeOK, NOT_WOKEN, WOKEN, WOKEN_INTR, SLEEP, Threads, Places, RunPlaces,
         PrepPlaces, TsePlaces, CheckIoPlaces, PollPlaces, SysPlaces, Callers, WakePlaces
<1>2. IoInv'
  BY DEF IInv, IoInv, Queued, Executes
<1>3. TargetInv'
  BY DEF IInv, TypeInv, TypeOK, NOT_WOKEN, WOKEN, WOKEN_INTR, SLEEP, Threads, Places, RunPlaces,
         PrepPlaces, TsePlaces, CheckIoPlaces, PollPlaces, SysPlaces, Callers, WakePlaces,
         TargetInv
<1>4. RunqInv'
  BY DEF IInv, TypeInv, TypeOK, NOT_WOKEN, WOKEN, WOKEN_INTR, SLEEP, Threads, Places, RunPlaces,
         PrepPlaces, TsePlaces, CheckIoPlaces, PollPlaces, SysPlaces, Callers, WakePlaces,
         RunqInv, Waking
<1>5. EventInv'
  BY DEF IInv, EventInv, Waking, Threads
<1>6. AuxInv'
  BY DEF IInv, AuxInv, AuxDone, PollPlaces, PrepPlaces, Waking, Threads
<1>7. IntrInv'
  BY DEF IInv, IntrInv, PollPlaces, WOKEN_INTR, Threads
<1>8. UpdateInv'
  BY DEF IInv, UpdateInv, is_woken, NOT_WOKEN, Threads
<1>9. CtlInv' /\ ZeroInv' /\ HolderInv' /\ ClearInv' /\ ActiveInv' /\ FlagInv'
  BY DEF IInv, CtlInv, Ctl, RunPlaces, PrepPlaces, CheckIoPlaces, PollPlaces, SysPlaces,
         TsePlaces, ZeroInv, HolderInv, Holds, ClearInv, Clear, ActiveInv, FlagInv
<1> QED BY <1>1, <1>2, <1>3, <1>4, <1>5, <1>6, <1>7, <1>8, <1>9 DEF IInv

\* Whoever requests aux work goes on to poke the scheduler.
LEMMA RequestAuxWorkStep ==
  ASSUME IInv, NEW w \in Wakers, NEW s \in Schedulers, RequestAuxWork(w, s)
  PROVE  IInv'
<1> USE DEF RequestAuxWork, pollset, sched, sys
<1>1. TypeInv'
  BY AuxAssumption DEF IInv, TypeInv, TypeOK, WakePlaces, Threads
<1>2. TargetInv'
  BY DEF IInv, TypeInv, TypeOK, NOT_WOKEN, WOKEN, WOKEN_INTR, SLEEP, Threads, Places, RunPlaces,
         PrepPlaces, TsePlaces, CheckIoPlaces, PollPlaces, SysPlaces, Callers, WakePlaces,
         TargetInv
<1>3. RunqInv'
  BY DEF IInv, RunqInv, Waking, Threads
<1>4. EventInv'
  BY DEF IInv, EventInv, Waking, Threads
<1>5. AuxInv'
  BY DEF IInv, TypeInv, TypeOK, NOT_WOKEN, WOKEN, WOKEN_INTR, SLEEP, Threads, Places, RunPlaces,
         PrepPlaces, TsePlaces, CheckIoPlaces, PollPlaces, SysPlaces, Callers, WakePlaces,
         AuxInv, AuxDone, Waking
<1>6. IntrInv'
  BY DEF IInv, IntrInv, PollPlaces, WOKEN_INTR, Threads
<1>7. UpdateInv'
  BY DEF IInv, UpdateInv, is_woken, NOT_WOKEN, Threads
<1>8. CtlInv' /\ ZeroInv' /\ HolderInv' /\ IoInv' /\ ClearInv' /\ ActiveInv' /\ FlagInv'
  BY DEF IInv, CtlInv, Ctl, RunPlaces, PrepPlaces, CheckIoPlaces, PollPlaces, SysPlaces,
         TsePlaces, ZeroInv, HolderInv, Holds, IoInv, Queued, Executes, ClearInv, Clear,
         ActiveInv, FlagInv
<1> QED BY <1>1, <1>2, <1>3, <1>4, <1>5, <1>6, <1>7, <1>8 DEF IInv

\* Whoever enqueues an update request goes on to wake the poller.
LEMMA SelectStep ==
  ASSUME IInv, NEW w \in Wakers, Select(w)
  PROVE  IInv'
<1> USE DEF Select, enqueue_update_request, sched, ssi, sys
<1>1. TypeInv'
  BY DEF IInv, TypeInv, TypeOK, NOT_WOKEN, WOKEN, WOKEN_INTR, SLEEP, Threads, Places, RunPlaces,
         PrepPlaces, TsePlaces, CheckIoPlaces, PollPlaces, SysPlaces, Callers, WakePlaces
<1>2. TargetInv'
  BY DEF IInv, TargetInv, Threads
<1>3. RunqInv'
  BY DEF IInv, RunqInv, Waking, Threads
<1>4. EventInv'
  BY DEF IInv, EventInv, Waking, Threads
<1>5. AuxInv'
  BY DEF IInv, AuxInv, AuxDone, PollPlaces, PrepPlaces, Waking, Threads
<1>6. IntrInv'
  BY DEF IInv, IntrInv, PollPlaces, WOKEN_INTR, Threads
<1>7. UpdateInv'
  BY DEF IInv, TypeInv, TypeOK, NOT_WOKEN, WOKEN, WOKEN_INTR, SLEEP, Threads, Places, RunPlaces,
         PrepPlaces, TsePlaces, CheckIoPlaces, PollPlaces, SysPlaces, Callers, WakePlaces,
         UpdateInv, is_woken
<1>8. CtlInv' /\ ZeroInv' /\ HolderInv' /\ IoInv' /\ ClearInv' /\ ActiveInv' /\ FlagInv'
  BY DEF IInv, CtlInv, Ctl, RunPlaces, PrepPlaces, CheckIoPlaces, PollPlaces, SysPlaces,
         TsePlaces, ZeroInv, HolderInv, Holds, IoInv, Queued, Executes, ClearInv, Clear,
         ActiveInv, FlagInv
<1> QED BY <1>1, <1>2, <1>3, <1>4, <1>5, <1>6, <1>7, <1>8 DEF IInv

\* The file descriptor is no part of the invariant.
LEMMA DataArrivesStep ==
  ASSUME IInv, DataArrives
  PROVE  IInv'
<1> USE DEF DataArrives, Readable, sched, ssi, sys, wake
<1>1. TypeInv'
  BY DEF IInv, TypeInv, TypeOK, NOT_WOKEN, WOKEN, WOKEN_INTR, SLEEP, Threads, Places, RunPlaces,
         PrepPlaces, TsePlaces, CheckIoPlaces, PollPlaces, SysPlaces, Callers, WakePlaces
<1>2. CtlInv' /\ ZeroInv' /\ HolderInv' /\ IoInv' /\ ClearInv' /\ ActiveInv' /\ FlagInv' /\
      TargetInv' /\ RunqInv' /\ EventInv' /\ AuxInv' /\ IntrInv' /\ UpdateInv'
  BY DEF IInv, CtlInv, Ctl, RunPlaces, PrepPlaces, CheckIoPlaces, PollPlaces, SysPlaces,
         TsePlaces, ZeroInv, HolderInv, Holds, IoInv, Queued, Executes, ClearInv, Clear,
         ActiveInv, FlagInv, TargetInv, Threads, RunqInv, Waking, EventInv, AuxInv, AuxDone,
         IntrInv, WOKEN_INTR, UpdateInv, is_woken, NOT_WOKEN
<1> QED BY <1>1, <1>2 DEF IInv

-----------------------------------------------------------------------------
(* The invariant is inductive.                                             *)

\* Schedulers start at work, with nothing to do for anybody.
LEMMA InitInv == Init => IInv
<1> SUFFICES ASSUME Init PROVE IInv
  OBVIOUS
<1>1. TypeInv
  <2>1. aux_work \in [Schedulers -> 0 .. AuxPieces] /\ waiting \in [Schedulers -> -1 .. 1]
    BY AuxAssumption DEF Init
  <2>2. pc \in [Schedulers -> Places] /\ ret \in [Schedulers -> Callers]
    BY DEF Init, Places, RunPlaces, Callers
  <2>3. wpc \in [Threads -> WakePlaces]
    BY DEF Init, WakePlaces
  <2>4. /\ wakeup_state \in {NOT_WOKEN, WOKEN, WOKEN_INTR}
        /\ {pipe, have_update_requests, ready} \subseteq BOOLEAN
    BY DEF Init, PollInit
  <2>5. /\ flags \in [Schedulers -> SUBSET (SLEEP \cup {"WAITING"})]
        /\ rq \in [Schedulers -> SUBSET {"proc", "io"}]
        /\ target \in [Threads -> Schedulers \cup {NoSched}] /\ outstanding_io_tasks \in 0 .. 1
    BY DEF Init
  <2>6. /\ event \in [Schedulers -> BOOLEAN] /\ more \in [Schedulers -> BOOLEAN]
        /\ zero \in [Schedulers -> BOOLEAN] /\ doing_sys_schedule \in BOOLEAN
    BY DEF Init
  <2> QED BY <2>1, <2>2, <2>3, <2>4, <2>5, <2>6 DEF TypeInv, TypeOK
<1>2. CtlInv /\ ZeroInv /\ ClearInv /\ FlagInv
  BY DEF Init, CtlInv, Ctl, RunPlaces, ZeroInv, ClearInv, Clear, PollPlaces, FlagInv
<1>3. HolderInv /\ IoInv
  BY DEF Init, HolderInv, Holds, CheckIoPlaces, PollPlaces, SysPlaces, IoInv, Queued, Executes
<1>4. ActiveInv
  BY ThreadAssumption DEF Init, ActiveInv
<1>5. TargetInv /\ RunqInv /\ EventInv /\ AuxInv
  BY DEF Init, TargetInv, RunqInv, EventInv, AuxInv
<1>6. IntrInv /\ UpdateInv
  BY DEF Init, IntrInv, PollPlaces, UpdateInv
<1> QED BY <1>1, <1>2, <1>3, <1>4, <1>5, <1>6 DEF IInv

LEMMA StutterInv ==
  ASSUME IInv, UNCHANGED vars
  PROVE  IInv'
<1>1. UNCHANGED <<wakeup_state, pipe, have_update_requests, ready, pc, ret, more, zero, res,
                  flags, event, aux_work, rq, waiting, doing_sys_schedule,
                  outstanding_io_tasks, wpc, target, seen>>
  BY DEF vars, pollset, sched, ssi, sys, wake
<1>2. TypeInv' /\ CtlInv' /\ ZeroInv' /\ HolderInv'
  BY <1>1 DEF IInv, TypeInv, TypeOK, CtlInv, Ctl, ZeroInv, HolderInv, Holds
<1>3. IoInv' /\ ClearInv' /\ ActiveInv' /\ FlagInv' /\ TargetInv'
  BY <1>1 DEF IInv, IoInv, Queued, Executes, ClearInv, Clear, ActiveInv, FlagInv, TargetInv
<1>4. RunqInv' /\ EventInv' /\ AuxInv'
  BY <1>1 DEF IInv, RunqInv, EventInv, AuxInv, AuxDone, Waking
<1>5. IntrInv' /\ UpdateInv'
  BY <1>1 DEF IInv, IntrInv, UpdateInv, is_woken
<1> QED BY <1>2, <1>3, <1>4, <1>5 DEF IInv

LEMMA NextInv == IInv /\ [Next]_vars => IInv'
<1> SUFFICES ASSUME IInv, [Next]_vars PROVE IInv'
  OBVIOUS
<1>1. ASSUME NEW s \in Schedulers, Run(s) PROVE IInv'
  BY <1>1, RunProcessStep, RunPortStep, RunPortDoneStep, RunAuxWorkStep, PollBusyStep, WaitStep
     DEF Run
<1>2. ASSUME NEW s \in Schedulers, Prepare(s) PROVE IInv'
  BY <1>2, PrepIoStep, try_set_sys_schedulingStep, PrepCheckIoStep DEF Prepare
<1>3. ASSUME NEW s \in Schedulers, WaitTse(s) PROVE IInv'
  BY <1>3, TseAuxWorkStep, TseSpinStep, TseSetTypeStep, TseWaitStep, TseContStep DEF WaitTse
<1>4. ASSUME NEW s \in Schedulers, WaitSys(s) PROVE IInv'
  BY <1>4, SysAuxWorkStep, SysFlagsStep, SysLoopIoStep, SysSleepIoStep, SysResetStep,
     SysSetTypeStep, SysContStep, SysWokenStep DEF WaitSys
<1>5. ASSUME NEW s \in Schedulers, Poll(s) \/ PollTimeout(s) PROVE IInv'
  BY <1>5, PollInStep, PollUpdateStep, PollFdsStep, PollTimeoutStep, PollWokeUpStep,
     PollSaveStep, PollInterruptedStep, PollIoStep, PollReturnStep DEF Poll
<1>6. ASSUME NEW w \in Wakers, Request(w) PROVE IInv'
  BY <1>6, SelectStep, EnqueueStep, RequestAuxWorkStep DEF Request
<1>7. ASSUME NEW w \in Threads, WakeStep(w) PROVE IInv'
  BY <1>7, WakeSchedulerStep, PokeReadStep, PokeStep, TseSetStep, IntrReadStep, IntrSetStep,
     WriteStep, SelectWakeStep DEF WakeStep
<1>8. CASE DataArrives
  BY <1>8, DataArrivesStep
<1>9. CASE UNCHANGED vars
  BY <1>9, StutterInv
<1> QED
  BY <1>1, <1>2, <1>3, <1>4, <1>5, <1>6, <1>7, <1>8, <1>9 DEF Next, Sched

\* Every reachable state satisfies the invariant: the sleep flags, the right to
\* poll, the counts and the wakeups under way agree with where the threads are.
THEOREM Invariance == Spec => []IInv
BY InitInv, NextInv, PTL DEF Spec

-----------------------------------------------------------------------------
(* What the invariant says about the properties.                           *)

\* Type correctness; outstanding_io_tasks never exceeds one task.
THEOREM TypeCorrect == Spec => []TypeOK
<1>1. IInv => TypeOK
  BY DEF IInv, TypeInv
<1> QED BY <1>1, Invariance, PTL

\* One scheduler at a time is in erl_sys_schedule(), and only while no I/O task
\* is to be executed, whatever the number of schedulers.
THEOREM PollExclusive == Spec => []PollIsExclusive
<1>1. ASSUME IInv PROVE PollIsExclusive
  <2> DEFINE S == {s \in Schedulers : pc[s] \in PollPlaces}
  <2>1. \A s, u \in S : s = u
    BY <1>1 DEF IInv, HolderInv, Holds, CheckIoPlaces
  <2>2. Cardinality(S) <= 1
    <3>1. CASE S = {}
      BY <3>1, FS_EmptySet
    <3>2. CASE S # {}
      <4>1. PICK s \in S : TRUE
        BY <3>2
      <4>2. S = {s}
        BY <2>1, <4>1
      <4> QED BY <4>2, FS_Singleton
    <3> QED BY <3>1, <3>2
  <2>3. (\E s \in Schedulers : pc[s] \in PollPlaces) => outstanding_io_tasks = 0
    BY <1>1 DEF IInv, ClearInv, Clear
  <2> QED BY <2>2, <2>3 DEF PollIsExclusive
<1> QED BY <1>1, Invariance, PTL

\* rq->waiting is right on every way through scheduler_wait(), and so is its sign while
\* the scheduler polls.
THEOREM WaitingExact == Spec => []WaitingIsExact
<1>1. ASSUME IInv PROVE WaitingIsExact
  <2> SUFFICES ASSUME NEW s \in Schedulers
               PROVE  /\ waiting[s] = 0 <=> ~WaitsForEvent(s) /\ ~WaitsInPoll(s)
                      /\ WaitsInPoll(s) => waiting[s] = -1
                      /\ WaitsForEvent(s) => waiting[s] \in {-1, 1}
    BY DEF WaitingIsExact
  <2> QED BY <1>1 DEF IInv, CtlInv, Ctl, RunPlaces, PrepPlaces, CheckIoPlaces, SysPlaces,
                      TsePlaces, PollPlaces, WaitsForEvent, WaitsInPoll
<1> QED BY <1>1, Invariance, PTL

\* A scheduler that waits for its event with nobody about to set it has its
\* flags set, and nothing to do.
LEMMA AsleepHasNothing ==
  ASSUME IInv, \A w \in Threads : wpc[w] = "idle", NEW s \in Schedulers, Asleep(s)
  PROVE  rq[s] = {} /\ ~(aux_work[s] > 0)
<1>1. "TSE_SLEEPING" \in flags[s]
  BY DEF IInv, EventInv, Waking, Asleep
<1>2. "SLEEPING" \in flags[s] /\ "WAITING" \in flags[s]
  BY <1>1 DEF IInv, FlagInv
<1> QED BY <1>2 DEF IInv, RunqInv, AuxInv, AuxDone, Waking, Asleep

\* Not all schedulers sleep on their events: when nobody is about to be woken one
\* of them polls, runs, or will look whether it may poll.
THEOREM SomebodyPolls == Spec => []OnePolls
<1>1. ASSUME IInv PROVE OnePolls
  <2> SUFFICES ASSUME \A s \in Schedulers : Asleep(s), \A w \in Threads : wpc[w] = "idle"
               PROVE  FALSE
    BY DEF OnePolls
  <2>1. \A s \in Schedulers : pc[s] = "tse_wait" /\ rq[s] = {}
    BY <1>1, AsleepHasNothing DEF Asleep
  <2>2. ~doing_sys_schedule
    BY <1>1, <2>1 DEF IInv, HolderInv, Holds, CheckIoPlaces, PollPlaces, SysPlaces
  <2>3. outstanding_io_tasks # 1
    BY <1>1, <2>1 DEF IInv, IoInv, Queued, Executes
  <2> QED BY <1>1, <2>1, <2>2, <2>3 DEF IInv, ActiveInv
<1> QED BY <1>1, Invariance, PTL

\* No wakeup is lost but by the poller that takes itself for woken: whoever else
\* sleeps, on its event or in poll(), has no process, port, aux work or update
\* request that others have notified.
THEOREM OnlyDeafSleeps == Spec => []OnlyTheDeafSleep
<1>1. ASSUME IInv PROVE OnlyTheDeafSleep
  <2> SUFFICES ASSUME NEW s \in Schedulers, Forgotten(s) PROVE Deaf
    BY DEF OnlyTheDeafSleep
  <2>1. /\ \A w \in Threads : wpc[w] = "idle"
        /\ Sleeps(s)
        /\ \/ rq[s] # {} \/ aux_work[s] > 0
           \/ pc[s] = "poll_fds" /\ have_update_requests
    BY DEF Forgotten
  <2>2. CASE Asleep(s)
    BY <1>1, <2>1, <2>2, AsleepHasNothing DEF Asleep
  <2>3. CASE pc[s] = "poll_fds" /\ ~zero[s] /\ Pollable = {}
    <3>1. ret[s] = "doze" /\ ~pipe
      BY <1>1, <2>3 DEF IInv, ZeroInv, Pollable
    <3>2. CASE "POLL_SLEEPING" \in flags[s]
      <4>1. "SLEEPING" \in flags[s] /\ "WAITING" \in flags[s]
        BY <1>1, <3>2 DEF IInv, FlagInv
      <4>2. rq[s] = {}
        BY <1>1, <2>1, <4>1 DEF IInv, RunqInv, Waking
      <4>3. ~(aux_work[s] > 0)
        BY <1>1, <2>1, <2>3, <3>1, <4>1 DEF IInv, AuxInv, AuxDone, PollPlaces, Waking
      <4>4. is_woken
        BY <1>1, <2>1, <2>3, <4>2, <4>3 DEF IInv, UpdateInv
      <4> QED BY <2>3, <3>1, <4>4 DEF Deaf
    <3>3. CASE "POLL_SLEEPING" \notin flags[s]
      <4>1. wakeup_state = WOKEN_INTR
        BY <1>1, <2>1, <2>3, <3>1, <3>3 DEF IInv, IntrInv, PollPlaces
      <4>2. is_woken
        BY <4>1 DEF is_woken, WOKEN_INTR, NOT_WOKEN
      <4> QED BY <2>3, <3>1, <4>2 DEF Deaf
    <3> QED BY <3>2, <3>3
  <2> QED BY <2>1, <2>2, <2>3 DEF Sleeps
<1> QED BY <1>1, Invariance, PTL
=============================================================================

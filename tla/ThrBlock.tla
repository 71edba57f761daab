------------------------------ MODULE ThrBlock ------------------------------
(***************************************************************************)
(* Thread progress blocking: erl_thr_progress.c.  A managed thread stops   *)
(* all other managed threads.  block_count counts the threads that run; a  *)
(* thread leaves the count when it sleeps and when it is stopped in        *)
(* block_thread(), and the blocker waits until the count is zero.          *)
(*                                                                         *)
(* A thread reads the BLOCK flag whenever it updates its progress; of the  *)
(* rest of ThrProgress only what blocking touches is here.                 *)
(***************************************************************************)
EXTENDS Integers, FiniteSets

CONSTANTS NoManaged,   \* intrnl->managed.no
          MaxBlocks,   \* bound: how many times threads start to block
          MaxNesting   \* bound: how deep one thread nests blocks

ASSUME NoManagedAssumption == NoManaged \in Nat \ {0}
ASSUME BoundsAssumption == MaxBlocks \in Nat /\ MaxNesting \in Nat \ {0}

Managed == 0 .. NoManaged - 1

VARIABLES
  block,         \* ERTS_THR_PRGR_LFLG_BLOCK in lflgs
  block_count,   \* block_count without its flag
  not_blocking,  \* ERTS_THR_PRGR_BC_FLG_NOT_BLOCKING in block_count
  event,         \* blocker_event: "null", or an event that is "reset" or "set"
  thr_waiting,   \* intrnl->thr[id].data.current = ERTS_THR_PRGR_VAL_WAITING
  sleeping,      \* ERTS_SSI_FLG_SLEEPING of a thread
  is_blocking,   \* tpd->is_blocking
  pc,            \* where a thread is
  back,          \* where it continues after block_thread()
  id,            \* the loop variable of erts_thr_progress_unblock
  blocks         \* blocks started so far

count == <<block_count, not_blocking>>
vars == <<block, block_count, not_blocking, event, thr_waiting, sleeping,
          is_blocking, pc, back, id, blocks>>

Init ==
  /\ block = FALSE
  /\ block_count = NoManaged /\ not_blocking = TRUE
  /\ event = "null"
  /\ thr_waiting = [t \in Managed |-> FALSE]
  /\ sleeping = [t \in Managed |-> FALSE]
  /\ is_blocking = [t \in Managed |-> 0]
  /\ pc = [t \in Managed |-> "run"] /\ back = [t \in Managed |-> "run"]
  /\ id = [t \in Managed |-> 0]
  /\ blocks = 0

Goto(t, from, to) == pc[t] = from /\ pc' = [pc EXCEPT ![t] = to]

-----------------------------------------------------------------------------
(* block_thread(): called by a thread that has seen that others block.     *)

\* block_count_dec() reports whether the count is zero now.
block_count_dec(t, from, zero, other) ==
  /\ block_count' = block_count - 1
  /\ Goto(t, from, IF block_count' = 0 /\ ~not_blocking THEN zero ELSE other)
  /\ UNCHANGED not_blocking

\* The last one to leave signals the blocker.
SetEvent(t, from, to) ==
  /\ Goto(t, from, to)
  /\ event' = IF event = "null" THEN "null" ELSE "set"
  /\ UNCHANGED <<block, count, thr_waiting, sleeping, is_blocking, back, id, blocks>>

BlockDec(t) ==
  /\ block_count_dec(t, "dec", "signal", "prepare")
  /\ UNCHANGED <<block, event, thr_waiting, sleeping, is_blocking, back, id, blocks>>

BlockSignal(t) == SetEvent(t, "signal", "prepare")

\* The prepare_wait callback; from here on a wakeup is not lost.
BlockPrepare(t) ==
  /\ Goto(t, "prepare", "stop")
  /\ sleeping' = [sleeping EXCEPT ![t] = TRUE]
  /\ UNCHANGED <<block, count, event, thr_waiting, is_blocking, back, id, blocks>>

BlockReadFlag(t) ==
  /\ Goto(t, "stop", IF block THEN "stopped" ELSE "inc")
  /\ UNCHANGED <<block, count, event, thr_waiting, sleeping, is_blocking, back, id, blocks>>

\* The wait callback returns.
BlockWoken(t) ==
  /\ ~sleeping[t] /\ Goto(t, "stopped", "prepare")
  /\ UNCHANGED <<block, count, event, thr_waiting, sleeping, is_blocking, back, id, blocks>>

\* Mutant: stops again without leaving the count.
IncWithoutDec(t) ==
  /\ block_count' = block_count + 1
  /\ IF not_blocking
     THEN Goto(t, "inc", back[t]) /\ sleeping' = [sleeping EXCEPT ![t] = FALSE]
     ELSE Goto(t, "inc", "prepare") /\ UNCHANGED sleeping
  /\ UNCHANGED <<block, not_blocking, event, thr_waiting, is_blocking, back, id, blocks>>

\* block_count_inc(): out again if someone blocks by now.
BlockInc(t) ==
  /\ block_count' = block_count + 1
  /\ IF not_blocking
     THEN Goto(t, "inc", back[t]) /\ sleeping' = [sleeping EXCEPT ![t] = FALSE]
     ELSE Goto(t, "inc", "dec") /\ UNCHANGED sleeping
  /\ UNCHANGED <<block, not_blocking, event, thr_waiting, is_blocking, back, id, blocks>>

block_thread(t) == \/ BlockDec(t) \/ BlockSignal(t) \/ BlockPrepare(t)
                   \/ BlockReadFlag(t) \/ BlockWoken(t) \/ BlockInc(t)

-----------------------------------------------------------------------------
(* Running, sleeping and waking up.                                        *)

\* update() and leader_update() stop the thread when the flag is set.
UpdateBlocks(t) ==
  /\ block
  /\ \E from \in {"run", "update"} : Goto(t, from, "dec")
  /\ back' = [back EXCEPT ![t] = "run"]
  /\ UNCHANGED <<block, count, event, thr_waiting, sleeping, is_blocking, id, blocks>>

UpdatePasses(t) ==
  /\ ~block /\ Goto(t, "update", "run")
  /\ UNCHANGED <<block, count, event, thr_waiting, sleeping, is_blocking, back, id, blocks>>

\* No work: sched_prep_spin_wait(),
FallAsleep(t) ==
  /\ Goto(t, "run", "sleep_dec")
  /\ sleeping' = [sleeping EXCEPT ![t] = TRUE]
  /\ UNCHANGED <<block, count, event, thr_waiting, is_blocking, back, id, blocks>>

\* then erts_thr_progress_prepare_wait().
PrepareWaitDec(t) ==
  /\ block_count_dec(t, "sleep_dec", "sleep_signal", "sleep_thr")
  /\ UNCHANGED <<block, event, thr_waiting, sleeping, is_blocking, back, id, blocks>>

PrepareWaitSignal(t) == SetEvent(t, "sleep_signal", "sleep_thr")

PrepareWaitSet(t) ==
  /\ Goto(t, "sleep_thr", "sleep")
  /\ thr_waiting' = [thr_waiting EXCEPT ![t] = TRUE]
  /\ UNCHANGED <<block, count, event, sleeping, is_blocking, back, id, blocks>>

\* Work arrives for a thread that sleeps or is stopped: erts_sched_poke().
Poke(t) ==
  /\ pc[t] \in {"sleep", "stopped"} /\ sleeping[t]
  /\ sleeping' = [sleeping EXCEPT ![t] = FALSE]
  /\ UNCHANGED <<block, count, event, thr_waiting, is_blocking, pc, back, id, blocks>>

\* erts_thr_progress_finalize_wait()
FinalizeWaitSet(t) ==
  /\ ~sleeping[t] /\ Goto(t, "sleep", "wake_inc")
  /\ thr_waiting' = [thr_waiting EXCEPT ![t] = FALSE]
  /\ UNCHANGED <<block, count, event, sleeping, is_blocking, back, id, blocks>>

\* Mutant: a thread that wakes up does not look whether others block.
WakeUnchecked(t) ==
  /\ block_count' = block_count + 1
  /\ Goto(t, "wake_inc", "update")
  /\ UNCHANGED <<block, not_blocking, event, thr_waiting, sleeping, is_blocking, back, id, blocks>>

FinalizeWaitInc(t) ==
  /\ block_count' = block_count + 1
  /\ IF not_blocking
     THEN Goto(t, "wake_inc", "update") /\ UNCHANGED back
     ELSE Goto(t, "wake_inc", "dec") /\ back' = [back EXCEPT ![t] = "update"]
  /\ UNCHANGED <<block, not_blocking, event, thr_waiting, sleeping, is_blocking, id, blocks>>

-----------------------------------------------------------------------------
(* erts_thr_progress_block()                                               *)

StartBlock(t) ==
  /\ blocks < MaxBlocks /\ Goto(t, "run", "try")
  /\ blocks' = blocks + 1
  /\ is_blocking' = [is_blocking EXCEPT ![t] = 1]
  /\ UNCHANGED <<block, count, event, thr_waiting, sleeping, back, id>>

\* A thread that blocks already only counts.
NestBlock(t) ==
  /\ pc[t] = "blocking" /\ is_blocking[t] < MaxNesting
  /\ is_blocking' = [is_blocking EXCEPT ![t] = @ + 1]
  /\ UNCHANGED <<block, count, event, thr_waiting, sleeping, pc, back, id, blocks>>

\* erts_atomic32_read_bor_nob decides between the threads that try.
TryBlock(t) ==
  /\ block' = TRUE
  /\ IF block
     THEN Goto(t, "try", "dec") /\ back' = [back EXCEPT ![t] = "try"]
     ELSE Goto(t, "try", "event") /\ UNCHANGED back
  /\ UNCHANGED <<count, event, thr_waiting, sleeping, is_blocking, id, blocks>>

BlockEvent(t) ==
  /\ Goto(t, "event", "own_dec")
  /\ event' = "reset"
  /\ UNCHANGED <<block, count, thr_waiting, sleeping, is_blocking, back, id, blocks>>

\* The blocker itself does not count.
BlockOwnDec(t) ==
  /\ Goto(t, "own_dec", "clear")
  /\ block_count' = block_count - 1
  /\ UNCHANGED <<block, not_blocking, event, thr_waiting, sleeping, is_blocking, back, id, blocks>>

BlockClearFlag(t) ==
  /\ Goto(t, "clear", IF block_count = 0 THEN "blocking" ELSE "await")
  /\ not_blocking' = FALSE
  /\ UNCHANGED <<block, block_count, event, thr_waiting, sleeping, is_blocking, back, id, blocks>>

\* erts_tse_wait() and erts_tse_reset(), then the count again.
BlockEventSet(t) ==
  /\ event = "set" /\ Goto(t, "await", "recount")
  /\ event' = "reset"
  /\ UNCHANGED <<block, count, thr_waiting, sleeping, is_blocking, back, id, blocks>>

BlockRecount(t) ==
  /\ Goto(t, "recount", IF block_count = 0 THEN "blocking" ELSE "await")
  /\ UNCHANGED <<block, count, event, thr_waiting, sleeping, is_blocking, back, id, blocks>>

thr_progress_block(t) ==
  \/ TryBlock(t) \/ BlockEvent(t) \/ BlockOwnDec(t) \/ BlockClearFlag(t)
  \/ BlockEventSet(t) \/ BlockRecount(t)

-----------------------------------------------------------------------------
(* erts_thr_progress_unblock()                                             *)

Unnest(t) ==
  /\ pc[t] = "blocking" /\ is_blocking[t] > 1
  /\ is_blocking' = [is_blocking EXCEPT ![t] = @ - 1]
  /\ UNCHANGED <<block, count, event, thr_waiting, sleeping, pc, back, id, blocks>>

NextId(i) == IF i + 1 >= NoManaged THEN 0 ELSE i + 1

UnblockInc(t) ==
  /\ is_blocking[t] = 1 /\ Goto(t, "blocking", "un_event")
  /\ is_blocking' = [is_blocking EXCEPT ![t] = 0]
  /\ block_count' = block_count + 1
  /\ id' = [id EXCEPT ![t] = NextId(t)]
  /\ UNCHANGED <<block, not_blocking, event, thr_waiting, sleeping, back, blocks>>

UnblockEvent(t) ==
  /\ Goto(t, "un_event", "un_count")
  /\ event' = "null"
  /\ UNCHANGED <<block, count, thr_waiting, sleeping, is_blocking, back, id, blocks>>

UnblockSetFlag(t) ==
  /\ Goto(t, "un_count", "un_flag")
  /\ not_blocking' = TRUE
  /\ UNCHANGED <<block, block_count, event, thr_waiting, sleeping, is_blocking, back, id, blocks>>

UnblockClearFlag(t) ==
  /\ Goto(t, "un_flag", IF id[t] = t THEN "run" ELSE "un_wake")
  /\ block' = FALSE
  /\ UNCHANGED <<count, event, thr_waiting, sleeping, is_blocking, back, id, blocks>>

\* Mutant: the test for sleeping threads is the wrong way round.
WakeSleepers(t) ==
  /\ Goto(t, "un_wake", IF NextId(id[t]) = t THEN "run" ELSE "un_wake")
  /\ sleeping' = [sleeping EXCEPT ![id[t]] = @ /\ ~thr_waiting[id[t]]]
  /\ id' = [id EXCEPT ![t] = NextId(@)]
  /\ UNCHANGED <<block, count, event, thr_waiting, is_blocking, back, blocks>>

\* Wakes the threads that do not sleep on their own account.
UnblockWake(t) ==
  /\ Goto(t, "un_wake", IF NextId(id[t]) = t THEN "run" ELSE "un_wake")
  /\ sleeping' = [sleeping EXCEPT ![id[t]] = @ /\ thr_waiting[id[t]]]
  /\ id' = [id EXCEPT ![t] = NextId(@)]
  /\ UNCHANGED <<block, count, event, thr_waiting, is_blocking, back, blocks>>

erts_thr_progress_unblock(t) ==
  \/ Unnest(t) \/ UnblockInc(t) \/ UnblockEvent(t) \/ UnblockSetFlag(t)
  \/ UnblockClearFlag(t) \/ UnblockWake(t)

-----------------------------------------------------------------------------
\* What a thread does without new work.
Step(t) ==
  \/ block_thread(t) \/ UpdateBlocks(t) \/ UpdatePasses(t)
  \/ PrepareWaitDec(t) \/ PrepareWaitSignal(t) \/ PrepareWaitSet(t)
  \/ FinalizeWaitSet(t) \/ FinalizeWaitInc(t)
  \/ thr_progress_block(t) \/ erts_thr_progress_unblock(t)

Next == \E t \in Managed :
          Step(t) \/ FallAsleep(t) \/ Poke(t) \/ StartBlock(t) \/ NestBlock(t)

Spec == Init /\ [][Next]_vars

\* Threads go on, and who blocks unblocks in the end; new work, sleep and new
\* blocks need not come.
FairSpec == /\ Spec
            /\ \A t \in Managed : WF_vars(Step(t)) /\ SF_vars(UnblockInc(t))

-----------------------------------------------------------------------------
(* Properties.                                                             *)

\* Where a thread is counted.
CountedPlaces == {"run", "update", "sleep_dec", "dec", "try", "event", "own_dec",
                  "un_event", "un_count", "un_flag", "un_wake"}
Counted == {t \in Managed : pc[t] \in CountedPlaces}

\* Where a thread has the block flag.
Holders == {t \in Managed : pc[t] \in
             {"event", "own_dec", "clear", "await", "recount", "blocking",
              "un_event", "un_count", "un_flag"}}

\* Where a thread runs its own code, or is about to.
Running == {t \in Managed : pc[t] \in
             {"run", "update", "sleep_dec", "try", "un_wake"}}

Places == {"run", "update", "dec", "signal", "prepare", "stop", "stopped", "inc",
           "sleep_dec", "sleep_signal", "sleep_thr", "sleep", "wake_inc",
           "try", "event", "own_dec", "clear", "await", "recount", "blocking",
           "un_event", "un_count", "un_flag", "un_wake"}

\* Types; a thread never leaves the count twice.
TypeOK ==
  /\ block \in BOOLEAN /\ not_blocking \in BOOLEAN
  /\ block_count \in 0 .. NoManaged
  /\ event \in {"null", "reset", "set"}
  /\ thr_waiting \in [Managed -> BOOLEAN] /\ sleeping \in [Managed -> BOOLEAN]
  /\ is_blocking \in [Managed -> 0 .. MaxNesting]
  /\ pc \in [Managed -> Places]
  /\ back \in [Managed -> {"run", "update", "try"}]
  /\ id \in [Managed -> Managed]
  /\ blocks \in 0 .. MaxBlocks

\* While a thread blocks, no other managed thread runs, and no other blocks.
BlockIsExclusive ==
  \A t \in Managed : pc[t] = "blocking" => Running = {} /\ Holders = {t}

\* The count the blocker waits for is exactly that of the threads that have not
\* stopped or gone to sleep, in every interleaving of the two ways out.
CountIsExact == block_count = Cardinality(Counted)

\* A thread that wants to block gets to block.
BlockIsGranted == \A t \in Managed : (pc[t] = "try") ~> (pc[t] = "blocking")

\* A stopped thread goes on: unblocking wakes every thread that it stopped.
StoppedGoOn == \A t \in Managed :
  (pc[t] = "stopped") ~> (pc[t] \in {"run", "update", "try", "blocking"})
=============================================================================

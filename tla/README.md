# TLA+ specifications of the nerlang emulator core

nerlang is a small Erlang distribution: the emulator (`erts`, C), a few Erlang
applications (`lib/kernel`, `stdlib`, `sasl`, `compiler`, `crypto`,
`parsetools`) and scripts. These specifications are about the part of the
emulator in which threads cooperate without locks and which ordinary tests
hardly reach: how a thread learns that all others have passed a point of
execution (*thread progress*), how one thread stops all others (*blocking*),
how code is changed while it runs (*the code index*), how threads pass on work
(*the thread queue*), how schedulers sleep and are woken, what timers count, and
how the locks of a process are taken and handed over.

Paths below are relative to the repository, `beam/` is `src/erts/src/beam/`.

## 1. Inventory

| Component | State | Operations | Hard part | Right when |
|---|---|---|---|---|
| Thread progress, `beam/erl_thr_progress.[ch]` | global `current`, a value per managed thread, leader flags, two counters of unmanaged delays, four wakeup slots | update, leader_update, active, prepare_wait, finalize_wait, later, has_reached, wakeup, unmanaged delay and continue | leader reads threads one by one over many calls; threads sleep and wake meanwhile; the counter in use changes; a request races the progress it asks for | a value is reached only after every thread has passed a quiescent point; who waits is woken |
| Blocking, same file | BLOCK flag, `block_count` with NOT_BLOCKING, `blocker_event` | block (nested), unblock, block_thread | threads leave the count in two ways and enter it in two; two blockers compete; event set and reset race | exclusive while it lasts; granted; the stopped go on |
| Code index, `beam/code_ix.[ch]` | active and staging index, write permission and its queue, tables per index | seize, release, start, end, commit, abort | readers use no lock and no barrier; permission passes to a later operation; processes are killed at any point | readers see a complete table that nobody changes; no change is lost; nobody waits forever |
| Code changing BIFs, `beam/beam_bif_load.c` | `commiter_state`, the BIF's progress | finish_loading, delete_module, make_stub, finish_after_on_load, purge_module, check_process_code | commit either under a block or from `smp_code_ix_commiter` | see code index |
| Thread queue, `beam/erl_thr_queue.c`; its users `beam/erl_async.c` and the aux work of `beam/erl_process.c` | linked list with head, tail, marker, unreferenced elements; two counters of unmanaged threads | enqueue, dequeue, clean, inspect, finalize_dequeue | lock free, frees memory after thread progress; notification races with the decision to sleep | FIFO, nothing lost, nothing freed early or never |
| Code tables, `beam/export.c`, `module.c`, `beam_catches.c`, `beam_ranges.c` | a table per code index | start/end staging, put, get | copies kept in step | staged table = active table + changes |
| Breakpoints, `beam/beam_bp.c`, `erl_bif_trace.c` | two breakpoint sets, a staging index | set, commit, consolidate | phases separated by thread progress | no half installed breakpoint is hit |
| Process and port tables, `beam/erl_ptab.c` | slots, free list, processes/0 snapshots | new, delete, list | lock free allocation and list | snapshot is consistent |
| Pre allocators, `beam/erl_sched_spec_pre_alloc.c` | list per scheduler | alloc, free local and remote | lock free return | no block used twice |
| Events and mutexes, `src/erts/lib/ethread` | futex-like words, wait queues | wait, set, lock, unlock | lock free fast path | exclusion, no lost wakeup |
| Process locks, `beam/erl_process_lock.[ch]` | lock and wait bits in one word, a queue per lock, an event per thread | lock, trylock, unlock, transfer, safelock | fast paths change the word without the lock that protects the queues; several locks at once, on two processes | exclusion, served in order, no deadlock, nobody forgotten |
| Port tasks, `beam/erl_port_task.c` | queues per port, busy states | schedule, abort, execute | handles used after the task ran | each task at most once |
| Schedulers, `beam/erl_process.c` | run queues, sleep flags, aux work, who polls | schedule, scheduler_wait, wake, poke, balance | sleep against wakeup; one of them must poll | work is noticed |
| Polling, `beam/erl_poll.c`, `erl_check_io.c` | `wakeup_state`, wakeup pipe, update requests | wait, interrupt, control | a word and a pipe that are not changed together | the poller is woken |
| Timers, `beam/time.c`, `erl_time_sup.c` | wheel, rounds, cached minimum, ticks on their way | set, cancel, bump, next time, deliver | ticks are taken in one step and counted in another; the wheel turns round | not late, not early |
| Others: registry, monitors, messages, ets, GC, loader and interpreter, allocators, drivers, distribution, pcre, Erlang libraries | | | | listed in `PROJECT.json` with the reason they are left out |

How they interact: every lock free structure asks thread progress for a *later*
value before it reuses memory or an index; schedulers report progress between
two processes; code changes that touch traced code block all schedulers; the
commit of a code change is an operation scheduled for a later progress value.
Thread progress is therefore modelled first and in most detail.

## 2. Modules

| Module | Models | Constants |
|---|---|---|
| `GracePeriod` | the promise of thread progress, abstractly: who waits is done only when all threads that were inside have left since | threads, waiters |
| `ThrPrgrVal` | progress values: increment over the reserved value, `current_to_later`, `has_passed`, slots | `Quarter` (2^62 in the emulator: a quarter of the range of values) |
| `ThrProgress` | `erl_thr_progress.c` except blocking | `NoManaged`, `Askers`, `Delayers`, `Requesters`, `MaxProgress` |
| `ThrBlock` | blocking, and of the rest what it touches | `NoManaged`, `MaxBlocks`, `MaxNesting` |
| `CodeIx` | `code_ix.c` and the BIFs that use it, on top of an abstract thread progress | `Procs`, `MaxChanges` |
| `FifoQueue` | the promise of the thread queue: items are delivered once, in order | producers |
| `ThrQueue` | `erl_thr_queue.c`, `async_get`, `erts_check_async_ready`, misc aux work | producers, elements, items per producer, the limits of `clean` |
| `Countdown` | what timers are for: each counts the ticks it has left | timers, ticks |
| `TimerWheel` | `time.c`, `erts_deliver_time`, the schedulers that bump | `TIW_SIZE`, `Timeouts`, `MaxBacklog` |
| `PollSet` | `wakeup_state`, pipe and update requests of `erl_poll.c`, an operator per access | |
| `SchedSleep` | `scheduler_wait` and what it calls, `erts_poll_wait`, everyone who wakes; uses `PollSet` | `Schedulers`, `Wakers`, `MaxPending`, `AuxPieces` |
| `ProcLock` | `erl_process_lock.[ch]` with native atomics | `Threads`, `Procs`, `MAX_BIT`, `Uses` |
| `CodeIxProofs`, `ThrBlockProofs`, `ThrPrgrValProofs`, `ThrProgressProofs`, `TimerWheelProofs`, `SchedSleepProofs`, `ProcLockProofs`, `ThrQueueProofs` | theorems | |
| `MC...` | instances for TLC | |

`PROJECT.json` ("map") gives the source lines of every definition.

### ThrProgress

State: the shared words of `ErtsThrPrgrInternalData` (`current`, `thr[]`,
`lflgs` split into its flags and the per-thread `active`, `umrefc`, the wakeup
slots) and the fields of each thread's `ErtsThrPrgrData` (`confirmed`, `leader`,
`leader_state`, `wakeup_request`). `pc` is the place of a thread between two
accesses to shared memory that others can tell apart; `ret` is where it goes on
after `update()` and `leader_update()`, which several functions call. Thread 0
is the aux thread, which `wakeup_managed(0)` wakes when progress is needed.

`pend` and `upend` are history: who was inside, and which unmanaged threads
delayed progress, when a value was taken. They are never read by the actions.

The environment is how threads use the interface. `PrepareSpinWait`,
`StayInactive`, `Deactivate` and `Activate` follow the loop of `aux_thread`
(`beam/erl_process.c:2668-2737`; `scheduler_wait` makes the same calls in the
same order), `Poke` is `erts_sched_poke` (`beam/erl_process.h:2233-2243`), which
does nothing unless SLEEPING is set. A managed thread that waits for a value
registers a request before it becomes inactive, as the aux work handlers do.
Registration is folded into `Init`: `register_managed_thread` returns only when
all threads have registered, with `confirmed = 0`.

Coarser than the code: `got_sched_wakeups()` reads all slots in one step; the
leader reads the ids of a slot and sets its length to zero in one step (that
nobody writes to the slot in between is what `RequestsMeetTheirValue` says); the
two levels of the bit map of unmanaged threads are one set; and the leader that finds
a counter of unmanaged threads in use switches the index in the step in which it has
read the counter (`CheckUnmanaged`; nobody else changes the index, and the counter is
read again in a step of its own).

### ThrBlock

`block_count` and its NOT_BLOCKING flag, the BLOCK flag and `blocker_event` with
the steps of `block_thread`, `thr_progress_block` and
`erts_thr_progress_unblock`, mostly one atomic operation at a time; `prepare_wait`,
`finalize_wait` and `update` as far as they count. `FallAsleep` and `Poke` are
the environment, as above.

Coarser than the code: the last thread to leave reads `blocker_event` and sets the
event in one step (`SetEvent`); the blocker's wait returns and the event is reset in
one step (`BlockEventSet`); a thread that has incremented `block_count` and may go on
ends its sleep in the same step (`BlockInc`); and unblocking looks at a thread and
wakes it in one step (`UnblockWake`).

### CodeIx

Each process has a scheduler thread of its own. The tables of an index are
represented by the number of changes they hold, and by `synced`, the indices
whose tables a thread sees complete: writing to a table removes it from the
other threads' sets, a full memory barrier (a progress update, the end of a
block) puts it back. Thread progress is used as what `GracePeriod` promises:
`grace` is the set of threads that have not been outside since the later
operation was scheduled. Processes may be killed at any point, exit when they
are not inside a BIF, and their structure may be reused when its reference
count is zero (`Kill`, `Terminate`, `Spawn` are the environment).

### ThrQueue

One step per access to shared memory of `enqueue_managed`, `enqueue` and
`enqueue_marker`, and of `clean`, whose loops are unrolled into steps that count
operations as the code does (`call.ops`). `head`, `first`, `unref_end` and
`nxt` are the fields of `q->head`; a `next` pointer is a function on elements,
and an element that is freed may be allocated again at once, so that a stale
compare and exchange could succeed. `Init` chooses which kind of consumer there
is: a scheduler, which frees elements itself and is told by aux work flags, or an
async thread, which collects them in `deq_fini` and hands them with the next job
to a scheduler (`ReadyFinalize`). Thread progress is what `GracePeriod` promises:
`grace` is the set of managed producers that have not been outside since
`next.thr_progress` was taken. `Follow` walks the links from an element on and
collects something from each; the elements that `finalize_dequeue` frees are found
with it, and so is `Contents`, the refinement mapping to `FifoQueue`: the items
behind `head`, without the marker. `CleanMoveUnref` asks whether the progress value is
reached and reads the counter in one step.

### TimerWheel

Everything under `tiw_lock` is one step; taking ticks from `do_time`, bumping
the wheel and calling a callback are three. `bump_timer_internal` goes round
slot by slot in the code; `Rounds` is how often it decrements the counter of the
timers at a distance, and `Expired` the timers it takes out. `owed` is history:
how many ticks are still to be delivered before a timer is due. `Backlog` counts
the ticks that are delivered but not bumped: those in `do_time` and those that
schedulers have `Taken`, as pairs of a scheduler and a number so that they can be
counted as a set.

### SchedSleep and PollSet

`pc` follows `schedule()` and `scheduler_wait()` from one access to the next:
`prepare_for_sys_schedule`, the loop on the event, the loop that polls without
waiting, and the last poll with a timeout. What is done with a run queue locked
excludes those who enqueue on it (`RunqIsLocked`). A waker is anyone who makes a
request and then wakes: `Enqueue`, `RequestAuxWork` and `Select` are the requests,
the rest of `wpc` is `wake_scheduler`, `erts_sched_poke` and `wake_poller` one
access at a time. Schedulers wake too, when a poll has found I/O. Run queues hold
at most one process and one port; spinning ends at any time; thread progress
(`ThrProgress`) is left out, and so are suspended and dirty schedulers. `PollIo` is
coarser than one access: it counts the I/O task in the step that enqueues the port,
where the code counts it first.

### ProcLock

A word of flags per process as a set of bit numbers, a queue per lock, and the
pix lock. The fast paths change the flags in one step; loops around a compare and
exchange are their last round. `rel` and `req` are what a caller has still to
unlock and to lock: one call for `erts_smp_proc_lock`, several for
`proc_safelock`. Callers of `erts_smp_proc_lock` observe the lock order that
`erl_process_lock.h` states, `trylock` is called in any order. `have` is who has
a lock, which the code does not record. Each process has a pix lock of its own;
the code hashes processes to 1024 pix locks. Spinning ends at any time. Each atomic
operation is a step, except that a lock that is free is taken and its wait flag, set
with it, removed in one (`AquireGot`).

## 3. Runs

| Run | Instance | Shows |
|---|---|---|
| `codeix` | 2 processes, 3 changes, fair | exclusion of writers, readers' indices and tables, no lost change, references, wakeups, at most one commit during a BIF; waiters resumed, staged change committed although the stager is killed |
| `thrprgr` | 2 managed threads, one waits for values, progress to 6, fair | refinement of `GracePeriod`, one leader, running threads tracked, requests in the right slot; a waiting managed thread is woken |
| `thrprgr_unmanaged` | 1 thread, 1 delayer, 1 unmanaged requester, fair | the two counters; unmanaged threads notice their value |
| `thrprgr_passed` | 1 thread, 2 delayers | *violation*: progress passes a delaying thread |
| `thrprgr_stall` | 2 threads, 1 delayer | *violation*: all sleep with a request registered |
| `thrblock` | 2 threads, 4 blocks, nesting 2, fair | exclusion, exact count, blocks granted, stopped threads go on |
| `thrqueue` | a managed producer of 2 items, an unmanaged one of 1, 2 elements, either consumer, fair | refinement of `FifoQueue`, no use after free, no leak; everything delivered and reclaimed |
| `timerwheel` | 2 timers, 2 schedulers, wheel of 2 slots, timeouts of 0, 1 and 4 ticks, up to 4 ticks at once, fair | refinement of `Countdown`, exact minimum, never late; timers time out |
| `timer_early` | the same | *violation*: a timer times out early |
| `sched_sleep` | 2 schedulers, 1 waker, 1 pending request, symmetry | one polls at a time and never with I/O tasks waiting, count of waiting schedulers and its sign exact, not all sleep on events, nobody sleeps over work unless the poller has become deaf |
| `sched_lost` | the same | *violation*: an interrupt of the poller is lost |
| `proclock` | 3 threads, 2 processes with 2 locks each; one thread uses all locks, one three of them, one a single lock | exclusion, waiters seen by the owner, waits in lock order, wakeups with all locks, nobody forgotten, queues served in order |

Why the bounds are enough: the code index has three values, so three changes go
round once and a fourth would repeat; two processes fight for the permission, and
the theorems cover any number. A progress value is asked for at most three values
ahead and there are four slots, so progress to 6 reuses slots. Two managed threads
exercise each race of the leader with one other thread; the leader treats the
others one at a time. `thrprgr_unmanaged` has one delaying thread beside the one
that waits; `DelayWatched` covers any number. Two threads compete for a block while each may also sleep,
with nested and repeated blocks; the theorems of `ThrBlockProofs` cover any
number of threads. In `ThrQueue` three items go through two elements and the
marker, so that an element is used again while the other producer may still point
to it, and the limits of `clean` are small enough to end it at every place; the
theorems of `ThrQueueProofs` cover any number of producers, elements and items. A wheel
of two slots makes timeouts of 4 ticks go round twice and bumps of up to two
turns. Two schedulers are enough for one to poll and one to sleep on its event;
with one pending request a wakeup cannot be made good by a later one. In
`ProcLock` two threads queue for one lock while a third hands it over, and locks
of two processes can be wanted in a circle. `ThrProgress` does not wrap within
`MaxProgress + 4`, the largest value asked for; the wrap is the subject of
`ThrPrgrValProofs`.

Each module has a type invariant, and each of them is a theorem.

Deadlock is checked in every run but `thrqueue`, which may stop when all items
are delivered and no scheduler has aux work left.

### Fairness

* `CodeIx`: weak fairness for the steps of a BIF, which runs to its end, and for
  the later operation, which is aux work of a scheduler. Strong fairness for
  reporting progress: a process may call BIF after BIF, but its reductions run
  out and `schedule()` calls `erts_thr_progress_update`. None for starting a
  BIF, killing or spawning.
* `ThrProgress`: weak fairness for the steps of every thread. Strong fairness
  for the update of a running scheduler, for the same reason. A delay ends; a
  new one need not come, nor new work.
* `ThrBlock`: weak fairness for the steps of a thread, strong fairness for the
  outermost unblock: who blocks unblocks in the end, even if it nests blocks
  again and again. Falling asleep, new work and new blocks need not come.
  `BlockIsGranted` is about a bounded number of
  blocks: which of several threads gets the flag is left to chance in the code,
  and endless new blockers could starve one.

* `ThrQueue`: weak fairness for a thread within an operation, for quiescent
  points of managed producers, for the wakeup at a progress value (`ThrProgress`
  shows it) and for aux work of a scheduler that has been poked. None for starting
  an enqueue, and none for a consumer that nobody has notified: that is what the
  properties are about.
* `TimerWheel`: time passes, and schedulers bump the wheel when they look for
  work.
* `SchedSleep` and `ProcLock` are checked for safety only. That nobody sleeps over
  work, or is forgotten in a queue, is stated as an invariant on the states in
  which nobody is about to wake.

### Findings

1. `leader_update` switches the global index of the counter for unmanaged
   threads but not the leader's own copy (`thrprgr_passed`). The next delay uses
   the new counter, the leader checks the old one and makes progress.
2. A wakeup of the aux thread is lost between `finalize_wait` and
   `sched_prep_spin_wait`, and `prepare_wait` then does not look for requests
   because WAITING_UM is still set (`thrprgr_stall`). Progress waits for other
   work to wake a thread. Without unmanaged threads a waiting thread is woken
   (`thrprgr`).
3. `insert_timer` adds the "backlog of unprocessed time", but ticks that another
   scheduler has taken from `do_time` and not yet bumped are in neither
   (`timer_early`). The timer times out early by that many ticks.
4. `wake_poller` reads `wakeup_state` and then sets it to interrupted. If the
   poller resets it in between, nobody writes to the pipe, and later interrupts
   find the state set and do not write either (`sched_lost`): the scheduler
   sleeps in `poll()` over work until data or a timeout arrives.

Not a run: `finish_loading_1` reaches `erts_abort_staging_code_ix` without a start
when it rejects its argument; `code_ix.h` says "Preceded by start". It is harmless
for the index itself.

## 4. Proofs

TLC shows the properties for the instances above, the theorems for every value
of the constants. Assumptions are the named ASSUMEs of the modules only: `NoProc`
and `None` are no process, value or set of threads; there is at least one managed
thread, one scheduler (`erts_init_scheduling` asserts it,
`beam/erl_process.c:5343`) and one process; timers, unmanaged threads, timeouts,
the schedulers of the wheel and the elements of the queue are finitely many, since
they are counted; bounds are naturals. In `ThrQueue` elements are named by numbers,
since allocation takes the least free one, and the consumer, the marker and
`NULL` are none of the others. `ThrProgress`
assumes that its bound of progress leaves four values before the wrap, as the
comment at `beam/erl_thr_progress.c:108` does.

Every module of proofs is laid out in the same way. The inductive invariant
`IInv` is a conjunction of named parts, each about one piece of state; there is one
lemma per action with a step per part that the action can disturb (and one for
all parts that it leaves alone); `NextInv` puts them together, `Invariance` is
`Spec => []IInv`, and the theorems follow from what `IInv` says of a state. The
invariants were checked by TLC on the instances of section 3; that of
`ThrQueueProofs` with the lists and positions that the links give.

**CodeIxProofs.** `IInv` is inductive; its parts: the staging index follows the
active one (`IndexInv`); who holds the permission and where the process is for
which a commit is pending (`PermInv`); waiters are queued only while someone
holds it (`QueueInv`); the reference count is exactly the table's reference, the
queue's and the commiter's (`RefcInv`); blocked threads run nothing
(`BlockInv`); a thread that has passed the grace period of a pending commit has
seen the staged tables and holds no older index (`ReadInv`); what the staging
tables contain (`ContentInv`). The last but one is the heart: the third index is
what makes a reader's index safe, since a commit that could stage over it waits
until the reader has left. From it: `PermissionExclusive`, `ReadIndexValid`,
`ReadTablesComplete`, `NoLostChange`, `ReferencesHeld`, `WakeupKept`,
`OneCommitPerBif` and `TypeCorrect`.

**ThrBlockProofs.** The count is exact (`CountExact`) because every step moves
one thread and changes the count by what that thread counts before and after
(`CountMoves`, from the library's facts on cardinality). `HolderInv` says that
the BLOCK flag has one holder and that NOT_BLOCKING is cleared from the time the
holder begins to wait until it is done. Exclusion (`BlockExclusive`) then: a
blocker starts when the count is zero, so nobody is counted (`NobodyCounted`);
from then on a thread that enters the count sees NOT_BLOCKING cleared and leaves
again. Neither the count nor the flag alone is inductive.

**ThrPrgrValProofs.** For every width of the values: a value that has been
reached stays reached for a quarter of the range, over the wrap too
(`ReachedStaysReached`); a value that lies ahead and has not wrapped is not taken
for reached (`AheadIsNotReached`); and at the wrap this fails
(`LaterOverTheWrap`): when `current` is one of the last two values, `has_passed__`
says that the value two ahead, which has wrapped, is passed. The comment at
`beam/erl_thr_progress.c:108` accepts the wrap as something that "will more or
less never occur". All three rest on what `Inc` and `current_to_later` do as a
sum modulo the range without the reserved value (`AdvanceByInc`,
`LaterIsTwoAhead`).

**ThrProgressProofs.** A managed thread that the leader has to wait for
(`Tracked`: it runs, or is on its way to or from sleep and has published a value)
has confirmed `current` or the value after it (`TrackInv`). This is inductive only
with what the leader knows: behind its index all threads have confirmed the next
value or sleep (`CheckInv`), nobody but the leader moves `current` (`LeaderInv`,
`StateInv`), and where a thread is decides whether it is active and where it
returns to (`CtlInv`). A thread that wakes up publishes the value after one it has
read before; it is not waited for until it has found that `current` has not moved.
For the requests, `AheadInv` bounds a value that is waited for by three more than
`current`; values of a window of four never share a slot (`SameSlot`), so an entry
found in a slot is for its value (`SlotInv`) and a thread that writes is not there
yet (`WriteInv`, `NewRequest`). For unmanaged threads, a counter is the number of
threads that have incremented it (`RefcInv`), and a thread that delays progress
uses the current counter or one that is waited for (`WatchInv`); a leader that
finds zero therefore waits for nobody (`NobodyHolds`). From these: `OneLeader`,
`RunningTracked`, `RequestsMeet`, `DelayWatched` and `TypeCorrect`.

`Refinement` is `ImplementsGracePeriod`, step by step: an update, a deactivation
and going back to sleep are `Leave`; every return to the caller is `Enter` or
nothing (`MovesEnter`); taking a value is `Start`; and the step that finds the value
reached is `Finish` because of `PendInv`: a thread that has been inside ever since
the value was taken has confirmed a smaller one, and `current` cannot be ahead of
what it has confirmed (`ReachedHasWaited`). `DelayIsRespected`, the promise to
unmanaged threads, is no theorem: the run `thrprgr_passed` refutes it.

**TimerWheelProofs.** The arithmetic of the wheel first: a timer at a distance
`d` is visited as many times as `Rounds` says when the wheel is bumped by any number
of ticks (`RoundsAre`), and what is left afterwards is what was left before minus
the ticks (`BumpLeft`), for any size of the wheel; division and remainder by a
constant that is not a numeral are characterised by `DivModUnique`. `IInv` is the
types, `MinIsExact`, and `OutInv`: a timer that has been taken out and not called yet
is not in the wheel. `MinExact` needs that setting, cancelling and expiring change
the cached minimum whenever they change the timer that is due first.
`Refinement` is `ImplementsCountdown`: a bump is `Pass` of as many ticks, setting and
cancelling are `Set` and `Cancel`, everything else changes nothing that the
countdown shows. `InTime` is `NeverLate`, of every timer. Setting one counts in
`do_time` and cannot be late even if others have taken ticks; a delivery moves as many
ticks from `owed` to the backlog; taking ticks leaves the backlog what it is
(`TakeMore`, for the scheduler that takes them; `BacklogSteps`), and bumping reduces
the backlog by the ticks by which it brings every timer nearer.

**SchedSleepProofs.** `doing_sys_schedule` is set exactly while one scheduler is on
its way to, in or back from a poll (`HolderInv`), `outstanding_io_tasks` counts the
one port task there may be (`IoInv`, `ClearInv`), and somebody polls, has that task,
or is still to look (`ActiveInv`). What a scheduler has counted in `waiting`, and
with which sign, follows from where it is (`CtlInv`). The others are about wakeups: who has something in its
run queue and waits is about to be woken by a thread that names it (`RunqInv`,
`TargetInv`), and so is who has aux work that it has not seen (`AuxInv`); whoever
clears the flag of a sleeper sets its event (`FlagInv`, `EventInv`), or interrupts the
poll (`IntrInv`, `ZeroInv`), and whoever changes the poll set wakes the poller
(`UpdateInv`). That all these are parts of one invariant is the point: a wakeup is two
or three accesses of one thread, against a sleeper that sets its flags and looks at
its work in the opposite order. From it: `PollExclusive`, `WaitingExact`,
`SomebodyPolls`, `OnlyDeafSleeps`, `TypeCorrect`.

**ProcLockProofs.** A flag is set exactly if one thread has the lock, or has it in
hand to pass it on (`OwnerInv`), which gives `MutualExclusion`. A thread that sleeps
for locks is in the queue of the first one it needs, once, or being served (`QueueInv`,
`QueuedInv`); one that has got all of them is to be told by exactly one thread
(`WakeInv`, `ToldInv`), and one that has been told and waits is about to be woken
(`WokenInv`). `PlaceInv` and `PixInv` say what threads have with and without the pix
lock. The wait flags (`FlagInv`) need `TransferInv`: a lock whose queue has become
empty keeps its wait flag until the transfer is over, and nobody looks at it because
the thread that has got the lock sleeps until then; `transfer_locks` goes up through
the locks, which is why no thread is queued for it again in between. From these
`WaitersSeen`, `ReturnsWithAll`, `NoLostWakeup`, `TypeCorrect` and the action property
`ServedInOrder`; `WaitOrder` follows from `OrderInv`, the lock order between what a
thread has, needs and will lock next. That a set of locks has a least one follows
from the library's facts on well-founded relations (`MinNat`).

**ThrQueueProofs.** The state of the queue is a heap: elements, links, and pointers
into them. `IInv` says that one can give every element a list (`where`: the queue,
one of the three lists of elements to be freed, or none) and a position in it (`at`)
such that links go from one position to the next. It is an existential
over the two; each step exhibits the new ones, usually the old ones, changed where
an element is linked, cut off or joined. Its parts: each list runs from its start to
its end (`IsList`, `QueueInv`, `ListInv`); nothing has two places, and what is
allocated has one or is held by a producer (`PlaceInv`); `unref_end`,
`next.unref_end` and `last` are in the queue and in that order (`OrderInv`); the last
pointer moves forward only (`MoveInv`). Positions make these statements local: "in
the queue and not before `unref_end`" is a comparison, and reachability is never
mentioned.

What keeps pointers safe is `PointerInv`: what a thread may still follow is
not before `unref_end`, and if it is before `next.unref_end`, then the thread is one
that `next.unref_end` waits for (`Waited`): a managed one that has not been outside
since `next.thr_progress` was taken, or an unmanaged one on the counter that is to
drop to zero. This needs that the counters are exact (`CountInv`: increments and
decrements happen in other steps than reading the index), and that nobody is linking
on the new counter when the two are switched (`SwitchInv`). From it `PointersSafe`.

`NoLeak` needs more than the invariant: `NothingLeaks` speaks of what is reached by
links. `Follow` has as many rows as there are elements; `FollowUnfold` shows that it
takes off the first element of a list whose links go forward, because from a position
on there are at most as many elements as rows (`AfterSize`). That a row does what it
should for every length is shown for the least length for which it fails (`MinNat`),
since induction is not available. `AheadCovers` and `ListReached` then say that
following a list reaches exactly the elements placed in it. `Refinement` is
`ImplementsFifo`: linking an element at the end appends its item to what is followed
(`FollowAppend`, `EnqLinkContents`), so that the compare and exchange in `EnqLink` is
the point at which an item is enqueued, whatever `last` points to; moving `head` to an
item takes the first off (`DequeueContents`), over the marker nothing (`HeadOver`);
all others change links only of elements that are not followed from `head`
(`ContentsKept`).

Only model-checked: liveness under fairness (`ENABLED` is out of the prover's reach),
and deadlock. Every invariant and every action property that a passing run checks is a
theorem, and so is every refinement. `NoStall`, `DelayIsRespected`, and what
`timer_early` and `sched_lost` check, are refuted by TLC.

## 5. Not modelled

The emulator alone has some 300000 lines of C. The specifications are about the
protocols between its threads, a few thousand lines; what follows is left out.

* The memory model. Accesses are sequentially consistent, except for the
  visibility of code tables in `CodeIx`. Most accesses are followed by a full
  barrier where the algorithm needs one, but the models do not show that a barrier
  is not missing.
* Blocking by unmanaged threads and `erts_thr_progress_fatal_error_block`. Note
  that `thr_progress_block` calls `block_thread` for an unmanaged thread that
  finds another blocker; `block_thread` takes its id for a managed one.
* The interaction of blocking with leader election, beyond the common flag word.
* Reference counts and exits of processes under process locks (`erts_pid2proc_opt`,
  the counts `proc_safelock` takes), the implementation with mutexes and the one
  with flags under the pix lock.
* Balancing, migration, priorities, suspension and dirty schedulers; kernel poll
  and the tables of driver events; BIF timers; the choice of async queues.
* Sequential code without a protocol: interpreter, loader, garbage collector, term
  handling, allocators' block layouts, ets tables, and the Erlang libraries.
  Third-party code (`pcre`, `zlib`) and generated code (`ethr_atomics`).
* Everything else with status `not_modelled` in `PROJECT.json`, which gives the
  reason for each component.

## 6. Plan

1. Blocking by unmanaged threads and at a fatal error, in `ThrBlock`.
2. `CodeTables`: export and module tables under the code index, refining
   `CodeIx`'s `content`; breakpoints with their own staging.
3. `Ptab` and the pre allocators; thread events and mutexes; port tasks.

------------------------------ MODULE ProcLock -------------------------------
(***************************************************************************)
(* Process locks: erl_process_lock.[ch], the implementation with native    *)
(* atomics.  A process has a few locks in one word of flags, each with a   *)
(* bit that says that threads are queued for it; flags are changed without *)
(* a lock, the queues under the pix lock.  An unlocker hands its lock to   *)
(* the first in queue, and tries to get the rest of what that thread needs *)
(* on its behalf.  proc_safelock() takes locks on two processes.           *)
(*                                                                         *)
(* A step is one atomic operation on shared memory.  A loop around a       *)
(* compare and exchange that recomputes the new value from the old one is  *)
(* its last round: rounds that fail change nothing that is shared.         *)
(***************************************************************************)
EXTENDS Naturals, Sequences, FiniteSets, FiniteSetsExt

CONSTANTS Threads, NoThread,
          Procs,         \* processes, by their pids
          MAX_BIT,       \* ERTS_PROC_LOCK_MAX_BIT
          Uses           \* of a thread: the locks it makes use of

ASSUME ThreadAssumption == NoThread \notin Threads
ASSUME ProcAssumption ==
  Procs \subseteq Nat /\ IsFiniteSet(Procs) /\ Procs # {} /\ MAX_BIT \in Nat

Locks == 0..MAX_BIT
ASSUME UsesAssumption == Uses \in [Threads -> [Procs -> SUBSET Locks]]

WAITER_SHIFT == MAX_BIT + 1
Waiter(l) == l + WAITER_SHIFT

VARIABLES
  flags, queue,          \* of a process: its erts_proc_lock_t
  pix,                   \* who holds its pix lock
  have,                  \* of a thread: the locks it has, ...
  rel, req,              \* ... those it is to release, and then to lock, ...
  pc, proc, need, seen,  \* ... the lock call it is in,
  uaflgs, event,         \* its erts_tse_t,
  trnsfr, unset, wtr, wakeup \* and the transfer it makes: transfer_locks()

lock == <<flags, queue, pix>>
calls == <<rel, req>>
tse == <<uaflgs, event>>
transfer == <<trnsfr, unset, wtr, wakeup>>
vars == <<lock, have, calls, pc, proc, need, seen, tse, transfer>>

None == [p \in Procs |-> {}]

\* erts_proc_lock_init(): a process starts with all its locks locked by whoever
\* creates it.
Init ==
  \E creator \in [Procs -> Threads] :
    /\ \A p \in Procs : Uses[creator[p]][p] = Locks
    /\ flags = [p \in Procs |-> Locks]
    /\ queue = [p \in Procs |-> [l \in Locks |-> <<>>]]
    /\ pix = [p \in Procs |-> NoThread]
    /\ have = [t \in Threads |-> [p \in Procs |-> IF creator[p] = t THEN Locks ELSE {}]]
    /\ rel = [t \in Threads |-> None] /\ req = [t \in Threads |-> None]
    /\ pc = [t \in Threads |-> "call"] /\ proc = [t \in Threads |-> Min(Procs)]
    /\ need = [t \in Threads |-> {}] /\ seen = [t \in Threads |-> {}]
    /\ uaflgs = [t \in Threads |-> 0] /\ event = [t \in Threads |-> FALSE]
    /\ trnsfr = [t \in Threads |-> {}] /\ unset = [t \in Threads |-> {}]
    /\ wtr = [t \in Threads |-> NoThread] /\ wakeup = [t \in Threads |-> <<>>]

At(t, l) == pc[t] = l
Goto(t, l) == pc' = [pc EXCEPT ![t] = l]
Idle(t) == At(t, "call") /\ rel[t] = None /\ req[t] = None

\* The documented lock order: by number, then by pid.
Before(m, q, l, p) == m < l \/ (m = l /\ q < p)

-----------------------------------------------------------------------------
(* The calls of one operation: first those that unlock, then those that    *)
(* lock.                                                                   *)

\* erts_smp_proc_unlock__(): locks without waiters are unlocked, the others are
\* still locked.
Release(t, p, locks) ==
  LET wait_locks == {l \in locks : Waiter(l) \in flags[p]} IN
  /\ flags' = [flags EXCEPT ![p] = @ \ (locks \ wait_locks)]
  /\ have' = [have EXCEPT ![t][p] = @ \ locks]
  /\ IF wait_locks = {}
     THEN UNCHANGED <<pc, proc, trnsfr>>
     ELSE /\ Goto(t, "transfer_pix") /\ proc' = [proc EXCEPT ![t] = p]
          /\ trnsfr' = [trnsfr EXCEPT ![t] = wait_locks]
  /\ UNCHANGED <<need, seen>>

Granted(t, p, locks) ==
  /\ flags' = [flags EXCEPT ![p] = @ \cup locks]
  /\ have' = [have EXCEPT ![t][p] = @ \cup locks]

\* erts_smp_proc_lock__(), erts_smp_proc_raw_trylock__(): all of them at once.
Acquire(t, p, locks) ==
  /\ IF flags[p] \cap locks = {}
     THEN Granted(t, p, locks) /\ UNCHANGED <<pc, proc, need, seen>>
     ELSE /\ Goto(t, "failed") /\ proc' = [proc EXCEPT ![t] = p]
          /\ need' = [need EXCEPT ![t] = locks]
          /\ seen' = [seen EXCEPT ![t] = flags[p] \cap locks]
          /\ UNCHANGED <<flags, have>>
  /\ UNCHANGED trnsfr

\* The loop in proc_safelock(): at a time as many locks of one process as precede,
\* in lock order, those needed of the other.
FirstNeeded(locks) ==
  CHOOSE p \in Procs : \E l \in locks[p] :
    \A q \in Procs \ {p} : \A m \in locks[q] : Before(l, p, m, q)

lock_mask(p, locks) ==
  {l \in locks[p] : \A q \in Procs \ {p} : \A m \in locks[q] : Before(l, p, m, q)}

Proceed(t, unlocks, locks) ==
  /\ IF unlocks # None
     THEN LET p == Min({q \in Procs : unlocks[q] # {}})
          IN /\ Release(t, p, unlocks[p])
             /\ rel' = [rel EXCEPT ![t] = [unlocks EXCEPT ![p] = {}]]
             /\ req' = [req EXCEPT ![t] = locks]
     ELSE LET p == FirstNeeded(locks)
          IN /\ Acquire(t, p, lock_mask(p, locks))
             /\ req' = [req EXCEPT ![t] = [locks EXCEPT ![p] = @ \ lock_mask(p, locks)]]
             /\ UNCHANGED rel
  /\ UNCHANGED <<queue, pix, tse, unset, wtr, wakeup>>

Continue(t) == At(t, "call") /\ ~ Idle(t) /\ Proceed(t, rel[t], req[t])

-----------------------------------------------------------------------------
(* What callers do.                                                        *)

\* erts_smp_proc_unlock()
Unlock(t, p, locks) ==
  /\ Idle(t) /\ locks # {} /\ locks \subseteq have[t][p]
  /\ Proceed(t, [None EXCEPT ![p] = locks], None)

\* erts_smp_proc_lock(), by a caller that observes the lock order.
Lock(t, p, locks) ==
  /\ Idle(t) /\ locks # {}
  /\ \A q \in Procs : \A m \in have[t][q] : \A l \in locks : Before(m, q, l, p)
  /\ Proceed(t, None, [None EXCEPT ![p] = locks])

\* erts_smp_proc_trylock(), in any order; when it fails it changes nothing.
TryLock(t, p, locks) ==
  /\ Idle(t) /\ locks # {} /\ flags[p] \cap locks = {}
  /\ Granted(t, p, locks)
  /\ UNCHANGED <<queue, pix, calls, pc, proc, need, seen, tse, transfer>>

\* Mutant: a lock of the second process is kept while the same one of the first
\* is locked.
UnlockAbove(need1, need2) == {l \in Locks : l > Min(need1 \cup need2)}

\* proc_safelock(): the locks that are in the way are released first.
unlock_mask(need1, need2) ==
  LET first == Min(need1 \cup need2)
  IN {l \in Locks : l > first \/ (l = first /\ first \in need1)}

SafeLock(t, p1, locks1, p2, locks2) ==
  /\ Idle(t) /\ p1 < p2
  /\ \A q \in Procs \ {p1, p2} : have[t][q] = {}
  /\ have[t][p1] \subseteq locks1 /\ have[t][p2] \subseteq locks2
  /\ <<locks1, locks2>> # <<have[t][p1], have[t][p2]>>
  /\ LET need1 == locks1 \ have[t][p1]
         need2 == locks2 \ have[t][p2]
         unlock1 == have[t][p1] \cap unlock_mask(need1, need2)
         unlock2 == have[t][p2] \cap unlock_mask(need1, need2)
     IN Proceed(t, [None EXCEPT ![p1] = unlock1, ![p2] = unlock2],
                   [None EXCEPT ![p1] = need1 \cup unlock1, ![p2] = need2 \cup unlock2])

-----------------------------------------------------------------------------
(* erts_proc_lock_failed()                                                 *)

in_order_locks(in_use, need_locks) ==
  {l \in need_locks : \A busy \in in_use \cap need_locks : l < busy}

can_grab(t) == in_order_locks(seen[t], need[t])

\* What a call keeps for itself is forgotten when it returns.
Return(t) ==
  /\ Goto(t, "call") /\ proc' = [proc EXCEPT ![t] = Min(Procs)]

\* Mutant: what was seen is taken for what is.
GrabUnseen(t) ==
  LET p == proc[t] IN
  /\ At(t, "failed") /\ can_grab(t) # {}
  /\ Granted(t, p, can_grab(t)) /\ need' = [need EXCEPT ![t] = @ \ can_grab(t)]
  /\ IF need'[t] = {} THEN Return(t) ELSE UNCHANGED <<pc, proc>>
  /\ UNCHANGED <<queue, pix, calls, seen, tse, transfer>>

\* Compare and exchange with the flags last seen; of these only the locks that
\* are needed matter, ...
Grab(t) ==
  LET p == proc[t] IN
  /\ At(t, "failed") /\ can_grab(t) # {} /\ flags[p] \cap need[t] = seen[t]
  /\ Granted(t, p, can_grab(t)) /\ need' = [need EXCEPT ![t] = @ \ can_grab(t)]
  /\ IF need'[t] = {} THEN Return(t) ELSE UNCHANGED <<pc, proc>>
  /\ UNCHANGED <<queue, pix, calls, seen, tse, transfer>>

\* ... failing that, or spinning, it looks again, ...
Reread(t) ==
  /\ At(t, "failed") /\ flags[proc[t]] \cap need[t] # seen[t]
  /\ seen' = [seen EXCEPT ![t] = flags[proc[t]] \cap need[t]]
  /\ UNCHANGED <<lock, have, calls, pc, proc, need, tse, transfer>>

\* ... and after some spinning gives up.
GiveUp(t) == At(t, "failed") /\ can_grab(t) = {}

-----------------------------------------------------------------------------
(* wait_for_locks()                                                        *)

WaitPix(t) ==
  /\ GiveUp(t) /\ pix[proc[t]] = NoThread
  /\ pix' = [pix EXCEPT ![proc[t]] = t] /\ seen' = [seen EXCEPT ![t] = {}]
  /\ wtr' = [wtr EXCEPT ![t] = t] /\ Goto(t, "aquire")
  /\ UNCHANGED <<flags, queue, have, calls, proc, need, tse, trnsfr, unset, wakeup>>

\* Mutant: only a thread that gets its last lock by transfer is woken.
TriedOnly(t) ==
  /\ wtr' = [wtr EXCEPT ![t] = NoThread] /\ UNCHANGED wakeup
  /\ IF wtr[t] = t
     THEN /\ pix' = [pix EXCEPT ![proc[t]] = NoThread]
          /\ IF need'[t] = {}
             THEN Return(t) /\ UNCHANGED uaflgs
             ELSE Goto(t, "reset") /\ uaflgs' = [uaflgs EXCEPT ![t] = 1] /\ UNCHANGED proc
     ELSE Goto(t, "transfer") /\ UNCHANGED <<pix, uaflgs, proc>>

\* Return from try_aquire(): to wait_for_locks(), that goes to sleep unless it
\* has all locks, or to transfer_locks().
Tried(t) ==
  LET w == wtr[t] IN
  /\ wtr' = [wtr EXCEPT ![t] = NoThread]
  /\ IF w = t
     THEN /\ pix' = [pix EXCEPT ![proc[t]] = NoThread] /\ UNCHANGED wakeup
          /\ IF need'[t] = {}
             THEN Return(t) /\ UNCHANGED uaflgs
             ELSE Goto(t, "reset") /\ uaflgs' = [uaflgs EXCEPT ![t] = 1] /\ UNCHANGED proc
     ELSE /\ Goto(t, "transfer") /\ UNCHANGED <<pix, uaflgs, proc>>
          /\ wakeup' = IF need'[w] = {} THEN [wakeup EXCEPT ![t] = <<w>> \o @] ELSE wakeup

\* try_aquire(): behind others that wait, ...
AquireQueued(t) ==
  LET p == proc[t]
      l == Min(need[wtr[t]])
  IN /\ At(t, "aquire") /\ queue[p][l] # <<>>
     /\ queue' = [queue EXCEPT ![p][l] = Append(@, wtr[t])]
     /\ UNCHANGED need /\ Tried(t)
     /\ UNCHANGED <<flags, have, calls, seen, event, trnsfr, unset>>

\* ... or the lock and its wait flag are set at once.  The lock was locked, ...
AquireBusy(t) ==
  LET p == proc[t]
      l == Min(need[wtr[t]])
  IN /\ At(t, "aquire") /\ queue[p][l] = <<>> /\ l \in flags[p]
     /\ flags' = [flags EXCEPT ![p] = @ \cup {Waiter(l)}]
     /\ queue' = [queue EXCEPT ![p][l] = <<wtr[t]>>]
     /\ UNCHANGED need /\ Tried(t)
     /\ UNCHANGED <<have, calls, seen, event, trnsfr, unset>>

\* ... or it is the waiter's now, and the wait flag is removed; nobody but the
\* owner of a lock, that is the waiter, would look at it.
AquireGot(t) ==
  LET p == proc[t]
      l == Min(need[wtr[t]])
  IN /\ At(t, "aquire") /\ queue[p][l] = <<>> /\ l \notin flags[p]
     /\ flags' = [flags EXCEPT ![p] = (@ \cup {l, Waiter(l)}) \ {Waiter(l)}]
     /\ have' = [have EXCEPT ![wtr[t]][p] = @ \cup {l}]
     /\ need' = [need EXCEPT ![wtr[t]] = @ \ {l}]
     /\ IF need'[wtr[t]] = {} THEN Tried(t) ELSE UNCHANGED <<pix, pc, proc, uaflgs, wtr, wakeup>>
     /\ UNCHANGED <<queue, calls, seen, event, trnsfr, unset>>

TseReset(t) ==
  /\ At(t, "reset") /\ event' = [event EXCEPT ![t] = FALSE] /\ Goto(t, "check")
  /\ UNCHANGED <<lock, have, calls, proc, need, seen, uaflgs, transfer>>

\* A thread that returns forgets its event: it will reset it before it waits.
TseCheck(t) ==
  /\ At(t, "check")
  /\ IF uaflgs[t] = 0 THEN Return(t) /\ event' = [event EXCEPT ![t] = FALSE]
     ELSE Goto(t, "wait") /\ UNCHANGED <<proc, event>>
  /\ UNCHANGED <<lock, have, calls, need, seen, uaflgs, transfer>>

\* Mutant: the thread trusts its event.
WaitOnce(t) ==
  /\ At(t, "wait") /\ event[t] /\ Return(t)
  /\ UNCHANGED <<lock, have, calls, need, seen, tse, transfer>>

TseWait(t) ==
  /\ At(t, "wait") /\ event[t] /\ Goto(t, "reset")
  /\ UNCHANGED <<lock, have, calls, proc, need, seen, tse, transfer>>

-----------------------------------------------------------------------------
(* erts_proc_unlock_failed(), transfer_locks()                             *)

TransferPix(t) ==
  /\ At(t, "transfer_pix") /\ pix[proc[t]] = NoThread
  /\ pix' = [pix EXCEPT ![proc[t]] = t] /\ Goto(t, "transfer")
  /\ UNCHANGED <<flags, queue, have, calls, proc, need, seen, tse, transfer>>

\* Mutants: the wait flag is removed whoever is still queued; ...
TransferUnsets(t) ==
  LET p == proc[t]
      l == Min(trnsfr[t])
      w == Head(queue[p][l])
  IN /\ At(t, "transfer") /\ trnsfr[t] # {}
     /\ trnsfr' = [trnsfr EXCEPT ![t] = @ \ {l}]
     /\ queue' = [queue EXCEPT ![p][l] = Tail(@)]
     /\ unset' = [unset EXCEPT ![t] = @ \cup {l}]
     /\ have' = [have EXCEPT ![w][p] = @ \cup {l}]
     /\ need' = [need EXCEPT ![w] = @ \ {l}]
     /\ IF need'[w] # {}
        THEN /\ Goto(t, "aquire") /\ wtr' = [wtr EXCEPT ![t] = w] /\ UNCHANGED wakeup
        ELSE /\ wakeup' = [wakeup EXCEPT ![t] = <<w>> \o @] /\ UNCHANGED <<pc, wtr>>
     /\ UNCHANGED <<flags, pix, calls, proc, seen, tse>>

\* ... the last in queue is served.
TransferToLast(t) ==
  LET p == proc[t]
      l == Min(trnsfr[t])
      n == Len(queue[p][l])
      w == queue[p][l][n]
  IN /\ At(t, "transfer") /\ trnsfr[t] # {}
     /\ trnsfr' = [trnsfr EXCEPT ![t] = @ \ {l}]
     /\ queue' = [queue EXCEPT ![p][l] = SubSeq(@, 1, n - 1)]
     /\ unset' = [unset EXCEPT ![t] = IF queue'[p][l] = <<>> THEN @ \cup {l} ELSE @]
     /\ have' = [have EXCEPT ![w][p] = @ \cup {l}]
     /\ need' = [need EXCEPT ![w] = @ \ {l}]
     /\ IF need'[w] # {}
        THEN /\ Goto(t, "aquire") /\ wtr' = [wtr EXCEPT ![t] = w] /\ UNCHANGED wakeup
        ELSE /\ wakeup' = [wakeup EXCEPT ![t] = <<w>> \o @] /\ UNCHANGED <<pc, wtr>>
     /\ UNCHANGED <<flags, pix, calls, proc, seen, tse>>

\* One lock goes to the first thread in queue.
Transfer(t) ==
  LET p == proc[t]
      l == Min(trnsfr[t])
      w == Head(queue[p][l])
  IN /\ At(t, "transfer") /\ trnsfr[t] # {}
     /\ trnsfr' = [trnsfr EXCEPT ![t] = @ \ {l}]
     /\ queue' = [queue EXCEPT ![p][l] = Tail(@)]
     /\ unset' = [unset EXCEPT ![t] = IF queue'[p][l] = <<>> THEN @ \cup {l} ELSE @]
     /\ have' = [have EXCEPT ![w][p] = @ \cup {l}]
     /\ need' = [need EXCEPT ![w] = @ \ {l}]
     /\ IF need'[w] # {}
        THEN /\ Goto(t, "aquire") /\ wtr' = [wtr EXCEPT ![t] = w] /\ UNCHANGED wakeup
        ELSE /\ wakeup' = [wakeup EXCEPT ![t] = <<w>> \o @] /\ UNCHANGED <<pc, wtr>>
     /\ UNCHANGED <<flags, pix, calls, proc, seen, tse>>

Wakeup(t, ws) ==
  /\ wakeup' = [wakeup EXCEPT ![t] = ws]
  /\ IF ws = <<>> THEN Return(t) ELSE Goto(t, "wake") /\ UNCHANGED proc

TransferDone(t) ==
  LET p == proc[t] IN
  /\ At(t, "transfer") /\ trnsfr[t] = {}
  /\ flags' = [flags EXCEPT ![p] = @ \ {Waiter(l) : l \in unset[t]}]
  /\ unset' = [unset EXCEPT ![t] = {}]
  /\ pix' = [pix EXCEPT ![p] = NoThread]
  /\ Wakeup(t, wakeup[t])
  /\ UNCHANGED <<queue, have, calls, need, seen, tse, trnsfr, wtr>>

\* Threads that have all they need are told, and woken.
WakeTell(t) ==
  /\ At(t, "wake") /\ Goto(t, "set")
  /\ uaflgs' = [uaflgs EXCEPT ![Head(wakeup[t])] = 0]
  /\ UNCHANGED <<lock, have, calls, proc, need, seen, event, transfer>>

WakeSet(t) ==
  /\ At(t, "set") /\ event' = [event EXCEPT ![Head(wakeup[t])] = TRUE]
  /\ Wakeup(t, Tail(wakeup[t]))
  /\ UNCHANGED <<lock, have, calls, need, seen, uaflgs, trnsfr, unset, wtr>>

-----------------------------------------------------------------------------
\* A thread that is in a call goes on.
Step(t) ==
  \/ Continue(t) \/ Grab(t) \/ WaitPix(t)
  \/ AquireQueued(t) \/ AquireBusy(t) \/ AquireGot(t)
  \/ TseReset(t) \/ TseCheck(t) \/ TseWait(t)
  \/ TransferPix(t) \/ Transfer(t) \/ TransferDone(t)
  \/ WakeTell(t) \/ WakeSet(t)

CallerStep(t) ==
  /\ Idle(t)
  /\ \/ \E p \in Procs : \E locks \in SUBSET Uses[t][p] :
          Unlock(t, p, locks) \/ Lock(t, p, locks) \/ TryLock(t, p, locks)
     \/ \E p1, p2 \in Procs : p1 < p2 /\
          \E locks1 \in SUBSET Uses[t][p1], locks2 \in SUBSET Uses[t][p2] :
            SafeLock(t, p1, locks1, p2, locks2)

Next == \E t \in Threads : Step(t) \/ Reread(t) \/ CallerStep(t)

Spec == Init /\ [][Next]_vars

-----------------------------------------------------------------------------
Bits == Locks \cup {Waiter(l) : l \in Locks}

TypeOK ==
  /\ flags \in [Procs -> SUBSET Bits]
  /\ queue \in [Procs -> [Locks -> Seq(Threads)]]
  /\ pix \in [Procs -> Threads \cup {NoThread}]
  /\ have \in [Threads -> [Procs -> SUBSET Locks]]
  /\ rel \in [Threads -> [Procs -> SUBSET Locks]]
  /\ req \in [Threads -> [Procs -> SUBSET Locks]]
  /\ pc \in [Threads -> {"call", "failed", "aquire", "reset", "check", "wait",
                         "transfer_pix", "transfer", "wake", "set"}]
  /\ proc \in [Threads -> Procs]
  /\ need \in [Threads -> SUBSET Locks] /\ seen \in [Threads -> SUBSET Bits]
  /\ uaflgs \in [Threads -> 0..1] /\ event \in [Threads -> BOOLEAN]
  /\ trnsfr \in [Threads -> SUBSET Locks] /\ unset \in [Threads -> SUBSET Locks]
  /\ wtr \in [Threads -> Threads \cup {NoThread}]
  /\ wakeup \in [Threads -> Seq(Threads)]

\* Who has a lock, or is about to hand it over.
Owners(p, l) ==
  {t \in Threads : l \in have[t][p]} \cup {t \in Threads : proc[t] = p /\ l \in trnsfr[t]}

\* Mutual exclusion: a lock whose flag is set has one owner and one whose flag is
\* not set has none, with the fast paths that only change the flags and the hand
\* over through try_aquire() and transfer_locks() going on at the same time.
LockHasOneOwner ==
  \A p \in Procs, l \in Locks : Cardinality(Owners(p, l)) = IF l \in flags[p] THEN 1 ELSE 0

\* A lock that threads are queued for is locked, and its owner will see in the
\* flags that it has to hand it over (erts_smp_proc_unlock__() looks nowhere else);
\* when nobody changes the queues, no flag claims waiters that are not there.
WaitersAreSeen ==
  \A p \in Procs, l \in Locks :
    /\ queue[p][l] # <<>> => {l, Waiter(l)} \subseteq flags[p]
    /\ pix[p] = NoThread /\ Waiter(l) \in flags[p] => queue[p][l] # <<>>

\* No deadlock: a thread is queued only for a lock that comes, in the lock order
\* erl_process_lock.h states, after every lock it has, those that others got for
\* it and those proc_safelock() kept included.  So threads never wait in a circle.
WaitsAreInOrder ==
  \A p \in Procs, l \in Locks : \A i \in DOMAIN queue[p][l] :
    \A q \in Procs : \A m \in have[queue[p][l][i]][q] : Before(m, q, l, p)

\* wait_for_locks() returns only with all locks, whatever wakes the thread: its
\* event may still be set by the one who served it in an earlier wait.
WokenHasAll == \A t \in Threads : At(t, "call") => need[t] = {}

Asleep(t) == pc[t] \in {"reset", "check", "wait"}

\* A thread that sleeps for locks is in the queue of the first it needs, or being
\* served; one that has got all of them is awake, or is about to be told.
NobodyIsForgotten ==
  \A t \in Threads : Asleep(t) =>
    IF need[t] # {}
    THEN \/ \E i \in DOMAIN queue[proc[t]][Min(need[t])] : queue[proc[t]][Min(need[t])][i] = t
         \/ \E u \in Threads \ {t} : wtr[u] = t
    ELSE \/ uaflgs[t] = 0 /\ (event[t] \/ ~ At(t, "wait"))
         \/ \E u \in Threads : \E i \in DOMAIN wakeup[u] : wakeup[u][i] = t

\* A lock with waiters goes to the first of them: neither a trylock nor a thread
\* that spins in erts_proc_lock_failed() can overtake.
QueueIsServedInOrder ==
  [][\A p \in Procs, l \in Locks, t \in Threads :
       queue[p][l] # <<>> /\ l \in have'[t][p] \ have[t][p] => t = Head(queue[p][l])]_vars
=============================================================================

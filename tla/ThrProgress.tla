---------------------------- MODULE ThrProgress -----------------------------
(***************************************************************************)
(* Thread progress: erl_thr_progress.c.  Managed threads (schedulers, the  *)
(* aux thread) report that they have passed a point where they hold no     *)
(* reference to shared data; one of them, the leader, moves the global     *)
(* progress value when all have reported.  Unmanaged threads may delay     *)
(* progress with one of two reference counters.  All threads may ask to be *)
(* woken when a value is reached.                                          *)
(*                                                                         *)
(* One action is the code between two accesses of shared memory that other *)
(* threads can tell apart.  Memory accesses are sequentially consistent.   *)
(* Blocking (erts_thr_progress_block) is the subject of ThrBlock.          *)
(***************************************************************************)
EXTENDS ThrPrgrVal, FiniteSets, Sequences

CONSTANTS NoManaged,    \* intrnl->managed.no; thread 0 is the aux thread
          Askers,       \* managed threads that wait for values
          Delayers,     \* unmanaged threads that delay progress
          Requesters,   \* registered unmanaged threads that request wakeups
          None,         \* no value is waited for
          MaxProgress   \* bound: progress stops here

Managed == 0 .. NoManaged - 1
Unmanaged == Delayers \cup Requesters
Waiters == Askers \cup Requesters

ASSUME ConstantsAssumption ==
  /\ NoManaged \in Nat \ {0} /\ Askers \subseteq Managed
  /\ MaxProgress \in Nat /\ MaxProgress + 4 \in ProgressVal   \* values do not wrap
  /\ None \notin ProgressVal /\ \A S \in SUBSET Managed : S # None
  /\ Managed \cap Unmanaged = {} /\ Delayers \cap Requesters = {}
  /\ IsFiniteSet(Delayers)

VARIABLES
  current,      \* erts_thr_prgr__.current
  thr,          \* intrnl->thr[id].data.current
  confirmed,    \* tpd->confirmed
  leader,       \* tpd->leader
  lstate,       \* tpd->leader_state
  active,       \* tpd->active; lflgs counts the threads with it set
  no_leader,    \* ERTS_THR_PRGR_LFLG_NO_LEADER in lflgs
  waiting_um,   \* ERTS_THR_PRGR_LFLG_WAITING_UM in lflgs
  um_waiting,   \* misc.data.umrefc_ix.waiting
  um_current,   \* misc.data.umrefc_ix.current
  umrefc,       \* intrnl->umrefc[].refc
  mwd,          \* intrnl->managed.data[]: ids of threads to wake
  umwd,         \* intrnl->unmanaged.data[]: bits of threads to wake and len
  request,      \* tpd->wakeup_request[]
  sleeping,     \* ERTS_SSI_FLG_SLEEPING of a managed thread
  woken,        \* an unmanaged thread's event is set
  pc,           \* where a thread is
  ret,          \* where it continues after update() and leader_update()
  loc,          \* local variables of a managed thread
  uix,          \* umrefc_ix in unmanaged_delay
  val,          \* the value a thread waits for
  pend,         \* threads inside since val was taken (history)
  upend         \* unmanaged threads delaying since val was taken (history)

prgr == <<current, thr, confirmed>>
lead == <<leader, lstate>>
lflgs == <<active, no_leader, waiting_um>>
um == <<um_waiting, um_current, umrefc>>
wakeups == <<mwd, umwd, request>>
events == <<sleeping, woken>>
history == <<val, pend, upend>>
vars == <<prgr, lead, lflgs, um, wakeups, events, pc, ret, loc, uix, history>>

Slots == 0 .. ERTS_THR_PRGR_WAKEUP_DATA_SIZE - 1

\* A managed thread that may hold references to shared data.
Inside == {m \in Managed : pc[m] \in {"run", "aux", "idle", "reqw"}}

Delaying == {u \in Delayers : pc[u] = "delay"}

NoneActive == \A m \in Managed : ~active[m]

Reached(v) == has_reached_this(current, v)

WaitsForValue(x) == x \in Waiters /\ val[x] # None

\* A request for v, perhaps moved to the next value, is registered.
Asked(x) == \E v \in {val[x], Inc(val[x])} :
              request[x][ERTS_THR_PRGR_WAKEUP_IX(v)] = v

init_wakeup_request_array(cur) ==
  [i \in Slots |-> LET w == Sub(cur, ERTS_THR_PRGR_WAKEUP_DATA_SIZE + i)
                   IN  IF w > cur THEN Sub(w, 1) ELSE w]

NoLocals == [ix |-> 0, waiting_unmanaged |-> FALSE, current |-> 0]

\* Only current matters: the rest is set when leadership is taken over.
NotLeading == [current |-> ERTS_THR_PRGR_VAL_WAITING, next |-> 0,
               chk_next_ix |-> 0, um_current |-> 0, um_waiting |-> -1]

Init ==
  /\ current = ERTS_THR_PRGR_VAL_FIRST
  /\ thr = [m \in Managed |-> 0] /\ confirmed = [m \in Managed |-> 0]
  /\ leader = [m \in Managed |-> FALSE]
  /\ lstate = [m \in Managed |-> NotLeading]
  /\ active = [m \in Managed |-> TRUE]
  /\ no_leader = TRUE /\ waiting_um = FALSE
  /\ um_waiting = -1 /\ um_current = 0 /\ umrefc = [i \in {0, 1} |-> 0]
  /\ mwd = [i \in Slots |-> <<>>]
  /\ umwd = [i \in Slots |-> [bits |-> {}, len |-> 0]]
  /\ request = [x \in Waiters |-> init_wakeup_request_array(current)]
  /\ sleeping = [m \in Managed |-> FALSE]
  /\ woken = [u \in Requesters |-> FALSE]
  /\ pc = [x \in Managed \cup Unmanaged |->
             IF x \in Managed THEN "run" ELSE "free"]
  /\ ret = [m \in Managed |-> "run"]
  /\ loc = [m \in Managed |-> NoLocals]
  /\ uix = [u \in Delayers |-> 0]
  /\ val = [x \in Waiters |-> None]
  /\ pend = [x \in Waiters |-> {}] /\ upend = [x \in Waiters |-> {}]

Goto(x, from, to) == pc[x] = from /\ pc' = [pc EXCEPT ![x] = to]

\* Back to the caller of update() and leader_update().
Return(m, from) == Goto(m, from, ret[m]) /\ ret' = [ret EXCEPT ![m] = "run"]

\* m passes a point where it holds no references.
Quiesce(m) == pend' = [x \in Waiters |-> pend[x] \ {m}]

got_sched_wakeups == \E i \in Slots : mwd[i] # <<>> \/ umwd[i].len # 0

-----------------------------------------------------------------------------
(* Values that threads wait for: the caller's side.                        *)

\* x takes a value v; ghosts record who must have left when it is reached.
Take(x, v) ==
  /\ val[x] = None
  /\ Inc(v) <= MaxProgress
  /\ val' = [val EXCEPT ![x] = v]
  /\ pend' = [pend EXCEPT ![x] = Inside]
  /\ upend' = [upend EXCEPT ![x] = Delaying]

erts_thr_progress_later(x) ==
  /\ \/ x \in Askers /\ pc[x] = "run" /\ Take(x, current_to_later(confirmed[x]))
     \/ x \in Requesters /\ pc[x] = "free" /\ Take(x, current_to_later(current))
  /\ UNCHANGED <<prgr, lead, lflgs, um, wakeups, events, pc, ret, loc, uix>>

\* x finds that its value is reached, and is done with it.
HasReached(x) ==
  /\ pc[x] \in {"run", "aux", "free"}
  /\ x \in Managed => active[x]
  /\ WaitsForValue(x) /\ Reached(val[x])
  /\ val' = [val EXCEPT ![x] = None]
  /\ pend' = [pend EXCEPT ![x] = {}]
  /\ upend' = [upend EXCEPT ![x] = {}]
  /\ UNCHANGED <<prgr, lead, lflgs, um, wakeups, events, pc, ret, loc, uix>>

\* Mutant: the request is not moved past the confirmed value.
RequestConfirmed(m) == val[m]

\* A value already confirmed may be reached any time: take the next.
RequestValue(m) == IF confirmed[m] = val[m] THEN Inc(val[m]) ELSE val[m]

\* request_wakeup_managed(): up to the write of the request.
RequestWakeupManaged(m) ==
  /\ pc[m] \in {"run", "aux"} /\ active[m] /\ WaitsForValue(m) /\ ~Asked(m)
  /\ IF Reached(val[m])
     THEN /\ sleeping' = [sleeping EXCEPT ![m] = FALSE]
          /\ UNCHANGED <<request, pc, ret>>
     ELSE /\ request' = [request EXCEPT ![m][ERTS_THR_PRGR_WAKEUP_IX(
                           RequestValue(m))] = RequestValue(m)]
          /\ Goto(m, pc[m], "reqw") /\ ret' = [ret EXCEPT ![m] = pc[m]]
          /\ UNCHANGED sleeping
  /\ UNCHANGED <<prgr, lead, lflgs, um, mwd, umwd, woken, loc, uix, history>>

\* The write of the id, and of the new length.
RequestWrite(m) ==
  /\ Return(m, "reqw")
  /\ LET ix == ERTS_THR_PRGR_WAKEUP_IX(RequestValue(m))
     IN  mwd' = [mwd EXCEPT ![ix] = Append(@, m)]
  /\ UNCHANGED <<prgr, lead, lflgs, um, umwd, request, events, loc, uix, history>>

-----------------------------------------------------------------------------
(* update()                                                                *)

Confirm(m, v) == /\ confirmed' = [confirmed EXCEPT ![m] = v]
                 /\ thr' = [thr EXCEPT ![m] = v]

\* Called between two processes, or on the way to and from sleep.
Update(m) ==
  /\ ~leader[m]
  /\ \E from \in {"run", "upd"} : Goto(m, from, "flags")
  /\ IF confirmed[m] = current THEN Confirm(m, Inc(current))
                               ELSE UNCHANGED <<thr, confirmed>>
  /\ Quiesce(m)
  /\ UNCHANGED <<current, lead, lflgs, um, wakeups, events, ret, loc, uix, val, upend>>

\* Is there a leader?  An inactive thread takes over only if no thread is active.
UpdateReadFlags(m) ==
  /\ IF no_leader /\ (active[m] \/ NoneActive)
     THEN Goto(m, "flags", "seize") /\ UNCHANGED ret
     ELSE Return(m, "flags")
  /\ UNCHANGED <<prgr, lead, lflgs, um, wakeups, events, loc, uix, history>>

\* The managed threads the leader m has to look at, from ix on.
Others(m, ix) == {n \in ix .. NoManaged - 1 : n # m}

CheckFrom(m, from, ix) ==
  /\ Goto(m, from, IF Others(m, ix) = {} THEN "um" ELSE "chk")
  /\ loc' = [loc EXCEPT ![m].ix = ix, ![m].waiting_unmanaged = FALSE]

\* leader_update(), after taking over as leader from another thread.
\* misc.data.chk_next_ix is never written after it is initialised to 0.
TakeOver(m, from) ==
  /\ lstate' = [lstate EXCEPT ![m] =
                  [current |-> current, next |-> Inc(current),
                   chk_next_ix |-> 0, um_waiting |-> um_waiting,
                   um_current |-> um_current]]
  /\ IF confirmed[m] = current THEN Confirm(m, Inc(current))
                               ELSE UNCHANGED <<thr, confirmed>>
  /\ CheckFrom(m, from, 0)

\* Mutant: what the thread read before is not checked again.
SeizeUnchecked(m) ==
  /\ no_leader' = FALSE /\ leader' = [leader EXCEPT ![m] = TRUE]
  /\ TakeOver(m, "seize")
  /\ UNCHANGED <<current, active, waiting_um, um, wakeups, events, ret, uix, history>>

\* erts_atomic32_read_band_acqb decides between the threads that try.
SeizeLeadership(m) ==
  /\ no_leader' = FALSE
  /\ leader' = [leader EXCEPT ![m] = no_leader]
  /\ IF no_leader
     THEN TakeOver(m, "seize") /\ UNCHANGED ret
     ELSE Return(m, "seize") /\ UNCHANGED <<lstate, thr, confirmed, loc>>
  /\ UNCHANGED <<current, active, waiting_um, um, wakeups, events, uix, history>>

-----------------------------------------------------------------------------
(* leader_update()                                                         *)

\* The leader continues where it was.
LeaderContinue(m) ==
  /\ leader[m] /\ pc[m] \in {"run", "upd"}
  /\ CheckFrom(m, pc[m], lstate[m].chk_next_ix)
  /\ Quiesce(m)
  /\ UNCHANGED <<prgr, lead, lflgs, um, wakeups, events, ret, uix, val, upend>>

\* Thread ix has neither confirmed the next value nor sleeps.
IsBehind(m, ix) == thr[ix] \notin {lstate[m].next, ERTS_THR_PRGR_VAL_WAITING}

CheckManaged(m) ==
  /\ pc[m] = "chk"
  /\ \E ix \in Others(m, loc[m].ix) :
       /\ \A n \in Others(m, loc[m].ix) : ix <= n
       /\ IF IsBehind(m, ix)
          THEN /\ lstate' = [lstate EXCEPT ![m].chk_next_ix = ix]
               /\ Goto(m, "chk", "done")
               /\ UNCHANGED loc
          ELSE CheckFrom(m, "chk", ix + 1) /\ UNCHANGED lstate
  /\ UNCHANGED <<prgr, leader, lflgs, um, wakeups, events, ret, uix, history>>

\* The counter that unmanaged threads use now, or the one waited for.
CheckUnmanaged(m) ==
  /\ pc[m] = "um"
  /\ LET waiting == lstate[m].um_waiting # -1
         ix == IF waiting THEN lstate[m].um_waiting ELSE lstate[m].um_current
     IN  /\ loc' = [loc EXCEPT ![m].waiting_unmanaged = waiting]
         /\ \/ /\ umrefc[ix] = 0
               /\ Goto(m, "um", "prog")
               /\ UNCHANGED <<lstate, um_current>>
            \/ /\ umrefc[ix] # 0 /\ waiting
               /\ Goto(m, "um", "done")
               /\ UNCHANGED <<lstate, um_current>>
            \/ /\ umrefc[ix] # 0 /\ ~waiting
               /\ um_current' = (ix + 1) % 2
               /\ lstate' = [lstate EXCEPT ![m].um_waiting = ix,
                                           ![m].chk_next_ix = NoManaged]
               /\ Goto(m, "um", "um2")
  /\ UNCHANGED <<prgr, leader, lflgs, um_waiting, umrefc, wakeups, events, ret, uix, history>>

\* The counter again, now that new threads use the other one.
CheckUnmanagedAgain(m) ==
  /\ pc[m] = "um2"
  /\ Goto(m, "um2", IF umrefc[lstate[m].um_waiting] = 0 THEN "prog" ELSE "done")
  /\ loc' = [loc EXCEPT ![m].waiting_unmanaged = TRUE]
  /\ UNCHANGED <<prgr, lead, lflgs, um, wakeups, events, ret, uix, history>>

MakeProgress(m) ==
  /\ lstate[m].next <= MaxProgress
  /\ Goto(m, "prog", "handle")
  /\ current' = lstate[m].next
  /\ Confirm(m, Inc(lstate[m].next))
  /\ lstate' = [lstate EXCEPT ![m].current = lstate[m].next,
                              ![m].next = Inc(@), ![m].chk_next_ix = 0]
  /\ UNCHANGED <<leader, lflgs, um, wakeups, events, ret, loc, uix, history>>

\* The bound of the model.
StopProgress(m) ==
  /\ lstate[m].next > MaxProgress
  /\ Goto(m, "prog", "done")
  /\ UNCHANGED <<prgr, lead, lflgs, um, wakeups, events, ret, loc, uix, history>>

\* Mutant: the loop over the ids ends one too early.
HandleAllButLast(m) ==
  /\ Goto(m, "handle", "handle_um")
  /\ LET ix == ERTS_THR_PRGR_WAKEUP_IX(lstate[m].current)
         ids == {mwd[ix][i] : i \in 1 .. Len(mwd[ix]) - 1}
     IN  /\ sleeping' = [n \in Managed |-> sleeping[n] /\ n \notin ids]
         /\ mwd' = [mwd EXCEPT ![ix] = <<>>]
  /\ UNCHANGED <<prgr, lead, lflgs, um, umwd, request, woken, ret, loc, uix, history>>

\* handle_wakeup_requests(): managed threads.
HandleManaged(m) ==
  /\ Goto(m, "handle", "handle_um")
  /\ LET ix == ERTS_THR_PRGR_WAKEUP_IX(lstate[m].current)
         ids == {mwd[ix][i] : i \in 1 .. Len(mwd[ix])}
     IN  /\ sleeping' = [n \in Managed |-> sleeping[n] /\ n \notin ids]
         /\ mwd' = [mwd EXCEPT ![ix] = <<>>]
  /\ UNCHANGED <<prgr, lead, lflgs, um, umwd, request, woken, ret, loc, uix, history>>

AfterWakeups(m) == IF loc[m].waiting_unmanaged THEN "progressed" ELSE "done"

\* wakeup_unmanaged_threads(): wakes the threads whose bits it reads,
HandleUnmanaged(m) ==
  /\ LET ix == ERTS_THR_PRGR_WAKEUP_IX(lstate[m].current)
     IN  IF umwd[ix].len = 0
         THEN Goto(m, "handle_um", AfterWakeups(m)) /\ UNCHANGED woken
         ELSE /\ Goto(m, "handle_um", "handle_bits")
              /\ woken' = [u \in Requesters |-> woken[u] \/ u \in umwd[ix].bits]
  /\ UNCHANGED <<prgr, lead, lflgs, um, wakeups, sleeping, ret, loc, uix, history>>

\* and clears all bits, one set in between too,
HandleBits(m) ==
  /\ Goto(m, "handle_bits", "handle_len")
  /\ umwd' = [umwd EXCEPT ![ERTS_THR_PRGR_WAKEUP_IX(lstate[m].current)].bits = {}]
  /\ UNCHANGED <<prgr, lead, lflgs, um, mwd, request, events, ret, loc, uix, history>>

\* then the length.
HandleLen(m) ==
  /\ Goto(m, "handle_len", AfterWakeups(m))
  /\ umwd' = [umwd EXCEPT ![ERTS_THR_PRGR_WAKEUP_IX(lstate[m].current)].len = 0]
  /\ UNCHANGED <<prgr, lead, lflgs, um, mwd, request, events, ret, loc, uix, history>>

\* The threads waited for have continued.
Progressed(m) ==
  /\ Goto(m, "progressed", "done")
  /\ lstate' = [lstate EXCEPT ![m].um_waiting = -1]
  /\ waiting_um' = FALSE
  /\ loc' = [loc EXCEPT ![m].waiting_unmanaged = FALSE]
  /\ UNCHANGED <<prgr, leader, active, no_leader, um, wakeups, events, ret, uix, history>>

\* An active leader stays leader.
RemainLeader(m) ==
  /\ active[m]
  /\ Return(m, "done")
  /\ loc' = [loc EXCEPT ![m] = NoLocals]
  /\ UNCHANGED <<prgr, lead, lflgs, um, wakeups, events, uix, history>>

\* Mutant: the counter that is waited for is not left to the next leader.
StepDownForgets(m) ==
  /\ ~active[m]
  /\ leader' = [leader EXCEPT ![m] = FALSE]
  /\ lstate' = [lstate EXCEPT ![m] = NotLeading]
  /\ um_waiting' = um_waiting
  /\ no_leader' = TRUE
  /\ waiting_um' = (waiting_um \/ loc[m].waiting_unmanaged)
  /\ loc' = [loc EXCEPT ![m] = [NoLocals EXCEPT !.ix =
                                IF loc[m].waiting_unmanaged
                                THEN lstate[m].um_waiting ELSE 0]]
  /\ IF loc[m].waiting_unmanaged \/ (~waiting_um /\ NoneActive)
     THEN /\ Goto(m, "done", IF loc[m].waiting_unmanaged THEN "recheck" ELSE "got")
          /\ UNCHANGED ret
     ELSE Return(m, "done")
  /\ UNCHANGED <<prgr, active, um_current, umrefc, wakeups, events, uix, history>>

\* An inactive one leaves the rest to others.
StepDown(m) ==
  /\ ~active[m]
  /\ leader' = [leader EXCEPT ![m] = FALSE]
  /\ lstate' = [lstate EXCEPT ![m] = NotLeading]
  /\ um_waiting' = lstate[m].um_waiting
  /\ no_leader' = TRUE
  /\ waiting_um' = (waiting_um \/ loc[m].waiting_unmanaged)
  /\ loc' = [loc EXCEPT ![m] = [NoLocals EXCEPT !.ix =
                                IF loc[m].waiting_unmanaged
                                THEN lstate[m].um_waiting ELSE 0]]
  /\ IF loc[m].waiting_unmanaged \/ (~waiting_um /\ NoneActive)
     THEN /\ Goto(m, "done", IF loc[m].waiting_unmanaged THEN "recheck" ELSE "got")
          /\ UNCHANGED ret
     ELSE Return(m, "done")
  /\ UNCHANGED <<prgr, active, um_current, umrefc, wakeups, events, uix, history>>

\* The last unmanaged thread may have continued before the flag was set.
Recheck(m) ==
  /\ pc[m] = "recheck"
  /\ IF umrefc[loc[m].ix] = 0
     THEN Goto(m, "recheck", "got") /\ UNCHANGED ret
     ELSE Return(m, "recheck")
  /\ loc' = [loc EXCEPT ![m] = NoLocals]
  /\ UNCHANGED <<prgr, lead, lflgs, um, wakeups, events, uix, history>>

WakeupAux == sleeping' = [sleeping EXCEPT ![0] = FALSE]

\* Someone needs to make progress: wakeup_managed(0).
WakeupIfRequests(m) ==
  /\ Return(m, "got")
  /\ IF got_sched_wakeups THEN WakeupAux ELSE UNCHANGED sleeping
  /\ UNCHANGED <<prgr, lead, lflgs, um, wakeups, woken, loc, uix, history>>

-----------------------------------------------------------------------------
(* Going to sleep and waking up: aux_thread() and scheduler_wait() call    *)
(* erts_thr_progress_active, _prepare_wait and _finalize_wait.             *)

\* sched_prep_spin_wait(); from here on a wakeup is not lost.
PrepareSpinWait(m) ==
  /\ \E from \in {"run", "idle"} : Goto(m, from, "aux")
  /\ sleeping' = [sleeping EXCEPT ![m] = TRUE]
  /\ UNCHANGED <<prgr, lead, lflgs, um, wakeups, woken, ret, loc, uix, history>>

\* erts_thr_progress_active(esdp, 1): there is work after all.  The thread
\* prepares anew before it sleeps.
Activate(m) ==
  /\ ~active[m] /\ Goto(m, "aux", "run")
  /\ active' = [active EXCEPT ![m] = TRUE]
  /\ sleeping' = [sleeping EXCEPT ![m] = FALSE]
  /\ UNCHANGED <<prgr, lead, no_leader, waiting_um, um, wakeups, woken, ret, loc, uix, history>>

\* erts_thr_progress_active(esdp, 0)
Deactivate(m) ==
  /\ active[m]
  /\ WaitsForValue(m) => ~Reached(val[m]) /\ Asked(m)
  /\ Goto(m, "aux", "upd") /\ ret' = [ret EXCEPT ![m] = "prep"]
  /\ active' = [active EXCEPT ![m] = FALSE]
  /\ Quiesce(m)
  /\ UNCHANGED <<prgr, lead, no_leader, waiting_um, um, wakeups, events, loc, uix, val, upend>>

\* A thread woken for nothing but progress goes back to sleep.
StayInactive(m) ==
  /\ ~active[m] /\ ~WaitsForValue(m)
  /\ Goto(m, "aux", "prep")
  /\ Quiesce(m)
  /\ UNCHANGED <<prgr, lead, lflgs, um, wakeups, events, ret, loc, uix, val, upend>>

\* erts_thr_progress_prepare_wait()
PrepareWait(m) ==
  /\ Goto(m, "prep", "prep2")
  /\ Confirm(m, ERTS_THR_PRGR_VAL_WAITING)
  /\ UNCHANGED <<current, lead, lflgs, um, wakeups, events, ret, loc, uix, history>>

PrepareWaitCheck(m) ==
  /\ IF no_leader /\ ~waiting_um /\ NoneActive
     THEN Goto(m, "prep2", "got") /\ ret' = [ret EXCEPT ![m] = "wait"]
     ELSE Goto(m, "prep2", "wait") /\ UNCHANGED ret
  /\ UNCHANGED <<prgr, lead, lflgs, um, wakeups, events, loc, uix, history>>

\* Work arrives for a sleeping thread.
Poke(m) ==
  /\ pc[m] = "wait" /\ sleeping[m]
  /\ sleeping' = [sleeping EXCEPT ![m] = FALSE]
  /\ UNCHANGED <<prgr, lead, lflgs, um, wakeups, woken, pc, ret, loc, uix, history>>

\* erts_thr_progress_finalize_wait(): reads current,
WakeUp(m) ==
  /\ ~sleeping[m] /\ Goto(m, "wait", "fin")
  /\ loc' = [loc EXCEPT ![m].current = current]
  /\ UNCHANGED <<prgr, lead, lflgs, um, wakeups, events, ret, uix, history>>

\* confirms the next value,
FinalizeWait(m) ==
  /\ Goto(m, "fin", "fin2")
  /\ Confirm(m, Inc(loc[m].current))
  /\ UNCHANGED <<current, lead, lflgs, um, wakeups, events, ret, loc, uix, history>>

\* Mutant: current is not read again.
FinalizeOnce(m) ==
  /\ Goto(m, "fin2", "upd") /\ ret' = [ret EXCEPT ![m] = "idle"]
  /\ loc' = [loc EXCEPT ![m].current = 0]
  /\ UNCHANGED <<prgr, lead, lflgs, um, wakeups, events, uix, history>>

\* and goes on only if current has not moved.
FinalizeWaitCheck(m) ==
  /\ \/ /\ loc[m].current = current
        /\ Goto(m, "fin2", "upd") /\ ret' = [ret EXCEPT ![m] = "idle"]
        /\ loc' = [loc EXCEPT ![m].current = 0]
     \/ /\ loc[m].current # current
        /\ Goto(m, "fin2", "fin")
        /\ loc' = [loc EXCEPT ![m].current = current]
        /\ UNCHANGED ret
  /\ UNCHANGED <<prgr, lead, lflgs, um, wakeups, events, uix, history>>

-----------------------------------------------------------------------------
(* Unmanaged threads that delay progress.                                  *)

\* erts_thr_progress_unmanaged_delay__(): reads the counter to use,
DelayRead(u) ==
  /\ Goto(u, "free", "inc")
  /\ uix' = [uix EXCEPT ![u] = um_current]
  /\ UNCHANGED <<prgr, lead, lflgs, um, wakeups, events, ret, loc, history>>

\* increments it,
DelayInc(u) ==
  /\ Goto(u, "inc", "cmp")
  /\ umrefc' = [umrefc EXCEPT ![uix[u]] = @ + 1]
  /\ UNCHANGED <<prgr, lead, lflgs, um_waiting, um_current, wakeups, events, ret, loc, uix, history>>

\* and tries again if the counter to use has changed.
DelayCheck(u) ==
  /\ Goto(u, "cmp", IF um_current = uix[u] THEN "delay" ELSE "retry")
  /\ UNCHANGED <<prgr, lead, lflgs, um, wakeups, events, ret, loc, uix, history>>

\* unmanaged_continue()
UnmanagedContinue(u) ==
  /\ pc[u] \in {"delay", "retry"}
  /\ umrefc' = [umrefc EXCEPT ![uix[u]] = @ - 1]
  /\ uix' = [uix EXCEPT ![u] = IF pc[u] = "retry" THEN (@ + 1) % 2 ELSE 0]
  /\ upend' = [x \in Waiters |-> upend[x] \ {u}]
  /\ pc' = [pc EXCEPT ![u] =
              CASE umrefc'[uix[u]] = 0 /\ pc[u] = "delay" -> "cont_flags"
                [] umrefc'[uix[u]] = 0 /\ pc[u] = "retry" -> "retry_flags"
                [] umrefc'[uix[u]] # 0 /\ pc[u] = "delay" -> "free"
                [] umrefc'[uix[u]] # 0 /\ pc[u] = "retry" -> "inc"]
  /\ UNCHANGED <<prgr, lead, lflgs, um_waiting, um_current, wakeups, events, ret, loc, val, pend>>

\* Others may wait for the last one.
ContinueCheck(u) ==
  /\ \/ Goto(u, "cont_flags", "free")
     \/ Goto(u, "retry_flags", "inc")
  /\ IF no_leader /\ waiting_um /\ NoneActive /\ got_sched_wakeups
     THEN WakeupAux ELSE UNCHANGED sleeping
  /\ UNCHANGED <<prgr, lead, lflgs, um, wakeups, woken, ret, loc, uix, history>>

-----------------------------------------------------------------------------
(* Unmanaged threads that request wakeups: request_wakeup_unmanaged().     *)

\* The thread has seen that its value is not reached.
NotReached(u) ==
  /\ WaitsForValue(u) /\ ~Reached(val[u])
  /\ Goto(u, "free", "ask")
  /\ UNCHANGED <<prgr, lead, lflgs, um, wakeups, events, ret, loc, uix, history>>

RequestWakeupUnmanaged(u) ==
  /\ pc[u] = "ask"
  /\ IF Reached(val[u])
     THEN Goto(u, "ask", "sleep") /\ woken' = [woken EXCEPT ![u] = TRUE]
     ELSE /\ Goto(u, "ask",
                  IF request[u][ERTS_THR_PRGR_WAKEUP_IX(val[u])] = val[u]
                  THEN "sleep" ELSE "bits")
          /\ UNCHANGED woken
  /\ UNCHANGED <<prgr, lead, lflgs, um, wakeups, sleeping, ret, loc, uix, history>>

RequestBits(u) ==
  /\ Goto(u, "bits", "len")
  /\ umwd' = [umwd EXCEPT ![ERTS_THR_PRGR_WAKEUP_IX(val[u])].bits = @ \cup {u}]
  /\ UNCHANGED <<prgr, lead, lflgs, um, mwd, request, events, ret, loc, uix, history>>

RequestLen(u) ==
  /\ Goto(u, "len", "again")
  /\ umwd' = [umwd EXCEPT ![ERTS_THR_PRGR_WAKEUP_IX(val[u])].len = @ + 1]
  /\ UNCHANGED <<prgr, lead, lflgs, um, mwd, request, events, ret, loc, uix, history>>

\* Mutant: the value may be reached while the request is written.
RequestNotChecked(u) ==
  /\ Goto(u, "again", "sleep")
  /\ request' = [request EXCEPT ![u][ERTS_THR_PRGR_WAKEUP_IX(val[u])] = val[u]]
  /\ UNCHANGED <<prgr, lead, lflgs, um, mwd, umwd, events, ret, loc, uix, history>>

RequestCheckAgain(u) ==
  /\ Goto(u, "again", "sleep")
  /\ IF Reached(val[u])
     THEN woken' = [woken EXCEPT ![u] = TRUE] /\ UNCHANGED request
     ELSE /\ request' = [request EXCEPT ![u][ERTS_THR_PRGR_WAKEUP_IX(val[u])] = val[u]]
          /\ UNCHANGED woken
  /\ UNCHANGED <<prgr, lead, lflgs, um, mwd, umwd, sleeping, ret, loc, uix, history>>

\* The thread's own wait, as in erl_async.c.
UnmanagedWakeUp(u) ==
  /\ woken[u] /\ Goto(u, "sleep", "free")
  /\ woken' = [woken EXCEPT ![u] = FALSE]
  /\ UNCHANGED <<prgr, lead, lflgs, um, wakeups, sleeping, ret, loc, uix, history>>

-----------------------------------------------------------------------------
LeaderUpdate(m) ==
  \/ LeaderContinue(m) \/ CheckManaged(m) \/ CheckUnmanaged(m)
  \/ CheckUnmanagedAgain(m) \/ MakeProgress(m) \/ StopProgress(m)
  \/ HandleManaged(m) \/ HandleUnmanaged(m) \/ HandleBits(m)
  \/ HandleLen(m) \/ Progressed(m)
  \/ RemainLeader(m) \/ StepDown(m) \/ Recheck(m)

\* What a managed thread does without any new work.
ManagedStep(m) ==
  \/ HasReached(m) \/ RequestWakeupManaged(m) \/ RequestWrite(m)
  \/ Update(m) \/ UpdateReadFlags(m)
  \/ SeizeLeadership(m) \/ LeaderUpdate(m) \/ WakeupIfRequests(m)
  \/ PrepareSpinWait(m) \/ Deactivate(m) \/ StayInactive(m)
  \/ (WaitsForValue(m) /\ Activate(m))
  \/ PrepareWait(m) \/ PrepareWaitCheck(m)
  \/ WakeUp(m) \/ FinalizeWait(m) \/ FinalizeWaitCheck(m)

DelayerStep(u) == \/ DelayInc(u) \/ DelayCheck(u)
                  \/ UnmanagedContinue(u) \/ ContinueCheck(u)

RequesterStep(u) == \/ HasReached(u) \/ NotReached(u)
                    \/ RequestWakeupUnmanaged(u)
                    \/ RequestBits(u) \/ RequestLen(u) \/ RequestCheckAgain(u)
                    \/ UnmanagedWakeUp(u)

Next == \/ \E m \in Managed : ManagedStep(m) \/ Activate(m) \/ Poke(m)
        \/ \E x \in Waiters : erts_thr_progress_later(x)
        \/ \E u \in Delayers : DelayRead(u) \/ DelayerStep(u)
        \/ \E u \in Requesters : RequesterStep(u)

Spec == Init /\ [][Next]_vars

\* Schedulers call erts_thr_progress_update between processes.
UpdateRunning(m) == pc[m] = "run" /\ (Update(m) \/ LeaderContinue(m))

\* Threads go on; a delay ends.  New work, and new delays, need not come.
FairSpec == /\ Spec
            /\ \A m \in Managed : WF_vars(ManagedStep(m))
            /\ \A m \in Managed \ {0} : SF_vars(UpdateRunning(m))
            /\ \A u \in Delayers : WF_vars(DelayerStep(u))
            /\ \A u \in Requesters : WF_vars(RequesterStep(u))

-----------------------------------------------------------------------------
(* Properties.                                                             *)

\* Types.
TypeOK ==
  /\ current \in ProgressVal
  /\ thr \in [Managed -> ErtsThrPrgrVal]
  /\ confirmed \in [Managed -> ErtsThrPrgrVal]
  /\ leader \in [Managed -> BOOLEAN]
  /\ lstate \in [Managed -> [current : ErtsThrPrgrVal, next : ProgressVal,
                             chk_next_ix : 0 .. NoManaged,
                             um_current : {0, 1}, um_waiting : {-1, 0, 1}]]
  /\ active \in [Managed -> BOOLEAN]
  /\ no_leader \in BOOLEAN /\ waiting_um \in BOOLEAN
  /\ um_waiting \in {-1, 0, 1} /\ um_current \in {0, 1}
  /\ umrefc \in [{0, 1} -> 0 .. Cardinality(Delayers)]
  /\ mwd \in [Slots -> Seq(Managed)]
  /\ umwd \in [Slots -> [bits : SUBSET Requesters, len : Nat]]
  /\ request \in [Waiters -> [Slots -> ErtsThrPrgrVal]]
  /\ sleeping \in [Managed -> BOOLEAN] /\ woken \in [Requesters -> BOOLEAN]
  /\ val \in [Waiters -> ProgressVal \cup {None}]
  /\ pend \in [Waiters -> SUBSET Managed] /\ upend \in [Waiters -> SUBSET Delayers]

\* There is never more than one leader, and none while the flag says so: two
\* would both move current.
AtMostOneLeader ==
  \A m \in Managed : leader[m] =>
    ~no_leader /\ \A n \in Managed : leader[n] => n = m

\* A thread that runs has confirmed the current or the next value, so that the
\* leader's comparison with the next value decides (the assertion in
\* leader_update, and what finalize_wait loops for).
RunningThreadsAreTracked ==
  \A m \in Inside : thr[m] \in {current, Inc(current)} /\ confirmed[m] = thr[m]

\* While the leader wakes the threads of a value, no thread writes to that
\* value's slot and the slot holds requests for that value only, each once.
RequestsMeetTheirValue ==
  \A m \in Managed : pc[m] = "handle" =>
    LET ix == ERTS_THR_PRGR_WAKEUP_IX(current)
    IN  /\ \A n \in Managed :
             pc[n] = "reqw" => ERTS_THR_PRGR_WAKEUP_IX(RequestValue(n)) # ix
        /\ \A i \in 1 .. Len(mwd[ix]) : request[mwd[ix][i]][ix] = current
        /\ \A i, j \in 1 .. Len(mwd[ix]) : mwd[ix][i] = mwd[ix][j] => i = j

\* Thread progress implements the abstract grace period.
GP == INSTANCE GracePeriod WITH
        Threads <- Managed, NotWaiting <- None, inside <- Inside,
        waits <- [x \in Waiters |-> IF val[x] = None THEN None ELSE pend[x]]

ImplementsGracePeriod == GP!Spec

\* The counter a delaying thread has incremented is the one new threads use,
\* or one that the leader, or the next leader, waits for.
DelayCounterIsWatched ==
  \A u \in Delaying :
    \/ uix[u] = um_current
    \/ \E m \in Managed : leader[m] /\ lstate[m].um_waiting = uix[u]
    \/ no_leader /\ um_waiting = uix[u]

\* Threads do not all sleep while a managed thread's request is registered and
\* nothing delays progress: the last one wakes the aux thread.
NoStall ==
  (\E i \in Slots : mwd[i] # <<>>) =>
    \/ \E m \in Managed : ~(pc[m] = "wait" /\ sleeping[m])
    \/ \E u \in Delayers : pc[u] # "free"

\* When a value is reached, no unmanaged thread still delays progress that
\* delayed it when the value was taken.
DelayIsRespected ==
  \A x \in Waiters : val[x] # None /\ Reached(val[x]) => upend[x] = {}

\* The value a managed thread waits for is reached and the thread is not left
\* asleep, even if all threads go to sleep: someone is woken to make progress.
ManagedIsWoken ==
  \A m \in Askers :
    WaitsForValue(m) ~> \/ ~WaitsForValue(m)
                        \/ Reached(val[m]) /\ ~(pc[m] = "wait" /\ sleeping[m])

\* An unmanaged thread that waits for a value notices when it is reached.
UnmanagedIsWoken ==
  \A u \in Requesters : (val[u] # None /\ Reached(val[u])) ~> (val[u] = None)
=============================================================================

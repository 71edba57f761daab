---------------------------- MODULE TimerWheel ------------------------------
(***************************************************************************)
(* The timing wheel: time.c, with the delivery of time in erl_time_sup.c   *)
(* and the schedulers that take the delivered ticks and bump the wheel.    *)
(*                                                                         *)
(* A timer is in the slot of the wheel that will be processed after as     *)
(* many ticks as it has left, and counts how often the wheel goes round    *)
(* before that.  Ticks are delivered to do_time; a scheduler takes all of  *)
(* them and then bumps the wheel.  Everything under tiw_lock is one step.  *)
(***************************************************************************)
EXTENDS Integers, FiniteSets, FiniteSetsExt

CONSTANTS Timers, Schedulers,
          NoTimer,      \* NULL
          TIW_SIZE,
          Timeouts,     \* timeouts that are asked for, in ticks
          MaxBacklog    \* bound: ticks delivered and not yet bumped

ASSUME SizeAssumption == TIW_SIZE \in Nat \ {0} /\ MaxBacklog \in Nat
ASSUME SchedulerAssumption == IsFiniteSet(Schedulers)
ASSUME TimerAssumption == /\ NoTimer \notin Timers /\ IsFiniteSet(Timers)
                          /\ Timeouts \subseteq Nat
                          /\ \E max \in Timeouts : \A t \in Timeouts : t <= max

VARIABLES
  active, slot, count,            \* the fields of an ErlTimer
  tiw_pos, tiw_nto, tiw_min, tiw_min_ptr,
  do_time,                        \* ticks delivered
  dt,                             \* ticks a scheduler has taken
  timedout,                       \* timers whose callback it is about to call
  owed                            \* ticks to be delivered before a timer is due

timer == <<active, slot, count>>
min == <<tiw_min, tiw_min_ptr>>
vars == <<timer, tiw_pos, tiw_nto, min, do_time, dt, timedout, owed>>

Init ==
  /\ active = {} /\ slot = [p \in Timers |-> 0] /\ count = [p \in Timers |-> 0]
  /\ tiw_pos = 0 /\ tiw_nto = 0 /\ tiw_min = 0 /\ tiw_min_ptr = NoTimer
  /\ do_time = 0
  /\ dt = [s \in Schedulers |-> 0] /\ timedout = [s \in Schedulers |-> {}]
  /\ owed = [p \in Timers |-> 0]

\* Ticks that are delivered but not yet counted by the wheel, those that a
\* scheduler has taken one by one.
Taken == {x \in Schedulers \X (1 .. MaxBacklog) : x[2] <= dt[x[1]]}
Backlog == do_time + Cardinality(Taken)

-----------------------------------------------------------------------------
\* erts_deliver_time(): some ticks have passed since it was called last.
erts_deliver_time ==
  \E elapsed \in 1 .. MaxBacklog - do_time :
    /\ Backlog + elapsed <= MaxBacklog /\ do_time' = do_time + elapsed
    /\ owed' = [p \in Timers |-> IF owed[p] > elapsed THEN owed[p] - elapsed ELSE 0]
    /\ UNCHANGED <<timer, tiw_pos, tiw_nto, min, dt, timedout>>

\* erts_do_time_read_and_reset()
read_and_reset(s) ==
  /\ do_time > 0 /\ dt[s] = 0 /\ timedout[s] = {}
  /\ dt' = [dt EXCEPT ![s] = do_time] /\ do_time' = 0
  /\ UNCHANGED <<timer, tiw_pos, tiw_nto, min, timedout, owed>>

\* How many rounds of the wheel end when the slot at distance i is reached.
Rounds(ticks, i) ==
  LET keep == ticks % TIW_SIZE
      steps == IF ticks > TIW_SIZE THEN TIW_SIZE ELSE ticks
  IN  IF keep < steps /\ i >= keep THEN ticks \div TIW_SIZE ELSE ticks \div TIW_SIZE + 1

\* Slots from tiw_pos on; the position itself is processed next.
Distance(p) == (slot[p] - tiw_pos) % TIW_SIZE

\* bump_timer_internal() goes round the wheel at most once.
Passed(ticks) == {p \in active : Distance(p) < ticks}

\* Mutant: a timer times out one round too early.
ExpiredEarly(ticks) == {p \in Passed(ticks) : count[p] <= Rounds(ticks, Distance(p))}

Expired(ticks) == {p \in Passed(ticks) : count[p] < Rounds(ticks, Distance(p))}

\* Mutant: ticks before the next timeout are not counted.
BumpWhenDue(s) ==
  LET ticks == dt[s]
      out == Expired(ticks)
  IN  /\ ticks > 0 /\ (tiw_min_ptr = NoTimer \/ ticks >= tiw_min)
       /\ dt' = [dt EXCEPT ![s] = 0]
      /\ active' = active \ out
      /\ count' = [p \in Timers |-> IF p \in Passed(ticks) \ out
                                    THEN count[p] - Rounds(ticks, Distance(p)) ELSE count[p]]
      /\ tiw_nto' = tiw_nto - Cardinality(out)
      /\ tiw_pos' = IF tiw_nto = 0 THEN tiw_pos ELSE (tiw_pos + ticks) % TIW_SIZE
      /\ IF tiw_min_ptr \in out
         THEN tiw_min_ptr' = NoTimer /\ tiw_min' = 0
         ELSE /\ tiw_min' = IF tiw_min_ptr = NoTimer THEN tiw_min ELSE tiw_min - ticks
              /\ UNCHANGED tiw_min_ptr
      /\ timedout' = [timedout EXCEPT ![s] = out]
      /\ UNCHANGED <<slot, do_time, owed>>

\* With no timeouts the position stays, for nothing is relative to it.
erts_bump_timer(s) ==
  LET ticks == dt[s]
      out == Expired(ticks)
  IN  /\ ticks > 0 /\ dt' = [dt EXCEPT ![s] = 0]
      /\ active' = active \ out
      /\ count' = [p \in Timers |-> IF p \in Passed(ticks) \ out
                                    THEN count[p] - Rounds(ticks, Distance(p)) ELSE count[p]]
      /\ tiw_nto' = tiw_nto - Cardinality(out)
      /\ tiw_pos' = IF tiw_nto = 0 THEN tiw_pos ELSE (tiw_pos + ticks) % TIW_SIZE
      /\ IF tiw_min_ptr \in out
         THEN tiw_min_ptr' = NoTimer /\ tiw_min' = 0
         ELSE /\ tiw_min' = IF tiw_min_ptr = NoTimer THEN tiw_min ELSE tiw_min - ticks
              /\ UNCHANGED tiw_min_ptr
      /\ timedout' = [timedout EXCEPT ![s] = out]
      /\ UNCHANGED <<slot, do_time, owed>>

\* The callbacks are called one by one without the lock.  What is left in
\* count is not read again.
Callback(s) ==
  \E p \in timedout[s] :
    /\ timedout' = [timedout EXCEPT ![s] = @ \ {p}]
    /\ slot' = [slot EXCEPT ![p] = 0] /\ count' = [count EXCEPT ![p] = 0]
    /\ owed' = [owed EXCEPT ![p] = 0]
    /\ UNCHANGED <<active, tiw_pos, tiw_nto, min, do_time, dt>>

\* Mutant: a round too many.
InsertRoundMore(p, t) ==
  LET ticks == t + do_time IN
  /\ slot' = [slot EXCEPT ![p] = (ticks + tiw_pos) % TIW_SIZE]
  /\ count' = [count EXCEPT ![p] = ticks \div TIW_SIZE + 1]
  /\ IF tiw_nto = 0 \/ (tiw_min_ptr # NoTimer /\ ticks < tiw_min)
     THEN tiw_min' = ticks /\ tiw_min_ptr' = p
     ELSE UNCHANGED min
  /\ tiw_nto' = tiw_nto + 1

\* insert_timer()
insert_timer(p, t) ==
  LET ticks == t + do_time IN
  /\ slot' = [slot EXCEPT ![p] = (ticks + tiw_pos) % TIW_SIZE]
  /\ count' = [count EXCEPT ![p] = ticks \div TIW_SIZE]
  /\ IF tiw_nto = 0 \/ (tiw_min_ptr # NoTimer /\ ticks < tiw_min)
     THEN tiw_min' = ticks /\ tiw_min_ptr' = p
     ELSE UNCHANGED min
  /\ tiw_nto' = tiw_nto + 1

\* erts_set_timer() has delivered the time, a step of its own that may find
\* no tick to deliver, before it takes the lock.  A timer is not set again
\* before its callback is called.
erts_set_timer(p) ==
  /\ p \notin active /\ \A s \in Schedulers : p \notin timedout[s]
  /\ \E t \in Timeouts : insert_timer(p, t) /\ owed' = [owed EXCEPT ![p] = t]
  /\ active' = active \cup {p}
  /\ UNCHANGED <<tiw_pos, do_time, dt, timedout>>

\* Mutant: the cached minimum may be that of the timer.
CancelKeepsMin(p) ==
  /\ p \in active /\ active' = active \ {p} /\ tiw_nto' = tiw_nto - 1
  /\ slot' = [slot EXCEPT ![p] = 0] /\ count' = [count EXCEPT ![p] = 0]
  /\ owed' = [owed EXCEPT ![p] = 0]
  /\ UNCHANGED <<min, tiw_pos, do_time, dt, timedout>>

\* A timer that is not active, or has timed out, is left alone.
erts_cancel_timer(p) ==
  /\ p \in active /\ active' = active \ {p} /\ tiw_nto' = tiw_nto - 1
  /\ IF p = tiw_min_ptr THEN tiw_min_ptr' = NoTimer /\ tiw_min' = 0 ELSE UNCHANGED min
  /\ slot' = [slot EXCEPT ![p] = 0] /\ count' = [count EXCEPT ![p] = 0]
  /\ owed' = [owed EXCEPT ![p] = 0]
  /\ UNCHANGED <<tiw_pos, do_time, dt, timedout>>

\* erts_time_left() without the backlog.
TimeLeft(p) == IF slot[p] < tiw_pos
               THEN (count[p] + 1) * TIW_SIZE + slot[p] - tiw_pos
               ELSE count[p] * TIW_SIZE + slot[p] - tiw_pos

\* next_time_internal() walks from tiw_pos: the first timer of this round, or
\* the one with the fewest ticks, becomes the cached minimum.
WalkTicks(p) == Distance(p) + count[p] * TIW_SIZE

erts_next_time ==
  /\ tiw_nto # 0 /\ tiw_min_ptr = NoTimer
  /\ \E p \in active :
       /\ \A o \in active : WalkTicks(p) <= WalkTicks(o)
       /\ tiw_min_ptr' = p /\ tiw_min' = WalkTicks(p)
  /\ UNCHANGED <<timer, tiw_pos, tiw_nto, do_time, dt, timedout, owed>>

Bump(s) == read_and_reset(s) \/ erts_bump_timer(s) \/ Callback(s)

Next == \/ erts_deliver_time \/ erts_next_time
        \/ \E s \in Schedulers : Bump(s)
        \/ \E p \in Timers : erts_set_timer(p) \/ erts_cancel_timer(p)

Spec == Init /\ [][Next]_vars

(* Time passes, and schedulers bump the wheel when they look for work.     *)
FairSpec == /\ Spec /\ WF_vars(erts_deliver_time)
            /\ \A s \in Schedulers : WF_vars(Bump(s))

-----------------------------------------------------------------------------
(* Properties.                                                             *)

\* Types.
TypeOK ==
  /\ active \subseteq Timers /\ tiw_nto \in 0 .. Cardinality(Timers)
  /\ slot \in [Timers -> 0 .. TIW_SIZE - 1] /\ count \in [Timers -> Nat]
  /\ tiw_pos \in 0 .. TIW_SIZE - 1
  /\ tiw_min \in Nat /\ tiw_min_ptr \in Timers \cup {NoTimer}
  /\ do_time \in 0 .. MaxBacklog /\ dt \in [Schedulers -> 0 .. MaxBacklog]
  /\ timedout \in [Schedulers -> SUBSET Timers] /\ owed \in [Timers -> Nat]

\* tiw_nto is the number of timers in the wheel, and a cached minimum is
\* that of a timer in the wheel that is due before all others: a thread that
\* waits for erts_next_time() does not sleep past a timeout.
MinIsExact ==
  /\ tiw_nto = Cardinality(active)
  /\ tiw_min_ptr # NoTimer =>
       /\ tiw_min_ptr \in active /\ tiw_min = TimeLeft(tiw_min_ptr)
       /\ \A p \in active : tiw_min <= TimeLeft(p)

\* No timer is late: when the wheel has counted all delivered ticks a timer
\* has no more ticks left than it is owed.
NeverLate == \A p \in active : TimeLeft(p) <= owed[p] + Backlog

Abstract == INSTANCE Countdown WITH
              left <- [p \in Timers |-> IF p \in active THEN TimeLeft(p) ELSE -1],
              Ticks <- 0 .. Max(Timeouts) + MaxBacklog

\* The wheel counts like a countdown of every timer, however far it is
\* bumped at once and however often it goes round.
ImplementsCountdown == Abstract!Spec

\* A timer that is not cancelled times out.
TimersTimeOut == \A p \in Timers : (p \in active) ~> (p \notin active)

\* No timer is early: it times out when all ticks of its timeout have been
\* delivered since it was set.
NeverEarly == \A s \in Schedulers : \A p \in timedout[s] : owed[p] = 0
=============================================================================

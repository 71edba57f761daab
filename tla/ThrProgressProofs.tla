-------------------------- MODULE ThrProgressProofs --------------------------
(***************************************************************************)
(* Thread progress keeps its promise: for any number of managed and        *)
(* unmanaged threads there is one leader, a thread that runs is waited     *)
(* for, wakeup requests are found at their value, and whoever has waited   *)
(* for a value finds that every thread has been outside since it was       *)
(* taken, as long as the values do not wrap.                               *)
(***************************************************************************)
EXTENDS ThrProgress, FiniteSetTheorems, TLAPS

-----------------------------------------------------------------------------
(* The inductive invariant.                                                *)

InsidePlaces == {"run", "aux", "idle", "reqw"}
UpdatePlaces == {"flags", "seize"}
CheckedPlaces == {"um", "um2", "prog"}
WatchPlaces == {"prog", "handle", "handle_um", "handle_bits", "handle_len", "progressed"}
LeadPlaces == {"chk", "done"} \cup CheckedPlaces \cup WatchPlaces
AfterPlaces == {"recheck", "got"}
SleepPlaces == {"prep", "prep2", "wait", "fin", "fin2"}
ManagedPlaces == {"upd"} \cup InsidePlaces \cup UpdatePlaces \cup LeadPlaces \cup AfterPlaces
                 \cup SleepPlaces
HoldPlaces == {"cmp", "delay", "retry"}
DelayPlaces == {"free", "inc", "cont_flags", "retry_flags"} \cup HoldPlaces
RequestPlaces == {"free", "ask", "bits", "len", "again", "sleep"}

\* Types of the threads' places and locals, ...
PlaceType ==
  /\ pc \in [Managed \cup Unmanaged -> ManagedPlaces \cup DelayPlaces \cup RequestPlaces]
  /\ \A m \in Managed : pc[m] \in ManagedPlaces
  /\ \A u \in Delayers : pc[u] \in DelayPlaces
  /\ \A u \in Requesters : pc[u] \in RequestPlaces
  /\ ret \in [Managed -> {"run", "aux", "prep", "idle", "wait"}]

LocalType ==
  /\ loc \in [Managed -> [ix : Int, waiting_unmanaged : BOOLEAN, current : 0 .. MaxProgress]]
  /\ \A m \in Managed : pc[m] = "chk" => loc[m].ix >= 0
  /\ uix \in [Delayers -> {0, 1}]

\* ... of the progress values, ...
ValueType ==
  /\ current \in 0 .. MaxProgress
  /\ thr \in [Managed -> ErtsThrPrgrVal] /\ confirmed \in [Managed -> ErtsThrPrgrVal]

\* ... of leadership, ...
LeaderType ==
  /\ leader \in [Managed -> BOOLEAN] /\ active \in [Managed -> BOOLEAN]
  /\ no_leader \in BOOLEAN /\ waiting_um \in BOOLEAN
  /\ lstate \in [Managed -> [current : ErtsThrPrgrVal, next : 0 .. MaxProgress + 1,
                             chk_next_ix : 0 .. NoManaged,
                             um_current : {0, 1}, um_waiting : {-1, 0, 1}]]
  /\ um_waiting \in {-1, 0, 1} /\ um_current \in {0, 1}

\* ... of the requests ...
WakeupType ==
  /\ mwd \in [Slots -> Seq(Managed)]
  /\ umwd \in [Slots -> [bits : SUBSET Requesters, len : Nat]]
  /\ request \in [Waiters -> [Slots -> ErtsThrPrgrVal]]
  /\ sleeping \in [Managed -> BOOLEAN] /\ woken \in [Requesters -> BOOLEAN]

\* ... and of the values waited for, with their history.
HistoryType ==
  /\ val \in [Waiters -> ProgressVal \cup {None}]
  /\ pend \in [Waiters -> SUBSET Managed] /\ upend \in [Waiters -> SUBSET Delayers]

\* Where a thread is says whether it is active and where it goes on.
Ctl(m) ==
  \/ pc[m] = "run" /\ active[m] /\ ret[m] = "run"
  \/ pc[m] = "aux" /\ ret[m] = "run"
  \/ pc[m] = "reqw" /\ active[m] /\ ret[m] \in {"run", "aux"}
  \/ pc[m] \in UpdatePlaces \cup LeadPlaces /\ active[m] /\ ret[m] = "run"
  \/ /\ pc[m] \in {"upd"} \cup UpdatePlaces \cup LeadPlaces \cup AfterPlaces
     /\ ~active[m] /\ ret[m] \in {"prep", "idle"}
  \/ pc[m] = "got" /\ ~active[m] /\ ret[m] = "wait"
  \/ pc[m] \in {"idle"} \cup SleepPlaces /\ ~active[m] /\ ret[m] = "run"

CtlInv == \A m \in Managed : Ctl(m)

\* The leader is the one that has cleared the flag; it never sleeps.
LeaderInv ==
  \A m \in Managed :
    /\ pc[m] \in LeadPlaces => leader[m]
    /\ leader[m] => /\ ~no_leader /\ \A n \in Managed : leader[n] => n = m
                    /\ \/ pc[m] \in LeadPlaces \cup {"run", "reqw", "upd"}
                       \/ pc[m] = "aux" /\ active[m]

\* Nobody but the leader moves current.
StateInv ==
  \A m \in Managed : leader[m] => /\ lstate[m].current = current
                                  /\ lstate[m].next = Inc(current)

\* A thread that the leader has to wait for.
Tracked(m) ==
  \/ pc[m] \in {"upd", "prep", "recheck"} \cup InsidePlaces \cup UpdatePlaces \cup LeadPlaces
  \/ pc[m] = "got" /\ ret[m] # "wait"

\* It has confirmed the current or the next value.  One that wakes up has confirmed
\* the value after the one it has read.
TrackInv ==
  \A m \in Managed :
    /\ Tracked(m) => confirmed[m] = thr[m] /\ thr[m] \in {current, Inc(current)}
    /\ pc[m] = "fin2" => confirmed[m] = thr[m] /\ thr[m] = Inc(loc[m].current)

\* What the leader has found of a thread stays true until it makes progress.
Confirmed(n) == Tracked(n) => thr[n] = Inc(current)

CheckInv ==
  \A m, n \in Managed : m # n =>
    /\ leader[m] /\ n < lstate[m].chk_next_ix => Confirmed(n)
    /\ pc[m] = "chk" /\ n < loc[m].ix => Confirmed(n)
    /\ pc[m] \in CheckedPlaces => Confirmed(n)

\* A thread that has not been outside since a value was taken has not confirmed it.
PendInv ==
  \A x \in Waiters : \A n \in pend[x] :
    pc[n] \in InsidePlaces /\ val[x] # None /\ thr[n] < val[x]

\* Values that are waited for are at most three ahead.
AheadInv ==
  \A x \in Waiters : val[x] # None => val[x] < MaxProgress /\ val[x] <= current + 3

\* An unmanaged thread that requests a wakeup waits for a value.
AskInv == \A u \in Requesters : pc[u] \in {"ask", "bits", "len", "again"} => val[u] # None

\* A request that is being written is for a value ahead, and not yet in its slot.
WriteInv ==
  \A m \in Managed : pc[m] = "reqw" =>
    /\ m \in Askers /\ val[m] # None
    /\ confirmed[m] < RequestValue(m) /\ RequestValue(m) <= current + 3
    /\ LET ix == ERTS_THR_PRGR_WAKEUP_IX(RequestValue(m))
       IN  /\ request[m][ix] = RequestValue(m)
           /\ \A i \in 1 .. Len(mwd[ix]) : mwd[ix][i] # m

\* A slot holds requests for one value only, which lies ahead unless the leader
\* is about to handle the slot.
Due(v) == v > current \/ (v = current /\ \E m \in Managed : pc[m] = "handle")

SlotInv ==
  \A ix \in Slots :
    /\ \A i \in 1 .. Len(mwd[ix]) :
         /\ mwd[ix][i] \in Askers
         /\ LET v == request[mwd[ix][i]][ix]
            IN  ERTS_THR_PRGR_WAKEUP_IX(v) = ix /\ v <= current + 3 /\ Due(v)
    /\ \A i, j \in 1 .. Len(mwd[ix]) : mwd[ix][i] = mwd[ix][j] => i = j

\* A counter counts the unmanaged threads that have incremented it.
Holds(u, i) == pc[u] \in HoldPlaces /\ uix[u] = i

RefcInv ==
  /\ umrefc \in [{0, 1} -> Int]
  /\ \A i \in {0, 1} : umrefc[i] = Cardinality({u \in Delayers : Holds(u, i)})

\* The counter that is waited for is not the one that new threads use, and the
\* leader that has found it to be zero has nobody to wait for.
WaitedFor(u) == \/ uix[u] = um_current
                \/ \E m \in Managed : leader[m] /\ lstate[m].um_waiting = uix[u]
                \/ no_leader /\ um_waiting = uix[u]

WatchInv ==
  /\ \A u \in Delayers : pc[u] = "delay" => WaitedFor(u)
  /\ no_leader => um_waiting # um_current
  /\ \A m \in Managed : leader[m] => lstate[m].um_waiting # um_current
  /\ \A m \in Managed : pc[m] \in WatchPlaces =>
       /\ loc[m].waiting_unmanaged = (lstate[m].um_waiting # -1)
       /\ \A u \in Delayers : pc[u] = "delay" => uix[u] # lstate[m].um_waiting
  /\ \A m \in Managed : pc[m] = "progressed" => loc[m].waiting_unmanaged
  /\ \A m \in Managed : pc[m] = "um2" => lstate[m].um_waiting # -1

TypeInv == /\ PlaceType /\ LocalType /\ ValueType /\ LeaderType /\ WakeupType /\ HistoryType

IInv == /\ PlaceType /\ LocalType /\ ValueType /\ LeaderType /\ WakeupType /\ HistoryType
        /\ CtlInv /\ LeaderInv /\ StateInv /\ TrackInv /\ CheckInv /\ PendInv /\ AheadInv
        /\ AskInv /\ WriteInv /\ SlotInv /\ RefcInv /\ WatchInv

-----------------------------------------------------------------------------
(* Values, as long as they do not wrap.                                    *)

\* What the proofs use of the values.
LEMMA Values ==
  /\ MaxProgress \in Nat /\ NoManaged \in Nat \ {0}
  /\ \A v \in 0 .. MaxProgress + 1 :
       /\ v \in ErtsThrPrgrVal /\ v \in ProgressVal /\ v # ERTS_THR_PRGR_VAL_WAITING
       /\ current_to_later(v) = v + 2 /\ v + 2 \in ProgressVal
       /\ Inc(v) = v + 1 /\ Inc(v + 2) = v + 3
  /\ ERTS_THR_PRGR_VAL_WAITING \in ErtsThrPrgrVal
  /\ \A v \in ErtsThrPrgrVal : v \in Nat
  /\ \A v \in ProgressVal : v \in Nat /\ v \in ErtsThrPrgrVal
  /\ None \notin ProgressVal
<1>1. Quarter \in Nat /\ 4 * Quarter \in Nat /\ MaxProgress \in Nat /\ MaxProgress + 4 < 4 * Quarter - 1
  BY QuarterAssumption, ConstantsAssumption DEF ProgressVal, ERTS_THR_PRGR_VAL_WAITING
<1> QED BY <1>1, ConstantsAssumption
        DEF ProgressVal, ErtsThrPrgrVal, ERTS_THR_PRGR_VAL_WAITING, Inc, current_to_later

\* A value that is waited for is reached when current is not smaller.
LEMMA ReachedIs ==
  ASSUME NEW c \in 0 .. MaxProgress, NEW v \in 0 .. MaxProgress, v <= c + 3
  PROVE  has_reached_this(c, v) <=> c >= v
<1>1. Quarter \in Nat /\ 4 * Quarter \in Nat /\ MaxProgress \in Nat /\ MaxProgress + 4 < 4 * Quarter - 1
  BY QuarterAssumption, ConstantsAssumption DEF ProgressVal, ERTS_THR_PRGR_VAL_WAITING
<1> QED BY <1>1 DEF has_reached_this, has_passed

\* Two values in the same slot are the same or at least four apart.
LEMMA SameSlot ==
  ASSUME NEW a \in Nat, NEW b \in Nat, NEW c \in Nat,
         c <= a, a <= c + 3, c <= b, b <= c + 3,
         ERTS_THR_PRGR_WAKEUP_IX(a) = ERTS_THR_PRGR_WAKEUP_IX(b)
  PROVE  a = b
BY DEF ERTS_THR_PRGR_WAKEUP_IX, ERTS_THR_PRGR_WAKEUP_DATA_SIZE

\* Every value has a slot.
LEMMA SlotOf ==
  ASSUME NEW v \in Nat
  PROVE  ERTS_THR_PRGR_WAKEUP_IX(v) \in Slots
BY DEF ERTS_THR_PRGR_WAKEUP_IX, ERTS_THR_PRGR_WAKEUP_DATA_SIZE, Slots

\* A difference of values is a value.
LEMMA SubType ==
  ASSUME NEW v \in Int, NEW n \in Int
  PROVE  Sub(v, n) \in ErtsThrPrgrVal /\ Sub(v, n) \in Int
<1> DEFINE size == 4 * Quarter
           d == v - n
<1>1. \A a \in Int, k \in Nat \ {0} : a % k \in 0 .. k - 1
  OBVIOUS
<1>2. size \in Nat \ {0}
  BY QuarterAssumption
<1>3. ErtsThrPrgrVal = 0 .. size - 1
  BY DEF ErtsThrPrgrVal, ERTS_THR_PRGR_VAL_WAITING
<1>4. Sub(v, n) = d % size /\ d \in Int
  BY DEF Sub
<1> HIDE DEF size, d
<1> QED BY <1>1, <1>2, <1>3, <1>4

\* Threads are managed or unmanaged, and unmanaged ones delay progress or request wakeups.
LEMMA Ids ==
  /\ \A m \in Managed : m \in Nat /\ m < NoManaged /\ m \notin Unmanaged
  /\ \A u \in Delayers : u \in Unmanaged /\ u \notin Managed /\ u \notin Requesters
                         /\ u \notin Waiters
  /\ \A u \in Requesters : u \in Unmanaged /\ u \notin Managed /\ u \notin Delayers
                           /\ u \in Waiters
  /\ \A x \in Waiters : x \in Askers \/ x \in Requesters
  /\ \A m \in Askers : m \in Managed /\ m \in Waiters
<1>1. \A m \in Managed : m \in Nat /\ m < NoManaged
  BY ConstantsAssumption DEF Managed
<1>2. \A x : ~(x \in Managed /\ x \in Unmanaged) /\ ~(x \in Delayers /\ x \in Requesters)
  BY ConstantsAssumption, Zenon
<1> QED BY <1>1, <1>2, ConstantsAssumption, Zenon DEF Unmanaged, Waiters

-----------------------------------------------------------------------------
(* Parts that many steps leave alone.                                      *)

\* Types of updated arrays.
LEMMA NestedExcept ==
  ASSUME NEW S, NEW T, NEW R, NEW f \in [S -> [T -> R]], NEW x, NEW y, NEW v \in R
  PROVE  [f EXCEPT ![x][y] = v] \in [S -> [T -> R]]
OBVIOUS

\* A request more in a slot.
LEMMA LongerRecord ==
  ASSUME NEW S, NEW r \in [bits : S, len : Nat]
  PROVE  [r EXCEPT !.len = @ + 1] \in [bits : S, len : Nat]
OBVIOUS

\* A step that moves no unmanaged thread into or out of a counter.
LEMMA RefcSame ==
  ASSUME RefcInv, umrefc' = umrefc,
         \A u \in Delayers, i \in {0, 1} : Holds(u, i)' <=> Holds(u, i)
  PROVE  RefcInv'
<1>1. ASSUME NEW i \in {0, 1} PROVE {u \in Delayers : Holds(u, i)}' = {u \in Delayers : Holds(u, i)}
  OBVIOUS
<1> QED BY <1>1 DEF RefcInv

\* A counter that is zero has been incremented by nobody.
LEMMA NobodyHolds ==
  ASSUME RefcInv, NEW i \in {0, 1}, umrefc[i] = 0, NEW u \in Delayers
  PROVE  ~ Holds(u, i)
<1>1. {v \in Delayers : Holds(v, i)} \in SUBSET Delayers
  OBVIOUS
<1>2. IsFiniteSet({v \in Delayers : Holds(v, i)})
  BY <1>1, ConstantsAssumption, FS_Subset
<1>3. {v \in Delayers : Holds(v, i)} = {}
  BY <1>2, FS_EmptySet DEF RefcInv
<1> QED BY <1>3

\* A thread that finds its value not reached, and no request for it registered,
\* is not in the slot it writes to.
LEMMA NewRequest ==
  ASSUME IInv, NEW m \in Managed, pc[m] \in {"run", "aux"}, active[m],
         m \in Waiters, val[m] # None, ~ Asked(m), ~ Reached(val[m])
  PROVE  LET v == RequestValue(m)
             ix == ERTS_THR_PRGR_WAKEUP_IX(v)
         IN  /\ m \in Askers /\ v \in Nat /\ ix \in Slots
             /\ confirmed[m] < v /\ v <= current + 3
             /\ \A i \in 1 .. Len(mwd[ix]) : mwd[ix][i] # m
<1> DEFINE v == RequestValue(m)
           ix == ERTS_THR_PRGR_WAKEUP_IX(v)
<1>1. m \in Askers
  BY Ids, Zenon
<1>2. current \in 0 .. MaxProgress /\ MaxProgress \in Nat
  BY Values DEF IInv, ValueType
<1>3. val[m] \in Nat /\ val[m] < MaxProgress /\ val[m] <= current + 3
  BY Values DEF IInv, AheadInv, HistoryType
<1>4. current < val[m]
  BY <1>2, <1>3, ReachedIs DEF Reached
<1>5. confirmed[m] \in {current, current + 1}
  BY <1>2, Values DEF IInv, TrackInv, Tracked, InsidePlaces, CtlInv, Ctl
<1>6. Inc(val[m]) = val[m] + 1
  BY <1>2, <1>3, Values
<1>7. v \in Nat /\ confirmed[m] < v /\ v <= current + 3 /\ current <= v /\ v \in {val[m], Inc(val[m])}
  BY <1>2, <1>3, <1>4, <1>5, <1>6 DEF RequestValue
<1>8. ix \in Slots
  BY <1>7, SlotOf
<1>9. request[m][ix] # v
  BY <1>7 DEF Asked
<1> HIDE DEF v
<1>10. ASSUME NEW i \in 1 .. Len(mwd[ix]), mwd[ix][i] = m PROVE FALSE
  <2> DEFINE w == request[m][ix]
  <2>1. ERTS_THR_PRGR_WAKEUP_IX(w) = ix /\ w <= current + 3 /\ Due(w)
    BY <1>8, <1>10 DEF IInv, SlotInv
  <2>2. w \in Nat
    BY <1>8, Values DEF IInv, WakeupType
  <2>3. current <= w
    BY <2>1, <2>2, <1>2 DEF Due
  <2> HIDE DEF w
  <2>4. w = v
    BY <2>1, <2>2, <2>3, <1>2, <1>7, SameSlot
  <2> QED BY <2>4, <1>9 DEF w
<1> QED BY <1>1, <1>7, <1>8, <1>10 DEF v

\* A request that is being written is for a value ahead.
LEMMA Writing ==
  ASSUME IInv, NEW m \in Managed, pc[m] = "reqw"
  PROVE  LET v == RequestValue(m)
             ix == ERTS_THR_PRGR_WAKEUP_IX(v)
         IN  /\ m \in Askers /\ v \in Nat /\ current \in Nat
             /\ v > current /\ v <= current + 3
             /\ request[m][ix] = v /\ \A i \in 1 .. Len(mwd[ix]) : mwd[ix][i] # m
<1> DEFINE v == RequestValue(m)
<1>1. m \in Waiters /\ m \in Askers /\ confirmed[m] < v /\ v <= current + 3 /\ val[m] # None
  BY Ids DEF IInv, WriteInv
<1>2. current \in 0 .. MaxProgress /\ MaxProgress \in Nat
  BY Values DEF IInv, ValueType
<1>3. current <= confirmed[m] /\ confirmed[m] \in Nat
  BY <1>2, Values DEF IInv, TrackInv, Tracked, InsidePlaces
<1>4. val[m] \in Nat /\ val[m] < MaxProgress
  BY <1>1, Values DEF IInv, AheadInv, HistoryType
<1>5. v \in Nat
  BY <1>2, <1>4, Values DEF RequestValue
<1>6. LET ix == ERTS_THR_PRGR_WAKEUP_IX(v)
      IN  request[m][ix] = v /\ \A i \in 1 .. Len(mwd[ix]) : mwd[ix][i] # m
  BY DEF IInv, WriteInv
<1> HIDE DEF v
<1> QED BY <1>1, <1>2, <1>3, <1>5, <1>6 DEF v

\* A step that touches no counter and does not start to look at one.
LEMMA WatchSame ==
  ASSUME WatchInv, leader' = leader, no_leader' = no_leader, um_waiting' = um_waiting,
         um_current' = um_current, uix' = uix,
         \A k \in Managed : lstate'[k].um_waiting = lstate[k].um_waiting,
         \A u \in Delayers : pc'[u] = "delay" => pc[u] = "delay",
         \A k \in Managed : pc'[k] \in WatchPlaces \cup {"um2"} =>
           pc'[k] = pc[k] /\ loc'[k].waiting_unmanaged = loc[k].waiting_unmanaged
  PROVE  WatchInv'
<1>1. "progressed" \in WatchPlaces
  BY DEF WatchPlaces
<1> HIDE DEF WatchPlaces
<1>2. \A u \in Delayers : WaitedFor(u) => WaitedFor(u)'
  BY DEF WaitedFor
<1> QED BY <1>1, <1>2 DEF WatchInv

-----------------------------------------------------------------------------
(* Every step preserves the invariant.                                    *)

\* A value that is taken is at most three ahead of current, and whoever is inside has not
\* confirmed it.
LEMMA erts_thr_progress_laterStep ==
  ASSUME IInv, NEW x \in Waiters, erts_thr_progress_later(x)
  PROVE  IInv'
<1> USE DEF erts_thr_progress_later, Take, Inside, Delaying, prgr, lead, lflgs, um, wakeups,
            events
<1>1. HistoryType'
  BY Values, Ids DEF IInv, PlaceType, ManagedPlaces, InsidePlaces, UpdatePlaces, LeadPlaces,
         CheckedPlaces, WatchPlaces, AfterPlaces, SleepPlaces, DelayPlaces, HoldPlaces,
         RequestPlaces, ValueType, HistoryType, CtlInv, Ctl, LeaderInv, TrackInv, Tracked
<1>2. PendInv'
  BY Values, Ids DEF IInv, PlaceType, ManagedPlaces, InsidePlaces, UpdatePlaces, LeadPlaces,
         CheckedPlaces, WatchPlaces, AfterPlaces, SleepPlaces, DelayPlaces, HoldPlaces,
         RequestPlaces, ValueType, HistoryType, TrackInv, Tracked, PendInv, AheadInv
<1>3. AheadInv'
  <2>1. ASSUME NEW y \in Waiters, val'[y] # None
        PROVE  val'[y] < MaxProgress /\ val'[y] <= current + 3
    <3>1. CASE y # x
      BY <2>1, <3>1 DEF IInv, AheadInv, HistoryType
    <3>2. CASE y = x /\ x \in Askers /\ pc[x] = "run" /\ val' = [val EXCEPT ![x] = confirmed[x] + 2]
      BY <3>2, Values, Ids DEF IInv, TrackInv, Tracked, InsidePlaces, ValueType, HistoryType
    <3>3. CASE y = x /\ val' = [val EXCEPT ![x] = current + 2]
      BY <3>3, Values DEF IInv, ValueType, HistoryType
    <3> QED BY <3>1, <3>2, <3>3, Values, Ids DEF IInv, ValueType, TrackInv, Tracked, InsidePlaces
  <2> QED BY <2>1 DEF AheadInv
<1>4. AskInv'
  <2>1. \A u \in Requesters : u # x => val'[u] = val[u]
    BY Ids DEF IInv, HistoryType
  <2> QED BY <2>1 DEF IInv, AskInv
<1>5. WriteInv'
  <2> SUFFICES ASSUME NEW m \in Managed, pc[m] = "reqw"
               PROVE  /\ m \in Askers /\ val'[m] # None
                      /\ confirmed[m] < RequestValue(m)' /\ RequestValue(m)' <= current + 3
                      /\ LET ix == ERTS_THR_PRGR_WAKEUP_IX(RequestValue(m)')
                         IN  /\ request[m][ix] = RequestValue(m)'
                             /\ \A i \in 1 .. Len(mwd[ix]) : mwd[ix][i] # m
    BY DEF WriteInv
  <2>1. m # x /\ m \in Waiters
    BY Ids DEF IInv, WriteInv
  <2>2. val'[m] = val[m]
    BY <2>1 DEF IInv, HistoryType
  <2>3. RequestValue(m)' = RequestValue(m)
    BY <2>2 DEF RequestValue
  <2> QED BY <2>2, <2>3 DEF IInv, WriteInv
<1>6. PlaceType' /\ LocalType' /\ ValueType' /\ LeaderType' /\ WakeupType' /\ CtlInv' /\
      LeaderInv' /\ StateInv' /\ TrackInv' /\ CheckInv' /\ SlotInv' /\ RefcInv' /\ WatchInv'
  BY DEF IInv, PlaceType, LocalType, ValueType, LeaderType, WakeupType, CtlInv, Ctl, LeaderInv,
         StateInv, TrackInv, Tracked, CheckInv, Confirmed, SlotInv, Due, RefcInv, Holds,
         WatchInv, WaitedFor
<1> QED BY <1>1, <1>2, <1>3, <1>4, <1>5, <1>6 DEF IInv

\* A thread that is done with its value waits for nobody.
LEMMA HasReachedStep ==
  ASSUME IInv, NEW x \in Waiters, HasReached(x)
  PROVE  IInv'
<1> USE DEF HasReached, WaitsForValue, Reached, prgr, lead, lflgs, um, wakeups, events
<1>1. HistoryType'
  BY DEF IInv, HistoryType
<1>2. PendInv'
  BY Values, Ids DEF IInv, PlaceType, ManagedPlaces, InsidePlaces, UpdatePlaces, LeadPlaces,
         CheckedPlaces, WatchPlaces, AfterPlaces, SleepPlaces, DelayPlaces, HoldPlaces,
         RequestPlaces, ValueType, HistoryType, TrackInv, Tracked, PendInv, AheadInv
<1>3. AheadInv'
  BY DEF IInv, AheadInv
<1>4. AskInv'
  BY DEF IInv, AskInv
<1>5. WriteInv'
  BY DEF IInv, WriteInv, RequestValue
<1>6. PlaceType' /\ LocalType' /\ ValueType' /\ LeaderType' /\ WakeupType' /\ CtlInv' /\
      LeaderInv' /\ StateInv' /\ TrackInv' /\ CheckInv' /\ SlotInv' /\ RefcInv' /\ WatchInv'
  BY DEF IInv, PlaceType, LocalType, ValueType, LeaderType, WakeupType, CtlInv, Ctl, LeaderInv,
         StateInv, TrackInv, Tracked, CheckInv, Confirmed, SlotInv, Due, RefcInv, Holds,
         WatchInv, WaitedFor
<1> QED BY <1>1, <1>2, <1>3, <1>4, <1>5, <1>6 DEF IInv

\* The value that is asked for is not confirmed yet, and its slot is free of the thread
\* (NewRequest).
LEMMA RequestWakeupManagedStep ==
  ASSUME IInv, NEW m \in Managed, RequestWakeupManaged(m)
  PROVE  IInv'
<1> USE DEF RequestWakeupManaged, WaitsForValue, Reached, Goto, prgr, lead, lflgs, um, history
<1>1. PlaceType'
  BY Values, Ids DEF IInv, Asked, RequestValue, PlaceType, ManagedPlaces, InsidePlaces,
         UpdatePlaces, LeadPlaces, CheckedPlaces, WatchPlaces, AfterPlaces, SleepPlaces,
         DelayPlaces, HoldPlaces, RequestPlaces
<1>2. LocalType'
  BY Ids DEF IInv, Asked, RequestValue, LocalType, PlaceType
<1>3. WakeupType'
  <2>1. mwd' \in [Slots -> Seq(Managed)]
    BY Values, Ids DEF IInv, WakeupType, PlaceType
  <2>2. umwd' \in [Slots -> [bits : SUBSET Requesters, len : Nat]]
    BY Values, Ids DEF IInv, WakeupType, PlaceType
  <2>3. request' \in [Waiters -> [Slots -> ErtsThrPrgrVal]]
    <3> DEFINE ix == ERTS_THR_PRGR_WAKEUP_IX(RequestValue(m))
    <3>1. RequestValue(m) \in ErtsThrPrgrVal
      BY Values DEF IInv, AheadInv, HistoryType, ValueType, WaitsForValue, RequestValue
    <3>2. request' = request \/ request' = [request EXCEPT ![m][ix] = RequestValue(m)]
      OBVIOUS
    <3> HIDE DEF ix, RequestValue
    <3>3. request \in [Waiters -> [Slots -> ErtsThrPrgrVal]]
      BY DEF IInv, WakeupType
    <3>4. [request EXCEPT ![m][ix] = RequestValue(m)] \in [Waiters -> [Slots -> ErtsThrPrgrVal]]
      BY <3>1, <3>3, NestedExcept
    <3> QED BY <3>2, <3>3, <3>4
  <2>4. sleeping' \in [Managed -> BOOLEAN] /\ woken' \in [Requesters -> BOOLEAN]
    BY Values, Ids DEF IInv, WakeupType, PlaceType
  <2> QED BY <2>1, <2>2, <2>3, <2>4 DEF WakeupType
<1>4. CtlInv'
  BY Ids DEF IInv, Asked, RequestValue, CtlInv, Ctl, PlaceType
<1>5. LeaderInv'
  BY DEF IInv, Asked, RequestValue, LeaderInv, LeadPlaces, CheckedPlaces, WatchPlaces, PlaceType
<1>6. TrackInv'
  BY DEF IInv, Asked, RequestValue, TrackInv, Tracked, InsidePlaces, UpdatePlaces, LeadPlaces,
         CheckedPlaces, WatchPlaces, PlaceType
<1>7. CheckInv'
  BY DEF IInv, Asked, RequestValue, CheckInv, Confirmed, Tracked, InsidePlaces, UpdatePlaces,
         LeadPlaces, CheckedPlaces, WatchPlaces, PlaceType
<1>8. PendInv'
  BY Values, Ids DEF IInv, Asked, RequestValue, PlaceType, ManagedPlaces, InsidePlaces,
         UpdatePlaces, LeadPlaces, CheckedPlaces, WatchPlaces, AfterPlaces, SleepPlaces,
         DelayPlaces, HoldPlaces, RequestPlaces, ValueType, HistoryType, TrackInv, Tracked,
         PendInv, AheadInv
<1>9. AskInv'
  BY Ids DEF IInv, Asked, RequestValue, AskInv, PlaceType
<1>10. WriteInv'
  <2> SUFFICES ASSUME NEW n \in Managed, pc'[n] = "reqw"
               PROVE  /\ n \in Askers /\ val[n] # None
                      /\ confirmed[n] < RequestValue(n) /\ RequestValue(n) <= current + 3
                      /\ LET ix == ERTS_THR_PRGR_WAKEUP_IX(RequestValue(n))
                         IN  /\ request'[n][ix] = RequestValue(n)
                             /\ \A i \in 1 .. Len(mwd[ix]) : mwd[ix][i] # n
    BY DEF WriteInv, RequestValue
  <2> DEFINE v == RequestValue(m)
             ix == ERTS_THR_PRGR_WAKEUP_IX(v)
  <2>1. CASE n = m
    <3>1. ~ Reached(val[m])
      BY <2>1 DEF IInv, PlaceType
    <3>2. /\ m \in Askers /\ confirmed[m] < v /\ v <= current + 3 /\ ix \in Slots
          /\ \A i \in 1 .. Len(mwd[ix]) : mwd[ix][i] # m
      BY <3>1, NewRequest DEF WaitsForValue
    <3>3. request' = [request EXCEPT ![m][ix] = v]
      BY <3>1
    <3>4. request'[m][ix] = v
      BY <3>2, <3>3, Ids DEF IInv, WakeupType
    <3> QED BY <2>1, <3>2, <3>4 DEF WaitsForValue
  <2>2. CASE n # m
    <3>1. pc[n] = "reqw" /\ n \in Askers /\ request'[n] = request[n]
      BY <2>2, Ids DEF IInv, PlaceType, WriteInv, WakeupType
    <3> QED BY <3>1 DEF IInv, WriteInv
  <2> QED BY <2>1, <2>2
<1>11. SlotInv'
  <2> DEFINE v == RequestValue(m)
             w == ERTS_THR_PRGR_WAKEUP_IX(v)
  <2>1. CASE Reached(val[m])
    BY <2>1 DEF IInv, SlotInv, Due
  <2>2. CASE ~ Reached(val[m])
    <3>1. w \in Slots /\ \A i \in 1 .. Len(mwd[w]) : mwd[w][i] # m
      BY <2>2, NewRequest DEF WaitsForValue
    <3>2. request' = [request EXCEPT ![m][w] = v] /\ m \in Waiters
      BY <2>2 DEF WaitsForValue
    <3>3. \A ix \in Slots : \A i \in 1 .. Len(mwd[ix]) :
            mwd[ix][i] \in Askers => request'[mwd[ix][i]][ix] = request[mwd[ix][i]][ix]
      <4> HIDE DEF w, v
      <4> QED BY <3>1, <3>2, Ids DEF IInv, WakeupType
    <3>4. \A k : Due(k) => Due(k)'
      BY <2>2 DEF Due, IInv, PlaceType
    <3> QED BY <3>3, <3>4 DEF IInv, SlotInv
  <2> QED BY <2>1, <2>2
<1>12. RefcInv'
  BY Ids, RefcSame DEF IInv, PlaceType, Holds, HoldPlaces
<1>13. WatchInv'
  BY Ids DEF IInv, Asked, RequestValue, WatchInv, WaitedFor, WatchPlaces, PlaceType
<1>14. ValueType' /\ LeaderType' /\ HistoryType' /\ StateInv' /\ AheadInv'
  BY DEF IInv, Asked, RequestValue, ValueType, LeaderType, HistoryType, StateInv, AheadInv
<1> QED BY <1>1, <1>2, <1>3, <1>4, <1>5, <1>6, <1>7, <1>8, <1>9, <1>10, <1>11, <1>12, <1>13,
               <1>14 DEF IInv

\* The slot gets an entry for a value ahead, by a thread that is not in it.
LEMMA RequestWriteStep ==
  ASSUME IInv, NEW m \in Managed, RequestWrite(m)
  PROVE  IInv'
<1>1. PlaceType'
  BY Values, Ids DEF IInv, RequestWrite, Return, Goto, RequestValue, prgr, lead, lflgs, um,
         events, history, PlaceType, ManagedPlaces, InsidePlaces, UpdatePlaces, LeadPlaces,
         CheckedPlaces, WatchPlaces, AfterPlaces, SleepPlaces, DelayPlaces, HoldPlaces,
         RequestPlaces
<1>2. LocalType'
  BY DEF IInv, RequestWrite, Return, Goto, RequestValue, prgr, lead, lflgs, um, events, history,
         LocalType, PlaceType, CtlInv, Ctl, LeaderInv, UpdatePlaces, LeadPlaces, CheckedPlaces,
         WatchPlaces, AfterPlaces, SleepPlaces
<1>3. WakeupType'
  <2>1. mwd' \in [Slots -> Seq(Managed)]
    <3> DEFINE ix == ERTS_THR_PRGR_WAKEUP_IX(RequestValue(m))
    <3>1. ix \in Slots => Append(mwd[ix], m) \in Seq(Managed)
      BY DEF IInv, WakeupType
    <3>2. mwd' = [mwd EXCEPT ![ix] = Append(mwd[ix], m)]
      BY DEF RequestWrite
    <3> HIDE DEF ix
    <3> QED BY <3>1, <3>2 DEF IInv, WakeupType
  <2>2. umwd' \in [Slots -> [bits : SUBSET Requesters, len : Nat]]
    BY DEF RequestWrite, events, IInv, WakeupType
  <2>3. request' \in [Waiters -> [Slots -> ErtsThrPrgrVal]]
    BY DEF RequestWrite, events, IInv, WakeupType
  <2>4. sleeping' \in [Managed -> BOOLEAN] /\ woken' \in [Requesters -> BOOLEAN]
    BY DEF RequestWrite, events, IInv, WakeupType
  <2> QED BY <2>1, <2>2, <2>3, <2>4 DEF WakeupType
<1>4. CtlInv'
  BY DEF IInv, RequestWrite, Return, Goto, RequestValue, prgr, lead, lflgs, um, events, history,
         CtlInv, Ctl, UpdatePlaces, LeadPlaces, CheckedPlaces, WatchPlaces, AfterPlaces,
         SleepPlaces, PlaceType
<1>5. LeaderInv'
  BY DEF IInv, RequestWrite, Return, Goto, RequestValue, prgr, lead, lflgs, um, events, history,
         LeaderInv, LeadPlaces, CheckedPlaces, WatchPlaces, PlaceType, CtlInv, Ctl,
         UpdatePlaces, AfterPlaces, SleepPlaces
<1>6. TrackInv'
  BY DEF IInv, RequestWrite, Return, Goto, RequestValue, prgr, lead, lflgs, um, events, history,
         TrackInv, Tracked, InsidePlaces, UpdatePlaces, LeadPlaces, CheckedPlaces, WatchPlaces,
         PlaceType
<1>7. CheckInv'
  <2>1. /\ pc[m] = "reqw" /\ pc' = [pc EXCEPT ![m] = ret[m]] /\ ret' = [ret EXCEPT ![m] = "run"]
        /\ current' = current /\ thr' = thr /\ leader' = leader /\ lstate' = lstate /\ loc' = loc
    BY DEF RequestWrite, Return, Goto, prgr, lead
  <2>2. pc'[m] \in {"run", "aux"} /\ \A n \in Managed : n # m => pc'[n] = pc[n] /\ ret'[n] = ret[n]
    BY <2>1 DEF IInv, PlaceType, CtlInv, Ctl, UpdatePlaces, LeadPlaces, AfterPlaces,
           CheckedPlaces, WatchPlaces, SleepPlaces
  <2>3. \A n \in Managed : Tracked(n)' <=> Tracked(n)
    BY <2>1, <2>2 DEF Tracked, InsidePlaces
  <2> QED BY <2>1, <2>2, <2>3 DEF IInv, CheckInv, Confirmed, CheckedPlaces
<1>8. PendInv'
  BY DEF IInv, RequestWrite, Return, Goto, RequestValue, prgr, lead, lflgs, um, events, history,
         PendInv, InsidePlaces, PlaceType, CtlInv, Ctl, LeaderInv, UpdatePlaces, LeadPlaces,
         CheckedPlaces, WatchPlaces, AfterPlaces, SleepPlaces
<1>9. AskInv'
  BY Ids DEF IInv, RequestWrite, Return, Goto, RequestValue, prgr, lead, lflgs, um, events,
         history, AskInv, PlaceType
<1>10. WriteInv'
  <2> DEFINE w == ERTS_THR_PRGR_WAKEUP_IX(RequestValue(m))
  <2>1. /\ pc[m] = "reqw" /\ pc' = [pc EXCEPT ![m] = ret[m]]
        /\ mwd' = [mwd EXCEPT ![w] = Append(mwd[w], m)]
        /\ confirmed' = confirmed /\ current' = current /\ request' = request /\ val' = val
    BY DEF RequestWrite, Return, Goto, prgr, history
  <2>2. \A n \in Managed : pc'[n] = "reqw" => n # m /\ pc[n] = "reqw"
    BY <2>1 DEF IInv, PlaceType, CtlInv, Ctl, UpdatePlaces, LeadPlaces, AfterPlaces,
           CheckedPlaces, WatchPlaces, SleepPlaces
  <2>3. ASSUME NEW n \in Managed, n # m, NEW ix \in Slots, \A i \in 1 .. Len(mwd[ix]) : mwd[ix][i] # n
        PROVE  \A i \in 1 .. Len(mwd'[ix]) : mwd'[ix][i] # n
    <3>1. mwd \in [Slots -> Seq(Managed)]
      BY DEF IInv, WakeupType
    <3>2. mwd'[ix] = IF ix = w THEN Append(mwd[ix], m) ELSE mwd[ix]
      BY <2>1, <3>1
    <3> HIDE DEF w
    <3> QED BY <2>3, <3>1, <3>2
  <2>4. \A n \in Managed : RequestValue(n)' = RequestValue(n)
    BY <2>1 DEF RequestValue
  <2>5. \A n \in Managed : pc[n] = "reqw" => ERTS_THR_PRGR_WAKEUP_IX(RequestValue(n)) \in Slots
    BY Writing, SlotOf
  <2> QED BY <2>1, <2>2, <2>3, <2>4, <2>5 DEF IInv, WriteInv
<1>11. SlotInv'
  <2> DEFINE v == RequestValue(m)
             w == ERTS_THR_PRGR_WAKEUP_IX(v)
  <2>1. pc[m] = "reqw" /\ m \in Askers /\ v \in Nat /\ current \in Nat
        /\ v > current /\ v <= current + 3 /\ request[m][w] = v
        /\ \A i \in 1 .. Len(mwd[w]) : mwd[w][i] # m
    BY Writing DEF RequestWrite, Return, Goto
  <2>2. mwd' = [mwd EXCEPT ![w] = Append(mwd[w], m)]
    BY DEF RequestWrite
  <2>3. current' = current /\ request' = request
    BY DEF RequestWrite, prgr
  <2>4. \A n \in Managed : pc'[n] = "handle" <=> pc[n] = "handle"
    BY DEF IInv, PlaceType, CtlInv, Ctl, RequestWrite, Return, Goto
  <2> SUFFICES ASSUME NEW ix \in Slots
               PROVE  /\ \A i \in 1 .. Len(mwd'[ix]) :
                           /\ mwd'[ix][i] \in Askers
                           /\ LET k == request[mwd'[ix][i]][ix]
                              IN  ERTS_THR_PRGR_WAKEUP_IX(k) = ix /\ k <= current + 3 /\ Due(k)
                      /\ \A i, j \in 1 .. Len(mwd'[ix]) : mwd'[ix][i] = mwd'[ix][j] => i = j
    BY <2>3, <2>4 DEF SlotInv, Due
  <2> HIDE DEF v
  <2>5. /\ \A i \in 1 .. Len(mwd[ix]) :
             /\ mwd[ix][i] \in Askers
             /\ LET k == request[mwd[ix][i]][ix]
                IN  ERTS_THR_PRGR_WAKEUP_IX(k) = ix /\ k <= current + 3 /\ Due(k)
        /\ \A i, j \in 1 .. Len(mwd[ix]) : mwd[ix][i] = mwd[ix][j] => i = j
    BY DEF IInv, SlotInv
  <2>6. mwd[ix] \in Seq(Managed) /\ mwd \in [Slots -> Seq(Managed)]
    BY DEF IInv, WakeupType
  <2>7. CASE ix = w
    <3>1. /\ request[m][ix] = v /\ ERTS_THR_PRGR_WAKEUP_IX(v) = ix /\ Due(v)
          /\ \A i \in 1 .. Len(mwd[ix]) : mwd[ix][i] # m
      BY <2>1, <2>7 DEF Due
    <3>2. mwd'[ix] = Append(mwd[ix], m)
      BY <2>2, <2>6, <2>7
    <3> HIDE DEF w
    <3>3. Len(mwd'[ix]) = Len(mwd[ix]) + 1 /\ mwd'[ix][Len(mwd[ix]) + 1] = m
          /\ \A i \in 1 .. Len(mwd[ix]) : mwd'[ix][i] = mwd[ix][i]
      BY <3>2, <2>6
    <3>4. \A i \in 1 .. Len(mwd'[ix]) : i \in 1 .. Len(mwd[ix]) \/ i = Len(mwd[ix]) + 1
      BY <3>3, <2>6
    <3>5. \A i, j \in 1 .. Len(mwd'[ix]) : mwd'[ix][i] = mwd'[ix][j] => i = j
      BY <3>1, <3>3, <3>4, <2>5
    <3> QED BY <3>1, <3>3, <3>4, <3>5, <2>1, <2>5
  <2>8. CASE ix # w
    <3> HIDE DEF w
    <3>1. mwd'[ix] = mwd[ix]
      BY <2>2, <2>6, <2>8
    <3> QED BY <3>1, <2>5
  <2> QED BY <2>7, <2>8
<1>12. RefcInv'
  BY Ids, RefcSame DEF IInv, PlaceType, Holds, HoldPlaces,
         RequestWrite, Return, Goto, um
<1>13. WatchInv'
  <2>1. /\ pc' = [pc EXCEPT ![m] = ret[m]] /\ pc[m] = "reqw"
        /\ leader' = leader /\ lstate' = lstate /\ no_leader' = no_leader
        /\ um_waiting' = um_waiting /\ um_current' = um_current /\ uix' = uix /\ loc' = loc
    BY DEF RequestWrite, Return, Goto, lead, lflgs, um
  <2>2. \A u \in Delayers : pc'[u] = pc[u]
    BY <2>1, Ids DEF IInv, PlaceType
  <2>3. \A k \in Managed : pc'[k] \in WatchPlaces \cup {"um2"} => pc'[k] = pc[k]
    BY <2>1 DEF IInv, PlaceType, CtlInv, Ctl, UpdatePlaces, LeadPlaces, AfterPlaces,
           CheckedPlaces, WatchPlaces, SleepPlaces
  <2> QED BY <2>1, <2>2, <2>3, WatchSame DEF IInv
<1>14. ValueType' /\ LeaderType' /\ HistoryType' /\ StateInv' /\ AheadInv'
  BY DEF IInv, RequestWrite, Return, Goto, RequestValue, prgr, lead, lflgs, um, events, history,
         ValueType, LeaderType, HistoryType, StateInv, AheadInv
<1> QED BY <1>1, <1>2, <1>3, <1>4, <1>5, <1>6, <1>7, <1>8, <1>9, <1>10, <1>11, <1>12, <1>13,
               <1>14 DEF IInv

\* A thread confirms the value after current, and is not inside any more.
LEMMA UpdateStep ==
  ASSUME IInv, NEW m \in Managed, Update(m)
  PROVE  IInv'
<1> USE DEF Update, Goto, Confirm, Quiesce, lead, lflgs, um, wakeups, events
<1>1. PlaceType'
  BY Values, Ids DEF IInv, PlaceType, ManagedPlaces, InsidePlaces, UpdatePlaces, LeadPlaces,
         CheckedPlaces, WatchPlaces, AfterPlaces, SleepPlaces, DelayPlaces, HoldPlaces,
         RequestPlaces
<1>2. LocalType'
  BY DEF IInv, LocalType
<1>3. ValueType'
  BY Values DEF IInv, ValueType, PlaceType
<1>4. HistoryType'
  BY DEF IInv, HistoryType
<1>5. CtlInv'
  BY DEF IInv, CtlInv, Ctl, UpdatePlaces, LeadPlaces, CheckedPlaces, WatchPlaces, AfterPlaces,
         SleepPlaces, PlaceType
<1>6. LeaderInv'
  BY DEF IInv, LeaderInv, LeadPlaces, CheckedPlaces, WatchPlaces, PlaceType
<1>7. TrackInv'
  BY Ids, Values DEF IInv, TrackInv, Tracked, InsidePlaces, UpdatePlaces, LeadPlaces,
         CheckedPlaces, WatchPlaces, PlaceType, ValueType
<1>8. CheckInv'
  BY Ids, Values DEF IInv, CheckInv, Confirmed, Tracked, InsidePlaces, UpdatePlaces, LeadPlaces,
         CheckedPlaces, WatchPlaces, PlaceType, ValueType
<1>9. PendInv'
  BY Values, Ids DEF IInv, PlaceType, ManagedPlaces, InsidePlaces, UpdatePlaces, LeadPlaces,
         CheckedPlaces, WatchPlaces, AfterPlaces, SleepPlaces, DelayPlaces, HoldPlaces,
         RequestPlaces, ValueType, HistoryType, TrackInv, Tracked, PendInv, AheadInv
<1>10. AskInv'
  BY DEF IInv, AskInv
<1>11. WriteInv'
  <2> SUFFICES ASSUME NEW n \in Managed, pc'[n] = "reqw"
               PROVE  /\ n \in Askers /\ val[n] # None
                      /\ confirmed'[n] < RequestValue(n)' /\ RequestValue(n)' <= current + 3
                      /\ LET ix == ERTS_THR_PRGR_WAKEUP_IX(RequestValue(n)')
                         IN  /\ request[n][ix] = RequestValue(n)'
                             /\ \A i \in 1 .. Len(mwd[ix]) : mwd[ix][i] # n
    BY DEF WriteInv
  <2>1. n # m /\ pc[n] = "reqw" /\ confirmed'[n] = confirmed[n]
    BY DEF IInv, PlaceType, ValueType
  <2>2. RequestValue(n)' = RequestValue(n)
    BY <2>1 DEF RequestValue
  <2> QED BY <2>1, <2>2 DEF IInv, WriteInv
<1>12. SlotInv'
  BY DEF IInv, SlotInv, Due
<1>13. RefcInv'
  BY Ids, RefcSame DEF IInv, PlaceType, Holds, HoldPlaces
<1>14. WatchInv'
  BY DEF IInv, WatchInv, WaitedFor, WatchPlaces, PlaceType
<1>15. LeaderType' /\ WakeupType' /\ StateInv' /\ AheadInv'
  BY DEF IInv, LeaderType, WakeupType, StateInv, AheadInv
<1> QED BY <1>1, <1>2, <1>3, <1>4, <1>5, <1>6, <1>7, <1>8, <1>9, <1>10, <1>11, <1>12, <1>13,
               <1>14, <1>15 DEF IInv

\* Reading the flags changes nothing: a leader may come and go before the thread acts.
LEMMA UpdateReadFlagsStep ==
  ASSUME IInv, NEW m \in Managed, UpdateReadFlags(m)
  PROVE  IInv'
<1> USE DEF UpdateReadFlags, NoneActive, Goto, Return, prgr, lead, lflgs, um, wakeups, events,
            history
<1>1. PlaceType'
  BY Values, Ids DEF IInv, PlaceType, ManagedPlaces, InsidePlaces, UpdatePlaces, LeadPlaces,
         CheckedPlaces, WatchPlaces, AfterPlaces, SleepPlaces, DelayPlaces, HoldPlaces,
         RequestPlaces
<1>2. LocalType'
  <2>1. \A k \in Managed : pc'[k] = "chk" => pc[k] = "chk"
    BY DEF IInv, PlaceType, CtlInv, Ctl, UpdatePlaces, LeadPlaces, AfterPlaces,
           CheckedPlaces, WatchPlaces, SleepPlaces
  <2> QED BY <2>1 DEF IInv, LocalType
<1>3. CtlInv'
  BY DEF IInv, CtlInv, Ctl, UpdatePlaces, LeadPlaces, CheckedPlaces, WatchPlaces, AfterPlaces,
         SleepPlaces, PlaceType
<1>4. LeaderInv'
  BY DEF IInv, LeaderInv, LeadPlaces, CheckedPlaces, WatchPlaces, PlaceType
<1>5. TrackInv'
  BY DEF IInv, TrackInv, Tracked, InsidePlaces, UpdatePlaces, LeadPlaces, CheckedPlaces,
         WatchPlaces, PlaceType
<1>6. CheckInv'
  BY DEF IInv, CheckInv, Confirmed, Tracked, InsidePlaces, UpdatePlaces, LeadPlaces,
         CheckedPlaces, WatchPlaces, PlaceType
<1>7. PendInv'
  BY Values, Ids DEF IInv, PlaceType, ManagedPlaces, InsidePlaces, UpdatePlaces, LeadPlaces,
         CheckedPlaces, WatchPlaces, AfterPlaces, SleepPlaces, DelayPlaces, HoldPlaces,
         RequestPlaces, ValueType, HistoryType, TrackInv, Tracked, PendInv, AheadInv
<1>8. AskInv'
  BY Ids DEF IInv, AskInv, PlaceType
<1>9. WriteInv'
  BY Ids DEF IInv, WriteInv, RequestValue, PlaceType
<1>10. SlotInv'
  BY Ids DEF IInv, SlotInv, Due, PlaceType
<1>11. RefcInv'
  BY Ids, RefcSame DEF IInv, PlaceType, Holds, HoldPlaces
<1>12. WatchInv'
  BY Ids DEF IInv, WatchInv, WaitedFor, WatchPlaces, PlaceType
<1>13. ValueType' /\ LeaderType' /\ WakeupType' /\ HistoryType' /\ StateInv' /\ AheadInv'
  BY DEF IInv, ValueType, LeaderType, WakeupType, HistoryType, StateInv, AheadInv
<1> QED BY <1>1, <1>2, <1>3, <1>4, <1>5, <1>6, <1>7, <1>8, <1>9, <1>10, <1>11, <1>12, <1>13 DEF
               IInv

\* The flag is set only while there is no leader, so that who clears it is the only one;
\* it takes the counters over as the last leader has left them.
LEMMA SeizeLeadershipStep ==
  ASSUME IInv, NEW m \in Managed, SeizeLeadership(m)
  PROVE  IInv'
<1> USE DEF SeizeLeadership, TakeOver, Confirm, CheckFrom, Goto, Others, Return, um, wakeups,
            events, history
<1>1. PlaceType'
  BY Values, Ids DEF IInv, PlaceType, ManagedPlaces, InsidePlaces, UpdatePlaces, LeadPlaces,
         CheckedPlaces, WatchPlaces, AfterPlaces, SleepPlaces, DelayPlaces, HoldPlaces,
         RequestPlaces
<1>2. LocalType'
  BY Ids DEF IInv, LocalType, PlaceType
<1>3. ValueType'
  BY Values DEF IInv, ValueType, PlaceType
<1>4. LeaderType'
  <2> DEFINE r == [current |-> current, next |-> Inc(current), chk_next_ix |-> 0,
                   um_waiting |-> um_waiting, um_current |-> um_current]
             R == [current : ErtsThrPrgrVal, next : 0 .. MaxProgress + 1,
                   chk_next_ix : 0 .. NoManaged,
                   um_current : {0, 1}, um_waiting : {-1, 0, 1}]
  <2>1. lstate \in [Managed -> R] /\ (lstate' = lstate \/ lstate' = [lstate EXCEPT ![m] = r])
    BY DEF IInv, LeaderType
  <2>2. r \in R
    BY Values DEF IInv, LeaderType, ValueType
  <2> HIDE DEF r, R
  <2>3. lstate' \in [Managed -> R]
    BY <2>1, <2>2
  <2>4. leader' \in [Managed -> BOOLEAN] /\ active' \in [Managed -> BOOLEAN]
       /\ no_leader' \in BOOLEAN /\ waiting_um' \in BOOLEAN
       /\ um_waiting' \in {-1, 0, 1} /\ um_current' \in {0, 1}
    BY DEF IInv, LeaderType
  <2> QED BY <2>3, <2>4 DEF LeaderType, R
<1>5. CtlInv'
  BY DEF IInv, CtlInv, Ctl, UpdatePlaces, LeadPlaces, CheckedPlaces, WatchPlaces, AfterPlaces,
         SleepPlaces, PlaceType
<1>6. LeaderInv'
  BY Values, Ids DEF IInv, PlaceType, ManagedPlaces, InsidePlaces, UpdatePlaces, LeadPlaces,
         CheckedPlaces, WatchPlaces, AfterPlaces, SleepPlaces, DelayPlaces, HoldPlaces,
         RequestPlaces, ValueType, LeaderType, CtlInv, Ctl, LeaderInv, StateInv
<1>7. StateInv'
  BY Values, Ids DEF IInv, PlaceType, ManagedPlaces, InsidePlaces, UpdatePlaces, LeadPlaces,
         CheckedPlaces, WatchPlaces, AfterPlaces, SleepPlaces, DelayPlaces, HoldPlaces,
         RequestPlaces, LocalType, ValueType, LeaderType, StateInv
<1>8. TrackInv'
  <2>1. current \in 0 .. MaxProgress /\ Inc(current) \in ErtsThrPrgrVal /\ Inc(current) = current + 1
    BY Values DEF IInv, ValueType
  <2>2. ASSUME NEW n \in Managed, n # m
        PROVE  /\ Tracked(n)' <=> Tracked(n)
               /\ confirmed'[n] = confirmed[n] /\ thr'[n] = thr[n]
               /\ pc'[n] = pc[n] /\ loc'[n] = loc[n]
    BY <2>2 DEF IInv, PlaceType, LocalType, ValueType, Tracked
  <2>3. pc[m] = "seize" /\ Tracked(m) /\ pc'[m] # "fin2"
    BY DEF IInv, PlaceType, Tracked, UpdatePlaces, CtlInv, Ctl
  <2>4. confirmed'[m] = thr'[m] /\ thr'[m] \in {current, Inc(current)}
    BY <2>3 DEF IInv, TrackInv, ValueType
  <2> QED BY <2>2, <2>3, <2>4 DEF IInv, TrackInv
<1>9. CheckInv'
  <2>1. ASSUME NEW k \in Managed, NEW n \in Managed, k # n
        PROVE  /\ leader'[k] /\ n < lstate'[k].chk_next_ix => Confirmed(n)'
               /\ pc'[k] = "chk" /\ n < loc'[k].ix => Confirmed(n)'
               /\ pc'[k] \in CheckedPlaces => Confirmed(n)'
    <3>1. CASE no_leader
      <4>1. ~ leader[k] /\ pc[k] \notin LeadPlaces
        BY <3>1 DEF IInv, LeaderInv
      <4>2. CASE k = m
        <5>1. /\ lstate'[m].chk_next_ix = 0
              /\ pc'[m] = IF Others(m, 0) = {} THEN "um" ELSE "chk"
              /\ loc'[m].ix = 0
          BY <3>1 DEF IInv, LeaderType, LocalType, PlaceType
        <5>2. n \in Others(m, 0)
          BY <2>1, <4>2, Ids DEF Managed
        <5>3. n \in Nat /\ pc'[m] = "chk"
          BY <5>1, <5>2, Ids
        <5> QED BY <4>2, <5>1, <5>3 DEF CheckedPlaces
      <4>3. CASE k # m
        <5>1. ~ leader'[k] /\ pc'[k] = pc[k]
          BY <3>1, <4>1, <4>3 DEF IInv, LeaderType, PlaceType
        <5> QED BY <4>1, <5>1 DEF LeadPlaces
      <4> QED BY <4>2, <4>3
    <3>2. CASE ~ no_leader
      <4>1. Confirmed(n)' <=> Confirmed(n)
        <5>1. thr'[n] = thr[n] /\ current' = current
          BY <3>2
        <5>2. CASE n = m
          <6>1. pc[n] = "seize" /\ pc'[n] \in {"run", "prep", "idle"}
            BY <3>2, <5>2 DEF IInv, PlaceType, CtlInv, Ctl, UpdatePlaces, LeadPlaces, AfterPlaces,
                              CheckedPlaces, WatchPlaces, SleepPlaces
          <6> QED BY <5>1, <6>1 DEF Confirmed, Tracked, UpdatePlaces, InsidePlaces
        <5>3. CASE n # m
          <6>1. pc'[n] = pc[n] /\ ret'[n] = ret[n]
            BY <3>2, <5>3 DEF IInv, PlaceType
          <6> QED BY <5>1, <6>1 DEF Confirmed, Tracked
        <5> QED BY <5>2, <5>3
      <4>2. leader'[k] => leader[k]
        BY <3>2 DEF IInv, LeaderType
      <4>3. (pc'[k] = "chk" \/ pc'[k] \in CheckedPlaces) => pc'[k] = pc[k]
        BY <3>2 DEF IInv, PlaceType, CtlInv, Ctl, CheckedPlaces, UpdatePlaces, LeadPlaces, AfterPlaces
      <4> QED BY <2>1, <3>2, <4>1, <4>2, <4>3 DEF IInv, CheckInv
    <3> QED BY <3>1, <3>2
  <2> QED BY <2>1 DEF CheckInv
<1>10. PendInv'
  BY Values, Ids DEF IInv, PlaceType, ManagedPlaces, InsidePlaces, UpdatePlaces, LeadPlaces,
         CheckedPlaces, WatchPlaces, AfterPlaces, SleepPlaces, DelayPlaces, HoldPlaces,
         RequestPlaces, ValueType, HistoryType, TrackInv, Tracked, PendInv, AheadInv
<1>11. AskInv'
  BY Ids DEF IInv, AskInv, PlaceType
<1>12. WriteInv'
  <2> SUFFICES ASSUME NEW n \in Managed, pc'[n] = "reqw"
               PROVE  /\ n \in Askers /\ val[n] # None
                      /\ confirmed'[n] < RequestValue(n)' /\ RequestValue(n)' <= current + 3
                      /\ LET ix == ERTS_THR_PRGR_WAKEUP_IX(RequestValue(n)')
                         IN  /\ request[n][ix] = RequestValue(n)'
                             /\ \A i \in 1 .. Len(mwd[ix]) : mwd[ix][i] # n
    BY DEF WriteInv
  <2>1. n # m /\ pc[n] = "reqw" /\ confirmed'[n] = confirmed[n]
    BY DEF IInv, PlaceType, ValueType, CtlInv, Ctl, UpdatePlaces, LeadPlaces, AfterPlaces,
           CheckedPlaces, WatchPlaces, SleepPlaces
  <2>2. RequestValue(n)' = RequestValue(n)
    BY <2>1 DEF RequestValue
  <2> QED BY <2>1, <2>2 DEF IInv, WriteInv
<1>13. SlotInv'
  BY Ids DEF IInv, SlotInv, Due, PlaceType
<1>14. RefcInv'
  BY Ids, RefcSame DEF IInv, PlaceType, Holds, HoldPlaces
<1>15. WatchInv'
  <2>1. CASE no_leader
    <3>1. \A k \in Managed : ~ leader[k] /\ pc[k] \notin LeadPlaces
      BY <2>1 DEF IInv, LeaderInv
    <3>2. \A k \in Managed : leader'[k] <=> k = m
      BY <2>1, <3>1 DEF IInv, LeaderType
    <3>3. lstate'[m].um_waiting = um_waiting
      BY <2>1 DEF IInv, LeaderType
    <3>4. \A k \in Managed : pc'[k] \notin WatchPlaces \cup {"um2"}
      BY <2>1, <3>1 DEF IInv, PlaceType, LeadPlaces, WatchPlaces, CheckedPlaces
    <3>5. \A u \in Delayers : pc'[u] = pc[u]
      BY Ids DEF IInv, PlaceType
    <3>6. \A u \in Delayers : pc[u] = "delay" => uix[u] = um_current \/ uix[u] = um_waiting
      BY <3>1, <2>1 DEF IInv, WatchInv, WaitedFor
    <3>7. um_waiting # um_current /\ ~ no_leader'
      BY <2>1 DEF IInv, WatchInv
    <3> HIDE DEF SeizeLeadership, TakeOver, CheckFrom
    <3>8. um_waiting' = um_waiting /\ um_current' = um_current /\ uix' = uix
      BY DEF SeizeLeadership
    <3> QED BY <3>2, <3>3, <3>4, <3>5, <3>6, <3>7, <3>8 DEF WatchInv, WaitedFor, WatchPlaces
  <2>2. CASE ~ no_leader
    <3>1. \A k \in Managed : leader'[k] = leader[k]
      BY <2>2 DEF IInv, LeaderType, LeaderInv, LeadPlaces, WatchPlaces, CheckedPlaces, UpdatePlaces, InsidePlaces
    <3>2. \A k \in Managed : pc'[k] \in WatchPlaces \cup {"um2"} => pc'[k] = pc[k]
      BY <2>2 DEF IInv, PlaceType, CtlInv, Ctl, UpdatePlaces, LeadPlaces, AfterPlaces, CheckedPlaces, WatchPlaces
    <3>3. \A u \in Delayers : pc'[u] = pc[u]
      BY Ids DEF IInv, PlaceType
    <3>4. lstate' = lstate /\ loc' = loc /\ um_waiting' = um_waiting /\ um_current' = um_current /\ uix' = uix
          /\ no_leader' = no_leader
      BY <2>2 DEF IInv, LeaderType
    <3> QED BY <3>1, <3>2, <3>3, <3>4 DEF IInv, WatchInv, WaitedFor, WatchPlaces
  <2> QED BY <2>1, <2>2
<1>16. WakeupType' /\ HistoryType' /\ AheadInv'
  BY DEF IInv, WakeupType, HistoryType, AheadInv
<1> QED BY <1>1, <1>2, <1>3, <1>4, <1>5, <1>6, <1>7, <1>8, <1>9, <1>10, <1>11, <1>12, <1>13,
               <1>14, <1>15, <1>16 DEF IInv

\* The leader goes on behind the threads that it has found to have confirmed.
LEMMA LeaderContinueStep ==
  ASSUME IInv, NEW m \in Managed, LeaderContinue(m)
  PROVE  IInv'
<1> USE DEF LeaderContinue, CheckFrom, Goto, Others, Quiesce, prgr, lead, lflgs, um, wakeups,
            events
<1>1. PlaceType'
  BY Values, Ids DEF IInv, PlaceType, ManagedPlaces, InsidePlaces, UpdatePlaces, LeadPlaces,
         CheckedPlaces, WatchPlaces, AfterPlaces, SleepPlaces, DelayPlaces, HoldPlaces,
         RequestPlaces
<1>2. LocalType'
  <2> DEFINE r == [loc[m] EXCEPT !.ix = lstate[m].chk_next_ix,
                             !.waiting_unmanaged = FALSE]
             R == [ix : Int, waiting_unmanaged : BOOLEAN, current : 0 .. MaxProgress]
  <2>0. lstate[m].chk_next_ix \in Int
    BY Values DEF IInv, LeaderType
  <2>1. loc \in [Managed -> R]
    BY DEF IInv, LocalType
  <2>2. loc[m] \in R /\ loc' = [loc EXCEPT ![m] = r]
    BY <2>1
  <2>3. r \in R
    BY <2>2, <2>0
  <2> HIDE DEF r, R
  <2>4. loc' \in [Managed -> R]
    BY <2>1, <2>2, <2>3
  <2>5. uix' \in [Delayers -> {0, 1}] /\ \A k \in Managed : pc'[k] = "chk" => loc'[k].ix >= 0
    BY Values DEF IInv, LocalType, LeaderType, PlaceType, CtlInv, Ctl, UpdatePlaces, LeadPlaces,
           AfterPlaces, CheckedPlaces, WatchPlaces, SleepPlaces
  <2> QED BY <2>4, <2>5 DEF LocalType, R
<1>3. HistoryType'
  BY DEF IInv, HistoryType
<1>4. CtlInv'
  BY DEF IInv, CtlInv, Ctl, UpdatePlaces, LeadPlaces, CheckedPlaces, WatchPlaces, AfterPlaces,
         SleepPlaces, PlaceType
<1>5. LeaderInv'
  BY DEF IInv, LeaderInv, LeadPlaces, CheckedPlaces, WatchPlaces, PlaceType
<1>6. TrackInv'
  BY Values, Ids DEF IInv, PlaceType, ManagedPlaces, InsidePlaces, UpdatePlaces, LeadPlaces,
         CheckedPlaces, WatchPlaces, AfterPlaces, SleepPlaces, DelayPlaces, HoldPlaces,
         RequestPlaces, LocalType, ValueType, LeaderType, TrackInv, Tracked
<1>7. CheckInv'
  <2>1. \A k \in Managed : leader[k] => k = m
    BY DEF IInv, LeaderInv
  <2>2. \A k \in Managed : k # m => pc'[k] = pc[k] /\ ~ leader[k] /\ pc[k] \notin LeadPlaces
    BY <2>1 DEF IInv, PlaceType, LeaderInv
  <2>3. \A n \in Managed : n # m => (Confirmed(n)' <=> Confirmed(n))
    BY DEF IInv, PlaceType, Confirmed, Tracked
  <2>4. /\ pc'[m] = IF Others(m, lstate[m].chk_next_ix) = {} THEN "um" ELSE "chk"
        /\ loc'[m].ix = lstate[m].chk_next_ix
    BY DEF IInv, PlaceType, LocalType
  <2>5. \A n \in Managed : n # m /\ Others(m, lstate[m].chk_next_ix) = {} => n < lstate[m].chk_next_ix
    <3> PICK c \in 0 .. NoManaged : c = lstate[m].chk_next_ix
      BY DEF IInv, LeaderType
    <3>1. \A n \in Managed : n # m /\ n >= c => n \in Others(m, c)
      BY Values DEF Managed
    <3>2. \A n \in Managed : n \in Int /\ c \in Int
      BY Ids
    <3> QED BY <3>1, <3>2
  <2>6. \A n \in Managed : n # m /\ n < lstate[m].chk_next_ix => Confirmed(n)
    BY DEF IInv, CheckInv
  <2> HIDE DEF LeaderContinue, CheckFrom
  <2>7. leader' = leader /\ lstate' = lstate
    BY DEF LeaderContinue
  <2> QED BY <2>2, <2>3, <2>4, <2>5, <2>6, <2>7 DEF CheckInv, LeadPlaces, CheckedPlaces
<1>8. PendInv'
  BY DEF IInv, PendInv
<1>9. AskInv'
  BY DEF IInv, AskInv
<1>10. WriteInv'
  BY DEF IInv, WriteInv, RequestValue
<1>11. SlotInv'
  BY DEF IInv, SlotInv, Due
<1>12. RefcInv'
  BY Ids, RefcSame DEF IInv, PlaceType, Holds, HoldPlaces
<1>13. WatchInv'
  <2>1. \A k \in Managed : lstate'[k].um_waiting = lstate[k].um_waiting
    OBVIOUS
  <2>2. \A u \in Delayers : pc'[u] = pc[u]
    BY Ids DEF IInv, PlaceType
  <2>3. \A k \in Managed : pc'[k] \in WatchPlaces \cup {"um2"} =>
          pc'[k] = pc[k] /\ loc'[k].waiting_unmanaged = loc[k].waiting_unmanaged
    BY DEF IInv, PlaceType, LocalType, CtlInv, Ctl, UpdatePlaces, LeadPlaces, AfterPlaces,
           CheckedPlaces, WatchPlaces, SleepPlaces
  <2> QED BY <2>1, <2>2, <2>3, WatchSame DEF IInv
<1>14. ValueType' /\ LeaderType' /\ WakeupType' /\ StateInv' /\ AheadInv'
  BY DEF IInv, ValueType, LeaderType, WakeupType, StateInv, AheadInv
<1> QED BY <1>1, <1>2, <1>3, <1>4, <1>5, <1>6, <1>7, <1>8, <1>9, <1>10, <1>11, <1>12, <1>13,
               <1>14 DEF IInv

\* A thread that is not behind has confirmed the next value, or sleeps and has to confirm
\* it when it wakes up.
LEMMA CheckManagedStep ==
  ASSUME IInv, NEW m \in Managed, CheckManaged(m)
  PROVE  IInv'
<1> USE DEF CheckManaged, Others, IsBehind, Goto, CheckFrom, prgr, lflgs, um, wakeups, events,
            history
<1>1. PlaceType'
  BY Values, Ids DEF IInv, PlaceType, ManagedPlaces, InsidePlaces, UpdatePlaces, LeadPlaces,
         CheckedPlaces, WatchPlaces, AfterPlaces, SleepPlaces, DelayPlaces, HoldPlaces,
         RequestPlaces
<1>2. LocalType'
  BY Ids DEF IInv, LocalType, PlaceType
<1>3. LeaderType'
  <2> PICK n \in Others(m, loc[m].ix) :
             lstate' = lstate \/ lstate' = [lstate EXCEPT ![m].chk_next_ix = n]
    OBVIOUS
  <2> DEFINE r == [lstate[m] EXCEPT !.chk_next_ix = n]
             R == [current : ErtsThrPrgrVal, next : 0 .. MaxProgress + 1,
                   chk_next_ix : 0 .. NoManaged,
                   um_current : {0, 1}, um_waiting : {-1, 0, 1}]
  <2>1. lstate \in [Managed -> R]
    BY DEF IInv, LeaderType
  <2>2. lstate[m] \in R /\ (lstate' = lstate \/ lstate' = [lstate EXCEPT ![m] = r])
    BY <2>1
  <2>3. n \in 0 .. NoManaged
    BY Values DEF IInv, LocalType, Others, Managed
  <2>4. r \in R
    BY <2>2, <2>3
  <2> HIDE DEF r, R
  <2>5. lstate' \in [Managed -> R]
    BY <2>1, <2>2, <2>4
  <2>6. leader' \in [Managed -> BOOLEAN] /\ active' \in [Managed -> BOOLEAN]
       /\ no_leader' \in BOOLEAN /\ waiting_um' \in BOOLEAN
       /\ um_waiting' \in {-1, 0, 1} /\ um_current' \in {0, 1}
    BY DEF IInv, LeaderType
  <2> QED BY <2>5, <2>6 DEF LeaderType, R
<1>4. CtlInv'
  BY DEF IInv, CtlInv, Ctl, UpdatePlaces, LeadPlaces, CheckedPlaces, WatchPlaces, AfterPlaces,
         SleepPlaces, PlaceType
<1>5. LeaderInv'
  BY DEF IInv, LeaderInv, LeadPlaces, CheckedPlaces, WatchPlaces, PlaceType
<1>6. StateInv'
  BY Values, Ids DEF IInv, PlaceType, ManagedPlaces, InsidePlaces, UpdatePlaces, LeadPlaces,
         CheckedPlaces, WatchPlaces, AfterPlaces, SleepPlaces, DelayPlaces, HoldPlaces,
         RequestPlaces, ValueType, LeaderType, CtlInv, Ctl, LeaderInv, StateInv
<1>7. TrackInv'
  BY Values, Ids DEF IInv, PlaceType, ManagedPlaces, InsidePlaces, UpdatePlaces, LeadPlaces,
         CheckedPlaces, WatchPlaces, AfterPlaces, SleepPlaces, DelayPlaces, HoldPlaces,
         RequestPlaces, LocalType, ValueType, LeaderType, TrackInv, Tracked
<1>8. CheckInv'
  <2>1. leader[m] /\ \A k \in Managed : leader[k] => k = m
    BY DEF IInv, LeaderInv, LeadPlaces
  <2>2. \A k \in Managed : k # m => pc'[k] = pc[k] /\ ~ leader[k] /\ pc[k] \notin LeadPlaces
    BY <2>1 DEF IInv, PlaceType, LeaderInv
  <2>3. \A n \in Managed : n # m => (Confirmed(n)' <=> Confirmed(n))
    BY DEF IInv, PlaceType, Confirmed, Tracked
  <2>4. \A n \in Managed : n # m /\ n < loc[m].ix => Confirmed(n)
    BY DEF IInv, CheckInv
  <2> PICK ix \in Others(m, loc[m].ix) :
         /\ \A n \in Others(m, loc[m].ix) : ix <= n
         /\ IF IsBehind(m, ix)
            THEN /\ lstate' = [lstate EXCEPT ![m].chk_next_ix = ix]
                 /\ pc' = [pc EXCEPT ![m] = "done"]
                 /\ loc' = loc
            ELSE /\ pc' = [pc EXCEPT ![m] = IF Others(m, ix + 1) = {} THEN "um" ELSE "chk"]
                 /\ loc' = [loc EXCEPT ![m].ix = ix + 1, ![m].waiting_unmanaged = FALSE]
                 /\ lstate' = lstate
    OBVIOUS
  <2>5. leader' = leader
    OBVIOUS
  <2>6. lstate[m].next = Inc(current)
    BY <2>1 DEF IInv, StateInv
  <2> HIDE DEF CheckManaged, CheckFrom, IsBehind
  <2>7. PICK i \in Int : i = loc[m].ix /\ i >= 0
    BY DEF IInv, LocalType, CheckManaged
  <2>8. ix \in Managed /\ ix # m /\ ix >= i
    BY <2>7, Values DEF Managed, Others
  <2>9. \A n \in Managed : n # m /\ n < ix => Confirmed(n)
    <3>1. \A n \in Managed : n # m /\ n < ix => n < i
      BY <2>7, <2>8, Values DEF Managed, Others
    <3> QED BY <3>1, <2>4, <2>7
  <2>10. CASE IsBehind(m, ix)
    <3>1. lstate'[m].chk_next_ix = ix /\ pc'[m] = "done"
      BY <2>10 DEF IInv, LeaderType, PlaceType
    <3> QED BY <2>2, <2>3, <2>5, <2>9, <3>1 DEF CheckInv, LeadPlaces, CheckedPlaces
  <2>11. CASE ~ IsBehind(m, ix)
    <3>1. Confirmed(ix)
      <4>1. thr[ix] \in {Inc(current), ERTS_THR_PRGR_VAL_WAITING}
        BY <2>6, <2>11 DEF IsBehind
      <4>2. Tracked(ix) => thr[ix] # ERTS_THR_PRGR_VAL_WAITING
        BY <2>8, Values DEF IInv, TrackInv, ValueType
      <4> QED BY <4>1, <4>2 DEF Confirmed
    <3>2. \A n \in Managed : n # m /\ n < ix + 1 => Confirmed(n)
      <4>1. \A n \in Managed : n < ix + 1 => n < ix \/ n = ix
        BY <2>8, Ids
      <4> QED BY <4>1, <3>1, <2>9
    <3>3. loc'[m].ix = ix + 1 /\ pc'[m] = IF Others(m, ix + 1) = {} THEN "um" ELSE "chk"
      BY <2>11 DEF IInv, LocalType, PlaceType
    <3>4. \A n \in Managed : n # m /\ Others(m, ix + 1) = {} => n < ix + 1
      BY <2>8, Values DEF Managed, Others
    <3>5. lstate' = lstate
      BY <2>11
    <3>6. \A n \in Managed : n # m /\ n < lstate[m].chk_next_ix => Confirmed(n)
      BY <2>1 DEF IInv, CheckInv
    <3> QED BY <2>2, <2>3, <2>5, <3>2, <3>3, <3>4, <3>5, <3>6 DEF CheckInv, LeadPlaces, CheckedPlaces
  <2> QED BY <2>10, <2>11
<1>9. PendInv'
  BY Values, Ids DEF IInv, PlaceType, ManagedPlaces, InsidePlaces, UpdatePlaces, LeadPlaces,
         CheckedPlaces, WatchPlaces, AfterPlaces, SleepPlaces, DelayPlaces, HoldPlaces,
         RequestPlaces, ValueType, HistoryType, TrackInv, Tracked, PendInv, AheadInv
<1>10. AskInv'
  BY Ids DEF IInv, AskInv, PlaceType
<1>11. WriteInv'
  BY Ids DEF IInv, WriteInv, RequestValue, PlaceType
<1>12. SlotInv'
  BY Ids DEF IInv, SlotInv, Due, PlaceType
<1>13. RefcInv'
  BY Ids, RefcSame DEF IInv, PlaceType, Holds, HoldPlaces
<1>14. WatchInv'
  <2>1. \A k \in Managed : lstate'[k].um_waiting = lstate[k].um_waiting
    BY DEF IInv, LeaderType
  <2>2. \A u \in Delayers : pc'[u] = pc[u]
    BY Ids DEF IInv, PlaceType
  <2>3. \A k \in Managed : pc'[k] \in WatchPlaces \cup {"um2"} =>
          pc'[k] = pc[k] /\ loc'[k].waiting_unmanaged = loc[k].waiting_unmanaged
    BY DEF IInv, PlaceType, LocalType, CtlInv, Ctl, UpdatePlaces, LeadPlaces, AfterPlaces,
           CheckedPlaces, WatchPlaces, SleepPlaces
  <2> QED BY <2>1, <2>2, <2>3, WatchSame DEF IInv
<1>15. ValueType' /\ WakeupType' /\ HistoryType' /\ AheadInv'
  BY DEF IInv, ValueType, WakeupType, HistoryType, AheadInv
<1> QED BY <1>1, <1>2, <1>3, <1>4, <1>5, <1>6, <1>7, <1>8, <1>9, <1>10, <1>11, <1>12, <1>13,
               <1>14, <1>15 DEF IInv

\* A counter that is zero has been incremented by nobody; one that is not is waited for,
\* and new threads use the other one.
LEMMA CheckUnmanagedStep ==
  ASSUME IInv, NEW m \in Managed, CheckUnmanaged(m)
  PROVE  IInv'
<1> USE DEF CheckUnmanaged, Goto, prgr, lflgs, wakeups, events, history
<1>1. PlaceType'
  BY Values, Ids DEF IInv, PlaceType, ManagedPlaces, InsidePlaces, UpdatePlaces, LeadPlaces,
         CheckedPlaces, WatchPlaces, AfterPlaces, SleepPlaces, DelayPlaces, HoldPlaces,
         RequestPlaces
<1>2. LocalType'
  <2> DEFINE r == [loc[m] EXCEPT !.waiting_unmanaged = lstate[m].um_waiting # -1]
             R == [ix : Int, waiting_unmanaged : BOOLEAN, current : 0 .. MaxProgress]
  <2>1. loc \in [Managed -> R]
    BY DEF IInv, LocalType
  <2>2. loc[m] \in R /\ loc' = [loc EXCEPT ![m] = r]
    BY <2>1
  <2>3. r \in R
    BY <2>2
  <2> HIDE DEF r, R
  <2>4. loc' \in [Managed -> R]
    BY <2>1, <2>2, <2>3
  <2>5. uix' \in [Delayers -> {0, 1}] /\ \A k \in Managed : pc'[k] = "chk" => loc'[k].ix >= 0
    BY Values DEF IInv, LocalType, LeaderType, PlaceType, CtlInv, Ctl, UpdatePlaces, LeadPlaces,
           AfterPlaces, CheckedPlaces, WatchPlaces, SleepPlaces
  <2> QED BY <2>4, <2>5 DEF LocalType, R
<1>3. LeaderType'
  BY DEF IInv, LeaderType
<1>4. CtlInv'
  BY DEF IInv, CtlInv, Ctl, UpdatePlaces, LeadPlaces, CheckedPlaces, WatchPlaces, AfterPlaces,
         SleepPlaces, PlaceType
<1>5. LeaderInv'
  BY DEF IInv, LeaderInv, LeadPlaces, CheckedPlaces, WatchPlaces, PlaceType
<1>6. StateInv'
  BY Values, Ids DEF IInv, PlaceType, ManagedPlaces, InsidePlaces, UpdatePlaces, LeadPlaces,
         CheckedPlaces, WatchPlaces, AfterPlaces, SleepPlaces, DelayPlaces, HoldPlaces,
         RequestPlaces, ValueType, LeaderType, CtlInv, Ctl, LeaderInv, StateInv
<1>7. TrackInv'
  BY DEF IInv, TrackInv, Tracked, InsidePlaces, UpdatePlaces, LeadPlaces, CheckedPlaces,
         WatchPlaces, PlaceType
<1>8. CheckInv'
  BY DEF IInv, CheckInv, Confirmed, Tracked, InsidePlaces, UpdatePlaces, LeadPlaces,
         CheckedPlaces, WatchPlaces, PlaceType, CtlInv, Ctl, LeaderInv, AfterPlaces, SleepPlaces
<1>9. PendInv'
  BY Values, Ids DEF IInv, PlaceType, ManagedPlaces, InsidePlaces, UpdatePlaces, LeadPlaces,
         CheckedPlaces, WatchPlaces, AfterPlaces, SleepPlaces, DelayPlaces, HoldPlaces,
         RequestPlaces, ValueType, HistoryType, TrackInv, Tracked, PendInv, AheadInv
<1>10. AskInv'
  BY Ids DEF IInv, AskInv, PlaceType
<1>11. WriteInv'
  BY Ids DEF IInv, WriteInv, RequestValue, PlaceType
<1>12. SlotInv'
  BY Ids DEF IInv, SlotInv, Due, PlaceType
<1>13. RefcInv'
  BY Ids, RefcSame DEF IInv, PlaceType, Holds, HoldPlaces
<1>14. WatchInv'
  <2>1. leader[m] /\ (\A k \in Managed : leader[k] => k = m) /\ ~ no_leader
    BY DEF IInv, LeaderInv, LeadPlaces, CheckedPlaces, WatchPlaces
  <2>2. \A k \in Managed : k # m => pc'[k] = pc[k] /\ pc[k] \notin LeadPlaces
    BY <2>1 DEF IInv, PlaceType, LeaderInv
  <2>3. \A u \in Delayers : pc'[u] = pc[u] /\ uix[u] \in {0, 1}
    BY Ids DEF IInv, PlaceType, LocalType
  <2>4. \A u \in Delayers : pc[u] = "delay" =>
          uix[u] = um_current \/ uix[u] = lstate[m].um_waiting
    BY <2>1 DEF IInv, WatchInv, WaitedFor
  <2>5. lstate[m].um_waiting # um_current
    BY <2>1 DEF IInv, WatchInv
  <2>6. \A i \in {0, 1} : umrefc[i] = 0 => \A u \in Delayers : pc[u] = "delay" => uix[u] # i
    BY NobodyHolds DEF IInv, Holds, HoldPlaces
  <2>7. lstate[m].um_waiting \in {-1, 0, 1} /\ lstate[m].um_current \in {0, 1} /\ um_current \in {0, 1}
    BY DEF IInv, LeaderType
  <2> DEFINE waiting == lstate[m].um_waiting # -1
             ix == IF waiting THEN lstate[m].um_waiting ELSE lstate[m].um_current
  <2>8. ix \in {0, 1} /\ (waiting => ix = lstate[m].um_waiting) /\ waiting \in BOOLEAN
    BY <2>7
  <2>9. leader' = leader /\ no_leader' = no_leader /\ um_waiting' = um_waiting /\ uix' = uix
        /\ loc'[m].waiting_unmanaged = waiting
    BY DEF IInv, LocalType
  <2>10. CASE umrefc[ix] = 0 /\ pc'[m] = "prog" /\ lstate' = lstate /\ um_current' = um_current
    <3>1. \A u \in Delayers : pc[u] = "delay" => uix[u] # lstate[m].um_waiting
      BY <2>3, <2>6, <2>8, <2>10
    <3> HIDE DEF CheckUnmanaged, ix
    <3>11. \A u \in Delayers : pc'[u] = "delay" => WaitedFor(u)'
      BY <2>1, <2>2, <2>3, <2>4, <2>5, <2>9, <2>10 DEF WaitedFor
    <3>12. /\ no_leader' => um_waiting' # um_current'
           /\ \A k \in Managed : leader'[k] => lstate'[k].um_waiting # um_current'
      BY <2>1, <2>2, <2>3, <2>4, <2>5, <2>9, <2>10
    <3>13. \A k \in Managed : k # m => pc'[k] \notin WatchPlaces \cup {"um2"}
      BY <2>1, <2>2, <2>3, <2>4, <2>5, <2>9, <2>10 DEF LeadPlaces, CheckedPlaces
    <3>14. pc'[m] \in WatchPlaces =>
             /\ loc'[m].waiting_unmanaged = (lstate'[m].um_waiting # -1)
             /\ \A u \in Delayers : pc'[u] = "delay" => uix'[u] # lstate'[m].um_waiting
      BY <2>3, <2>9, <2>10, <3>1 DEF WatchPlaces
    <3>15. pc'[m] # "um2" /\ pc'[m] # "progressed" /\ "progressed" \in WatchPlaces
      BY <2>3, <2>9, <2>10, <3>1 DEF WatchPlaces
    <3> QED BY <3>11, <3>12, <3>13, <3>14, <3>15 DEF WatchInv
  <2>11. CASE pc'[m] = "done" /\ lstate' = lstate /\ um_current' = um_current
    <3> HIDE DEF CheckUnmanaged, ix
    <3> QED BY <2>1, <2>2, <2>3, <2>4, <2>5, <2>9, <2>11
            DEF WatchInv, WaitedFor, LeadPlaces, CheckedPlaces, WatchPlaces
  <2>12. CASE /\ ~ waiting /\ pc'[m] = "um2" /\ um_current' = (ix + 1) % 2
              /\ lstate' = [lstate EXCEPT ![m].um_waiting = ix, ![m].chk_next_ix = NoManaged]
    <3>1. lstate'[m].um_waiting = ix
      BY <2>12 DEF IInv, LeaderType
    <3>2. um_current' # ix /\ um_current' \in {0, 1} /\ ix # -1
      BY <2>8, <2>12
    <3> HIDE DEF CheckUnmanaged, ix, waiting
    <3>3. \A u \in Delayers : uix[u] = um_current' \/ uix[u] = ix
      BY <2>3, <2>8, <3>2
    <3> QED BY <2>1, <2>2, <2>3, <2>9, <2>12, <3>1, <3>2, <3>3
            DEF WatchInv, WaitedFor, LeadPlaces, CheckedPlaces, WatchPlaces
  <2> QED BY <2>10, <2>11, <2>12 DEF IInv, PlaceType
<1>15. ValueType' /\ WakeupType' /\ HistoryType' /\ AheadInv'
  BY DEF IInv, ValueType, WakeupType, HistoryType, AheadInv
<1> QED BY <1>1, <1>2, <1>3, <1>4, <1>5, <1>6, <1>7, <1>8, <1>9, <1>10, <1>11, <1>12, <1>13,
               <1>14, <1>15 DEF IInv

\* The counter that is waited for is read again.
LEMMA CheckUnmanagedAgainStep ==
  ASSUME IInv, NEW m \in Managed, CheckUnmanagedAgain(m)
  PROVE  IInv'
<1> USE DEF CheckUnmanagedAgain, Goto, prgr, lead, lflgs, um, wakeups, events, history
<1>1. PlaceType'
  BY Values, Ids DEF IInv, PlaceType, ManagedPlaces, InsidePlaces, UpdatePlaces, LeadPlaces,
         CheckedPlaces, WatchPlaces, AfterPlaces, SleepPlaces, DelayPlaces, HoldPlaces,
         RequestPlaces
<1>2. LocalType'
  <2> DEFINE r == [loc[m] EXCEPT !.waiting_unmanaged = TRUE]
             R == [ix : Int, waiting_unmanaged : BOOLEAN, current : 0 .. MaxProgress]
  <2>1. loc \in [Managed -> R]
    BY DEF IInv, LocalType
  <2>2. loc[m] \in R /\ loc' = [loc EXCEPT ![m] = r]
    BY <2>1
  <2>3. r \in R
    BY <2>2
  <2> HIDE DEF r, R
  <2>4. loc' \in [Managed -> R]
    BY <2>1, <2>2, <2>3
  <2>5. uix' \in [Delayers -> {0, 1}] /\ \A k \in Managed : pc'[k] = "chk" => loc'[k].ix >= 0
    BY Values DEF IInv, LocalType, LeaderType, PlaceType, CtlInv, Ctl, UpdatePlaces, LeadPlaces,
           AfterPlaces, CheckedPlaces, WatchPlaces, SleepPlaces
  <2> QED BY <2>4, <2>5 DEF LocalType, R
<1>3. CtlInv'
  BY DEF IInv, CtlInv, Ctl, UpdatePlaces, LeadPlaces, CheckedPlaces, WatchPlaces, AfterPlaces,
         SleepPlaces, PlaceType
<1>4. LeaderInv'
  BY DEF IInv, LeaderInv, LeadPlaces, CheckedPlaces, WatchPlaces, PlaceType
<1>5. TrackInv'
  BY DEF IInv, TrackInv, Tracked, InsidePlaces, UpdatePlaces, LeadPlaces, CheckedPlaces,
         WatchPlaces, PlaceType
<1>6. CheckInv'
  BY DEF IInv, CheckInv, Confirmed, Tracked, InsidePlaces, UpdatePlaces, LeadPlaces,
         CheckedPlaces, WatchPlaces, PlaceType
<1>7. PendInv'
  BY DEF IInv, PendInv, InsidePlaces, PlaceType
<1>8. AskInv'
  BY DEF IInv, AskInv
<1>9. WriteInv'
  BY DEF IInv, WriteInv, RequestValue
<1>10. SlotInv'
  BY DEF IInv, SlotInv, Due
<1>11. RefcInv'
  BY Ids, RefcSame DEF IInv, PlaceType, Holds, HoldPlaces
<1>12. WatchInv'
  <2>1. leader[m] /\ (\A k \in Managed : leader[k] => k = m) /\ ~ no_leader
    BY DEF IInv, LeaderInv, LeadPlaces, CheckedPlaces, WatchPlaces
  <2>2. \A k \in Managed : k # m => pc'[k] = pc[k] /\ pc[k] \notin LeadPlaces
    BY <2>1 DEF IInv, PlaceType, LeaderInv
  <2>3. \A u \in Delayers : pc'[u] = pc[u] /\ uix[u] \in {0, 1}
    BY Ids DEF IInv, PlaceType, LocalType
  <2>4. \A u \in Delayers : pc[u] = "delay" =>
          uix[u] = um_current \/ uix[u] = lstate[m].um_waiting
    BY <2>1 DEF IInv, WatchInv, WaitedFor
  <2>5. lstate[m].um_waiting # um_current
    BY <2>1 DEF IInv, WatchInv
  <2>6. \A i \in {0, 1} : umrefc[i] = 0 => \A u \in Delayers : pc[u] = "delay" => uix[u] # i
    BY NobodyHolds DEF IInv, Holds, HoldPlaces
  <2>7. lstate[m].um_waiting \in {0, 1} /\ loc'[m].waiting_unmanaged = TRUE
    BY DEF IInv, LeaderType, LocalType, WatchInv
  <2>8. pc'[m] = "done" \/ (pc'[m] = "prog" /\ umrefc[lstate[m].um_waiting] = 0)
    BY DEF IInv, PlaceType
  <2>9. leader' = leader /\ lstate' = lstate /\ no_leader' = no_leader /\ um_waiting' = um_waiting
        /\ um_current' = um_current /\ uix' = uix
    OBVIOUS
  <2> HIDE DEF CheckUnmanagedAgain
  <2>11. \A u \in Delayers : pc'[u] = "delay" => WaitedFor(u)'
    BY <2>1, <2>2, <2>3, <2>4, <2>5, <2>9 DEF WaitedFor
  <2>12. /\ no_leader' => um_waiting' # um_current'
         /\ \A k \in Managed : leader'[k] => lstate'[k].um_waiting # um_current'
    BY <2>1, <2>2, <2>3, <2>4, <2>5, <2>9
  <2>13. \A k \in Managed : k # m => pc'[k] \notin WatchPlaces \cup {"um2"}
    BY <2>1, <2>2, <2>3, <2>4, <2>5, <2>9 DEF LeadPlaces, CheckedPlaces
  <2>14. pc'[m] \in WatchPlaces =>
           /\ loc'[m].waiting_unmanaged = (lstate'[m].um_waiting # -1)
           /\ \A u \in Delayers : pc'[u] = "delay" => uix'[u] # lstate'[m].um_waiting
    <3>1. pc'[m] = "prog" => \A u \in Delayers : pc[u] = "delay" => uix[u] # lstate[m].um_waiting
      <4> PICK i \in {0, 1} : i = lstate[m].um_waiting
        BY <2>7
      <4> QED BY <2>6, <2>8
    <3>2. pc'[m] \in WatchPlaces => pc'[m] = "prog"
      BY <2>8 DEF WatchPlaces
    <3>3. (lstate'[m].um_waiting # -1) = TRUE
      BY <2>7, <2>9
    <3>4. loc'[m].waiting_unmanaged = (lstate'[m].um_waiting # -1)
      BY <2>7, <3>3
    <3>5. pc'[m] = "prog" => \A u \in Delayers : pc'[u] = "delay" => uix'[u] # lstate'[m].um_waiting
      BY <2>3, <2>9, <3>1
    <3> QED BY <3>2, <3>4, <3>5
  <2>15. pc'[m] # "um2" /\ pc'[m] # "progressed" /\ "progressed" \in WatchPlaces
    BY <2>3, <2>6, <2>7, <2>8, <2>9 DEF WatchPlaces
  <2> QED BY <2>11, <2>12, <2>13, <2>14, <2>15 DEF WatchInv
<1>13. ValueType' /\ LeaderType' /\ WakeupType' /\ HistoryType' /\ StateInv' /\ AheadInv'
  BY DEF IInv, ValueType, LeaderType, WakeupType, HistoryType, StateInv, AheadInv
<1> QED BY <1>1, <1>2, <1>3, <1>4, <1>5, <1>6, <1>7, <1>8, <1>9, <1>10, <1>11, <1>12, <1>13 DEF
               IInv

\* All threads have confirmed the next value: they are now at current, and the slot of
\* the value is due.
LEMMA MakeProgressStep ==
  ASSUME IInv, NEW m \in Managed, MakeProgress(m)
  PROVE  IInv'
<1> USE DEF MakeProgress, Goto, Confirm, lflgs, um, wakeups, events, history
<1>1. PlaceType'
  BY Values, Ids DEF IInv, PlaceType, ManagedPlaces, InsidePlaces, UpdatePlaces, LeadPlaces,
         CheckedPlaces, WatchPlaces, AfterPlaces, SleepPlaces, DelayPlaces, HoldPlaces,
         RequestPlaces
<1>2. LocalType'
  BY DEF IInv, LocalType
<1>3. ValueType'
  <2>1. /\ lstate[m].next = current + 1 /\ current \in 0 .. MaxProgress /\ current + 1 \in 0 .. MaxProgress
        /\ leader[m] /\ Inc(current) = current + 1 /\ Inc(current + 1) = current + 2
        /\ current + 1 \in ErtsThrPrgrVal /\ current + 2 \in ErtsThrPrgrVal
    BY Values DEF IInv, ValueType, StateInv, LeaderInv, LeadPlaces, WatchPlaces
  <2> QED BY <2>1 DEF IInv, ValueType
<1>4. LeaderType'
  BY Values DEF IInv, LeaderType, PlaceType, ValueType
<1>5. CtlInv'
  BY DEF IInv, CtlInv, Ctl, UpdatePlaces, LeadPlaces, CheckedPlaces, WatchPlaces, AfterPlaces,
         SleepPlaces, PlaceType
<1>6. LeaderInv'
  BY DEF IInv, LeaderInv, LeadPlaces, CheckedPlaces, WatchPlaces, PlaceType
<1>7. StateInv'
  BY Values, Ids DEF IInv, PlaceType, ManagedPlaces, InsidePlaces, UpdatePlaces, LeadPlaces,
         CheckedPlaces, WatchPlaces, AfterPlaces, SleepPlaces, DelayPlaces, HoldPlaces,
         RequestPlaces, ValueType, LeaderType, CtlInv, Ctl, LeaderInv, StateInv
<1>8. TrackInv'
  <2>1. /\ lstate[m].next = current + 1 /\ current \in 0 .. MaxProgress /\ current + 1 \in 0 .. MaxProgress
        /\ leader[m] /\ Inc(current) = current + 1 /\ Inc(current + 1) = current + 2
        /\ current + 1 \in ErtsThrPrgrVal /\ current + 2 \in ErtsThrPrgrVal
    BY Values DEF IInv, ValueType, StateInv, LeaderInv, LeadPlaces, WatchPlaces
  <2>2. ASSUME NEW n \in Managed
        PROVE  /\ Tracked(n)' => confirmed'[n] = thr'[n] /\ thr'[n] \in {current', Inc(current')}
               /\ pc'[n] = "fin2" => confirmed'[n] = thr'[n] /\ thr'[n] = Inc(loc'[n].current)
    <3>1. CASE n = m
      BY <2>1, <3>1 DEF IInv, ValueType, PlaceType
    <3>2. CASE n # m
      <4>1. pc'[n] = pc[n] /\ confirmed'[n] = confirmed[n] /\ thr'[n] = thr[n]
            /\ (Tracked(n)' <=> Tracked(n))
        BY <3>2 DEF IInv, ValueType, PlaceType, Tracked
      <4>2. Confirmed(n)
        BY <3>2 DEF IInv, CheckInv, CheckedPlaces
      <4> QED BY <2>1, <3>2, <4>1, <4>2 DEF IInv, TrackInv, Confirmed
    <3> QED BY <3>1, <3>2
  <2> QED BY <2>2 DEF TrackInv
<1>9. CheckInv'
  BY Values, Ids DEF IInv, PlaceType, ManagedPlaces, InsidePlaces, UpdatePlaces, LeadPlaces,
         CheckedPlaces, WatchPlaces, AfterPlaces, SleepPlaces, DelayPlaces, HoldPlaces,
         RequestPlaces, ValueType, LeaderType, CtlInv, Ctl, LeaderInv, StateInv, CheckInv,
         Confirmed, Tracked
<1>10. PendInv'
  BY DEF IInv, PendInv, InsidePlaces, PlaceType
<1>11. AheadInv'
  <2>1. /\ lstate[m].next = current + 1 /\ current \in 0 .. MaxProgress /\ current + 1 \in 0 .. MaxProgress
        /\ leader[m] /\ Inc(current) = current + 1 /\ Inc(current + 1) = current + 2
        /\ current + 1 \in ErtsThrPrgrVal /\ current + 2 \in ErtsThrPrgrVal
    BY Values DEF IInv, ValueType, StateInv, LeaderInv, LeadPlaces, WatchPlaces
  <2>2. \A x \in Waiters : val[x] # None => val[x] \in Nat
    BY Values DEF IInv, HistoryType
  <2> QED BY <2>1, <2>2 DEF IInv, AheadInv
<1>12. AskInv'
  BY DEF IInv, AskInv
<1>13. WriteInv'
  <2>1. current' = current + 1 /\ current \in Nat
    BY Values DEF IInv, ValueType, StateInv, LeaderInv, LeadPlaces, WatchPlaces
  <2> SUFFICES ASSUME NEW n \in Managed, pc'[n] = "reqw"
               PROVE  /\ n \in Askers /\ val[n] # None
                      /\ confirmed'[n] < RequestValue(n)' /\ RequestValue(n)' <= current' + 3
                      /\ LET ix == ERTS_THR_PRGR_WAKEUP_IX(RequestValue(n)')
                         IN  /\ request[n][ix] = RequestValue(n)'
                             /\ \A i \in 1 .. Len(mwd[ix]) : mwd[ix][i] # n
    BY DEF WriteInv
  <2>2. n # m /\ pc[n] = "reqw" /\ confirmed'[n] = confirmed[n]
    BY DEF IInv, PlaceType, ValueType
  <2>3. RequestValue(n)' = RequestValue(n)
    BY <2>2 DEF RequestValue
  <2>4. RequestValue(n) \in Nat /\ RequestValue(n) <= current + 3
    BY <2>2, Writing
  <2> QED BY <2>1, <2>2, <2>3, <2>4 DEF IInv, WriteInv
<1>14. SlotInv'
  <2>1. current' = current + 1 /\ current \in Nat /\ leader[m]
    BY Values DEF IInv, ValueType, StateInv, LeaderInv, LeadPlaces, WatchPlaces
  <2>2. pc'[m] = "handle" /\ \A n \in Managed : pc[n] # "handle"
    BY DEF IInv, PlaceType, LeaderInv, LeadPlaces, WatchPlaces
  <2>3. \A k \in Nat : Due(k) => Due(k)' /\ (k <= current + 3 => k <= current' + 3)
    BY <2>1, <2>2 DEF Due
  <2>4. \A x \in Askers, ix \in Slots : request[x][ix] \in Nat
    BY Values, Ids DEF IInv, WakeupType
  <2> QED BY <2>3, <2>4 DEF IInv, SlotInv
<1>15. RefcInv'
  BY Ids, RefcSame DEF IInv, PlaceType, Holds, HoldPlaces
<1>16. WatchInv'
  BY Values, Ids DEF IInv, PlaceType, ManagedPlaces, InsidePlaces, UpdatePlaces, LeadPlaces,
         CheckedPlaces, WatchPlaces, AfterPlaces, SleepPlaces, DelayPlaces, HoldPlaces,
         RequestPlaces, LocalType, ValueType, LeaderType, WatchInv, WaitedFor
<1>17. WakeupType' /\ HistoryType'
  BY DEF IInv, WakeupType, HistoryType
<1> QED BY <1>1, <1>2, <1>3, <1>4, <1>5, <1>6, <1>7, <1>8, <1>9, <1>10, <1>11, <1>12, <1>13,
               <1>14, <1>15, <1>16, <1>17 DEF IInv

\* The bound of the model: nothing changes.
LEMMA StopProgressStep ==
  ASSUME IInv, NEW m \in Managed, StopProgress(m)
  PROVE  IInv'
<1> USE DEF StopProgress, Goto, prgr, lead, lflgs, um, wakeups, events, history
<1>1. PlaceType'
  BY Values, Ids DEF IInv, PlaceType, ManagedPlaces, InsidePlaces, UpdatePlaces, LeadPlaces,
         CheckedPlaces, WatchPlaces, AfterPlaces, SleepPlaces, DelayPlaces, HoldPlaces,
         RequestPlaces
<1>2. LocalType'
  BY DEF IInv, LocalType
<1>3. CtlInv'
  BY DEF IInv, CtlInv, Ctl, UpdatePlaces, LeadPlaces, CheckedPlaces, WatchPlaces, AfterPlaces,
         SleepPlaces, PlaceType
<1>4. LeaderInv'
  BY DEF IInv, LeaderInv, LeadPlaces, CheckedPlaces, WatchPlaces, PlaceType
<1>5. TrackInv'
  BY DEF IInv, TrackInv, Tracked, InsidePlaces, UpdatePlaces, LeadPlaces, CheckedPlaces,
         WatchPlaces, PlaceType
<1>6. CheckInv'
  BY DEF IInv, CheckInv, Confirmed, Tracked, InsidePlaces, UpdatePlaces, LeadPlaces,
         CheckedPlaces, WatchPlaces, PlaceType
<1>7. PendInv'
  BY DEF IInv, PendInv, InsidePlaces, PlaceType
<1>8. AskInv'
  BY DEF IInv, AskInv
<1>9. WriteInv'
  <2>1. \A n \in Managed : pc'[n] = "reqw" => pc[n] = "reqw"
    BY DEF IInv, PlaceType, CtlInv, Ctl, UpdatePlaces, LeadPlaces, AfterPlaces,
           CheckedPlaces, WatchPlaces, SleepPlaces
  <2> QED BY <2>1 DEF IInv, WriteInv, RequestValue
<1>10. SlotInv'
  BY DEF IInv, SlotInv, Due
<1>11. RefcInv'
  BY Ids, RefcSame DEF IInv, PlaceType, Holds, HoldPlaces
<1>12. WatchInv'
  BY DEF IInv, WatchInv, WaitedFor, WatchPlaces, PlaceType
<1>13. ValueType' /\ LeaderType' /\ WakeupType' /\ HistoryType' /\ StateInv' /\ AheadInv'
  BY DEF IInv, ValueType, LeaderType, WakeupType, HistoryType, StateInv, AheadInv
<1> QED BY <1>1, <1>2, <1>3, <1>4, <1>5, <1>6, <1>7, <1>8, <1>9, <1>10, <1>11, <1>12, <1>13 DEF
               IInv

\* The slot of the value is emptied; the others hold requests for values ahead.
LEMMA HandleManagedStep ==
  ASSUME IInv, NEW m \in Managed, HandleManaged(m)
  PROVE  IInv'
<1> USE DEF HandleManaged, Goto, prgr, lead, lflgs, um, history
<1>1. PlaceType'
  BY Values, Ids DEF IInv, PlaceType, ManagedPlaces, InsidePlaces, UpdatePlaces, LeadPlaces,
         CheckedPlaces, WatchPlaces, AfterPlaces, SleepPlaces, DelayPlaces, HoldPlaces,
         RequestPlaces
<1>2. LocalType'
  BY DEF IInv, LocalType
<1>3. WakeupType'
  <2>1. mwd' \in [Slots -> Seq(Managed)]
    <3>1. <<>> \in Seq(Managed)
      OBVIOUS
    <3> QED BY <3>1 DEF IInv, WakeupType
  <2>2. umwd' \in [Slots -> [bits : SUBSET Requesters, len : Nat]]
    BY Values, Ids DEF IInv, WakeupType, PlaceType
  <2>3. request' \in [Waiters -> [Slots -> ErtsThrPrgrVal]]
    BY Values, Ids DEF IInv, WakeupType, PlaceType
  <2>4. sleeping' \in [Managed -> BOOLEAN] /\ woken' \in [Requesters -> BOOLEAN]
    BY Values, Ids DEF IInv, WakeupType, PlaceType
  <2> QED BY <2>1, <2>2, <2>3, <2>4 DEF WakeupType
<1>4. CtlInv'
  BY DEF IInv, CtlInv, Ctl, UpdatePlaces, LeadPlaces, CheckedPlaces, WatchPlaces, AfterPlaces,
         SleepPlaces, PlaceType
<1>5. LeaderInv'
  BY DEF IInv, LeaderInv, LeadPlaces, CheckedPlaces, WatchPlaces, PlaceType
<1>6. TrackInv'
  BY DEF IInv, TrackInv, Tracked, InsidePlaces, UpdatePlaces, LeadPlaces, CheckedPlaces,
         WatchPlaces, PlaceType
<1>7. CheckInv'
  BY DEF IInv, CheckInv, Confirmed, Tracked, InsidePlaces, UpdatePlaces, LeadPlaces,
         CheckedPlaces, WatchPlaces, PlaceType
<1>8. PendInv'
  BY DEF IInv, PendInv, InsidePlaces, PlaceType
<1>9. AskInv'
  BY DEF IInv, AskInv
<1>10. WriteInv'
  BY DEF IInv, WriteInv, RequestValue
<1>11. SlotInv'
  <2>1. lstate[m].current = current /\ current \in Nat
    BY Values DEF IInv, ValueType, StateInv, LeaderInv, LeadPlaces, WatchPlaces
  <2> DEFINE w == ERTS_THR_PRGR_WAKEUP_IX(current)
  <2>2. mwd' = [mwd EXCEPT ![w] = <<>>] /\ current' = current /\ request' = request
    BY <2>1
  <2> SUFFICES ASSUME NEW ix \in Slots
               PROVE  /\ \A i \in 1 .. Len(mwd'[ix]) :
                           /\ mwd'[ix][i] \in Askers
                           /\ LET k == request[mwd'[ix][i]][ix]
                              IN  ERTS_THR_PRGR_WAKEUP_IX(k) = ix /\ k <= current + 3 /\ k > current
                      /\ \A i, j \in 1 .. Len(mwd'[ix]) : mwd'[ix][i] = mwd'[ix][j] => i = j
    BY <2>2 DEF SlotInv, Due
  <2>3. mwd \in [Slots -> Seq(Managed)]
    BY DEF IInv, WakeupType
  <2>4. CASE ix = w
    <3>1. mwd'[ix] = <<>>
      BY <2>2, <2>3, <2>4
    <3> QED BY <3>1
  <2>5. CASE ix # w
    <3> SUFFICES ASSUME NEW i \in 1 .. Len(mwd[ix])
                 PROVE  request[mwd[ix][i]][ix] > current
      <4> HIDE DEF w
      <4>1. mwd'[ix] = mwd[ix]
        BY <2>2, <2>3, <2>5
      <4> QED BY <4>1 DEF IInv, SlotInv
    <3> DEFINE k == request[mwd[ix][i]][ix]
    <3>1. ERTS_THR_PRGR_WAKEUP_IX(k) = ix /\ Due(k)
      BY DEF IInv, SlotInv
    <3>2. k # current
      BY <3>1, <2>5
    <3> HIDE DEF k
    <3>3. k > current
      BY <3>1, <3>2 DEF Due
    <3> QED BY <3>3 DEF k
  <2> QED BY <2>4, <2>5
<1>12. RefcInv'
  BY Ids, RefcSame DEF IInv, PlaceType, Holds, HoldPlaces
<1>13. WatchInv'
  BY DEF IInv, WatchInv, WaitedFor, WatchPlaces, PlaceType
<1>14. ValueType' /\ LeaderType' /\ HistoryType' /\ StateInv' /\ AheadInv'
  BY DEF IInv, ValueType, LeaderType, HistoryType, StateInv, AheadInv
<1> QED BY <1>1, <1>2, <1>3, <1>4, <1>5, <1>6, <1>7, <1>8, <1>9, <1>10, <1>11, <1>12, <1>13,
               <1>14 DEF IInv

\* The wakeups of unmanaged threads touch neither slots of managed threads nor values,
LEMMA HandleUnmanagedStep ==
  ASSUME IInv, NEW m \in Managed, HandleUnmanaged(m)
  PROVE  IInv'
<1> USE DEF HandleUnmanaged, Goto, AfterWakeups, prgr, lead, lflgs, um, wakeups, history
<1>1. PlaceType'
  BY Values, Ids DEF IInv, PlaceType, ManagedPlaces, InsidePlaces, UpdatePlaces, LeadPlaces,
         CheckedPlaces, WatchPlaces, AfterPlaces, SleepPlaces, DelayPlaces, HoldPlaces,
         RequestPlaces
<1>2. LocalType'
  BY Ids DEF IInv, LocalType, PlaceType
<1>3. WakeupType'
  <2>1. mwd' \in [Slots -> Seq(Managed)]
    BY Values, Ids DEF IInv, WakeupType, PlaceType
  <2>2. umwd' \in [Slots -> [bits : SUBSET Requesters, len : Nat]]
    BY Values, Ids DEF IInv, WakeupType, PlaceType
  <2>3. request' \in [Waiters -> [Slots -> ErtsThrPrgrVal]]
    BY Values, Ids DEF IInv, WakeupType, PlaceType
  <2>4. sleeping' \in [Managed -> BOOLEAN] /\ woken' \in [Requesters -> BOOLEAN]
    BY Values, Ids DEF IInv, WakeupType, PlaceType
  <2> QED BY <2>1, <2>2, <2>3, <2>4 DEF WakeupType
<1>4. CtlInv'
  BY DEF IInv, CtlInv, Ctl, UpdatePlaces, LeadPlaces, CheckedPlaces, WatchPlaces, AfterPlaces,
         SleepPlaces, PlaceType
<1>5. LeaderInv'
  BY DEF IInv, LeaderInv, LeadPlaces, CheckedPlaces, WatchPlaces, PlaceType
<1>6. TrackInv'
  BY DEF IInv, TrackInv, Tracked, InsidePlaces, UpdatePlaces, LeadPlaces, CheckedPlaces,
         WatchPlaces, PlaceType
<1>7. CheckInv'
  BY DEF IInv, CheckInv, Confirmed, Tracked, InsidePlaces, UpdatePlaces, LeadPlaces,
         CheckedPlaces, WatchPlaces, PlaceType
<1>8. PendInv'
  BY Values, Ids DEF IInv, PlaceType, ManagedPlaces, InsidePlaces, UpdatePlaces, LeadPlaces,
         CheckedPlaces, WatchPlaces, AfterPlaces, SleepPlaces, DelayPlaces, HoldPlaces,
         RequestPlaces, ValueType, HistoryType, TrackInv, Tracked, PendInv, AheadInv
<1>9. AskInv'
  BY Ids DEF IInv, AskInv, PlaceType
<1>10. WriteInv'
  BY Ids DEF IInv, WriteInv, RequestValue, PlaceType
<1>11. SlotInv'
  BY Ids DEF IInv, SlotInv, Due, PlaceType
<1>12. RefcInv'
  BY Ids, RefcSame DEF IInv, PlaceType, Holds, HoldPlaces
<1>13. WatchInv'
  BY Ids DEF IInv, WatchInv, WaitedFor, WatchPlaces, PlaceType
<1>14. ValueType' /\ LeaderType' /\ HistoryType' /\ StateInv' /\ AheadInv'
  BY DEF IInv, ValueType, LeaderType, HistoryType, StateInv, AheadInv
<1> QED BY <1>1, <1>2, <1>3, <1>4, <1>5, <1>6, <1>7, <1>8, <1>9, <1>10, <1>11, <1>12, <1>13,
               <1>14 DEF IInv

\* nor does clearing their bits,
LEMMA HandleBitsStep ==
  ASSUME IInv, NEW m \in Managed, HandleBits(m)
  PROVE  IInv'
<1> USE DEF HandleBits, Goto, prgr, lead, lflgs, um, events, history
<1>1. PlaceType'
  BY Values, Ids DEF IInv, PlaceType, ManagedPlaces, InsidePlaces, UpdatePlaces, LeadPlaces,
         CheckedPlaces, WatchPlaces, AfterPlaces, SleepPlaces, DelayPlaces, HoldPlaces,
         RequestPlaces
<1>2. LocalType'
  BY DEF IInv, LocalType
<1>3. WakeupType'
  <2>1. mwd' \in [Slots -> Seq(Managed)]
    BY Values, Ids DEF IInv, WakeupType, PlaceType
  <2>2. umwd' \in [Slots -> [bits : SUBSET Requesters, len : Nat]]
    <3> DEFINE ix == ERTS_THR_PRGR_WAKEUP_IX(lstate[m].current)
    <3>1. umwd' = [umwd EXCEPT ![ix] = [umwd[ix] EXCEPT !.bits = {}]]
      OBVIOUS
    <3>2. ix \in Slots => [umwd[ix] EXCEPT !.bits = {}] \in [bits : SUBSET Requesters, len : Nat]
      BY DEF IInv, WakeupType
    <3> HIDE DEF ix
    <3> QED BY <3>1, <3>2 DEF IInv, WakeupType
  <2>3. request' \in [Waiters -> [Slots -> ErtsThrPrgrVal]]
    BY Values, Ids DEF IInv, WakeupType, PlaceType
  <2>4. sleeping' \in [Managed -> BOOLEAN] /\ woken' \in [Requesters -> BOOLEAN]
    BY Values, Ids DEF IInv, WakeupType, PlaceType
  <2> QED BY <2>1, <2>2, <2>3, <2>4 DEF WakeupType
<1>4. CtlInv'
  BY DEF IInv, CtlInv, Ctl, UpdatePlaces, LeadPlaces, CheckedPlaces, WatchPlaces, AfterPlaces,
         SleepPlaces, PlaceType
<1>5. LeaderInv'
  BY DEF IInv, LeaderInv, LeadPlaces, CheckedPlaces, WatchPlaces, PlaceType
<1>6. TrackInv'
  BY DEF IInv, TrackInv, Tracked, InsidePlaces, UpdatePlaces, LeadPlaces, CheckedPlaces,
         WatchPlaces, PlaceType
<1>7. CheckInv'
  BY DEF IInv, CheckInv, Confirmed, Tracked, InsidePlaces, UpdatePlaces, LeadPlaces,
         CheckedPlaces, WatchPlaces, PlaceType
<1>8. PendInv'
  BY DEF IInv, PendInv, InsidePlaces, PlaceType
<1>9. AskInv'
  BY DEF IInv, AskInv
<1>10. WriteInv'
  BY DEF IInv, WriteInv, RequestValue
<1>11. SlotInv'
  BY DEF IInv, SlotInv, Due
<1>12. RefcInv'
  BY Ids, RefcSame DEF IInv, PlaceType, Holds, HoldPlaces
<1>13. WatchInv'
  BY DEF IInv, WatchInv, WaitedFor, WatchPlaces, PlaceType
<1>14. ValueType' /\ LeaderType' /\ HistoryType' /\ StateInv' /\ AheadInv'
  BY DEF IInv, ValueType, LeaderType, HistoryType, StateInv, AheadInv
<1> QED BY <1>1, <1>2, <1>3, <1>4, <1>5, <1>6, <1>7, <1>8, <1>9, <1>10, <1>11, <1>12, <1>13,
               <1>14 DEF IInv

\* or their number.
LEMMA HandleLenStep ==
  ASSUME IInv, NEW m \in Managed, HandleLen(m)
  PROVE  IInv'
<1> USE DEF HandleLen, Goto, AfterWakeups, prgr, lead, lflgs, um, events, history
<1>1. PlaceType'
  BY Values, Ids DEF IInv, PlaceType, ManagedPlaces, InsidePlaces, UpdatePlaces, LeadPlaces,
         CheckedPlaces, WatchPlaces, AfterPlaces, SleepPlaces, DelayPlaces, HoldPlaces,
         RequestPlaces
<1>2. LocalType'
  BY DEF IInv, LocalType
<1>3. WakeupType'
  <2>1. mwd' \in [Slots -> Seq(Managed)]
    BY Values, Ids DEF IInv, WakeupType, PlaceType
  <2>2. umwd' \in [Slots -> [bits : SUBSET Requesters, len : Nat]]
    <3> DEFINE ix == ERTS_THR_PRGR_WAKEUP_IX(lstate[m].current)
    <3>1. umwd' = [umwd EXCEPT ![ix] = [umwd[ix] EXCEPT !.len = 0]]
      OBVIOUS
    <3>2. ix \in Slots => [umwd[ix] EXCEPT !.len = 0] \in [bits : SUBSET Requesters, len : Nat]
      BY DEF IInv, WakeupType
    <3> HIDE DEF ix
    <3> QED BY <3>1, <3>2 DEF IInv, WakeupType
  <2>3. request' \in [Waiters -> [Slots -> ErtsThrPrgrVal]]
    BY Values, Ids DEF IInv, WakeupType, PlaceType
  <2>4. sleeping' \in [Managed -> BOOLEAN] /\ woken' \in [Requesters -> BOOLEAN]
    BY Values, Ids DEF IInv, WakeupType, PlaceType
  <2> QED BY <2>1, <2>2, <2>3, <2>4 DEF WakeupType
<1>4. CtlInv'
  BY DEF IInv, CtlInv, Ctl, UpdatePlaces, LeadPlaces, CheckedPlaces, WatchPlaces, AfterPlaces,
         SleepPlaces, PlaceType
<1>5. LeaderInv'
  BY DEF IInv, LeaderInv, LeadPlaces, CheckedPlaces, WatchPlaces, PlaceType
<1>6. TrackInv'
  BY DEF IInv, TrackInv, Tracked, InsidePlaces, UpdatePlaces, LeadPlaces, CheckedPlaces,
         WatchPlaces, PlaceType
<1>7. CheckInv'
  BY DEF IInv, CheckInv, Confirmed, Tracked, InsidePlaces, UpdatePlaces, LeadPlaces,
         CheckedPlaces, WatchPlaces, PlaceType
<1>8. PendInv'
  BY DEF IInv, PendInv, InsidePlaces, PlaceType
<1>9. AskInv'
  BY DEF IInv, AskInv
<1>10. WriteInv'
  BY DEF IInv, WriteInv, RequestValue
<1>11. SlotInv'
  BY DEF IInv, SlotInv, Due
<1>12. RefcInv'
  BY Ids, RefcSame DEF IInv, PlaceType, Holds, HoldPlaces
<1>13. WatchInv'
  BY DEF IInv, WatchInv, WaitedFor, WatchPlaces, PlaceType
<1>14. ValueType' /\ LeaderType' /\ HistoryType' /\ StateInv' /\ AheadInv'
  BY DEF IInv, ValueType, LeaderType, HistoryType, StateInv, AheadInv
<1> QED BY <1>1, <1>2, <1>3, <1>4, <1>5, <1>6, <1>7, <1>8, <1>9, <1>10, <1>11, <1>12, <1>13,
               <1>14 DEF IInv

\* Nobody is left that delays progress with the counter waited for.
LEMMA ProgressedStep ==
  ASSUME IInv, NEW m \in Managed, Progressed(m)
  PROVE  IInv'
<1> USE DEF Progressed, Goto, prgr, um, wakeups, events, history
<1>1. PlaceType'
  BY Values, Ids DEF IInv, PlaceType, ManagedPlaces, InsidePlaces, UpdatePlaces, LeadPlaces,
         CheckedPlaces, WatchPlaces, AfterPlaces, SleepPlaces, DelayPlaces, HoldPlaces,
         RequestPlaces
<1>2. LocalType'
  <2> DEFINE r == [loc[m] EXCEPT !.waiting_unmanaged = FALSE]
             R == [ix : Int, waiting_unmanaged : BOOLEAN, current : 0 .. MaxProgress]
  <2>1. loc \in [Managed -> R]
    BY DEF IInv, LocalType
  <2>2. loc[m] \in R /\ loc' = [loc EXCEPT ![m] = r]
    BY <2>1
  <2>3. r \in R
    BY <2>2
  <2> HIDE DEF r, R
  <2>4. loc' \in [Managed -> R]
    BY <2>1, <2>2, <2>3
  <2>5. uix' \in [Delayers -> {0, 1}] /\ \A k \in Managed : pc'[k] = "chk" => loc'[k].ix >= 0
    BY Values DEF IInv, LocalType, LeaderType, PlaceType, CtlInv, Ctl, UpdatePlaces, LeadPlaces,
           AfterPlaces, CheckedPlaces, WatchPlaces, SleepPlaces
  <2> QED BY <2>4, <2>5 DEF LocalType, R
<1>3. LeaderType'
  <2> DEFINE r == [lstate[m] EXCEPT !.um_waiting = -1]
             R == [current : ErtsThrPrgrVal, next : 0 .. MaxProgress + 1,
                   chk_next_ix : 0 .. NoManaged,
                   um_current : {0, 1}, um_waiting : {-1, 0, 1}]
  <2>1. lstate \in [Managed -> R]
    BY DEF IInv, LeaderType
  <2>2. lstate[m] \in R /\ lstate' = [lstate EXCEPT ![m] = r]
    BY <2>1
  <2>3. r \in R
    BY <2>2
  <2> HIDE DEF r, R
  <2>4. lstate' \in [Managed -> R]
    BY <2>1, <2>2, <2>3
  <2>5. leader' \in [Managed -> BOOLEAN] /\ active' \in [Managed -> BOOLEAN]
       /\ no_leader' \in BOOLEAN /\ waiting_um' \in BOOLEAN
       /\ um_waiting' \in {-1, 0, 1} /\ um_current' \in {0, 1}
    BY DEF IInv, LeaderType
  <2> QED BY <2>4, <2>5 DEF LeaderType, R
<1>4. CtlInv'
  BY DEF IInv, CtlInv, Ctl, UpdatePlaces, LeadPlaces, CheckedPlaces, WatchPlaces, AfterPlaces,
         SleepPlaces, PlaceType
<1>5. LeaderInv'
  BY DEF IInv, LeaderInv, LeadPlaces, CheckedPlaces, WatchPlaces, PlaceType
<1>6. StateInv'
  BY DEF IInv, StateInv
<1>7. TrackInv'
  BY DEF IInv, TrackInv, Tracked, InsidePlaces, UpdatePlaces, LeadPlaces, CheckedPlaces,
         WatchPlaces, PlaceType
<1>8. CheckInv'
  BY DEF IInv, CheckInv, Confirmed, Tracked, InsidePlaces, UpdatePlaces, LeadPlaces,
         CheckedPlaces, WatchPlaces, PlaceType
<1>9. PendInv'
  BY DEF IInv, PendInv, InsidePlaces, PlaceType
<1>10. AskInv'
  BY DEF IInv, AskInv
<1>11. WriteInv'
  BY DEF IInv, WriteInv, RequestValue
<1>12. SlotInv'
  BY DEF IInv, SlotInv, Due
<1>13. RefcInv'
  BY Ids, RefcSame DEF IInv, PlaceType, Holds, HoldPlaces
<1>14. WatchInv'
  <2>1. leader[m] /\ (\A k \in Managed : leader[k] => k = m) /\ ~ no_leader
    BY DEF IInv, LeaderInv, LeadPlaces, CheckedPlaces, WatchPlaces
  <2>2. \A k \in Managed : k # m => pc'[k] = pc[k] /\ pc[k] \notin LeadPlaces
    BY <2>1 DEF IInv, PlaceType, LeaderInv
  <2>3. \A u \in Delayers : pc'[u] = pc[u] /\ uix[u] \in {0, 1}
    BY Ids DEF IInv, PlaceType, LocalType
  <2>4. \A u \in Delayers : pc[u] = "delay" =>
          uix[u] = um_current \/ uix[u] = lstate[m].um_waiting
    BY <2>1 DEF IInv, WatchInv, WaitedFor
  <2>5. lstate[m].um_waiting # um_current
    BY <2>1 DEF IInv, WatchInv
  <2>6. pc'[m] = "done" /\ lstate'[m].um_waiting = -1 /\ um_current \in {0, 1}
    BY DEF IInv, LeaderType, PlaceType
  <2>7. \A u \in Delayers : pc[u] = "delay" => uix[u] = um_current
    BY <2>4 DEF IInv, WatchInv, WatchPlaces
  <2>8. leader' = leader /\ no_leader' = no_leader /\ um_waiting' = um_waiting
        /\ um_current' = um_current /\ uix' = uix
    OBVIOUS
  <2> HIDE DEF Progressed
  <2> QED BY <2>1, <2>2, <2>3, <2>6, <2>7, <2>8
          DEF WatchInv, WaitedFor, LeadPlaces, CheckedPlaces, WatchPlaces
<1>15. ValueType' /\ WakeupType' /\ HistoryType' /\ AheadInv'
  BY DEF IInv, ValueType, WakeupType, HistoryType, AheadInv
<1> QED BY <1>1, <1>2, <1>3, <1>4, <1>5, <1>6, <1>7, <1>8, <1>9, <1>10, <1>11, <1>12, <1>13,
               <1>14, <1>15 DEF IInv

\* An active leader stays leader.
LEMMA RemainLeaderStep ==
  ASSUME IInv, NEW m \in Managed, RemainLeader(m)
  PROVE  IInv'
<1> USE DEF RemainLeader, Return, Goto, NoLocals, prgr, lead, lflgs, um, wakeups, events,
            history
<1>1. PlaceType'
  BY Values, Ids DEF IInv, PlaceType, ManagedPlaces, InsidePlaces, UpdatePlaces, LeadPlaces,
         CheckedPlaces, WatchPlaces, AfterPlaces, SleepPlaces, DelayPlaces, HoldPlaces,
         RequestPlaces
<1>2. LocalType'
  BY Values DEF IInv, LocalType, PlaceType, ValueType
<1>3. CtlInv'
  BY DEF IInv, CtlInv, Ctl
<1>4. LeaderInv'
  BY DEF IInv, LeaderInv, LeadPlaces, CheckedPlaces, WatchPlaces, PlaceType, CtlInv, Ctl,
         UpdatePlaces, AfterPlaces, SleepPlaces
<1>5. TrackInv'
  BY DEF IInv, TrackInv, Tracked, InsidePlaces, UpdatePlaces, LeadPlaces, CheckedPlaces,
         WatchPlaces, PlaceType
<1>6. CheckInv'
  BY DEF IInv, CheckInv, Confirmed, Tracked, InsidePlaces, UpdatePlaces, LeadPlaces,
         CheckedPlaces, WatchPlaces, PlaceType
<1>7. PendInv'
  BY DEF IInv, PendInv, InsidePlaces, PlaceType
<1>8. AskInv'
  BY Ids DEF IInv, AskInv, PlaceType
<1>9. WriteInv'
  <2>1. \A n \in Managed : pc'[n] = "reqw" => pc[n] = "reqw"
    BY DEF IInv, PlaceType, CtlInv, Ctl, UpdatePlaces, LeadPlaces, AfterPlaces,
           CheckedPlaces, WatchPlaces, SleepPlaces
  <2> QED BY <2>1 DEF IInv, WriteInv, RequestValue
<1>10. SlotInv'
  BY DEF IInv, SlotInv, Due
<1>11. RefcInv'
  BY Ids, RefcSame DEF IInv, PlaceType, Holds, HoldPlaces
<1>12. WatchInv'
  <2>1. \A k \in Managed : lstate'[k].um_waiting = lstate[k].um_waiting
    OBVIOUS
  <2>2. \A u \in Delayers : pc'[u] = pc[u]
    BY Ids DEF IInv, PlaceType
  <2>3. \A k \in Managed : pc'[k] \in WatchPlaces \cup {"um2"} =>
          pc'[k] = pc[k] /\ loc'[k].waiting_unmanaged = loc[k].waiting_unmanaged
    BY DEF IInv, PlaceType, LocalType, CtlInv, Ctl, UpdatePlaces, LeadPlaces, AfterPlaces,
           CheckedPlaces, WatchPlaces, SleepPlaces
  <2> QED BY <2>1, <2>2, <2>3, WatchSame DEF IInv
<1>13. ValueType' /\ LeaderType' /\ WakeupType' /\ HistoryType' /\ StateInv' /\ AheadInv'
  BY DEF IInv, ValueType, LeaderType, WakeupType, HistoryType, StateInv, AheadInv
<1> QED BY <1>1, <1>2, <1>3, <1>4, <1>5, <1>6, <1>7, <1>8, <1>9, <1>10, <1>11, <1>12, <1>13 DEF
               IInv

\* The counter that is waited for is left to the next leader, and then the flag is set.
LEMMA StepDownStep ==
  ASSUME IInv, NEW m \in Managed, StepDown(m)
  PROVE  IInv'
<1> USE DEF StepDown, NotLeading, NoLocals, NoneActive, Goto, Return, prgr, wakeups, events,
            history
<1>1. PlaceType'
  BY Values, Ids DEF IInv, PlaceType, ManagedPlaces, InsidePlaces, UpdatePlaces, LeadPlaces,
         CheckedPlaces, WatchPlaces, AfterPlaces, SleepPlaces, DelayPlaces, HoldPlaces,
         RequestPlaces
<1>2. LocalType'
  <2> DEFINE i == IF loc[m].waiting_unmanaged THEN lstate[m].um_waiting ELSE 0
             r == [NoLocals EXCEPT !.ix = i]
             R == [ix : Int, waiting_unmanaged : BOOLEAN, current : 0 .. MaxProgress]
  <2>1. loc \in [Managed -> R] /\ loc' = [loc EXCEPT ![m] = r]
    BY DEF IInv, LocalType
  <2>2. i \in Int /\ 0 \in 0 .. MaxProgress
    BY Values DEF IInv, LeaderType
  <2>3. r \in R
    <3> HIDE DEF i
    <3> QED BY <2>2
  <2>4. loc' \in [Managed -> R]
    <3> HIDE DEF r, R
    <3> QED BY <2>1, <2>3
  <2>5. uix' \in [Delayers -> {0, 1}] /\ \A k \in Managed : pc'[k] = "chk" => loc'[k].ix >= 0
    BY Values DEF IInv, LocalType, LeaderType, PlaceType, CtlInv, Ctl, UpdatePlaces, LeadPlaces,
           AfterPlaces, CheckedPlaces, WatchPlaces, SleepPlaces
  <2> QED BY <2>4, <2>5 DEF LocalType
<1>3. LeaderType'
  BY Values DEF IInv, LeaderType, PlaceType, ValueType
<1>4. CtlInv'
  BY DEF IInv, CtlInv, Ctl, UpdatePlaces, LeadPlaces, CheckedPlaces, WatchPlaces, AfterPlaces,
         SleepPlaces, PlaceType
<1>5. LeaderInv'
  BY Values, Ids DEF IInv, PlaceType, ManagedPlaces, InsidePlaces, UpdatePlaces, LeadPlaces,
         CheckedPlaces, WatchPlaces, AfterPlaces, SleepPlaces, DelayPlaces, HoldPlaces,
         RequestPlaces, ValueType, LeaderType, CtlInv, Ctl, LeaderInv, StateInv
<1>6. StateInv'
  BY Values, Ids DEF IInv, PlaceType, ManagedPlaces, InsidePlaces, UpdatePlaces, LeadPlaces,
         CheckedPlaces, WatchPlaces, AfterPlaces, SleepPlaces, DelayPlaces, HoldPlaces,
         RequestPlaces, LocalType, ValueType, LeaderType, StateInv
<1>7. TrackInv'
  BY DEF IInv, TrackInv, Tracked, InsidePlaces, UpdatePlaces, LeadPlaces, CheckedPlaces,
         WatchPlaces, PlaceType
<1>8. CheckInv'
  BY Ids DEF IInv, CheckInv, Confirmed, Tracked, InsidePlaces, UpdatePlaces, LeadPlaces,
         CheckedPlaces, WatchPlaces, PlaceType
<1>9. PendInv'
  BY Values, Ids DEF IInv, PlaceType, ManagedPlaces, InsidePlaces, UpdatePlaces, LeadPlaces,
         CheckedPlaces, WatchPlaces, AfterPlaces, SleepPlaces, DelayPlaces, HoldPlaces,
         RequestPlaces, ValueType, HistoryType, TrackInv, Tracked, PendInv, AheadInv
<1>10. AskInv'
  BY Ids DEF IInv, AskInv, PlaceType
<1>11. WriteInv'
  BY Ids DEF IInv, WriteInv, RequestValue, PlaceType
<1>12. SlotInv'
  BY Ids DEF IInv, SlotInv, Due, PlaceType
<1>13. RefcInv'
  BY Ids, RefcSame DEF IInv, PlaceType, Holds, HoldPlaces
<1>14. WatchInv'
  <2>1. leader[m] /\ (\A k \in Managed : leader[k] => k = m) /\ ~ no_leader
    BY DEF IInv, LeaderInv, LeadPlaces, CheckedPlaces, WatchPlaces
  <2>2. \A k \in Managed : k # m => pc'[k] = pc[k] /\ pc[k] \notin LeadPlaces
    BY <2>1 DEF IInv, PlaceType, LeaderInv
  <2>3. \A u \in Delayers : pc'[u] = pc[u] /\ uix[u] \in {0, 1}
    BY Ids DEF IInv, PlaceType, LocalType
  <2>4. \A u \in Delayers : pc[u] = "delay" =>
          uix[u] = um_current \/ uix[u] = lstate[m].um_waiting
    BY <2>1 DEF IInv, WatchInv, WaitedFor
  <2>5. lstate[m].um_waiting # um_current
    BY <2>1 DEF IInv, WatchInv
  <2>6. pc'[m] \notin WatchPlaces \cup {"um2"}
    BY DEF IInv, PlaceType, CtlInv, Ctl, UpdatePlaces, LeadPlaces, AfterPlaces, CheckedPlaces,
           WatchPlaces, SleepPlaces
  <2>7. \A k \in Managed : ~ leader'[k]
    BY <2>1 DEF IInv, LeaderType
  <2>8. no_leader' = TRUE /\ um_waiting' = lstate[m].um_waiting
        /\ um_current' = um_current /\ uix' = uix
    OBVIOUS
  <2> HIDE DEF StepDown
  <2> QED BY <2>2, <2>3, <2>4, <2>5, <2>6, <2>7, <2>8
          DEF WatchInv, WaitedFor, LeadPlaces, CheckedPlaces, WatchPlaces
<1>15. ValueType' /\ WakeupType' /\ HistoryType' /\ AheadInv'
  BY DEF IInv, ValueType, WakeupType, HistoryType, AheadInv
<1> QED BY <1>1, <1>2, <1>3, <1>4, <1>5, <1>6, <1>7, <1>8, <1>9, <1>10, <1>11, <1>12, <1>13,
               <1>14, <1>15 DEF IInv

\* After leadership nothing but the decision to wake somebody is left.
LEMMA RecheckStep ==
  ASSUME IInv, NEW m \in Managed, Recheck(m)
  PROVE  IInv'
<1> USE DEF Recheck, Goto, Return, NoLocals, prgr, lead, lflgs, um, wakeups, events, history
<1>1. PlaceType'
  BY Values, Ids DEF IInv, PlaceType, ManagedPlaces, InsidePlaces, UpdatePlaces, LeadPlaces,
         CheckedPlaces, WatchPlaces, AfterPlaces, SleepPlaces, DelayPlaces, HoldPlaces,
         RequestPlaces
<1>2. LocalType'
  BY Values DEF IInv, LocalType, PlaceType, ValueType
<1>3. CtlInv'
  BY DEF IInv, CtlInv, Ctl, UpdatePlaces, LeadPlaces, CheckedPlaces, WatchPlaces, AfterPlaces,
         SleepPlaces, PlaceType
<1>4. LeaderInv'
  BY DEF IInv, LeaderInv, LeadPlaces, CheckedPlaces, WatchPlaces, PlaceType
<1>5. TrackInv'
  BY Ids DEF IInv, TrackInv, Tracked, PlaceType
<1>6. CheckInv'
  BY DEF IInv, CheckInv, Confirmed, Tracked, InsidePlaces, UpdatePlaces, LeadPlaces,
         CheckedPlaces, WatchPlaces, PlaceType
<1>7. PendInv'
  BY Values, Ids DEF IInv, PlaceType, ManagedPlaces, InsidePlaces, UpdatePlaces, LeadPlaces,
         CheckedPlaces, WatchPlaces, AfterPlaces, SleepPlaces, DelayPlaces, HoldPlaces,
         RequestPlaces, ValueType, HistoryType, TrackInv, Tracked, PendInv, AheadInv
<1>8. AskInv'
  BY Ids DEF IInv, AskInv, PlaceType
<1>9. WriteInv'
  <2>1. \A n \in Managed : pc'[n] = "reqw" => pc[n] = "reqw"
    BY DEF IInv, PlaceType, CtlInv, Ctl, UpdatePlaces, LeadPlaces, AfterPlaces,
           CheckedPlaces, WatchPlaces, SleepPlaces
  <2> QED BY <2>1 DEF IInv, WriteInv, RequestValue
<1>10. SlotInv'
  <2>1. \A n \in Managed : pc[n] = "handle" => pc'[n] = "handle"
    BY DEF IInv, PlaceType
  <2>2. \A k : Due(k) => Due(k)'
    BY <2>1 DEF Due
  <2> QED BY <2>2 DEF IInv, SlotInv
<1>11. RefcInv'
  BY Ids, RefcSame DEF IInv, PlaceType, Holds, HoldPlaces
<1>12. WatchInv'
  <2>1. \A k \in Managed : lstate'[k].um_waiting = lstate[k].um_waiting
    OBVIOUS
  <2>2. \A u \in Delayers : pc'[u] = pc[u]
    BY Ids DEF IInv, PlaceType
  <2>3. \A k \in Managed : pc'[k] \in WatchPlaces \cup {"um2"} =>
          pc'[k] = pc[k] /\ loc'[k].waiting_unmanaged = loc[k].waiting_unmanaged
    BY DEF IInv, PlaceType, LocalType, CtlInv, Ctl, UpdatePlaces, LeadPlaces, AfterPlaces,
           CheckedPlaces, WatchPlaces, SleepPlaces
  <2> QED BY <2>1, <2>2, <2>3, WatchSame DEF IInv
<1>13. ValueType' /\ LeaderType' /\ WakeupType' /\ HistoryType' /\ StateInv' /\ AheadInv'
  BY DEF IInv, ValueType, LeaderType, WakeupType, HistoryType, StateInv, AheadInv
<1> QED BY <1>1, <1>2, <1>3, <1>4, <1>5, <1>6, <1>7, <1>8, <1>9, <1>10, <1>11, <1>12, <1>13 DEF
               IInv

\* A wakeup of the aux thread.
LEMMA WakeupIfRequestsStep ==
  ASSUME IInv, NEW m \in Managed, WakeupIfRequests(m)
  PROVE  IInv'
<1> USE DEF WakeupIfRequests, Return, Goto, got_sched_wakeups, WakeupAux, prgr, lead, lflgs, um,
            wakeups, history
<1>1. PlaceType'
  BY Values, Ids DEF IInv, PlaceType, ManagedPlaces, InsidePlaces, UpdatePlaces, LeadPlaces,
         CheckedPlaces, WatchPlaces, AfterPlaces, SleepPlaces, DelayPlaces, HoldPlaces,
         RequestPlaces
<1>2. LocalType'
  BY Values, Ids DEF IInv, PlaceType, ManagedPlaces, InsidePlaces, UpdatePlaces, LeadPlaces,
         CheckedPlaces, WatchPlaces, AfterPlaces, SleepPlaces, DelayPlaces, HoldPlaces,
         RequestPlaces, LocalType, ValueType, LeaderType
<1>3. WakeupType'
  <2>1. mwd' \in [Slots -> Seq(Managed)]
    BY Values, Ids DEF IInv, WakeupType, PlaceType
  <2>2. umwd' \in [Slots -> [bits : SUBSET Requesters, len : Nat]]
    BY Values, Ids DEF IInv, WakeupType, PlaceType
  <2>3. request' \in [Waiters -> [Slots -> ErtsThrPrgrVal]]
    BY Values, Ids DEF IInv, WakeupType, PlaceType
  <2>4. sleeping' \in [Managed -> BOOLEAN] /\ woken' \in [Requesters -> BOOLEAN]
    BY Values, Ids DEF IInv, WakeupType, PlaceType
  <2> QED BY <2>1, <2>2, <2>3, <2>4 DEF WakeupType
<1>4. CtlInv'
  BY DEF IInv, CtlInv, Ctl, UpdatePlaces, LeadPlaces, CheckedPlaces, WatchPlaces, AfterPlaces,
         SleepPlaces, PlaceType
<1>5. LeaderInv'
  BY DEF IInv, LeaderInv, LeadPlaces, CheckedPlaces, WatchPlaces, PlaceType
<1>6. TrackInv'
  BY DEF IInv, TrackInv, Tracked, InsidePlaces, UpdatePlaces, LeadPlaces, CheckedPlaces,
         WatchPlaces, PlaceType
<1>7. CheckInv'
  BY DEF IInv, CheckInv, Confirmed, Tracked, InsidePlaces, UpdatePlaces, LeadPlaces,
         CheckedPlaces, WatchPlaces, PlaceType
<1>8. PendInv'
  BY DEF IInv, PendInv, InsidePlaces, PlaceType
<1>9. AskInv'
  BY Ids DEF IInv, AskInv, PlaceType
<1>10. WriteInv'
  BY DEF IInv, WriteInv, RequestValue, PlaceType
<1>11. SlotInv'
  BY DEF IInv, SlotInv, Due
<1>12. RefcInv'
  BY Ids, RefcSame DEF IInv, PlaceType, Holds, HoldPlaces
<1>13. WatchInv'
  BY DEF IInv, WatchInv, WaitedFor, WatchPlaces, PlaceType
<1>14. ValueType' /\ LeaderType' /\ HistoryType' /\ StateInv' /\ AheadInv'
  BY DEF IInv, ValueType, LeaderType, HistoryType, StateInv, AheadInv
<1> QED BY <1>1, <1>2, <1>3, <1>4, <1>5, <1>6, <1>7, <1>8, <1>9, <1>10, <1>11, <1>12, <1>13,
               <1>14 DEF IInv

\* A thread that may sleep is still inside.
LEMMA PrepareSpinWaitStep ==
  ASSUME IInv, NEW m \in Managed, PrepareSpinWait(m)
  PROVE  IInv'
<1> USE DEF PrepareSpinWait, Goto, prgr, lead, lflgs, um, wakeups, history
<1>1. PlaceType'
  BY Values, Ids DEF IInv, PlaceType, ManagedPlaces, InsidePlaces, UpdatePlaces, LeadPlaces,
         CheckedPlaces, WatchPlaces, AfterPlaces, SleepPlaces, DelayPlaces, HoldPlaces,
         RequestPlaces
<1>2. LocalType'
  BY DEF IInv, LocalType
<1>3. WakeupType'
  BY DEF IInv, WakeupType
<1>4. CtlInv'
  BY DEF IInv, CtlInv, Ctl, UpdatePlaces, LeadPlaces, CheckedPlaces, WatchPlaces, AfterPlaces,
         SleepPlaces, PlaceType
<1>5. LeaderInv'
  BY DEF IInv, LeaderInv, LeadPlaces, CheckedPlaces, WatchPlaces, PlaceType, CtlInv, Ctl,
         UpdatePlaces, AfterPlaces, SleepPlaces
<1>6. TrackInv'
  BY DEF IInv, TrackInv, Tracked, InsidePlaces, UpdatePlaces, LeadPlaces, CheckedPlaces,
         WatchPlaces, PlaceType
<1>7. CheckInv'
  BY DEF IInv, CheckInv, Confirmed, Tracked, InsidePlaces, UpdatePlaces, LeadPlaces,
         CheckedPlaces, WatchPlaces, PlaceType
<1>8. PendInv'
  BY DEF IInv, PendInv, InsidePlaces, PlaceType
<1>9. AskInv'
  BY DEF IInv, AskInv
<1>10. WriteInv'
  BY DEF IInv, WriteInv, RequestValue
<1>11. SlotInv'
  BY DEF IInv, SlotInv, Due
<1>12. RefcInv'
  BY Ids, RefcSame DEF IInv, PlaceType, Holds, HoldPlaces
<1>13. WatchInv'
  BY DEF IInv, WatchInv, WaitedFor, WatchPlaces, PlaceType
<1>14. ValueType' /\ LeaderType' /\ HistoryType' /\ StateInv' /\ AheadInv'
  BY DEF IInv, ValueType, LeaderType, HistoryType, StateInv, AheadInv
<1> QED BY <1>1, <1>2, <1>3, <1>4, <1>5, <1>6, <1>7, <1>8, <1>9, <1>10, <1>11, <1>12, <1>13,
               <1>14 DEF IInv

\* A thread that is active again is inside.
LEMMA ActivateStep ==
  ASSUME IInv, NEW m \in Managed, Activate(m)
  PROVE  IInv'
<1> USE DEF Activate, Goto, prgr, lead, um, wakeups, history
<1>1. PlaceType'
  BY Values, Ids DEF IInv, PlaceType, ManagedPlaces, InsidePlaces, UpdatePlaces, LeadPlaces,
         CheckedPlaces, WatchPlaces, AfterPlaces, SleepPlaces, DelayPlaces, HoldPlaces,
         RequestPlaces
<1>2. LocalType'
  BY DEF IInv, LocalType
<1>3. LeaderType'
  BY DEF IInv, LeaderType
<1>4. WakeupType'
  BY DEF IInv, WakeupType
<1>5. CtlInv'
  BY Values, Ids DEF IInv, PlaceType, ManagedPlaces, InsidePlaces, UpdatePlaces, LeadPlaces,
         CheckedPlaces, WatchPlaces, AfterPlaces, SleepPlaces, DelayPlaces, HoldPlaces,
         RequestPlaces, LocalType, ValueType, LeaderType, CtlInv, Ctl
<1>6. LeaderInv'
  BY DEF IInv, LeaderInv, LeadPlaces, CheckedPlaces, WatchPlaces, PlaceType
<1>7. TrackInv'
  BY DEF IInv, TrackInv, Tracked, InsidePlaces, UpdatePlaces, LeadPlaces, CheckedPlaces,
         WatchPlaces, PlaceType
<1>8. CheckInv'
  BY DEF IInv, CheckInv, Confirmed, Tracked, InsidePlaces, UpdatePlaces, LeadPlaces,
         CheckedPlaces, WatchPlaces, PlaceType
<1>9. PendInv'
  BY DEF IInv, PendInv, InsidePlaces, PlaceType
<1>10. AskInv'
  BY DEF IInv, AskInv
<1>11. WriteInv'
  BY DEF IInv, WriteInv, RequestValue
<1>12. SlotInv'
  BY DEF IInv, SlotInv, Due
<1>13. RefcInv'
  BY Ids, RefcSame DEF IInv, PlaceType, Holds, HoldPlaces
<1>14. WatchInv'
  BY DEF IInv, WatchInv, WaitedFor, WatchPlaces, PlaceType
<1>15. ValueType' /\ HistoryType' /\ StateInv' /\ AheadInv'
  BY DEF IInv, ValueType, HistoryType, StateInv, AheadInv
<1> QED BY <1>1, <1>2, <1>3, <1>4, <1>5, <1>6, <1>7, <1>8, <1>9, <1>10, <1>11, <1>12, <1>13,
               <1>14, <1>15 DEF IInv

\* An inactive thread is outside, and still has to confirm values.
LEMMA DeactivateStep ==
  ASSUME IInv, NEW m \in Managed, Deactivate(m)
  PROVE  IInv'
<1> USE DEF Deactivate, WaitsForValue, Reached, Asked, Goto, Quiesce, prgr, lead, um, wakeups,
            events
<1>1. PlaceType'
  BY Values, Ids DEF IInv, PlaceType, ManagedPlaces, InsidePlaces, UpdatePlaces, LeadPlaces,
         CheckedPlaces, WatchPlaces, AfterPlaces, SleepPlaces, DelayPlaces, HoldPlaces,
         RequestPlaces
<1>2. LocalType'
  BY DEF IInv, LocalType
<1>3. LeaderType'
  BY DEF IInv, LeaderType
<1>4. HistoryType'
  BY DEF IInv, HistoryType
<1>5. CtlInv'
  BY Values, Ids DEF IInv, PlaceType, ManagedPlaces, InsidePlaces, UpdatePlaces, LeadPlaces,
         CheckedPlaces, WatchPlaces, AfterPlaces, SleepPlaces, DelayPlaces, HoldPlaces,
         RequestPlaces, LocalType, ValueType, LeaderType, CtlInv, Ctl
<1>6. LeaderInv'
  BY DEF IInv, LeaderInv, LeadPlaces, CheckedPlaces, WatchPlaces, PlaceType
<1>7. TrackInv'
  BY DEF IInv, TrackInv, Tracked, InsidePlaces, UpdatePlaces, LeadPlaces, CheckedPlaces,
         WatchPlaces, PlaceType
<1>8. CheckInv'
  BY DEF IInv, CheckInv, Confirmed, Tracked, InsidePlaces, UpdatePlaces, LeadPlaces,
         CheckedPlaces, WatchPlaces, PlaceType
<1>9. PendInv'
  BY DEF IInv, PendInv
<1>10. AskInv'
  BY DEF IInv, AskInv
<1>11. WriteInv'
  BY DEF IInv, WriteInv, RequestValue
<1>12. SlotInv'
  BY DEF IInv, SlotInv, Due
<1>13. RefcInv'
  BY Ids, RefcSame DEF IInv, PlaceType, Holds, HoldPlaces
<1>14. WatchInv'
  BY DEF IInv, WatchInv, WaitedFor, WatchPlaces, PlaceType
<1>15. ValueType' /\ WakeupType' /\ StateInv' /\ AheadInv'
  BY DEF IInv, ValueType, WakeupType, StateInv, AheadInv
<1> QED BY <1>1, <1>2, <1>3, <1>4, <1>5, <1>6, <1>7, <1>8, <1>9, <1>10, <1>11, <1>12, <1>13,
               <1>14, <1>15 DEF IInv

\* It goes back to sleep without update().
LEMMA StayInactiveStep ==
  ASSUME IInv, NEW m \in Managed, StayInactive(m)
  PROVE  IInv'
<1> USE DEF StayInactive, WaitsForValue, Goto, Quiesce, prgr, lead, lflgs, um, wakeups, events
<1>1. PlaceType'
  BY Values, Ids DEF IInv, PlaceType, ManagedPlaces, InsidePlaces, UpdatePlaces, LeadPlaces,
         CheckedPlaces, WatchPlaces, AfterPlaces, SleepPlaces, DelayPlaces, HoldPlaces,
         RequestPlaces
<1>2. LocalType'
  BY DEF IInv, LocalType
<1>3. HistoryType'
  BY DEF IInv, HistoryType
<1>4. CtlInv'
  BY DEF IInv, CtlInv, Ctl, UpdatePlaces, LeadPlaces, CheckedPlaces, WatchPlaces, AfterPlaces,
         SleepPlaces, PlaceType
<1>5. LeaderInv'
  BY DEF IInv, LeaderInv, LeadPlaces, CheckedPlaces, WatchPlaces, PlaceType
<1>6. TrackInv'
  BY DEF IInv, TrackInv, Tracked, InsidePlaces, UpdatePlaces, LeadPlaces, CheckedPlaces,
         WatchPlaces, PlaceType
<1>7. CheckInv'
  BY DEF IInv, CheckInv, Confirmed, Tracked, InsidePlaces, UpdatePlaces, LeadPlaces,
         CheckedPlaces, WatchPlaces, PlaceType
<1>8. PendInv'
  BY DEF IInv, PendInv
<1>9. AskInv'
  BY DEF IInv, AskInv
<1>10. WriteInv'
  BY DEF IInv, WriteInv, RequestValue
<1>11. SlotInv'
  BY DEF IInv, SlotInv, Due
<1>12. RefcInv'
  BY Ids, RefcSame DEF IInv, PlaceType, Holds, HoldPlaces
<1>13. WatchInv'
  BY DEF IInv, WatchInv, WaitedFor, WatchPlaces, PlaceType
<1>14. ValueType' /\ LeaderType' /\ WakeupType' /\ StateInv' /\ AheadInv'
  BY DEF IInv, ValueType, LeaderType, WakeupType, StateInv, AheadInv
<1> QED BY <1>1, <1>2, <1>3, <1>4, <1>5, <1>6, <1>7, <1>8, <1>9, <1>10, <1>11, <1>12, <1>13,
               <1>14 DEF IInv

\* A thread that sleeps has not to be waited for.
LEMMA PrepareWaitStep ==
  ASSUME IInv, NEW m \in Managed, PrepareWait(m)
  PROVE  IInv'
<1> USE DEF PrepareWait, Goto, Confirm, lead, lflgs, um, wakeups, events, history
<1>1. PlaceType'
  BY Values, Ids DEF IInv, PlaceType, ManagedPlaces, InsidePlaces, UpdatePlaces, LeadPlaces,
         CheckedPlaces, WatchPlaces, AfterPlaces, SleepPlaces, DelayPlaces, HoldPlaces,
         RequestPlaces
<1>2. LocalType'
  BY DEF IInv, LocalType
<1>3. ValueType'
  BY Values DEF IInv, ValueType, PlaceType
<1>4. CtlInv'
  BY DEF IInv, CtlInv, Ctl, UpdatePlaces, LeadPlaces, CheckedPlaces, WatchPlaces, AfterPlaces,
         SleepPlaces, PlaceType
<1>5. LeaderInv'
  BY DEF IInv, LeaderInv, LeadPlaces, CheckedPlaces, WatchPlaces, PlaceType
<1>6. TrackInv'
  BY DEF IInv, TrackInv, Tracked, InsidePlaces, UpdatePlaces, LeadPlaces, CheckedPlaces,
         WatchPlaces, PlaceType
<1>7. CheckInv'
  BY DEF IInv, CheckInv, Confirmed, Tracked, InsidePlaces, UpdatePlaces, LeadPlaces,
         CheckedPlaces, WatchPlaces, PlaceType
<1>8. PendInv'
  BY DEF IInv, PendInv, InsidePlaces, PlaceType
<1>9. AskInv'
  BY DEF IInv, AskInv
<1>10. WriteInv'
  BY DEF IInv, WriteInv, RequestValue
<1>11. SlotInv'
  BY DEF IInv, SlotInv, Due
<1>12. RefcInv'
  BY Ids, RefcSame DEF IInv, PlaceType, Holds, HoldPlaces
<1>13. WatchInv'
  BY DEF IInv, WatchInv, WaitedFor, WatchPlaces, PlaceType
<1>14. LeaderType' /\ WakeupType' /\ HistoryType' /\ StateInv' /\ AheadInv'
  BY DEF IInv, LeaderType, WakeupType, HistoryType, StateInv, AheadInv
<1> QED BY <1>1, <1>2, <1>3, <1>4, <1>5, <1>6, <1>7, <1>8, <1>9, <1>10, <1>11, <1>12, <1>13,
               <1>14 DEF IInv

\* It may be the one that has to wake somebody.
LEMMA PrepareWaitCheckStep ==
  ASSUME IInv, NEW m \in Managed, PrepareWaitCheck(m)
  PROVE  IInv'
<1> USE DEF PrepareWaitCheck, NoneActive, Goto, prgr, lead, lflgs, um, wakeups, events, history
<1>1. PlaceType'
  BY Values, Ids DEF IInv, PlaceType, ManagedPlaces, InsidePlaces, UpdatePlaces, LeadPlaces,
         CheckedPlaces, WatchPlaces, AfterPlaces, SleepPlaces, DelayPlaces, HoldPlaces,
         RequestPlaces
<1>2. LocalType'
  BY Ids DEF IInv, LocalType, PlaceType
<1>3. CtlInv'
  BY DEF IInv, CtlInv, Ctl, UpdatePlaces, LeadPlaces, CheckedPlaces, WatchPlaces, AfterPlaces,
         SleepPlaces, PlaceType
<1>4. LeaderInv'
  BY DEF IInv, LeaderInv, LeadPlaces, CheckedPlaces, WatchPlaces, PlaceType
<1>5. TrackInv'
  BY DEF IInv, TrackInv, Tracked, InsidePlaces, UpdatePlaces, LeadPlaces, CheckedPlaces,
         WatchPlaces, PlaceType
<1>6. CheckInv'
  BY DEF IInv, CheckInv, Confirmed, Tracked, InsidePlaces, UpdatePlaces, LeadPlaces,
         CheckedPlaces, WatchPlaces, PlaceType
<1>7. PendInv'
  BY Values, Ids DEF IInv, PlaceType, ManagedPlaces, InsidePlaces, UpdatePlaces, LeadPlaces,
         CheckedPlaces, WatchPlaces, AfterPlaces, SleepPlaces, DelayPlaces, HoldPlaces,
         RequestPlaces, ValueType, HistoryType, TrackInv, Tracked, PendInv, AheadInv
<1>8. AskInv'
  BY Ids DEF IInv, AskInv, PlaceType
<1>9. WriteInv'
  BY DEF IInv, WriteInv, RequestValue, PlaceType
<1>10. SlotInv'
  <2>1. \A n \in Managed : pc[n] = "handle" => pc'[n] = "handle"
    BY DEF IInv, PlaceType
  <2>2. \A k : Due(k) => Due(k)'
    BY <2>1 DEF Due
  <2> QED BY <2>2 DEF IInv, SlotInv
<1>11. RefcInv'
  BY Ids, RefcSame DEF IInv, PlaceType, Holds, HoldPlaces
<1>12. WatchInv'
  BY Ids DEF IInv, WatchInv, WaitedFor, WatchPlaces, PlaceType
<1>13. ValueType' /\ LeaderType' /\ WakeupType' /\ HistoryType' /\ StateInv' /\ AheadInv'
  BY DEF IInv, ValueType, LeaderType, WakeupType, HistoryType, StateInv, AheadInv
<1> QED BY <1>1, <1>2, <1>3, <1>4, <1>5, <1>6, <1>7, <1>8, <1>9, <1>10, <1>11, <1>12, <1>13 DEF
               IInv

\* A wakeup changes nothing but the event.
LEMMA PokeStep ==
  ASSUME IInv, NEW m \in Managed, Poke(m)
  PROVE  IInv'
<1> USE DEF Poke, prgr, lead, lflgs, um, wakeups, history
<1>1. WakeupType'
  BY DEF IInv, WakeupType
<1>2. PlaceType' /\ LocalType' /\ ValueType' /\ LeaderType' /\ HistoryType' /\ CtlInv' /\
      LeaderInv' /\ StateInv' /\ TrackInv'
  BY DEF IInv, PlaceType, LocalType, ValueType, LeaderType, HistoryType, CtlInv, Ctl, LeaderInv,
         StateInv, TrackInv, Tracked
<1>3. CheckInv' /\ PendInv' /\ AheadInv' /\ AskInv' /\ WriteInv' /\ SlotInv' /\ RefcInv' /\
      WatchInv'
  BY DEF IInv, CheckInv, Confirmed, Tracked, PendInv, AheadInv, AskInv, WriteInv, RequestValue,
         SlotInv, Due, RefcInv, Holds, WatchInv, WaitedFor
<1> QED BY <1>1, <1>2, <1>3 DEF IInv

\* The value of current that a thread reads when it wakes up may be old when it uses it.
LEMMA WakeUpStep ==
  ASSUME IInv, NEW m \in Managed, WakeUp(m)
  PROVE  IInv'
<1> USE DEF WakeUp, Goto, prgr, lead, lflgs, um, wakeups, events, history
<1>1. PlaceType'
  BY Values, Ids DEF IInv, PlaceType, ManagedPlaces, InsidePlaces, UpdatePlaces, LeadPlaces,
         CheckedPlaces, WatchPlaces, AfterPlaces, SleepPlaces, DelayPlaces, HoldPlaces,
         RequestPlaces
<1>2. LocalType'
  <2> DEFINE r == [loc[m] EXCEPT !.current = current]
             R == [ix : Int, waiting_unmanaged : BOOLEAN, current : 0 .. MaxProgress]
  <2>1. loc \in [Managed -> R] /\ loc' = [loc EXCEPT ![m] = r] /\ r \in R
    BY DEF IInv, LocalType, ValueType
  <2> HIDE DEF r, R
  <2>2. loc' \in [Managed -> R]
    BY <2>1
  <2>3. \A k \in Managed : pc'[k] = "chk" => pc[k] = "chk" /\ loc'[k] = loc[k]
    BY <2>1 DEF IInv, PlaceType
  <2> QED BY <2>2, <2>3 DEF IInv, LocalType, R
<1>3. CtlInv'
  BY DEF IInv, CtlInv, Ctl, UpdatePlaces, LeadPlaces, CheckedPlaces, WatchPlaces, AfterPlaces,
         SleepPlaces, PlaceType
<1>4. LeaderInv'
  BY DEF IInv, LeaderInv, LeadPlaces, CheckedPlaces, WatchPlaces, PlaceType
<1>5. TrackInv'
  BY DEF IInv, TrackInv, Tracked, InsidePlaces, UpdatePlaces, LeadPlaces, CheckedPlaces,
         WatchPlaces, PlaceType
<1>6. CheckInv'
  BY DEF IInv, CheckInv, Confirmed, Tracked, InsidePlaces, UpdatePlaces, LeadPlaces,
         CheckedPlaces, WatchPlaces, PlaceType
<1>7. PendInv'
  BY DEF IInv, PendInv, InsidePlaces, PlaceType
<1>8. AskInv'
  BY DEF IInv, AskInv
<1>9. WriteInv'
  BY DEF IInv, WriteInv, RequestValue
<1>10. SlotInv'
  BY DEF IInv, SlotInv, Due
<1>11. RefcInv'
  BY Ids, RefcSame DEF IInv, PlaceType, Holds, HoldPlaces
<1>12. WatchInv'
  BY DEF IInv, WatchInv, WaitedFor, WatchPlaces, PlaceType
<1>13. ValueType' /\ LeaderType' /\ WakeupType' /\ HistoryType' /\ StateInv' /\ AheadInv'
  BY DEF IInv, ValueType, LeaderType, WakeupType, HistoryType, StateInv, AheadInv
<1> QED BY <1>1, <1>2, <1>3, <1>4, <1>5, <1>6, <1>7, <1>8, <1>9, <1>10, <1>11, <1>12, <1>13 DEF
               IInv

\* The thread confirms the value after the one it has read,
LEMMA FinalizeWaitStep ==
  ASSUME IInv, NEW m \in Managed, FinalizeWait(m)
  PROVE  IInv'
<1> USE DEF FinalizeWait, Goto, Confirm, lead, lflgs, um, wakeups, events, history
<1>1. PlaceType'
  BY Values, Ids DEF IInv, PlaceType, ManagedPlaces, InsidePlaces, UpdatePlaces, LeadPlaces,
         CheckedPlaces, WatchPlaces, AfterPlaces, SleepPlaces, DelayPlaces, HoldPlaces,
         RequestPlaces
<1>2. LocalType'
  BY DEF IInv, LocalType
<1>3. ValueType'
  BY Values, Ids DEF IInv, PlaceType, ManagedPlaces, InsidePlaces, UpdatePlaces, LeadPlaces,
         CheckedPlaces, WatchPlaces, AfterPlaces, SleepPlaces, DelayPlaces, HoldPlaces,
         RequestPlaces, LocalType, ValueType, LeaderType
<1>4. CtlInv'
  BY DEF IInv, CtlInv, Ctl, UpdatePlaces, LeadPlaces, CheckedPlaces, WatchPlaces, AfterPlaces,
         SleepPlaces, PlaceType
<1>5. LeaderInv'
  BY DEF IInv, LeaderInv, LeadPlaces, CheckedPlaces, WatchPlaces, PlaceType
<1>6. TrackInv'
  BY Ids, Values DEF IInv, TrackInv, Tracked, InsidePlaces, UpdatePlaces, LeadPlaces,
         CheckedPlaces, WatchPlaces, PlaceType, ValueType
<1>7. CheckInv'
  BY DEF IInv, CheckInv, Confirmed, Tracked, InsidePlaces, UpdatePlaces, LeadPlaces,
         CheckedPlaces, WatchPlaces, PlaceType
<1>8. PendInv'
  BY DEF IInv, PendInv, InsidePlaces, PlaceType
<1>9. AskInv'
  BY DEF IInv, AskInv
<1>10. WriteInv'
  BY DEF IInv, WriteInv, RequestValue
<1>11. SlotInv'
  BY DEF IInv, SlotInv, Due
<1>12. RefcInv'
  BY Ids, RefcSame DEF IInv, PlaceType, Holds, HoldPlaces
<1>13. WatchInv'
  BY DEF IInv, WatchInv, WaitedFor, WatchPlaces, PlaceType
<1>14. LeaderType' /\ WakeupType' /\ HistoryType' /\ StateInv' /\ AheadInv'
  BY DEF IInv, LeaderType, WakeupType, HistoryType, StateInv, AheadInv
<1> QED BY <1>1, <1>2, <1>3, <1>4, <1>5, <1>6, <1>7, <1>8, <1>9, <1>10, <1>11, <1>12, <1>13,
               <1>14 DEF IInv

\* and is one to wait for only if current is still the one it has read.
LEMMA FinalizeWaitCheckStep ==
  ASSUME IInv, NEW m \in Managed, FinalizeWaitCheck(m)
  PROVE  IInv'
<1> USE DEF FinalizeWaitCheck, Goto, prgr, lead, lflgs, um, wakeups, events, history
<1>1. PlaceType'
  BY Values, Ids DEF IInv, PlaceType, ManagedPlaces, InsidePlaces, UpdatePlaces, LeadPlaces,
         CheckedPlaces, WatchPlaces, AfterPlaces, SleepPlaces, DelayPlaces, HoldPlaces,
         RequestPlaces
<1>2. LocalType'
  <2> DEFINE R == [ix : Int, waiting_unmanaged : BOOLEAN, current : 0 .. MaxProgress]
  <2>1. loc \in [Managed -> R] /\ current \in 0 .. MaxProgress /\ 0 \in 0 .. MaxProgress
    BY Values DEF IInv, LocalType, ValueType
  <2>2. ASSUME loc' = [loc EXCEPT ![m].current = 0] PROVE loc' \in [Managed -> R]
    <3> DEFINE q == [loc[m] EXCEPT !.current = 0]
    <3>1. loc' = [loc EXCEPT ![m] = q] /\ q \in R
      BY <2>1, <2>2
    <3> HIDE DEF q, R
    <3> QED BY <2>1, <3>1
  <2>3. ASSUME loc' = [loc EXCEPT ![m].current = current] PROVE loc' \in [Managed -> R]
    <3> DEFINE q == [loc[m] EXCEPT !.current = current]
    <3>1. loc' = [loc EXCEPT ![m] = q] /\ q \in R
      BY <2>1, <2>3
    <3> HIDE DEF q, R
    <3> QED BY <2>1, <3>1
  <2>4. loc' \in [Managed -> R]
    BY <2>2, <2>3
  <2>5. \A k \in Managed : pc'[k] = "chk" => pc[k] = "chk" /\ loc'[k].ix = loc[k].ix
    BY <2>1 DEF IInv, PlaceType
  <2> QED BY <2>4, <2>5 DEF IInv, LocalType
<1>3. CtlInv'
  BY DEF IInv, CtlInv, Ctl, UpdatePlaces, LeadPlaces, CheckedPlaces, WatchPlaces, AfterPlaces,
         SleepPlaces, PlaceType
<1>4. LeaderInv'
  BY DEF IInv, LeaderInv, LeadPlaces, CheckedPlaces, WatchPlaces, PlaceType
<1>5. TrackInv'
  BY Values, Ids DEF IInv, PlaceType, ManagedPlaces, InsidePlaces, UpdatePlaces, LeadPlaces,
         CheckedPlaces, WatchPlaces, AfterPlaces, SleepPlaces, DelayPlaces, HoldPlaces,
         RequestPlaces, LocalType, ValueType, LeaderType, TrackInv, Tracked
<1>6. CheckInv'
  <2>1. \A n \in Managed : Confirmed(n) => Confirmed(n)'
    <3> SUFFICES ASSUME NEW n \in Managed, Confirmed(n), Tracked(n)'
                 PROVE  thr[n] = Inc(current)
      BY DEF Confirmed
    <3>1. CASE n = m
      <4>1. loc[m].current = current
        BY <3>1 DEF Tracked, IInv, PlaceType, UpdatePlaces, LeadPlaces, InsidePlaces, CheckedPlaces, WatchPlaces
      <4> QED BY <3>1, <4>1 DEF IInv, TrackInv
    <3>2. CASE n # m
      <4>1. Tracked(n)' <=> Tracked(n)
        BY <3>2 DEF Tracked, IInv, PlaceType
      <4> QED BY <4>1 DEF Confirmed
    <3> QED BY <3>1, <3>2
  <2>2. \A k \in Managed : /\ pc'[k] = "chk" => pc[k] = "chk" /\ loc'[k].ix = loc[k].ix
                           /\ pc'[k] \in CheckedPlaces => pc[k] \in CheckedPlaces
    BY DEF IInv, PlaceType, LocalType, CheckedPlaces
  <2>3. leader' = leader /\ lstate' = lstate
    OBVIOUS
  <2> QED BY <2>1, <2>2, <2>3 DEF IInv, CheckInv
<1>7. PendInv'
  BY Values, Ids DEF IInv, PlaceType, ManagedPlaces, InsidePlaces, UpdatePlaces, LeadPlaces,
         CheckedPlaces, WatchPlaces, AfterPlaces, SleepPlaces, DelayPlaces, HoldPlaces,
         RequestPlaces, ValueType, HistoryType, TrackInv, Tracked, PendInv, AheadInv
<1>8. AskInv'
  BY Ids DEF IInv, AskInv, PlaceType
<1>9. WriteInv'
  BY Ids DEF IInv, WriteInv, RequestValue, PlaceType
<1>10. SlotInv'
  BY Ids DEF IInv, SlotInv, Due, PlaceType
<1>11. RefcInv'
  BY Ids, RefcSame DEF IInv, PlaceType, Holds, HoldPlaces
<1>12. WatchInv'
  <2>1. \A k \in Managed : lstate'[k].um_waiting = lstate[k].um_waiting
    OBVIOUS
  <2>2. \A u \in Delayers : pc'[u] = pc[u]
    BY Ids DEF IInv, PlaceType
  <2>3. \A k \in Managed : pc'[k] \in WatchPlaces \cup {"um2"} =>
          pc'[k] = pc[k] /\ loc'[k].waiting_unmanaged = loc[k].waiting_unmanaged
    BY DEF IInv, PlaceType, LocalType, CtlInv, Ctl, UpdatePlaces, LeadPlaces, AfterPlaces,
           CheckedPlaces, WatchPlaces, SleepPlaces
  <2> QED BY <2>1, <2>2, <2>3, WatchSame DEF IInv
<1>13. ValueType' /\ LeaderType' /\ WakeupType' /\ HistoryType' /\ StateInv' /\ AheadInv'
  BY DEF IInv, ValueType, LeaderType, WakeupType, HistoryType, StateInv, AheadInv
<1> QED BY <1>1, <1>2, <1>3, <1>4, <1>5, <1>6, <1>7, <1>8, <1>9, <1>10, <1>11, <1>12, <1>13 DEF
               IInv

\* An unmanaged thread reads the counter to use;
LEMMA DelayReadStep ==
  ASSUME IInv, NEW u \in Delayers, DelayRead(u)
  PROVE  IInv'
<1> USE DEF DelayRead, Goto, prgr, lead, lflgs, um, wakeups, events, history
<1>1. PlaceType'
  BY Values, Ids DEF IInv, PlaceType, ManagedPlaces, InsidePlaces, UpdatePlaces, LeadPlaces,
         CheckedPlaces, WatchPlaces, AfterPlaces, SleepPlaces, DelayPlaces, HoldPlaces,
         RequestPlaces
<1>2. LocalType'
  BY Values, Ids DEF IInv, PlaceType, ManagedPlaces, InsidePlaces, UpdatePlaces, LeadPlaces,
         CheckedPlaces, WatchPlaces, AfterPlaces, SleepPlaces, DelayPlaces, HoldPlaces,
         RequestPlaces, LocalType, ValueType, LeaderType
<1>3. CtlInv'
  BY Ids DEF IInv, CtlInv, Ctl, PlaceType
<1>4. LeaderInv'
  BY Ids DEF IInv, LeaderInv, PlaceType
<1>5. TrackInv'
  BY Ids DEF IInv, TrackInv, Tracked, PlaceType
<1>6. CheckInv'
  BY Ids DEF IInv, CheckInv, Confirmed, Tracked, PlaceType
<1>7. PendInv'
  BY DEF IInv, PendInv, InsidePlaces, PlaceType
<1>8. AskInv'
  BY DEF IInv, AskInv
<1>9. WriteInv'
  BY DEF IInv, WriteInv, RequestValue
<1>10. SlotInv'
  BY DEF IInv, SlotInv, Due
<1>11. RefcInv'
  BY Ids, RefcSame DEF IInv, PlaceType, Holds, HoldPlaces
<1>12. WatchInv'
  BY Ids DEF IInv, WatchInv, WaitedFor, PlaceType
<1>13. ValueType' /\ LeaderType' /\ WakeupType' /\ HistoryType' /\ StateInv' /\ AheadInv'
  BY DEF IInv, ValueType, LeaderType, WakeupType, HistoryType, StateInv, AheadInv
<1> QED BY <1>1, <1>2, <1>3, <1>4, <1>5, <1>6, <1>7, <1>8, <1>9, <1>10, <1>11, <1>12, <1>13 DEF
               IInv

\* it counts in that counter,
LEMMA DelayIncStep ==
  ASSUME IInv, NEW u \in Delayers, DelayInc(u)
  PROVE  IInv'
<1> USE DEF DelayInc, Goto, prgr, lead, lflgs, wakeups, events, history
<1>1. PlaceType'
  BY Values, Ids DEF IInv, PlaceType, ManagedPlaces, InsidePlaces, UpdatePlaces, LeadPlaces,
         CheckedPlaces, WatchPlaces, AfterPlaces, SleepPlaces, DelayPlaces, HoldPlaces,
         RequestPlaces
<1>2. LocalType'
  BY DEF IInv, LocalType
<1>3. CtlInv'
  BY Ids DEF IInv, CtlInv, Ctl, PlaceType
<1>4. LeaderInv'
  BY Ids DEF IInv, LeaderInv, PlaceType
<1>5. TrackInv'
  BY Ids DEF IInv, TrackInv, Tracked, PlaceType
<1>6. CheckInv'
  BY Ids DEF IInv, CheckInv, Confirmed, Tracked, PlaceType
<1>7. PendInv'
  BY DEF IInv, PendInv, InsidePlaces, PlaceType
<1>8. AskInv'
  BY DEF IInv, AskInv
<1>9. WriteInv'
  BY DEF IInv, WriteInv, RequestValue
<1>10. SlotInv'
  BY DEF IInv, SlotInv, Due
<1>11. RefcInv'
  <2> DEFINE j == uix[u]
  <2>1. j \in {0, 1} /\ umrefc \in [{0, 1} -> Int] /\ umrefc' = [umrefc EXCEPT ![j] = @ + 1]
    BY DEF IInv, LocalType, RefcInv
  <2>2. \A v \in Delayers, i \in {0, 1} : Holds(v, i)' <=> Holds(v, i) \/ (v = u /\ i = j)
    BY Ids DEF IInv, PlaceType, Holds, HoldPlaces
  <2>3. ~ Holds(u, j)
    BY DEF Holds, HoldPlaces
  <2> HIDE DEF j
  <2>4. ASSUME NEW i \in {0, 1}
        PROVE  umrefc'[i] = Cardinality({v \in Delayers : Holds(v, i)'})
    <3>1. umrefc[i] = Cardinality({v \in Delayers : Holds(v, i)})
      BY DEF IInv, RefcInv
    <3>2. CASE i = j
      <4>1. {v \in Delayers : Holds(v, i)'} = {v \in Delayers : Holds(v, i)} \cup {u}
        BY <2>2, <3>2
      <4>2. IsFiniteSet({v \in Delayers : Holds(v, i)})
        BY ConstantsAssumption, FS_Subset, Zenon
      <4>3. u \notin {v \in Delayers : Holds(v, i)}
        BY <2>3, <3>2
      <4> HIDE DEF Holds
      <4>4. Cardinality({v \in Delayers : Holds(v, i)'}) = Cardinality({v \in Delayers : Holds(v, i)}) + 1
        BY <4>1, <4>2, <4>3, FS_AddElement, FS_CardinalityType
      <4> QED BY <4>4, <3>1, <3>2, <2>1
    <3>3. CASE i # j
      <4>1. {v \in Delayers : Holds(v, i)'} = {v \in Delayers : Holds(v, i)}
        BY <2>2, <3>3
      <4> QED BY <4>1, <3>1, <3>3, <2>1
    <3> QED BY <3>2, <3>3
  <2> QED BY <2>1, <2>4 DEF RefcInv
<1>12. WatchInv'
  BY Ids DEF IInv, WatchInv, WaitedFor, PlaceType
<1>13. ValueType' /\ LeaderType' /\ WakeupType' /\ HistoryType' /\ StateInv' /\ AheadInv'
  BY DEF IInv, ValueType, LeaderType, WakeupType, HistoryType, StateInv, AheadInv
<1> QED BY <1>1, <1>2, <1>3, <1>4, <1>5, <1>6, <1>7, <1>8, <1>9, <1>10, <1>11, <1>12, <1>13 DEF
               IInv

\* and delays progress only if new threads still use it.
LEMMA DelayCheckStep ==
  ASSUME IInv, NEW u \in Delayers, DelayCheck(u)
  PROVE  IInv'
<1> USE DEF DelayCheck, Goto, prgr, lead, lflgs, um, wakeups, events, history
<1>1. PlaceType'
  BY Values, Ids DEF IInv, PlaceType, ManagedPlaces, InsidePlaces, UpdatePlaces, LeadPlaces,
         CheckedPlaces, WatchPlaces, AfterPlaces, SleepPlaces, DelayPlaces, HoldPlaces,
         RequestPlaces
<1>2. LocalType'
  BY DEF IInv, LocalType
<1>3. CtlInv'
  BY Ids DEF IInv, CtlInv, Ctl, PlaceType
<1>4. LeaderInv'
  BY Ids DEF IInv, LeaderInv, PlaceType
<1>5. TrackInv'
  BY Ids DEF IInv, TrackInv, Tracked, PlaceType
<1>6. CheckInv'
  BY Ids DEF IInv, CheckInv, Confirmed, Tracked, PlaceType
<1>7. PendInv'
  BY DEF IInv, PendInv, InsidePlaces, PlaceType
<1>8. AskInv'
  BY DEF IInv, AskInv
<1>9. WriteInv'
  BY DEF IInv, WriteInv, RequestValue
<1>10. SlotInv'
  BY DEF IInv, SlotInv, Due
<1>11. RefcInv'
  BY Ids, RefcSame DEF IInv, PlaceType, Holds, HoldPlaces
<1>12. WatchInv'
  BY DEF IInv, WatchInv, WaitedFor, WatchPlaces, PlaceType, CtlInv, Ctl, LeaderInv,
         UpdatePlaces, LeadPlaces, CheckedPlaces, AfterPlaces, SleepPlaces
<1>13. ValueType' /\ LeaderType' /\ WakeupType' /\ HistoryType' /\ StateInv' /\ AheadInv'
  BY DEF IInv, ValueType, LeaderType, WakeupType, HistoryType, StateInv, AheadInv
<1> QED BY <1>1, <1>2, <1>3, <1>4, <1>5, <1>6, <1>7, <1>8, <1>9, <1>10, <1>11, <1>12, <1>13 DEF
               IInv

\* It is not counted any more.
LEMMA UnmanagedContinueStep ==
  ASSUME IInv, NEW u \in Delayers, UnmanagedContinue(u)
  PROVE  IInv'
<1> USE DEF UnmanagedContinue, prgr, lead, lflgs, wakeups, events
<1>1. PlaceType'
  BY Values, Ids DEF IInv, PlaceType, ManagedPlaces, InsidePlaces, UpdatePlaces, LeadPlaces,
         CheckedPlaces, WatchPlaces, AfterPlaces, SleepPlaces, DelayPlaces, HoldPlaces,
         RequestPlaces
<1>2. LocalType'
  BY DEF IInv, LocalType
<1>3. HistoryType'
  BY DEF IInv, HistoryType
<1>4. CtlInv'
  BY Ids DEF IInv, CtlInv, Ctl, PlaceType
<1>5. LeaderInv'
  BY Ids DEF IInv, LeaderInv, PlaceType
<1>6. TrackInv'
  BY Ids DEF IInv, TrackInv, Tracked, PlaceType
<1>7. CheckInv'
  BY Ids DEF IInv, CheckInv, Confirmed, Tracked, PlaceType
<1>8. PendInv'
  BY DEF IInv, PendInv, InsidePlaces, PlaceType
<1>9. AskInv'
  BY DEF IInv, AskInv
<1>10. WriteInv'
  BY DEF IInv, WriteInv, RequestValue
<1>11. SlotInv'
  BY DEF IInv, SlotInv, Due
<1>12. RefcInv'
  <2> DEFINE j == uix[u]
  <2>1. j \in {0, 1} /\ umrefc \in [{0, 1} -> Int] /\ umrefc' = [umrefc EXCEPT ![j] = @ - 1]
    BY DEF IInv, LocalType, RefcInv
  <2>2. \A v \in Delayers, i \in {0, 1} : Holds(v, i)' <=> Holds(v, i) /\ v # u
    BY Ids DEF IInv, PlaceType, LocalType, Holds, HoldPlaces
  <2>3. Holds(u, j) /\ \A i \in {0, 1} : i # j => ~ Holds(u, i)
    BY DEF Holds, HoldPlaces
  <2> HIDE DEF j
  <2>4. ASSUME NEW i \in {0, 1}
        PROVE  umrefc'[i] = Cardinality({v \in Delayers : Holds(v, i)'})
    <3>1. umrefc[i] = Cardinality({v \in Delayers : Holds(v, i)})
      BY DEF IInv, RefcInv
    <3>2. CASE i = j
      <4>1. {v \in Delayers : Holds(v, i)'} = {v \in Delayers : Holds(v, i)} \ {u}
        BY <2>2, <3>2
      <4>2. IsFiniteSet({v \in Delayers : Holds(v, i)})
        BY ConstantsAssumption, FS_Subset, Zenon
      <4>3. u \in {v \in Delayers : Holds(v, i)}
        BY <2>3, <3>2
      <4>4. Cardinality({v \in Delayers : Holds(v, i)'}) = Cardinality({v \in Delayers : Holds(v, i)}) - 1
        BY <4>1, <4>2, <4>3, FS_RemoveElement, FS_CardinalityType
      <4> QED BY <4>4, <3>1, <3>2, <2>1
    <3>3. CASE i # j
      <4>1. {v \in Delayers : Holds(v, i)'} = {v \in Delayers : Holds(v, i)}
        BY <2>2, <2>3, <3>3
      <4> QED BY <4>1, <3>1, <3>3, <2>1
    <3> QED BY <3>2, <3>3
  <2> QED BY <2>1, <2>4 DEF RefcInv
<1>13. WatchInv'
  BY Ids DEF IInv, WatchInv, WaitedFor, PlaceType
<1>14. ValueType' /\ LeaderType' /\ WakeupType' /\ StateInv' /\ AheadInv'
  BY DEF IInv, ValueType, LeaderType, WakeupType, StateInv, AheadInv
<1> QED BY <1>1, <1>2, <1>3, <1>4, <1>5, <1>6, <1>7, <1>8, <1>9, <1>10, <1>11, <1>12, <1>13,
               <1>14 DEF IInv

\* The last one may wake the aux thread.
LEMMA ContinueCheckStep ==
  ASSUME IInv, NEW u \in Delayers, ContinueCheck(u)
  PROVE  IInv'
<1> USE DEF ContinueCheck, Goto, NoneActive, got_sched_wakeups, WakeupAux, prgr, lead, lflgs,
            um, wakeups, history
<1>1. PlaceType'
  BY Values, Ids DEF IInv, PlaceType, ManagedPlaces, InsidePlaces, UpdatePlaces, LeadPlaces,
         CheckedPlaces, WatchPlaces, AfterPlaces, SleepPlaces, DelayPlaces, HoldPlaces,
         RequestPlaces
<1>2. LocalType'
  BY Ids DEF IInv, LocalType, PlaceType
<1>3. WakeupType'
  <2>1. mwd' \in [Slots -> Seq(Managed)]
    BY Values, Ids DEF IInv, WakeupType, PlaceType
  <2>2. umwd' \in [Slots -> [bits : SUBSET Requesters, len : Nat]]
    BY Values, Ids DEF IInv, WakeupType, PlaceType
  <2>3. request' \in [Waiters -> [Slots -> ErtsThrPrgrVal]]
    BY Values, Ids DEF IInv, WakeupType, PlaceType
  <2>4. sleeping' \in [Managed -> BOOLEAN] /\ woken' \in [Requesters -> BOOLEAN]
    BY Values, Ids DEF IInv, WakeupType, PlaceType
  <2> QED BY <2>1, <2>2, <2>3, <2>4 DEF WakeupType
<1>4. CtlInv'
  BY Ids DEF IInv, CtlInv, Ctl, PlaceType
<1>5. LeaderInv'
  BY Ids DEF IInv, LeaderInv, PlaceType
<1>6. TrackInv'
  BY Ids DEF IInv, TrackInv, Tracked, PlaceType
<1>7. CheckInv'
  BY Ids DEF IInv, CheckInv, Confirmed, Tracked, PlaceType
<1>8. PendInv'
  <2>1. \A m \in Managed : pc'[m] = pc[m]
    BY Ids DEF IInv, PlaceType
  <2> QED BY <2>1 DEF IInv, PendInv, HistoryType
<1>9. AskInv'
  BY Ids DEF IInv, AskInv, PlaceType
<1>10. WriteInv'
  BY Ids DEF IInv, WriteInv, RequestValue, PlaceType
<1>11. SlotInv'
  BY Ids DEF IInv, SlotInv, Due, PlaceType
<1>12. RefcInv'
  BY Ids, RefcSame DEF IInv, PlaceType, Holds, HoldPlaces
<1>13. WatchInv'
  BY Ids DEF IInv, WatchInv, WaitedFor, PlaceType
<1>14. ValueType' /\ LeaderType' /\ HistoryType' /\ StateInv' /\ AheadInv'
  BY DEF IInv, ValueType, LeaderType, HistoryType, StateInv, AheadInv
<1> QED BY <1>1, <1>2, <1>3, <1>4, <1>5, <1>6, <1>7, <1>8, <1>9, <1>10, <1>11, <1>12, <1>13,
               <1>14 DEF IInv

\* A thread that requests a wakeup has a value.
LEMMA NotReachedStep ==
  ASSUME IInv, NEW u \in Requesters, NotReached(u)
  PROVE  IInv'
<1> USE DEF NotReached, WaitsForValue, Reached, Goto, prgr, lead, lflgs, um, wakeups, events,
            history
<1>1. PlaceType'
  BY Values, Ids DEF IInv, PlaceType, ManagedPlaces, InsidePlaces, UpdatePlaces, LeadPlaces,
         CheckedPlaces, WatchPlaces, AfterPlaces, SleepPlaces, DelayPlaces, HoldPlaces,
         RequestPlaces
<1>2. LocalType'
  BY DEF IInv, LocalType
<1>3. CtlInv'
  BY Ids DEF IInv, CtlInv, Ctl, PlaceType
<1>4. LeaderInv'
  BY Ids DEF IInv, LeaderInv, PlaceType
<1>5. TrackInv'
  BY Ids DEF IInv, TrackInv, Tracked, PlaceType
<1>6. CheckInv'
  BY Ids DEF IInv, CheckInv, Confirmed, Tracked, PlaceType
<1>7. PendInv'
  BY DEF IInv, PendInv, InsidePlaces, PlaceType
<1>8. AskInv'
  BY DEF IInv, AskInv
<1>9. WriteInv'
  BY DEF IInv, WriteInv, RequestValue
<1>10. SlotInv'
  BY DEF IInv, SlotInv, Due
<1>11. RefcInv'
  BY Ids, RefcSame DEF IInv, PlaceType, Holds, HoldPlaces
<1>12. WatchInv'
  BY Ids DEF IInv, WatchInv, WaitedFor, PlaceType
<1>13. ValueType' /\ LeaderType' /\ WakeupType' /\ HistoryType' /\ StateInv' /\ AheadInv'
  BY DEF IInv, ValueType, LeaderType, WakeupType, HistoryType, StateInv, AheadInv
<1> QED BY <1>1, <1>2, <1>3, <1>4, <1>5, <1>6, <1>7, <1>8, <1>9, <1>10, <1>11, <1>12, <1>13 DEF
               IInv

\* It is woken at once, or registered already, or writes its request:
LEMMA RequestWakeupUnmanagedStep ==
  ASSUME IInv, NEW u \in Requesters, RequestWakeupUnmanaged(u)
  PROVE  IInv'
<1> USE DEF RequestWakeupUnmanaged, Reached, Goto, prgr, lead, lflgs, um, wakeups, history
<1>1. PlaceType'
  BY Values, Ids DEF IInv, PlaceType, ManagedPlaces, InsidePlaces, UpdatePlaces, LeadPlaces,
         CheckedPlaces, WatchPlaces, AfterPlaces, SleepPlaces, DelayPlaces, HoldPlaces,
         RequestPlaces
<1>2. LocalType'
  BY Ids DEF IInv, LocalType, PlaceType
<1>3. WakeupType'
  <2>1. mwd' \in [Slots -> Seq(Managed)]
    BY Values, Ids DEF IInv, WakeupType, PlaceType
  <2>2. umwd' \in [Slots -> [bits : SUBSET Requesters, len : Nat]]
    BY Values, Ids DEF IInv, WakeupType, PlaceType
  <2>3. request' \in [Waiters -> [Slots -> ErtsThrPrgrVal]]
    BY Values, Ids DEF IInv, WakeupType, PlaceType
  <2>4. sleeping' \in [Managed -> BOOLEAN] /\ woken' \in [Requesters -> BOOLEAN]
    BY Values, Ids DEF IInv, WakeupType, PlaceType
  <2> QED BY <2>1, <2>2, <2>3, <2>4 DEF WakeupType
<1>4. CtlInv'
  BY Ids DEF IInv, CtlInv, Ctl, PlaceType
<1>5. LeaderInv'
  BY Ids DEF IInv, LeaderInv, PlaceType
<1>6. TrackInv'
  BY Ids DEF IInv, TrackInv, Tracked, PlaceType
<1>7. CheckInv'
  BY Ids DEF IInv, CheckInv, Confirmed, Tracked, PlaceType
<1>8. PendInv'
  BY Values, Ids DEF IInv, PlaceType, ManagedPlaces, InsidePlaces, UpdatePlaces, LeadPlaces,
         CheckedPlaces, WatchPlaces, AfterPlaces, SleepPlaces, DelayPlaces, HoldPlaces,
         RequestPlaces, ValueType, HistoryType, TrackInv, Tracked, PendInv, AheadInv
<1>9. AskInv'
  BY Ids DEF IInv, AskInv, PlaceType
<1>10. WriteInv'
  BY Ids DEF IInv, WriteInv, RequestValue, PlaceType
<1>11. SlotInv'
  <2>1. \A n \in Managed : pc[n] = "handle" => pc'[n] = "handle"
    BY Ids DEF IInv, PlaceType
  <2>2. \A k : Due(k) => Due(k)'
    BY <2>1 DEF Due
  <2> QED BY <2>2 DEF IInv, SlotInv
<1>12. RefcInv'
  BY Ids, RefcSame DEF IInv, PlaceType, Holds, HoldPlaces
<1>13. WatchInv'
  BY Ids DEF IInv, WatchInv, WaitedFor, PlaceType
<1>14. ValueType' /\ LeaderType' /\ HistoryType' /\ StateInv' /\ AheadInv'
  BY DEF IInv, ValueType, LeaderType, HistoryType, StateInv, AheadInv
<1> QED BY <1>1, <1>2, <1>3, <1>4, <1>5, <1>6, <1>7, <1>8, <1>9, <1>10, <1>11, <1>12, <1>13,
               <1>14 DEF IInv

\* first its bit,
LEMMA RequestBitsStep ==
  ASSUME IInv, NEW u \in Requesters, RequestBits(u)
  PROVE  IInv'
<1> USE DEF RequestBits, Goto, prgr, lead, lflgs, um, events, history
<1>1. PlaceType'
  BY Values, Ids DEF IInv, PlaceType, ManagedPlaces, InsidePlaces, UpdatePlaces, LeadPlaces,
         CheckedPlaces, WatchPlaces, AfterPlaces, SleepPlaces, DelayPlaces, HoldPlaces,
         RequestPlaces
<1>2. LocalType'
  BY DEF IInv, LocalType
<1>3. WakeupType'
  <2>1. mwd' \in [Slots -> Seq(Managed)]
    BY Values, Ids DEF IInv, WakeupType, PlaceType
  <2>2. umwd' \in [Slots -> [bits : SUBSET Requesters, len : Nat]]
    <3> DEFINE ix == ERTS_THR_PRGR_WAKEUP_IX(val[u])
    <3>1. umwd' = [umwd EXCEPT ![ix] = [umwd[ix] EXCEPT !.bits = @ \cup {u}]]
      OBVIOUS
    <3>2. ix \in Slots => [umwd[ix] EXCEPT !.bits = @ \cup {u}] \in [bits : SUBSET Requesters, len : Nat]
      BY DEF IInv, WakeupType
    <3> HIDE DEF ix
    <3> QED BY <3>1, <3>2 DEF IInv, WakeupType
  <2>3. request' \in [Waiters -> [Slots -> ErtsThrPrgrVal]]
    BY Values, Ids DEF IInv, WakeupType, PlaceType
  <2>4. sleeping' \in [Managed -> BOOLEAN] /\ woken' \in [Requesters -> BOOLEAN]
    BY Values, Ids DEF IInv, WakeupType, PlaceType
  <2> QED BY <2>1, <2>2, <2>3, <2>4 DEF WakeupType
<1>4. CtlInv'
  BY Ids DEF IInv, CtlInv, Ctl, PlaceType
<1>5. LeaderInv'
  BY Ids DEF IInv, LeaderInv, PlaceType
<1>6. TrackInv'
  BY Ids DEF IInv, TrackInv, Tracked, PlaceType
<1>7. CheckInv'
  BY Ids DEF IInv, CheckInv, Confirmed, Tracked, PlaceType
<1>8. PendInv'
  BY DEF IInv, PendInv, InsidePlaces, PlaceType
<1>9. AskInv'
  BY DEF IInv, AskInv
<1>10. WriteInv'
  BY DEF IInv, WriteInv, RequestValue
<1>11. SlotInv'
  BY DEF IInv, SlotInv, Due
<1>12. RefcInv'
  BY Ids, RefcSame DEF IInv, PlaceType, Holds, HoldPlaces
<1>13. WatchInv'
  BY Ids DEF IInv, WatchInv, WaitedFor, PlaceType
<1>14. ValueType' /\ LeaderType' /\ HistoryType' /\ StateInv' /\ AheadInv'
  BY DEF IInv, ValueType, LeaderType, HistoryType, StateInv, AheadInv
<1> QED BY <1>1, <1>2, <1>3, <1>4, <1>5, <1>6, <1>7, <1>8, <1>9, <1>10, <1>11, <1>12, <1>13,
               <1>14 DEF IInv

\* then the number of requests,
LEMMA RequestLenStep ==
  ASSUME IInv, NEW u \in Requesters, RequestLen(u)
  PROVE  IInv'
<1> USE DEF RequestLen, Goto, prgr, lead, lflgs, um, events, history
<1>1. PlaceType'
  BY Values, Ids DEF IInv, PlaceType, ManagedPlaces, InsidePlaces, UpdatePlaces, LeadPlaces,
         CheckedPlaces, WatchPlaces, AfterPlaces, SleepPlaces, DelayPlaces, HoldPlaces,
         RequestPlaces
<1>2. LocalType'
  BY DEF IInv, LocalType
<1>3. WakeupType'
  <2>1. mwd' \in [Slots -> Seq(Managed)]
    BY Values, Ids DEF IInv, WakeupType, PlaceType
  <2>2. umwd' \in [Slots -> [bits : SUBSET Requesters, len : Nat]]
    <3> DEFINE ix == ERTS_THR_PRGR_WAKEUP_IX(val[u])
    <3>1. umwd' = [umwd EXCEPT ![ix] = [umwd[ix] EXCEPT !.len = @ + 1]]
      OBVIOUS
    <3> HIDE DEF ix
    <3>2. umwd \in [Slots -> [bits : SUBSET Requesters, len : Nat]]
      BY DEF IInv, WakeupType
    <3>3. CASE ix \in Slots
      <4>1. [umwd[ix] EXCEPT !.len = @ + 1] \in [bits : SUBSET Requesters, len : Nat]
        BY <3>2, <3>3, LongerRecord
      <4> DEFINE r == [umwd[ix] EXCEPT !.len = @ + 1]
      <4> HIDE DEF r
      <4> QED BY <3>1, <3>2, <4>1 DEF r
    <3> QED BY <3>1, <3>2, <3>3
  <2>3. request' \in [Waiters -> [Slots -> ErtsThrPrgrVal]]
    BY Values, Ids DEF IInv, WakeupType, PlaceType
  <2>4. sleeping' \in [Managed -> BOOLEAN] /\ woken' \in [Requesters -> BOOLEAN]
    BY Values, Ids DEF IInv, WakeupType, PlaceType
  <2> QED BY <2>1, <2>2, <2>3, <2>4 DEF WakeupType
<1>4. CtlInv'
  BY Ids DEF IInv, CtlInv, Ctl, PlaceType
<1>5. LeaderInv'
  BY Ids DEF IInv, LeaderInv, PlaceType
<1>6. TrackInv'
  BY Ids DEF IInv, TrackInv, Tracked, PlaceType
<1>7. CheckInv'
  BY Ids DEF IInv, CheckInv, Confirmed, Tracked, PlaceType
<1>8. PendInv'
  BY DEF IInv, PendInv, InsidePlaces, PlaceType
<1>9. AskInv'
  BY DEF IInv, AskInv
<1>10. WriteInv'
  BY DEF IInv, WriteInv, RequestValue
<1>11. SlotInv'
  BY DEF IInv, SlotInv, Due
<1>12. RefcInv'
  BY Ids, RefcSame DEF IInv, PlaceType, Holds, HoldPlaces
<1>13. WatchInv'
  BY Ids DEF IInv, WatchInv, WaitedFor, PlaceType
<1>14. ValueType' /\ LeaderType' /\ HistoryType' /\ StateInv' /\ AheadInv'
  BY DEF IInv, ValueType, LeaderType, HistoryType, StateInv, AheadInv
<1> QED BY <1>1, <1>2, <1>3, <1>4, <1>5, <1>6, <1>7, <1>8, <1>9, <1>10, <1>11, <1>12, <1>13,
               <1>14 DEF IInv

\* and at last the note that it has done so.
LEMMA RequestCheckAgainStep ==
  ASSUME IInv, NEW u \in Requesters, RequestCheckAgain(u)
  PROVE  IInv'
<1> USE DEF RequestCheckAgain, Goto, Reached, prgr, lead, lflgs, um, history
<1>1. PlaceType'
  BY Values, Ids DEF IInv, PlaceType, ManagedPlaces, InsidePlaces, UpdatePlaces, LeadPlaces,
         CheckedPlaces, WatchPlaces, AfterPlaces, SleepPlaces, DelayPlaces, HoldPlaces,
         RequestPlaces
<1>2. LocalType'
  BY DEF IInv, LocalType
<1>3. WakeupType'
  <2>1. mwd' \in [Slots -> Seq(Managed)]
    BY Values, Ids DEF IInv, WakeupType, PlaceType
  <2>2. umwd' \in [Slots -> [bits : SUBSET Requesters, len : Nat]]
    BY Values, Ids DEF IInv, WakeupType, PlaceType
  <2>3. request' \in [Waiters -> [Slots -> ErtsThrPrgrVal]]
    <3> DEFINE ix == ERTS_THR_PRGR_WAKEUP_IX(val[u])
    <3>1. val[u] \in ErtsThrPrgrVal
      BY Values, Ids DEF IInv, AskInv, HistoryType
    <3>2. request' = request \/ request' = [request EXCEPT ![u][ix] = val[u]]
      OBVIOUS
    <3> HIDE DEF ix
    <3>3. request \in [Waiters -> [Slots -> ErtsThrPrgrVal]]
      BY DEF IInv, WakeupType
    <3>4. [request EXCEPT ![u][ix] = val[u]] \in [Waiters -> [Slots -> ErtsThrPrgrVal]]
      BY <3>1, <3>3, NestedExcept
    <3> QED BY <3>2, <3>3, <3>4
  <2>4. sleeping' \in [Managed -> BOOLEAN] /\ woken' \in [Requesters -> BOOLEAN]
    BY Values, Ids DEF IInv, WakeupType, PlaceType
  <2> QED BY <2>1, <2>2, <2>3, <2>4 DEF WakeupType
<1>4. CtlInv'
  BY Ids DEF IInv, CtlInv, Ctl, PlaceType
<1>5. LeaderInv'
  BY Ids DEF IInv, LeaderInv, PlaceType
<1>6. TrackInv'
  BY Ids DEF IInv, TrackInv, Tracked, PlaceType
<1>7. CheckInv'
  BY Ids DEF IInv, CheckInv, Confirmed, Tracked, PlaceType
<1>8. PendInv'
  BY DEF IInv, PendInv, InsidePlaces, PlaceType
<1>9. AskInv'
  BY DEF IInv, AskInv
<1>10. WriteInv'
  <2>1. \A m \in Managed : pc'[m] = pc[m] /\ (m \in Askers => request'[m] = request[m])
    BY Ids DEF IInv, PlaceType, WakeupType
  <2> QED BY <2>1 DEF IInv, WriteInv, RequestValue
<1>11. SlotInv'
  <2>1. \A m \in Managed : pc'[m] = pc[m] /\ (m \in Askers => request'[m] = request[m])
    BY Ids DEF IInv, PlaceType, WakeupType
  <2> QED BY <2>1, Ids DEF IInv, SlotInv, Due
<1>12. RefcInv'
  BY Ids, RefcSame DEF IInv, PlaceType, Holds, HoldPlaces
<1>13. WatchInv'
  BY Ids DEF IInv, WatchInv, WaitedFor, PlaceType
<1>14. ValueType' /\ LeaderType' /\ HistoryType' /\ StateInv' /\ AheadInv'
  BY DEF IInv, ValueType, LeaderType, HistoryType, StateInv, AheadInv
<1> QED BY <1>1, <1>2, <1>3, <1>4, <1>5, <1>6, <1>7, <1>8, <1>9, <1>10, <1>11, <1>12, <1>13,
               <1>14 DEF IInv

\* It goes on without its request.
LEMMA UnmanagedWakeUpStep ==
  ASSUME IInv, NEW u \in Requesters, UnmanagedWakeUp(u)
  PROVE  IInv'
<1> USE DEF UnmanagedWakeUp, Goto, prgr, lead, lflgs, um, wakeups, history
<1>1. PlaceType'
  BY Values, Ids DEF IInv, PlaceType, ManagedPlaces, InsidePlaces, UpdatePlaces, LeadPlaces,
         CheckedPlaces, WatchPlaces, AfterPlaces, SleepPlaces, DelayPlaces, HoldPlaces,
         RequestPlaces
<1>2. LocalType'
  BY DEF IInv, LocalType
<1>3. WakeupType'
  BY DEF IInv, WakeupType
<1>4. CtlInv'
  BY Ids DEF IInv, CtlInv, Ctl, PlaceType
<1>5. LeaderInv'
  BY Ids DEF IInv, LeaderInv, PlaceType
<1>6. TrackInv'
  BY Ids DEF IInv, TrackInv, Tracked, PlaceType
<1>7. CheckInv'
  BY Ids DEF IInv, CheckInv, Confirmed, Tracked, PlaceType
<1>8. PendInv'
  BY DEF IInv, PendInv, InsidePlaces, PlaceType
<1>9. AskInv'
  BY DEF IInv, AskInv
<1>10. WriteInv'
  BY DEF IInv, WriteInv, RequestValue
<1>11. SlotInv'
  BY DEF IInv, SlotInv, Due
<1>12. RefcInv'
  BY Ids, RefcSame DEF IInv, PlaceType, Holds, HoldPlaces
<1>13. WatchInv'
  BY Ids DEF IInv, WatchInv, WaitedFor, PlaceType
<1>14. ValueType' /\ LeaderType' /\ HistoryType' /\ StateInv' /\ AheadInv'
  BY DEF IInv, ValueType, LeaderType, HistoryType, StateInv, AheadInv
<1> QED BY <1>1, <1>2, <1>3, <1>4, <1>5, <1>6, <1>7, <1>8, <1>9, <1>10, <1>11, <1>12, <1>13,
               <1>14 DEF IInv

\* The invariant holds initially.
LEMMA InitInv == Init => IInv
<1> SUFFICES ASSUME Init PROVE IInv
  OBVIOUS
<1> USE DEF Init
<1>1. PlaceType /\ CtlInv
  BY Ids DEF PlaceType, ManagedPlaces, InsidePlaces, DelayPlaces, RequestPlaces, CtlInv, Ctl
<1>2. LocalType /\ ValueType /\ current = 0 /\ 0 \in 0 .. MaxProgress
  BY Values DEF LocalType, NoLocals, ValueType, ERTS_THR_PRGR_VAL_FIRST
<1>3. LeaderType
  <2>1. 0 \in 0 .. MaxProgress + 1 /\ 0 \in 0 .. NoManaged
    BY Values
  <2>2. NotLeading \in [current : ErtsThrPrgrVal, next : 0 .. MaxProgress + 1,
                        chk_next_ix : 0 .. NoManaged,
                        um_current : {0, 1}, um_waiting : {-1, 0, 1}]
    BY <2>1, Values DEF NotLeading
  <2> QED BY <2>2 DEF LeaderType
<1>4. WakeupType
  <2>1. ASSUME NEW i \in Slots PROVE init_wakeup_request_array(current)[i] \in ErtsThrPrgrVal
    <3>1. current \in Int /\ ERTS_THR_PRGR_WAKEUP_DATA_SIZE + i \in Int /\ 1 \in Int
          /\ current \in ErtsThrPrgrVal
      BY <1>2, Values DEF Slots, ERTS_THR_PRGR_WAKEUP_DATA_SIZE
    <3> QED BY <3>1, SubType DEF init_wakeup_request_array
  <2>2. init_wakeup_request_array(current) \in [Slots -> ErtsThrPrgrVal]
    BY <2>1 DEF init_wakeup_request_array
  <2> QED BY <2>2 DEF WakeupType
<1>5. HistoryType /\ AheadInv /\ PendInv /\ AskInv
  BY Ids DEF HistoryType, AheadInv, PendInv, AskInv
<1>6. LeaderInv /\ StateInv /\ CheckInv
  BY DEF LeaderInv, StateInv, CheckInv, LeadPlaces, CheckedPlaces, WatchPlaces
<1>7. TrackInv /\ WriteInv
  BY <1>2 DEF TrackInv, WriteInv
<1>8. SlotInv
  BY DEF SlotInv
<1>9. RefcInv
  <2>1. \A i \in {0, 1} : {u \in Delayers : Holds(u, i)} = {}
    BY Ids DEF Holds, HoldPlaces
  <2>2. umrefc \in [{0, 1} -> Int] /\ \A i \in {0, 1} : umrefc[i] = 0
    OBVIOUS
  <2> HIDE DEF Init
  <2> QED BY <2>1, <2>2, FS_EmptySet, Zenon DEF RefcInv
<1>10. WatchInv
  BY Ids DEF WatchInv, WatchPlaces
<1> QED BY <1>1, <1>2, <1>3, <1>4, <1>5, <1>6, <1>7, <1>8, <1>9, <1>10 DEF IInv

\* It does not depend on anything else than the variables.
LEMMA StutterInv == IInv /\ UNCHANGED vars => IInv'
<1> SUFFICES ASSUME IInv, UNCHANGED vars PROVE IInv'
  OBVIOUS
<1> USE DEF vars, prgr, lead, lflgs, um, wakeups, events, history
<1>1. PlaceType' /\ LocalType' /\ ValueType' /\ LeaderType' /\ WakeupType' /\ HistoryType'
  BY DEF IInv, PlaceType, LocalType, ValueType, LeaderType, WakeupType, HistoryType
<1>2. CtlInv' /\ LeaderInv' /\ StateInv' /\ TrackInv' /\ CheckInv' /\ PendInv' /\ AheadInv'
  BY DEF IInv, CtlInv, Ctl, LeaderInv, StateInv, TrackInv, Tracked, CheckInv, Confirmed,
         PendInv, AheadInv
<1>3. AskInv' /\ WriteInv' /\ SlotInv' /\ RefcInv' /\ WatchInv'
  BY DEF IInv, AskInv, WriteInv, RequestValue, SlotInv, Due, RefcInv, Holds, WatchInv, WaitedFor
<1> QED BY <1>1, <1>2, <1>3 DEF IInv

\* The steps of the leader.
LEMMA LeaderSteps ==
  ASSUME IInv, NEW m \in Managed, LeaderUpdate(m)
  PROVE  IInv'
BY LeaderContinueStep, CheckManagedStep, CheckUnmanagedStep, CheckUnmanagedAgainStep,
   MakeProgressStep, StopProgressStep, HandleManagedStep, HandleUnmanagedStep, HandleBitsStep,
   HandleLenStep, ProgressedStep, RemainLeaderStep, StepDownStep, RecheckStep DEF LeaderUpdate

\* Every step keeps the invariant.
LEMMA NextInv == IInv /\ [Next]_vars => IInv'
<1> SUFFICES ASSUME IInv, [Next]_vars PROVE IInv'
  OBVIOUS
<1>1. ASSUME NEW m \in Managed, ManagedStep(m) PROVE IInv'
  <2>1. HasReached(m) => m \in Waiters
    BY DEF HasReached, WaitsForValue
  <2> QED BY <1>1, <2>1, LeaderSteps, HasReachedStep, RequestWakeupManagedStep,
             RequestWriteStep, UpdateStep, UpdateReadFlagsStep, SeizeLeadershipStep,
             WakeupIfRequestsStep, PrepareSpinWaitStep, DeactivateStep, StayInactiveStep,
             ActivateStep, PrepareWaitStep, PrepareWaitCheckStep, WakeUpStep,
             FinalizeWaitStep, FinalizeWaitCheckStep DEF ManagedStep
<1>2. ASSUME NEW u \in Delayers, DelayRead(u) \/ DelayerStep(u) PROVE IInv'
  BY <1>2, DelayReadStep, DelayIncStep, DelayCheckStep, UnmanagedContinueStep, ContinueCheckStep
     DEF DelayerStep
<1>3. ASSUME NEW u \in Requesters, RequesterStep(u) PROVE IInv'
  BY <1>3, Ids, HasReachedStep, NotReachedStep, RequestWakeupUnmanagedStep, RequestBitsStep,
     RequestLenStep, RequestCheckAgainStep, UnmanagedWakeUpStep DEF RequesterStep
<1> QED BY <1>1, <1>2, <1>3, StutterInv, ActivateStep, PokeStep, erts_thr_progress_laterStep
        DEF Next

-----------------------------------------------------------------------------
(* Theorems.                                                               *)

\* Every reachable state satisfies the invariant: what the leader has found of
\* other threads, the requests in the slots and the counters agree with where the
\* threads are.
THEOREM Invariance == Spec => []IInv
BY InitInv, NextInv, PTL DEF Spec

\* Type correctness: a counter never counts more than the unmanaged threads there are.
THEOREM TypeCorrect == Spec => []TypeOK
<1>1. ASSUME IInv PROVE TypeOK
  <2> USE <1>1 DEF IInv
  <2>1. current \in ProgressVal /\ 0 .. MaxProgress + 1 \subseteq ProgressVal
    BY Values DEF ValueType
  <2>2. umrefc \in [{0, 1} -> 0 .. Cardinality(Delayers)]
    <3>1. ASSUME NEW i \in {0, 1} PROVE umrefc[i] \in 0 .. Cardinality(Delayers)
      <4>1. {u \in Delayers : Holds(u, i)} \subseteq Delayers
        OBVIOUS
      <4>2. Cardinality({u \in Delayers : Holds(u, i)}) \in Nat
            /\ Cardinality(Delayers) \in Nat
            /\ Cardinality({u \in Delayers : Holds(u, i)}) <= Cardinality(Delayers)
        BY <4>1, ConstantsAssumption, FS_Subset, FS_CardinalityType
      <4>3. umrefc[i] = Cardinality({u \in Delayers : Holds(u, i)})
        BY DEF RefcInv
      <4> QED BY <4>2, <4>3
    <3> QED BY <3>1 DEF RefcInv
  <2>3. lstate \in [Managed -> [current : ErtsThrPrgrVal, next : ProgressVal,
                                chk_next_ix : 0 .. NoManaged,
                                um_current : {0, 1}, um_waiting : {-1, 0, 1}]]
    BY <2>1 DEF LeaderType
  <2> QED BY <2>1, <2>2, <2>3 DEF TypeOK, ValueType, LeaderType, WakeupType, HistoryType
<1> QED BY <1>1, Invariance, PTL

\* Only one thread at a time moves the progress value, however many try to take
\* over: the flag is cleared atomically, and set by the leader only.
THEOREM OneLeader == Spec => []AtMostOneLeader
<1>1. IInv => AtMostOneLeader
  BY DEF IInv, LeaderInv, AtMostOneLeader
<1> QED BY <1>1, Invariance, PTL

\* A thread that runs has confirmed the current or the next value, also one that
\* wakes up while the leader makes progress: the assertion in leader_update().
THEOREM RunningTracked == Spec => []RunningThreadsAreTracked
<1>1. IInv => RunningThreadsAreTracked
  BY DEF IInv, TrackInv, Tracked, InsidePlaces, Inside, RunningThreadsAreTracked
<1> QED BY <1>1, Invariance, PTL

\* The slot whose requests the leader handles is written by nobody, and holds
\* requests for its value only, each once: four slots are enough.
THEOREM RequestsMeet == Spec => []RequestsMeetTheirValue
<1>1. ASSUME IInv PROVE RequestsMeetTheirValue
  <2> SUFFICES ASSUME NEW m \in Managed, pc[m] = "handle"
               PROVE  LET ix == ERTS_THR_PRGR_WAKEUP_IX(current)
                      IN  /\ \A n \in Managed : pc[n] = "reqw" =>
                               ERTS_THR_PRGR_WAKEUP_IX(RequestValue(n)) # ix
                          /\ \A i \in 1 .. Len(mwd[ix]) : request[mwd[ix][i]][ix] = current
                          /\ \A i, j \in 1 .. Len(mwd[ix]) : mwd[ix][i] = mwd[ix][j] => i = j
    BY DEF RequestsMeetTheirValue
  <2>1. current \in Nat
    BY <1>1, Values DEF IInv, ValueType
  <2>2. ASSUME NEW n \in Managed, pc[n] = "reqw"
        PROVE  ERTS_THR_PRGR_WAKEUP_IX(RequestValue(n)) # ERTS_THR_PRGR_WAKEUP_IX(current)
    <3> DEFINE v == RequestValue(n)
    <3>1. v \in Nat /\ v > current /\ v <= current + 3
      BY <1>1, <2>2, Writing
    <3> HIDE DEF v
    <3>2. ERTS_THR_PRGR_WAKEUP_IX(v) # ERTS_THR_PRGR_WAKEUP_IX(current)
      BY <2>1, <3>1, SameSlot
    <3> QED BY <3>2 DEF v
  <2> DEFINE ix == ERTS_THR_PRGR_WAKEUP_IX(current)
  <2>3. ix \in Slots
    BY <2>1, SlotOf
  <2>4. ASSUME NEW i \in 1 .. Len(mwd[ix]) PROVE request[mwd[ix][i]][ix] = current
    <3> DEFINE v == request[mwd[ix][i]][ix]
    <3>1. mwd[ix][i] \in Askers /\ ERTS_THR_PRGR_WAKEUP_IX(v) = ix /\ v <= current + 3 /\ Due(v)
      BY <1>1, <2>3 DEF IInv, SlotInv
    <3>2. v \in Nat
      BY <1>1, <2>3, <3>1, Values, Ids DEF IInv, WakeupType
    <3> HIDE DEF v
    <3>3. current <= v
      BY <2>1, <3>1, <3>2 DEF Due
    <3>4. v = current
      BY <2>1, <3>1, <3>2, <3>3, SameSlot
    <3> QED BY <3>4 DEF v
  <2>5. \A i, j \in 1 .. Len(mwd[ix]) : mwd[ix][i] = mwd[ix][j] => i = j
    BY <1>1, <2>3 DEF IInv, SlotInv
  <2> QED BY <2>2, <2>4, <2>5
<1> QED BY <1>1, Invariance, PTL

\* A thread that delays progress is found: its counter is the one the leader looks
\* at first, or the one that this or the next leader waits for.
THEOREM DelayWatched == Spec => []DelayCounterIsWatched
<1>1. IInv => DelayCounterIsWatched
  BY DEF IInv, WatchInv, WaitedFor, Delaying, DelayCounterIsWatched
<1> QED BY <1>1, Invariance, PTL

-----------------------------------------------------------------------------
(* Thread progress implements the grace period.                            *)

\* What waiters still wait for.
Waits == [x \in Waiters |-> IF val[x] = None THEN None ELSE pend[x]]

\* Only m moves, perhaps inside, and nobody takes or gives up a value.
Moves(m) ==
  /\ UNCHANGED <<val, pend>>
  /\ \A n \in Managed \ {m} : pc'[n] = pc[n]
  /\ pc[m] \in InsidePlaces => pc'[m] \in InsidePlaces

\* Such a step of a thread is an entry, or nothing.
LEMMA MovesEnter ==
  ASSUME NEW m \in Managed, Moves(m)
  PROVE  UNCHANGED <<Inside, Waits>> \/ GP!Enter(m)
<1>1. Waits' = Waits
  BY DEF Moves, Waits
<1>2. Inside' = Inside \/ Inside' = Inside \cup {m}
  BY DEF Moves, Inside, InsidePlaces
<1> QED BY <1>1, <1>2 DEF GP!Enter, Waits

\* A thread that quiesces leaves.
LEMMA QuiesceLeaves ==
  ASSUME IInv, NEW m \in Managed, Quiesce(m), val' = val, pc'[m] \notin InsidePlaces,
         \A n \in Managed \ {m} : pc'[n] = pc[n]
  PROVE  GP!Leave(m)
<1>1. Inside' = Inside \ {m}
  BY DEF Inside, InsidePlaces
<1>2. \A x \in Waiters : pend[x] # None /\ pend'[x] = pend[x] \ {m}
  BY ConstantsAssumption DEF IInv, HistoryType, Quiesce
<1>3. Waits' = [x \in Waiters |-> IF Waits[x] = None THEN None ELSE Waits[x] \ {m}]
  BY <1>2 DEF Waits
<1> QED BY <1>1, <1>3 DEF GP!Leave, Waits

\* The steps of a leader that goes on with what it has begun.
LEMMA LeaderMoves ==
  ASSUME IInv, NEW m \in Managed, LeaderUpdate(m)
  PROVE  LeaderContinue(m) \/ Moves(m)
<1>1. CheckManaged(m) => Moves(m)
  BY DEF Moves, CheckManaged, Others, IsBehind, Goto, CheckFrom, prgr, lflgs, um, wakeups,
         events, history, IInv, PlaceType, InsidePlaces
<1>2. CheckUnmanaged(m) => Moves(m)
  BY DEF Moves, CheckUnmanaged, Goto, prgr, lflgs, wakeups, events, history, IInv, PlaceType,
         InsidePlaces
<1>3. CheckUnmanagedAgain(m) => Moves(m)
  BY DEF Moves, CheckUnmanagedAgain, Goto, prgr, lead, lflgs, um, wakeups, events, history,
         IInv, PlaceType, InsidePlaces
<1>4. MakeProgress(m) => Moves(m)
  BY DEF Moves, MakeProgress, Goto, Confirm, lflgs, um, wakeups, events, history, IInv,
         PlaceType, InsidePlaces
<1>5. StopProgress(m) => Moves(m)
  BY DEF Moves, StopProgress, Goto, prgr, lead, lflgs, um, wakeups, events, history, IInv,
         PlaceType, InsidePlaces
<1>6. HandleManaged(m) => Moves(m)
  BY DEF Moves, HandleManaged, Goto, prgr, lead, lflgs, um, history, IInv, PlaceType,
         InsidePlaces
<1>7. HandleUnmanaged(m) => Moves(m)
  BY DEF Moves, HandleUnmanaged, Goto, AfterWakeups, prgr, lead, lflgs, um, wakeups, history,
         IInv, PlaceType, InsidePlaces
<1>8. HandleBits(m) => Moves(m)
  BY DEF Moves, HandleBits, Goto, prgr, lead, lflgs, um, events, history, IInv, PlaceType,
         InsidePlaces
<1>9. HandleLen(m) => Moves(m)
  BY DEF Moves, HandleLen, Goto, AfterWakeups, prgr, lead, lflgs, um, events, history, IInv,
         PlaceType, InsidePlaces
<1>10. Progressed(m) => Moves(m)
  BY DEF Moves, Progressed, Goto, prgr, um, wakeups, events, history, IInv, PlaceType,
         InsidePlaces
<1>11. RemainLeader(m) => Moves(m)
  BY DEF Moves, RemainLeader, Return, Goto, NoLocals, prgr, lead, lflgs, um, wakeups, events,
         history, IInv, PlaceType, InsidePlaces, CtlInv, Ctl, UpdatePlaces, LeadPlaces,
         CheckedPlaces, WatchPlaces, AfterPlaces, SleepPlaces
<1>12. StepDown(m) => Moves(m)
  BY DEF Moves, StepDown, NotLeading, NoLocals, NoneActive, Goto, Return, prgr, wakeups, events,
         history, IInv, PlaceType, InsidePlaces, CtlInv, Ctl, UpdatePlaces, LeadPlaces,
         CheckedPlaces, WatchPlaces, AfterPlaces, SleepPlaces
<1>13. Recheck(m) => Moves(m)
  BY DEF Moves, Recheck, Goto, Return, NoLocals, prgr, lead, lflgs, um, wakeups, events,
         history, IInv, PlaceType, InsidePlaces, CtlInv, Ctl, UpdatePlaces, LeadPlaces,
         CheckedPlaces, WatchPlaces, AfterPlaces, SleepPlaces
<1> QED BY <1>1, <1>2, <1>3, <1>4, <1>5, <1>6, <1>7, <1>8, <1>9, <1>10, <1>11, <1>12, <1>13 DEF
               LeaderUpdate

\* The other steps of a thread that neither passes a point where it holds no
\* reference nor has waited for a value.
LEMMA ManagedMoves ==
  ASSUME IInv, NEW m \in Managed
  PROVE  /\ RequestWakeupManaged(m) \/ RequestWrite(m) \/ UpdateReadFlags(m) => Moves(m)
         /\ SeizeLeadership(m) \/ WakeupIfRequests(m) \/ PrepareSpinWait(m) => Moves(m)
         /\ Activate(m) \/ PrepareWait(m) \/ PrepareWaitCheck(m) \/ WakeUp(m) => Moves(m)
         /\ FinalizeWait(m) \/ FinalizeWaitCheck(m) \/ Poke(m) => Moves(m)
<1>1. RequestWakeupManaged(m) => Moves(m)
  BY DEF Moves, RequestWakeupManaged, WaitsForValue, Asked, Reached, RequestValue, Goto, prgr,
         lead, lflgs, um, history, IInv, PlaceType, InsidePlaces
<1>2. RequestWrite(m) => Moves(m)
  BY DEF Moves, RequestWrite, Return, Goto, RequestValue, prgr, lead, lflgs, um, events,
         history, IInv, PlaceType, InsidePlaces, CtlInv, Ctl, UpdatePlaces, LeadPlaces,
         CheckedPlaces, WatchPlaces, AfterPlaces, SleepPlaces
<1>3. UpdateReadFlags(m) => Moves(m)
  BY DEF Moves, UpdateReadFlags, NoneActive, Goto, Return, prgr, lead, lflgs, um, wakeups,
         events, history, IInv, PlaceType, InsidePlaces, CtlInv, Ctl, UpdatePlaces, LeadPlaces,
         CheckedPlaces, WatchPlaces, AfterPlaces, SleepPlaces
<1>4. SeizeLeadership(m) => Moves(m)
  BY DEF Moves, SeizeLeadership, TakeOver, Confirm, CheckFrom, Goto, Others, Return, um,
         wakeups, events, history, IInv, PlaceType, InsidePlaces, CtlInv, Ctl, UpdatePlaces,
         LeadPlaces, CheckedPlaces, WatchPlaces, AfterPlaces, SleepPlaces
<1>5. WakeupIfRequests(m) => Moves(m)
  BY DEF Moves, WakeupIfRequests, Return, Goto, got_sched_wakeups, WakeupAux, prgr, lead, lflgs,
         um, wakeups, history, IInv, PlaceType, InsidePlaces, CtlInv, Ctl, UpdatePlaces,
         LeadPlaces, CheckedPlaces, WatchPlaces, AfterPlaces, SleepPlaces
<1>6. PrepareSpinWait(m) => Moves(m)
  BY DEF Moves, PrepareSpinWait, Goto, prgr, lead, lflgs, um, wakeups, history, IInv, PlaceType,
         InsidePlaces
<1>7. Activate(m) => Moves(m)
  BY DEF Moves, Activate, Goto, prgr, lead, um, wakeups, history, IInv, PlaceType, InsidePlaces
<1>8. PrepareWait(m) => Moves(m)
  BY DEF Moves, PrepareWait, Goto, Confirm, lead, lflgs, um, wakeups, events, history, IInv,
         PlaceType, InsidePlaces
<1>9. PrepareWaitCheck(m) => Moves(m)
  BY DEF Moves, PrepareWaitCheck, NoneActive, Goto, prgr, lead, lflgs, um, wakeups, events,
         history, IInv, PlaceType, InsidePlaces
<1>10. WakeUp(m) => Moves(m)
  BY DEF Moves, WakeUp, Goto, prgr, lead, lflgs, um, wakeups, events, history, IInv, PlaceType,
         InsidePlaces
<1>11. FinalizeWait(m) => Moves(m)
  BY DEF Moves, FinalizeWait, Goto, Confirm, lead, lflgs, um, wakeups, events, history, IInv,
         PlaceType, InsidePlaces
<1>12. FinalizeWaitCheck(m) => Moves(m)
  BY DEF Moves, FinalizeWaitCheck, Goto, prgr, lead, lflgs, um, wakeups, events, history, IInv,
         PlaceType, InsidePlaces
<1>13. Poke(m) => Moves(m)
  BY DEF Moves, Poke, prgr, lead, lflgs, um, wakeups, history, IInv, PlaceType, InsidePlaces
<1> QED BY <1>1, <1>2, <1>3, <1>4, <1>5, <1>6, <1>7, <1>8, <1>9, <1>10, <1>11, <1>12, <1>13

\* The value is reached only when all have left that were inside when it was taken.
LEMMA ReachedHasWaited ==
  ASSUME IInv, NEW x \in Waiters, val[x] # None, Reached(val[x])
  PROVE  pend[x] = {}
<1> SUFFICES ASSUME NEW n \in pend[x] PROVE FALSE
  OBVIOUS
<1>1. n \in Managed /\ pc[n] \in InsidePlaces /\ thr[n] < val[x]
  BY DEF IInv, HistoryType, PendInv
<1>2. current \in 0 .. MaxProgress /\ MaxProgress \in Nat /\ Inc(current) = current + 1
  <2>1. current \in 0 .. MaxProgress /\ MaxProgress \in Nat
    BY Values DEF IInv, ValueType
  <2> QED BY <2>1, Values
<1>3. val[x] \in 0 .. MaxProgress /\ val[x] <= current + 3
  BY Values DEF IInv, AheadInv, HistoryType
<1>4. current >= val[x]
  BY <1>2, <1>3, ReachedIs DEF Reached
<1>5. thr[n] \in {current, current + 1}
  BY <1>1, <1>2 DEF IInv, TrackInv, Tracked
<1> QED BY <1>1, <1>2, <1>3, <1>4, <1>5

\* Initially nobody waits.
LEMMA InitRefines == Init => GP!Init
BY DEF Init, GP!Init, Inside

\* Every step is one of the grace period, or changes nothing in it.
LEMMA NextRefines == IInv /\ [Next]_vars => [GP!Next]_<<Inside, Waits>>
<1> SUFFICES ASSUME IInv, [Next]_vars PROVE UNCHANGED <<Inside, Waits>> \/ GP!Next
  OBVIOUS
<1>1. ASSUME NEW x \in Waiters, HasReached(x) PROVE GP!Finish(x)
  <2>1. Waits[x] = {} /\ Waits' = [Waits EXCEPT ![x] = None] /\ Inside' = Inside
    BY <1>1, ReachedHasWaited
       DEF HasReached, WaitsForValue, Waits, Inside, IInv, HistoryType
  <2> QED BY <2>1 DEF GP!Finish, Waits
<1>2. ASSUME NEW x \in Waiters, erts_thr_progress_later(x) PROVE GP!Start(x)
  <2>1. \E v : v # None /\ Take(x, v)
    <3>1. current_to_later(current) # None
      BY Values DEF IInv, ValueType
    <3>2. x \in Askers /\ pc[x] = "run" => current_to_later(confirmed[x]) # None
      <4> SUFFICES ASSUME x \in Askers, pc[x] = "run"
                   PROVE  current_to_later(confirmed[x]) # None
        OBVIOUS
      <4>1. confirmed[x] \in {current, Inc(current)} /\ current \in 0 .. MaxProgress
        BY Ids DEF IInv, ValueType, TrackInv, Tracked, InsidePlaces
      <4>2. confirmed[x] \in 0 .. MaxProgress + 1
        BY <4>1, Values
      <4> QED BY <4>2, Values
    <3> QED BY <1>2, <3>1, <3>2 DEF erts_thr_progress_later
  <2>2. PICK v : v # None /\ Take(x, v)
    BY <2>1
  <2>3. Waits[x] = None /\ Waits' = [Waits EXCEPT ![x] = Inside]
    BY <2>2 DEF Take, Waits, IInv, HistoryType
  <2>4. Inside' = Inside
    BY <1>2 DEF erts_thr_progress_later, Inside
  <2> QED BY <2>3, <2>4 DEF GP!Start, Waits
<1>3. ASSUME NEW m \in Managed, Update(m) \/ LeaderContinue(m) PROVE GP!Leave(m)
  <2>1. /\ Quiesce(m) /\ val' = val /\ pc'[m] \notin InsidePlaces
        /\ \A n \in Managed \ {m} : pc'[n] = pc[n]
    BY <1>3 DEF Update, LeaderContinue, CheckFrom, Goto, IInv, PlaceType, InsidePlaces
  <2> QED BY <2>1, QuiesceLeaves
<1>4. ASSUME NEW m \in Managed, Deactivate(m) \/ StayInactive(m) PROVE GP!Leave(m)
  <2>1. /\ Quiesce(m) /\ val' = val /\ pc'[m] \notin InsidePlaces
        /\ \A n \in Managed \ {m} : pc'[n] = pc[n]
    BY <1>4 DEF Deactivate, StayInactive, Goto, IInv, PlaceType, InsidePlaces
  <2> QED BY <2>1, QuiesceLeaves
<1>5. ASSUME NEW m \in Managed, Moves(m) PROVE UNCHANGED <<Inside, Waits>> \/ GP!Next
  BY <1>5, MovesEnter DEF GP!Next
<1>6. ASSUME UNCHANGED <<val, pend>>, \A n \in Managed : pc'[n] = pc[n]
      PROVE  UNCHANGED <<Inside, Waits>>
  BY <1>6 DEF Inside, Waits
<1>7. ASSUME NEW m \in Managed, ManagedStep(m) \/ Activate(m) \/ Poke(m)
      PROVE  UNCHANGED <<Inside, Waits>> \/ GP!Next
  <2>1. HasReached(m) => m \in Waiters
    BY DEF HasReached, WaitsForValue
  <2>2. CASE HasReached(m) \/ Update(m) \/ LeaderContinue(m) \/ Deactivate(m) \/ StayInactive(m)
    BY <2>1, <2>2, <1>1, <1>3, <1>4 DEF GP!Next
  <2>3. CASE Moves(m)
    BY <2>3, <1>5
  <2> QED BY <1>7, <2>2, <2>3, LeaderMoves, ManagedMoves DEF ManagedStep
<1>8. ASSUME NEW u \in Delayers, DelayRead(u) \/ DelayerStep(u)
      PROVE  UNCHANGED <<Inside, Waits>>
  <2>1. UNCHANGED <<val, pend>> /\ \A n \in Managed : pc'[n] = pc[n]
    BY <1>8, Ids DEF DelayRead, DelayerStep, DelayInc, DelayCheck, UnmanagedContinue,
                     ContinueCheck, Goto, history, IInv, PlaceType
  <2> QED BY <2>1, <1>6
<1>9. ASSUME NEW u \in Requesters, RequesterStep(u)
      PROVE  UNCHANGED <<Inside, Waits>> \/ GP!Next
  <2>1. CASE HasReached(u)
    BY <2>1, <1>1, Ids DEF GP!Next
  <2>2. CASE ~ HasReached(u)
    <3>1. UNCHANGED <<val, pend>> /\ \A n \in Managed : pc'[n] = pc[n]
      BY <1>9, <2>2, Ids DEF RequesterStep, NotReached, RequestWakeupUnmanaged, RequestBits,
                             RequestLen, RequestCheckAgain, UnmanagedWakeUp, Goto, history,
                             IInv, PlaceType
    <3> QED BY <3>1, <1>6
  <2> QED BY <2>1, <2>2
<1>10. CASE UNCHANGED vars
  BY <1>10, <1>6 DEF vars, history
<1>11. ASSUME NEW x \in Waiters, erts_thr_progress_later(x) PROVE GP!Next
  BY <1>11, <1>2 DEF GP!Next
<1> QED BY <1>7, <1>8, <1>9, <1>10, <1>11 DEF Next

\* A thread that finds its value reached may free what it has unlinked: all managed
\* threads that ran when it took the value have been outside since, through changes
\* of the leader, threads that sleep and wake up, and requests in between.
THEOREM Refinement == Spec => ImplementsGracePeriod
<1>1. [GP!Next]_<<Inside, Waits>>
        => [GP!Next]_<<Inside, [x \in Waiters |-> IF val[x] = None THEN None ELSE pend[x]]>>
  BY DEF Waits
<1>2. IInv /\ [Next]_vars
        => [GP!Next]_<<Inside, [x \in Waiters |-> IF val[x] = None THEN None ELSE pend[x]]>>
  BY <1>1, NextRefines
<1> QED BY <1>2, InitRefines, Invariance, PTL
        DEF Spec, ImplementsGracePeriod, GP!Spec, GP!vars
=============================================================================

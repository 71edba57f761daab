------------------------------ MODULE ThrQueue ------------------------------
(***************************************************************************)
(* The lock free thread queue: erl_thr_queue.c, with its two kinds of      *)
(* consumer, the handler of misc aux work in erl_process.c (automatic) and *)
(* the async threads of erl_async.c (which pass dequeued elements on, to   *)
(* be freed by another thread).                                            *)
(*                                                                         *)
(* Elements are linked by next.  tail.last may lag behind the last         *)
(* element; head is the last element delivered; first .. head are          *)
(* delivered elements not yet reclaimed.  An element may be reclaimed when *)
(* no producer can still hold a pointer to it: managed producers are       *)
(* waited for with thread progress, unmanaged ones with two counters.  The *)
(* marker is an element of the queue's own that takes the place of the     *)
(* last one, so that all others can be reclaimed.                          *)
(***************************************************************************)
EXTENDS Integers, FiniteSets, Sequences, FiniteSetsExt

CONSTANTS Managed, Unmanaged,  \* the producers
          Consumer,            \* the thread that dequeues
          El,                  \* bound: the elements there are, a set of numbers
          Marker, Null,        \* &q->tail.data.marker, NULL
          MaxManaged,          \* bounds: items of each managed producer
          MaxUnmanaged,        \* and of each unmanaged one
          DequeueCleanOps,     \* ERTS_THR_Q_MAX_DEQUEUE_CLEAN_OPS
          SchedCleanOps,       \* ERTS_THR_Q_MAX_SCHED_CLEAN_OPS
          CleanReachedHead,    \* ERTS_THR_Q_MAX_CLEAN_REACHED_HEAD_COUNT
          FiniDeqOps           \* ERTS_THR_Q_MAX_FINI_DEQ_OPS

ASSUME ConstantsAssumption ==
  /\ Managed \cap Unmanaged = {} /\ Consumer \notin Managed \cup Unmanaged
  /\ IsFiniteSet(Unmanaged) /\ IsFiniteSet(El)
  /\ El \subseteq Nat /\ Marker \notin El /\ Null \notin El \cup {Marker}
  /\ MaxManaged \in Nat /\ MaxUnmanaged \in Nat
  /\ DequeueCleanOps \in Nat /\ SchedCleanOps \in Nat
  /\ CleanReachedHead \in Nat /\ FiniDeqOps \in Nat

Producers == Managed \cup Unmanaged
Threads == Producers \cup {Consumer}
Element == El \cup {Marker}

VARIABLES
  \* elements
  next, data,       \* the fields of an element
  live,             \* the elements that are allocated
  \* q->tail
  last, um_refc, um_refc_ix,
  \* q->head
  head, first, unref_end, used_marker, clean_reached_head_count,
  deq_fini,         \* q->head.deq_fini: automatic, start and end
  nxt,              \* q->head.next: um_refc_ix, unref_end, thr_progress_reached
  grace,            \* managed producers that next.thr_progress still waits for
  \* the consumer's notifications
  event,            \* the consumer is not to sleep
  misc, misc_prgr,  \* ERTS_SSI_AUX_WORK_MISC and _MISC_THR_PRGR
  wakeup,           \* state of the request to be woken at next.thr_progress
  fin_deq,          \* async_get(): list of elements saved to be freed
  arq_fin_deq,      \* arq->fin_deq: list handed over to a scheduler
  \* threads
  pc, this, ilast, um_ix,
  call,             \* arguments and return points of the consumer's calls
  sent, got         \* items linked and items delivered

elements == <<next, data, live>>
tail == <<last, um_refc, um_refc_ix>>
reclaim == <<first, unref_end, clean_reached_head_count, deq_fini, nxt, grace>>
notes == <<event, misc, misc_prgr, wakeup>>
lists == <<fin_deq, arq_fin_deq>>
locals == <<this, ilast, um_ix, call>>
counts == <<sent, got>>
vars == <<elements, tail, head, used_marker, reclaim, notes, lists, pc, locals, counts>>

Empty == [start |-> Null, end |-> Null]
NoCall == [ops |-> 0, max |-> 0, notify |-> FALSE, ret |-> "none", mret |-> "none"]

Init ==
  /\ next = [e \in Element |-> Null] /\ data = [e \in Element |-> Null] /\ live = {}
  /\ last = Marker /\ um_refc = [i \in 0 .. 1 |-> 0] /\ um_refc_ix = 0
  /\ head = Marker /\ first = Marker /\ unref_end = Marker
  /\ used_marker = TRUE /\ clean_reached_head_count = 0
  /\ \E a \in BOOLEAN :
       /\ deq_fini = [automatic |-> a, start |-> Null, end |-> Null]
       /\ pc = [t \in Threads |-> IF t # Consumer THEN "idle"
                                  ELSE IF a THEN "wait" ELSE "dequeue"]
  /\ nxt = [um_refc_ix |-> 1, unref_end |-> Marker, reached |-> TRUE] /\ grace = {}
  /\ event = FALSE /\ misc = FALSE /\ misc_prgr = FALSE /\ wakeup = "none"
  /\ fin_deq = Empty /\ arq_fin_deq = Empty
  /\ this = [t \in Threads |-> Null] /\ ilast = [t \in Threads |-> Null]
  /\ um_ix = [t \in Unmanaged |-> 0] /\ call = NoCall
  /\ sent = [p \in Producers |-> 0] /\ got = 0

Goto(t, from, to) == pc[t] = from /\ pc' = [pc EXCEPT ![t] = to]

\* q->head.notify() and q->tail.data.notify(): notify_aux_work() sets the
\* flag and wakes the scheduler, async_wakeup() sets the thread's event.
Notify ==
  /\ event' = TRUE
  /\ misc' = (misc \/ deq_fini.automatic)
  /\ UNCHANGED <<misc_prgr, wakeup>>

-----------------------------------------------------------------------------
(* enqueue(): run by producers, and in part by the consumer for the marker. *)
(* A step is one access to what other threads write, with what follows it  *)
(* up to the next.                                                         *)

Free == El \ live

\* The result of enqueue_managed() is known: whoever has moved the last
\* pointer to its own element notifies.
Linked(t, result) == IF t \notin Managed THEN "linked"
                     ELSE IF result = this[t] THEN "notify" ELSE "idle"

\* A producer needs its pointers until then.
Leave(t, from, to, result) ==
  LET done == to \in {"notify", "idle"} IN
  /\ Goto(t, from, to)
  /\ this' = [this EXCEPT ![t] = IF done THEN Null ELSE @]
  /\ ilast' = [ilast EXCEPT ![t] = IF done THEN Null ELSE result]

\* enqueue_managed() starts with the last pointer.
ReadLast(t, e) ==
  /\ next' = [next EXCEPT ![e] = Null]
  /\ this' = [this EXCEPT ![t] = e]
  /\ ilast' = [ilast EXCEPT ![t] = last]

\* erts_thr_q_enqueue() and erts_thr_q_enqueue_prepared()
EnqStart(p) ==
  LET e == Min(Free) IN
  /\ sent[p] < (IF p \in Managed THEN MaxManaged ELSE MaxUnmanaged) /\ Free # {}
  /\ live' = live \cup {e}
  /\ data' = [data EXCEPT ![e] = <<p, sent[p] + 1>>]
  /\ IF p \in Managed
     THEN Goto(p, "idle", "link") /\ ReadLast(p, e) /\ UNCHANGED um_ix
     ELSE /\ Goto(p, "idle", "inc")
          /\ um_ix' = [um_ix EXCEPT ![p] = um_refc_ix]
          /\ this' = [this EXCEPT ![p] = e] /\ UNCHANGED <<next, ilast>>
  /\ UNCHANGED <<tail, head, used_marker, reclaim, notes, lists, call, counts>>

EnqInc(p) ==
  /\ Goto(p, "inc", "reread_ix")
  /\ um_refc' = [um_refc EXCEPT ![um_ix[p]] = @ + 1]
  /\ UNCHANGED <<elements, last, um_refc_ix, head, used_marker, reclaim, notes, lists,
                 locals, counts>>

EnqRereadIx(p) ==
  /\ Goto(p, "reread_ix", IF um_refc_ix = um_ix[p] THEN "init" ELSE "dec")
  /\ UNCHANGED <<elements, tail, head, used_marker, reclaim, notes, lists, locals, counts>>

\* Back to the counter that was read the second time.
EnqDec(p) ==
  /\ Goto(p, "dec", "inc")
  /\ um_refc' = [um_refc EXCEPT ![um_ix[p]] = @ - 1]
  /\ um_ix' = [um_ix EXCEPT ![p] = 1 - @]
  /\ UNCHANGED <<elements, last, um_refc_ix, head, used_marker, reclaim, notes, lists,
                 this, ilast, call, counts>>

EnqInit(p) ==
  /\ Goto(p, "init", "link") /\ ReadLast(p, this[p])
  /\ UNCHANGED <<data, live, tail, head, used_marker, reclaim, notes, lists, um_ix, call,
                 counts>>

\* The compare and exchange on last->next.
EnqLink(t) ==
  /\ Goto(t, "link", "check") /\ next[ilast[t]] = Null
  /\ next' = [next EXCEPT ![ilast[t]] = this[t]]
  /\ sent' = IF t = Consumer THEN sent ELSE [sent EXCEPT ![t] = @ + 1]
  /\ UNCHANGED <<data, live, tail, head, used_marker, reclaim, notes, lists, locals, got>>

EnqFollow(t) ==
  /\ pc[t] = "link" /\ next[ilast[t]] # Null
  /\ ilast' = [ilast EXCEPT ![t] = next[ilast[t]]]
  /\ UNCHANGED <<elements, tail, head, used_marker, reclaim, notes, lists, pc, this,
                 um_ix, call, counts>>

\* Someone behind us will move the last pointer.
EnqCheck(t) ==
  /\ Goto(t, "check", IF next[this[t]] # Null THEN "reread" ELSE "move")
  /\ UNCHANGED <<elements, tail, head, used_marker, reclaim, notes, lists, locals, counts>>

EnqReread(t) ==
  /\ Leave(t, "reread", Linked(t, last), last)
  /\ UNCHANGED <<elements, tail, head, used_marker, reclaim, notes, lists, um_ix, call,
                 counts>>

\* The compare and exchange on tail.last; ilast is the result in the end.
EnqMove(t) ==
  /\ IF last = ilast[t]
     THEN Leave(t, "move", Linked(t, this[t]), this[t]) /\ last' = this[t]
     ELSE Leave(t, "move", "check", last) /\ UNCHANGED last
  /\ UNCHANGED <<elements, um_refc, um_refc_ix, head, used_marker, reclaim, notes,
                 lists, um_ix, call, counts>>

enqueue_managed(t) == EnqLink(t) \/ EnqFollow(t) \/ EnqCheck(t) \/ EnqReread(t)
                      \/ EnqMove(t)

\* An unmanaged producer that is the last to drop its reference notifies too.
EnqUnref(p) ==
  /\ p \in Unmanaged
  /\ um_refc' = [um_refc EXCEPT ![um_ix[p]] = @ - 1]
  /\ Leave(p, "linked", IF ilast[p] = this[p] \/ um_refc'[um_ix[p]] = 0
                        THEN "notify" ELSE "idle", Null)
  /\ um_ix' = [um_ix EXCEPT ![p] = 0]
  /\ UNCHANGED <<elements, last, um_refc_ix, head, used_marker, reclaim, notes, lists,
                 call, counts>>

EnqNotify(p) ==
  /\ Goto(p, "notify", "idle") /\ Notify
  /\ UNCHANGED <<elements, tail, head, used_marker, reclaim, lists, locals, counts>>

Enqueue(p) == EnqInc(p) \/ EnqRereadIx(p) \/ EnqDec(p) \/ EnqInit(p)
              \/ enqueue_managed(p) \/ EnqUnref(p) \/ EnqNotify(p)

\* Thread progress (ThrProgress): a managed producer that is not in the queue
\* updates its progress.
Quiesce(p) ==
  /\ p \in grace /\ pc[p] = "idle"
  /\ grace' = grace \ {p}
  /\ UNCHANGED <<elements, tail, head, used_marker, first, unref_end, nxt, deq_fini,
                 clean_reached_head_count, notes, lists, pc, locals, counts>>

-----------------------------------------------------------------------------
(* clean(): reclaim delivered elements.                                    *)

\* element_free(); nobody reads a freed element (NoUseAfterFree).
FreeElements(S) ==
  /\ live' = live \ S
  /\ next' = [e \in Element |-> IF e \in S THEN Null ELSE next[e]]
  /\ data' = [e \in Element |-> IF e \in S THEN Null ELSE data[e]]

StartClean(from, max, notify, ret) ==
  /\ Goto(Consumer, from, "clean")
  /\ call' = [NoCall EXCEPT !.max = max, !.notify = notify, !.ret = ret]

\* Mutant: does not ask to be woken.
ReturnUnasked(from, result) ==
  /\ call' = NoCall
  /\ Goto(Consumer, from,
          CASE call.ret = "dequeue" -> IF deq_fini.automatic THEN "dequeue" ELSE "job"
            [] call.ret = "clean" /\ deq_fini.automatic -> "misc"
            [] OTHER -> IF result = "dirty" THEN "dequeue" ELSE "reset")
  /\ IF call.ret = "clean" /\ deq_fini.automatic
     THEN /\ misc' = (misc \/ result = "dirty")
          /\ misc_prgr' = (misc_prgr \/ result = "need_thr_prgr")
          /\ UNCHANGED <<wakeup, event>>
     ELSE IF result = "dirty" /\ call.notify THEN Notify ELSE UNCHANGED notes

\* Where the consumer goes on: erts_thr_q_dequeue() ignores the result.
\* misc_aux_work_clean() sets flags, async_get() looks again or sleeps.
Return(from, result) ==
  /\ call' = NoCall
  /\ Goto(Consumer, from,
          CASE call.ret = "dequeue" -> IF deq_fini.automatic THEN "dequeue" ELSE "job"
            [] call.ret = "clean" /\ deq_fini.automatic -> "misc"
            [] OTHER -> IF result = "dirty" THEN "dequeue" ELSE "reset")
  /\ IF call.ret = "clean" /\ deq_fini.automatic
     THEN /\ misc' = (misc \/ result = "dirty")
          /\ misc_prgr' = (misc_prgr \/ result = "need_thr_prgr")
          /\ wakeup' = IF result = "need_thr_prgr" /\ wakeup = "none" THEN "asked"
                       ELSE wakeup
          /\ event' = event
     ELSE IF result = "dirty" /\ call.notify THEN Notify ELSE UNCHANGED notes

\* The element is freed, or put into the list of elements to free.
Reclaim(e) ==
  IF deq_fini.automatic
  THEN FreeElements({e}) /\ UNCHANGED deq_fini
  ELSE /\ deq_fini' = [deq_fini EXCEPT !.start = IF @ = Null THEN e ELSE @, !.end = e]
       /\ next' = IF deq_fini.start # Null /\ next[deq_fini.end] = Marker
                  THEN [next EXCEPT ![deq_fini.end] = e] ELSE next
       /\ UNCHANGED <<data, live>>

CleanFirst ==
  /\ pc[Consumer] = "clean" /\ first \notin {head, unref_end} /\ call.ops < call.max
  /\ first' = next[first]
  /\ IF first = Marker
     THEN used_marker' = FALSE /\ UNCHANGED <<elements, deq_fini, call>>
     ELSE /\ Reclaim(first)
          /\ call' = [call EXCEPT !.ops = @ + 1] /\ UNCHANGED used_marker
  /\ UNCHANGED <<tail, head, unref_end, nxt, grace, clean_reached_head_count, notes,
                 lists, pc, this, ilast, um_ix, counts>>

\* inspect_head: the marker goes behind a last element that is delivered.
InspectHead(from) ==
  IF ~used_marker /\ next[head] = Null
  THEN /\ Goto(Consumer, from, "marker")
       /\ call' = [call EXCEPT !.mret = "inspect_head"] /\ UNCHANGED notes
  ELSE Return(from, "clean")

\* All delivered elements are reclaimed; once in a while go on all the same.
CleanReachesHead ==
  /\ pc[Consumer] = "clean" /\ first = head /\ call.ops < call.max
  /\ clean_reached_head_count + 1 < CleanReachedHead
  /\ clean_reached_head_count' = clean_reached_head_count + 1
  /\ InspectHead("clean")
  /\ UNCHANGED <<elements, tail, head, used_marker, first, unref_end, nxt, grace,
                 deq_fini, lists, this, ilast, um_ix, counts>>

\* Read the last pointer: the queue may be empty and clean.
CleanReadLast ==
  /\ \/ /\ call.ops = call.max \/ (first = unref_end /\ first # head)
        /\ UNCHANGED clean_reached_head_count
     \/ /\ first = head /\ call.ops < call.max
        /\ clean_reached_head_count + 1 >= CleanReachedHead
        /\ clean_reached_head_count' = 0
  /\ IF first = Marker /\ last = Marker
     THEN Return("clean", "clean") /\ UNCHANGED ilast
     ELSE /\ Goto(Consumer, "clean", "move_unref")
          /\ ilast' = [ilast EXCEPT ![Consumer] = last] /\ UNCHANGED <<call, notes>>
  /\ UNCHANGED <<elements, tail, head, used_marker, first, unref_end, nxt, grace,
                 deq_fini, lists, this, um_ix, counts>>

\* Start the next grace period, unless the queue has not grown.  After
\* erts_thr_progress_later() new unmanaged producers use the other counter.
NextUnref(from, end, unref) ==
  IF unref = end
  THEN Goto(Consumer, from, "head") /\ UNCHANGED <<grace, wakeup>>
       /\ nxt' = [nxt EXCEPT !.reached = TRUE]
  ELSE /\ Goto(Consumer, from, "switch")
       /\ nxt' = [nxt EXCEPT !.unref_end = end, !.reached = FALSE]
       /\ grace' = Managed /\ wakeup' = "none"

\* Move the unreferenced end pointer when its grace period is over: no
\* managed and no unmanaged producer has a pointer from before it began.
CleanMoveUnref ==
  LET reached == nxt.reached \/ grace = {}
      move == reached /\ um_refc[nxt.um_refc_ix] = 0
      end == ilast[Consumer]
  IN  /\ unref_end' = IF move THEN nxt.unref_end ELSE unref_end
      /\ clean_reached_head_count' = IF move THEN 0 ELSE clean_reached_head_count
      /\ IF move /\ (used_marker \/ nxt.unref_end # end)
         THEN NextUnref("move_unref", end, nxt.unref_end) /\ UNCHANGED call
         ELSE /\ Goto(Consumer, "move_unref", IF move THEN "marker" ELSE "head")
              /\ call' = IF move THEN [call EXCEPT !.mret = "next_unref"] ELSE call
              /\ nxt' = [nxt EXCEPT !.reached = reached] /\ UNCHANGED <<grace, wakeup>>
      /\ ilast' = [ilast EXCEPT ![Consumer] = Null]
      /\ UNCHANGED <<elements, tail, head, used_marker, first, deq_fini, event, misc,
                     misc_prgr, lists, this, um_ix, counts>>

\* Mutant: the counter is not switched.
CleanKeepIx ==
  /\ Goto(Consumer, "switch", "head")
  /\ UNCHANGED <<elements, tail, head, used_marker, reclaim, notes, lists, locals, counts>>

CleanSwitch ==
  /\ Goto(Consumer, "switch", "head")
  /\ um_refc_ix' = nxt.um_refc_ix
  /\ nxt' = [nxt EXCEPT !.um_refc_ix = 1 - @]
  /\ UNCHANGED <<elements, last, um_refc, head, used_marker, first, unref_end, grace,
                 clean_reached_head_count, deq_fini, notes, lists, locals, counts>>

\* check_thr_progress, also of erts_thr_q_inspect()
NeedThrPrgr == IF nxt.reached /\ um_refc[nxt.um_refc_ix] = 0 THEN "dirty"
               ELSE "need_thr_prgr"

CleanHead ==
  /\ CASE first = head -> InspectHead("head")
       [] first # head /\ first # unref_end -> Return("head", "dirty")
       [] OTHER -> Return("head", NeedThrPrgr)
  /\ UNCHANGED <<elements, tail, head, used_marker, reclaim, lists, this, ilast, um_ix,
                 counts>>

\* enqueue_marker() starts,
MarkerStart ==
  /\ Goto(Consumer, "marker", "link") /\ ReadLast(Consumer, Marker)
  /\ used_marker' = TRUE
  /\ UNCHANGED <<data, live, tail, head, reclaim, notes, lists, um_ix, call, counts>>

\* Mutant: an item linked before the marker is not notified.
MarkerSilent ==
  /\ head' = IF next[head] = Marker THEN Marker ELSE head
  /\ IF call.mret = "next_unref"
     THEN NextUnref("linked", ilast[Consumer], unref_end)
     ELSE Goto(Consumer, "linked", "inspected") /\ UNCHANGED <<nxt, grace, wakeup>>
  /\ this' = [this EXCEPT ![Consumer] = Null] /\ ilast' = [ilast EXCEPT ![Consumer] = Null]
  /\ UNCHANGED <<elements, tail, used_marker, first, unref_end, clean_reached_head_count,
                 deq_fini, event, misc, misc_prgr, lists, um_ix, call, counts>>

\* and ends: the head moves to a marker right behind it.  An item that was
\* linked in between may have left the last pointer, and so its
\* notification, to us.
MarkerDone ==
  /\ IF next[head] = Marker
     THEN head' = Marker /\ UNCHANGED <<event, misc, misc_prgr>>
     ELSE /\ UNCHANGED <<head, misc_prgr>>
          /\ event' = (event \/ ilast[Consumer] = Marker)
          /\ misc' = (misc \/ (deq_fini.automatic /\ ilast[Consumer] = Marker))
  /\ IF call.mret = "next_unref"
     THEN NextUnref("linked", ilast[Consumer], unref_end)
     ELSE Goto(Consumer, "linked", "inspected") /\ UNCHANGED <<nxt, grace, wakeup>>
  /\ this' = [this EXCEPT ![Consumer] = Null] /\ ilast' = [ilast EXCEPT ![Consumer] = Null]
  /\ UNCHANGED <<elements, tail, used_marker, first, unref_end, clean_reached_head_count,
                 deq_fini, lists, um_ix, call, counts>>

\* inspect_head goes on after enqueue_marker().
CleanInspected ==
  /\ Return("inspected", IF head = Marker THEN NeedThrPrgr ELSE "clean")
  /\ UNCHANGED <<elements, tail, head, used_marker, reclaim, lists, this, ilast, um_ix,
                 counts>>

clean == \/ CleanFirst \/ CleanReachesHead \/ CleanReadLast \/ CleanMoveUnref
         \/ CleanSwitch \/ CleanHead \/ CleanInspected
         \/ MarkerStart \/ enqueue_managed(Consumer) \/ MarkerDone

-----------------------------------------------------------------------------
(* erts_thr_q_dequeue() and the consumers.                                 *)

\* Mutant: delivers the marker.
DequeueMarker ==
  IF next[head] = Null
  THEN /\ StartClean("dequeue", SchedCleanOps, FALSE, "clean")
       /\ UNCHANGED <<elements, tail, head, used_marker, reclaim, notes, lists, this,
                      ilast, um_ix, counts>>
  ELSE /\ head' = next[head] /\ got' = got + 1
       /\ StartClean("dequeue", SchedCleanOps, TRUE, "dequeue")
       /\ UNCHANGED <<elements, tail, used_marker, reclaim, notes, lists, this,
                      ilast, um_ix, sent>>

\* The element behind the head, or behind a marker behind it.
Dequeue ==
  LET h == IF next[head] = Marker THEN Marker ELSE head
      e == next[h]
  IN  IF e = Null
      THEN /\ head' = h
           /\ StartClean("dequeue", SchedCleanOps, FALSE, "clean")
           /\ UNCHANGED <<elements, tail, used_marker, reclaim, notes, lists, this,
                          ilast, um_ix, counts>>
      ELSE /\ head' = e /\ got' = got + 1
           /\ StartClean("dequeue",
                         IF deq_fini.automatic THEN DequeueCleanOps ELSE SchedCleanOps,
                         TRUE, "dequeue")
           /\ UNCHANGED <<elements, tail, used_marker, reclaim, notes, lists, this,
                          ilast, um_ix, sent>>

\* A scheduler with misc aux work is woken, or is awake for another reason.
AuxWork ==
  /\ deq_fini.automatic /\ (event \/ misc_prgr) /\ event' = FALSE
  /\ Goto(Consumer, "wait", "misc_prgr")
  /\ UNCHANGED <<elements, tail, head, used_marker, reclaim, misc, misc_prgr, wakeup,
                 lists, locals, counts>>

\* handle_misc_aux_work_thr_prgr(): the value it compares with is always
\* in the past, clean() finds out whether progress has been made.
AuxWorkThrPrgr ==
  /\ IF misc_prgr
     THEN StartClean("misc_prgr", SchedCleanOps, FALSE, "clean") /\ misc_prgr' = FALSE
     ELSE Goto(Consumer, "misc_prgr", "misc") /\ UNCHANGED <<call, misc_prgr>>
  /\ UNCHANGED <<elements, tail, head, used_marker, reclaim, event, misc, wakeup, lists,
                 this, ilast, um_ix, counts>>

\* handle_misc_aux_work()
AuxWorkMisc ==
  /\ Goto(Consumer, "misc", IF misc THEN "dequeue" ELSE "wait")
  /\ misc' = FALSE
  /\ UNCHANGED <<elements, tail, head, used_marker, reclaim, event, misc_prgr, wakeup,
                 lists, locals, counts>>

\* erts_thr_q_append_finalize_dequeue_data(), with the links it sets
Joined(l0, l1) ==
  IF l1.start = Null THEN l0
  ELSE [start |-> IF l0.end = Null THEN l1.start ELSE l0.start, end |-> l1.end]

Links(l0, l1) == IF l1.start # Null /\ l0.end # Null THEN {<<l0.end, l1.start>>} ELSE {}

Relinked(links) ==
  [e \in Element |-> IF \E l \in links : l[1] = e
                     THEN (CHOOSE l \in links : l[1] = e)[2] ELSE next[e]]

\* erts_thr_q_get_finalize_dequeue_data() cuts the list off.
Taken == [start |-> deq_fini.start, end |-> deq_fini.end]
Cut == IF deq_fini.end = Null THEN {} ELSE {<<deq_fini.end, Null>>}
TakeDeqFini == deq_fini' = [deq_fini EXCEPT !.start = Null, !.end = Null]

\* Mutant: what async_get() has saved is not passed on.
JobForgetsSaved ==
  /\ Goto(Consumer, "job", "dequeue") /\ TakeDeqFini
  /\ arq_fin_deq' = Joined(arq_fin_deq, Taken)
  /\ next' = Relinked(IF Taken.start = Null THEN {} ELSE Cut \cup Links(arq_fin_deq, Taken))
  /\ fin_deq' = Empty
  /\ UNCHANGED <<data, live, tail, head, used_marker, first, unref_end, nxt, grace,
                 clean_reached_head_count, notes, locals, counts>>

\* async_get() returns a job with the elements to free; the scheduler that
\* handles the answer appends them to its own list (erts_check_async_ready).
AsyncJob ==
  LET a == Joined(Taken, fin_deq) IN
  /\ Goto(Consumer, "job", "dequeue") /\ TakeDeqFini
  /\ arq_fin_deq' = Joined(arq_fin_deq, a)
  /\ next' = Relinked((IF Links(Taken, fin_deq) = {} THEN Cut ELSE Links(Taken, fin_deq))
                      \cup Links(arq_fin_deq, a))
  /\ fin_deq' = Empty
  /\ UNCHANGED <<data, live, tail, head, used_marker, first, unref_end, nxt, grace,
                 clean_reached_head_count, notes, locals, counts>>

AsyncReset ==
  /\ Goto(Consumer, "reset", "chk_fin_deq")
  /\ event' = FALSE
  /\ UNCHANGED <<elements, tail, head, used_marker, reclaim, misc, misc_prgr, wakeup,
                 lists, locals, counts>>

AsyncChkFinDeq ==
  /\ Goto(Consumer, "chk_fin_deq", "ensure_empty") /\ TakeDeqFini
  /\ fin_deq' = Joined(fin_deq, Taken)
  /\ next' = Relinked(Cut \cup Links(fin_deq, Taken))
  /\ UNCHANGED <<data, live, tail, head, used_marker, first, unref_end, nxt, grace,
                 clean_reached_head_count, notes, arq_fin_deq, locals, counts>>

\* erts_thr_q_inspect(q, 1): is there something to dequeue,
EnsureEmpty ==
  LET h == IF next[head] = Marker THEN Marker ELSE head IN
  /\ head' = h
  /\ Goto(Consumer, "ensure_empty", IF next[h] = Null THEN "inspect" ELSE "dequeue")
  /\ UNCHANGED <<elements, tail, used_marker, reclaim, notes, lists, locals, counts>>

\* is there something to clean, now or later?
inspect ==
  CASE first = head -> IF ~used_marker /\ next[head] = Null THEN "dirty" ELSE "clean"
    [] first # head /\ first # unref_end -> "dirty"
    [] OTHER -> NeedThrPrgr

\* What the elements contribute that are reached from e by following link, in order.
Follow(link, e, part) ==
  LET upto[n \in 0 .. Cardinality(Element)] ==
        [x \in Element \cup {Null} |-> IF n = 0 \/ x = Null THEN <<>>
                                       ELSE part[x] \o upto[n - 1][link[x]]]
  IN  upto[Cardinality(Element)][e]

Chain(e) == Follow(next, e, [x \in Element |-> <<x>>])

\* erts_thr_q_finalize_dequeue(): the first elements of a list
FiniElements(l) ==
  LET c == Chain(l.start)
  IN  [free |-> {c[i] : i \in (1 .. FiniDeqOps) \cap DOMAIN c},
       rest |-> IF Len(c) <= FiniDeqOps THEN Empty
                ELSE [l EXCEPT !.start = c[FiniDeqOps + 1]]]

AsyncInspect ==
  /\ CASE inspect = "dirty" ->
            /\ Goto(Consumer, "inspect", "dequeue")
            /\ UNCHANGED <<elements, wakeup, fin_deq>>
       [] inspect = "need_thr_prgr" ->
            /\ Goto(Consumer, "inspect", "wait")
            /\ wakeup' = "asked" /\ UNCHANGED <<elements, fin_deq>>
       [] inspect = "clean" ->
            LET f == FiniElements(fin_deq) IN
            /\ FreeElements(f.free) /\ fin_deq' = f.rest
            /\ Goto(Consumer, "inspect", IF f.rest = Empty THEN "wait" ELSE "chk_fin_deq")
            /\ UNCHANGED wakeup
  /\ UNCHANGED <<tail, head, used_marker, reclaim, event, misc, misc_prgr, arq_fin_deq,
                 locals, counts>>

AsyncWait ==
  /\ ~deq_fini.automatic /\ event
  /\ Goto(Consumer, "wait", "dequeue")
  /\ UNCHANGED <<elements, tail, head, used_marker, reclaim, notes, lists, locals, counts>>

Consume == \/ clean \/ Dequeue \/ AuxWorkThrPrgr \/ AuxWorkMisc
           \/ AsyncJob \/ AsyncReset \/ AsyncChkFinDeq \/ EnsureEmpty \/ AsyncInspect
           \/ AsyncWait

\* The scheduler frees what it was handed: erts_async_ready_clean().
ReadyFinalize ==
  LET f == FiniElements(arq_fin_deq) IN
  /\ arq_fin_deq # Empty
  /\ FreeElements(f.free) /\ arq_fin_deq' = f.rest
  /\ UNCHANGED <<tail, head, used_marker, reclaim, notes, fin_deq, pc, locals, counts>>

\* The wakeup at a thread progress value (ThrProgress).
ThrPrgrWakeup ==
  /\ wakeup = "asked" /\ grace = {}
  /\ wakeup' = "done" /\ event' = TRUE
  /\ UNCHANGED <<elements, tail, head, used_marker, reclaim, misc, misc_prgr, lists, pc,
                 locals, counts>>

Next == \/ \E p \in Producers : EnqStart(p) \/ Enqueue(p) \/ Quiesce(p)
        \/ AuxWork \/ Consume \/ ReadyFinalize \/ ThrPrgrWakeup

Spec == Init /\ [][Next]_vars

(* A thread that is in the middle of something goes on; threads make        *)
(* progress and wake up whoever waits for it; a scheduler that has been     *)
(* poked handles its aux work.                                             *)
Fairness ==
  /\ \A p \in Producers : WF_vars(Enqueue(p)) /\ WF_vars(Quiesce(p))
  /\ WF_vars(Consume) /\ WF_vars(event /\ AuxWork)
  /\ WF_vars(ReadyFinalize) /\ WF_vars(ThrPrgrWakeup)

FairSpec == Spec /\ Fairness

-----------------------------------------------------------------------------
(* Properties.                                                             *)

InChain(e) == LET c == Chain(e) IN {c[i] : i \in DOMAIN c}

Pointer == Element \cup {Null}

\* Types.  A counter never drops below zero.
TypeOK ==
  /\ next \in [Element -> Pointer] /\ live \subseteq El
  /\ last \in Element /\ um_refc \in [0 .. 1 -> 0 .. Cardinality(Unmanaged)]
  /\ um_refc_ix \in 0 .. 1 /\ nxt.um_refc_ix \in 0 .. 1 /\ nxt.unref_end \in Element
  /\ head \in Element /\ first \in Element /\ unref_end \in Element
  /\ grace \subseteq Managed /\ wakeup \in {"none", "asked", "done"}
  /\ clean_reached_head_count \in 0 .. CleanReachedHead
  /\ this \in [Threads -> Pointer] /\ ilast \in [Threads -> Pointer]

\* A pointer is used only while what it points to is there: nobody links to
\* or looks at an element that has been freed, or at a marker that is not in
\* the queue.
NoUseAfterFree ==
  \A t \in Threads :
    /\ pc[t] = "link" => ilast[t] \in live \/ (ilast[t] = Marker /\ used_marker)
    /\ pc[t] = "check" => this[t] \in live \/ (this[t] = Marker /\ used_marker)

\* What first, head and the lists are made of is exactly what is allocated:
\* no element is lost, freed twice, or in two lists.
NothingLeaks ==
  LET held == {this[p] : p \in {q \in Producers : pc[q] \in {"inc", "reread_ix",
                                "dec", "init", "link"}}}
      fini == IF deq_fini.start = Null THEN {} ELSE
              {deq_fini.end} \cup (InChain(deq_fini.start) \ InChain(deq_fini.end))
  IN  /\ live = (InChain(first) \cup held \cup fini \cup InChain(fin_deq.start)
                 \cup InChain(arq_fin_deq.start)) \ {Marker}
      /\ InChain(first) \cap (held \cup fini \cup InChain(fin_deq.start)
                              \cup InChain(arq_fin_deq.start)) = {}

\* The items that are linked and not yet delivered.
Contents == Follow(next, next[head], [x \in Element |-> IF x = Marker THEN <<>> ELSE <<data[x]>>])

Abstract == INSTANCE FifoQueue WITH queue <- Contents

\* The queue is a queue: items are delivered once and in the order in which
\* they were linked, and none is lost.
ImplementsFifo == Abstract!Spec

\* No lost notification: whatever is enqueued is delivered.
EverythingIsDelivered == (Contents # <<>>) ~> (Contents = <<>>)

\* Whatever is delivered is freed in the end, but for a last element that
\* has no marker behind it.
GarbageIsReclaimed == (live \ InChain(head) # {}) ~> (live \ InChain(head) = {})
=============================================================================

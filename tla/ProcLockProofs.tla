--------------------------- MODULE ProcLockProofs ----------------------------
(***************************************************************************)
(* Proofs about ProcLock: for any threads, any processes and any number of *)
(* locks, mutual exclusion, the lock order of waiting threads, and that no *)
(* waiting thread is forgotten or overtaken.                               *)
(***************************************************************************)
EXTENDS ProcLock, SequenceTheorems, FiniteSetTheorems, WellFoundedInduction, TLAPS

-----------------------------------------------------------------------------
(* The inductive invariant.                                                *)

\* Who is still to be told by u; one that has been told may be anywhere.
Pending(u) == IF pc[u] = "set" THEN Range(Tail(wakeup[u])) ELSE Range(wakeup[u])

\* t is in transfer_locks() with the pix lock, or in try_aquire() called from it.
Serving(t) == pc[t] = "transfer" \/ (pc[t] = "aquire" /\ wtr[t] # t)

\* What a thread keeps for itself at each place.
Place(t) ==
  /\ need[t] # {} => pc[t] \in {"failed", "aquire", "reset", "check", "wait"}
  /\ pc[t] = "failed" => need[t] # {}
  /\ wtr[t] # NoThread => pc[t] = "aquire"
  /\ pc[t] = "aquire" => wtr[t] \in Threads /\ need[wtr[t]] # {}
  /\ Serving(t) => need[t] = {}
  /\ pc[t] = "aquire" /\ wtr[t] # t => Asleep(wtr[t]) /\ proc[wtr[t]] = proc[t]
  /\ trnsfr[t] # {} => Serving(t) \/ pc[t] = "transfer_pix"
  /\ unset[t] # {} => Serving(t)
  /\ wakeup[t] # <<>> => Serving(t) \/ pc[t] \in {"wake", "set"}
  /\ pc[t] \in {"wake", "set"} => wakeup[t] # <<>>

PlaceInv == \A t \in Threads : Place(t)

\* The pix lock is held exactly in wait_for_locks() and transfer_locks().
PixInv ==
  \A p \in Procs, t \in Threads :
    pix[p] = t <=> proc[t] = p /\ pc[t] \in {"aquire", "transfer"}

Own(t, p, l) == l \in have[t][p] \/ (proc[t] = p /\ l \in trnsfr[t])

\* A flag is set exactly if someone has the lock, or is to hand it over; not both.
OwnerInv ==
  \A p \in Procs, l \in Locks :
    /\ l \in flags[p] <=> \E t \in Threads : Own(t, p, l)
    /\ \A t, u \in Threads : Own(t, p, l) /\ Own(u, p, l) => t = u
    /\ \A t \in Threads : proc[t] = p /\ l \in trnsfr[t] => l \notin have[t][p]

\* A thread is in the queue of the first lock it needs, once, asleep and not being
\* served.
QueueInv ==
  \A p \in Procs, l \in Locks :
    /\ IsInjective(queue[p][l])
    /\ \A w \in Range(queue[p][l]) :
         /\ Asleep(w) /\ uaflgs[w] = 1 /\ proc[w] = p
         /\ l \in need[w] /\ \A m \in need[w] : l <= m
         /\ \A t \in Threads : wtr[t] # w

\* Wait flags: whoever empties a queue unsets its flag before the pix lock is
\* unlocked.
FlagInv ==
  \A p \in Procs, l \in Locks :
    /\ queue[p][l] # <<>> => l \in flags[p] /\ Waiter(l) \in flags[p]
    /\ Waiter(l) \in flags[p] =>
         queue[p][l] # <<>> \/ \E t \in Threads : pix[p] = t /\ l \in unset[t]

\* Locks that are handed over have someone in queue.  One whose wait flag is still
\* to be unset has gone to a thread that sleeps until this transfer is over, so that
\* nobody looks at the flag; locks are handed over from the lowest up, so that no
\* thread is queued for it again meanwhile.
TransferInv ==
  \A t \in Threads :
    /\ \A l \in trnsfr[t] : queue[proc[t]][l] # <<>>
    /\ \A l \in unset[t] :
         /\ queue[proc[t]][l] = <<>> /\ l \in flags[proc[t]]
         /\ \A m \in trnsfr[t] : l < m
         /\ wtr[t] # NoThread => \A m \in need[wtr[t]] : l < m
         /\ \A w \in Threads : l \in have[w][proc[t]] =>
              /\ Asleep(w) /\ proc[w] = proc[t] /\ uaflgs[w] = 1
              /\ need[w] # {} \/ w \in Range(wakeup[t])

\* A thread that is to be told sleeps with all its locks, and one thread tells it.
WakeInv ==
  \A u \in Threads :
    /\ IsInjective(wakeup[u])
    /\ \A w \in Pending(u) : Asleep(w) /\ need[w] = {} /\ uaflgs[w] = 1
    /\ \A v \in Threads : v # u => Pending(u) \cap Pending(v) = {}

\* A thread that sleeps for locks is in a queue or being served, ...
QueuedInv ==
  \A t \in Threads : Asleep(t) /\ need[t] # {} =>
    /\ uaflgs[t] = 1
    /\ \/ \E l \in need[t] : t \in Range(queue[proc[t]][l])
       \/ \E u \in Threads \ {t} : wtr[u] = t

\* ... one that has all of them is to be told, ...
ToldInv ==
  \A t \in Threads : Asleep(t) /\ need[t] = {} /\ uaflgs[t] = 1 =>
    \E u \in Threads : t \in Pending(u)

\* ... and one that waits though it has been told is about to be woken.
WokenInv ==
  \A t \in Threads : pc[t] = "wait" /\ uaflgs[t] = 0 /\ event[t] = FALSE =>
    \E u \in Threads : pc[u] = "set" /\ Head(wakeup[u]) = t

\* The locks a thread has come before those it needs, and these before those it
\* will lock next.  What it is to release it has, and it needs nothing until then.
OrderInv ==
  \A t \in Threads :
    /\ \A p \in Procs : rel[t][p] \subseteq have[t][p]
    /\ need[t] # {} => rel[t] = None
    /\ \A q \in Procs : \A m \in have[t][q] \ rel[t][q] :
         \A p \in Procs : \A l \in req[t][p] : Before(m, q, l, p)
    /\ \A q \in Procs : \A m \in have[t][q], l \in need[t] : Before(m, q, l, proc[t])
    /\ \A l \in need[t] : \A q \in Procs : \A m \in req[t][q] : Before(l, proc[t], m, q)

IInv == /\ TypeOK /\ PlaceInv /\ PixInv /\ OwnerInv /\ QueueInv /\ FlagInv
        /\ TransferInv /\ WakeInv /\ QueuedInv /\ ToldInv /\ WokenInv /\ OrderInv

-----------------------------------------------------------------------------
(* Lemmas about numbers and sequences.                                     *)

\* A nonempty set of natural numbers has a minimum.
LEMMA MinNat ==
  ASSUME NEW S, S \subseteq Nat, S # {}
  PROVE  Min(S) \in S /\ \A y \in S : Min(S) <= y
<1>1. IsWellFoundedOn(OpToRel(<,Nat), Nat)
  BY NatLessThanWellFounded
<1>2. \E x \in S : \A y \in S : ~ (<<y, x>> \in OpToRel(<,Nat))
  BY <1>1, WFMin
<1>3. \A x, y \in Nat : <<y, x>> \in OpToRel(<,Nat) <=> y < x
  BY Zenon DEF OpToRel
<1>4. \E x \in S : \A y \in S : ~ (y < x)
  BY <1>2, <1>3, Zenon
<1>5. \E x \in S : \A y \in S : x <= y
  BY <1>4
<1> QED
  BY <1>5 DEF Min

\* The lock bits and the wait bits are different bits.
LEMMA BitFacts ==
  /\ Locks \subseteq Nat
  /\ \A l \in Locks : Waiter(l) \in Nat /\ Waiter(l) \notin Locks
  /\ \A l, m \in Locks : Waiter(l) = Waiter(m) => l = m
  /\ \A l \in Locks : Waiter(l) \in Bits /\ l \in Bits
BY ProcAssumption DEF Locks, Waiter, WAITER_SHIFT, Bits

\* The first of a nonempty set of locks, as the lowest bit of a lock word.
LEMMA MinLock ==
  ASSUME NEW S, S \subseteq Locks, S # {}
  PROVE  Min(S) \in S /\ Min(S) \in Locks /\ \A y \in S : Min(S) <= y
BY MinNat, BitFacts

\* The first of a nonempty set of processes, as proc_safelock() orders them by id.
LEMMA MinProc ==
  ASSUME NEW S, S \subseteq Procs, S # {}
  PROVE  Min(S) \in S /\ Min(S) \in Procs /\ \A y \in S : Min(S) <= y
BY MinNat, ProcAssumption

\* A function that is changed at one argument, and one of two arguments.
LEMMA Update ==
  ASSUME NEW A, NEW S, NEW f \in [A -> S], NEW a \in A, NEW v \in S,
         NEW g, g = [f EXCEPT ![a] = v]
  PROVE  g \in [A -> S] /\ g[a] = v /\ \A x \in A : x # a => g[x] = f[x]
OBVIOUS

LEMMA Update2 ==
  ASSUME NEW A, NEW B, NEW S, NEW f \in [A -> [B -> S]], NEW a \in A, NEW b \in B,
         NEW v \in S, NEW g, g = [f EXCEPT ![a] = [f[a] EXCEPT ![b] = v]]
  PROVE  /\ g \in [A -> [B -> S]] /\ g[a][b] = v
         /\ \A x \in A, y \in B : x # a \/ y # b => g[x][y] = f[x][y]
         /\ \A x \in A : x # a => g[x] = f[x]
OBVIOUS

\* The threads of a queue, by position.
LEMMA RangeFacts ==
  ASSUME NEW S, NEW s \in Seq(S)
  PROVE  /\ Range(s) \subseteq S
         /\ s = <<>> <=> Range(s) = {}
         /\ Range(<<>>) = {} /\ IsInjective(<<>>)
<1>1. DOMAIN s = 1 .. Len(s) /\ Len(s) \in Nat /\ \A i \in 1 .. Len(s) : s[i] \in S
  BY LenProperties, ElementOfSeq
<1>2. s # <<>> => Len(s) > 0
  BY EmptySeq
<1>3. DOMAIN <<>> = {}
  OBVIOUS
<1>4. Range(s) \subseteq S
  BY <1>1 DEF Range
<1>5. Range(<<>>) = {} /\ IsInjective(<<>>)
  BY <1>3 DEF Range, IsInjective
<1>6. s # <<>> => s[1] \in Range(s)
  BY <1>1, <1>2 DEF Range
<1> QED
  BY <1>4, <1>5, <1>6

\* A queue of one thread.
LEMMA SingletonFacts ==
  ASSUME NEW S, NEW x \in S
  PROVE  /\ <<x>> \in Seq(S) /\ <<x>> # <<>>
         /\ Range(<<x>>) = {x} /\ IsInjective(<<x>>)
<1>1. DOMAIN <<x>> = {1} /\ <<x>>[1] = x
  OBVIOUS
<1> QED
  BY <1>1 DEF Range, IsInjective

\* What dequeue_waiter() leaves of a queue: one thread less, and the others in order.
LEMMA TailFacts ==
  ASSUME NEW S, NEW s \in Seq(S), s # <<>>
  PROVE  /\ Head(s) \in S /\ Head(s) \in Range(s) /\ Tail(s) \in Seq(S)
         /\ Range(s) = Range(Tail(s)) \cup {Head(s)}
         /\ IsInjective(s) =>
              IsInjective(Tail(s)) /\ Range(Tail(s)) = Range(s) \ {Head(s)}
<1>1. DOMAIN s = 1 .. Len(s) /\ Len(s) \in Nat \ {0}
  BY LenProperties, EmptySeq
<1>2. /\ Tail(s) \in Seq(S) /\ Len(Tail(s)) = Len(s) - 1 /\ Head(s) \in S
      /\ \A i \in 1 .. Len(s) - 1 : Tail(s)[i] = s[i + 1]
  BY HeadTailProperties
<1>3. DOMAIN Tail(s) = 1 .. Len(s) - 1
  BY <1>2, LenProperties
<1>4. Head(s) = s[1]
  BY <1>1
<1>5. Range(s) = Range(Tail(s)) \cup {Head(s)}
  <2>1. ASSUME NEW x \in Range(s) PROVE x \in Range(Tail(s)) \cup {Head(s)}
    <3>1. PICK i \in 1 .. Len(s) : x = s[i]
      BY <1>1, <2>1 DEF Range
    <3>2. CASE i = 1
      BY <3>1, <3>2, <1>4
    <3>3. CASE i # 1
      <4>1. i - 1 \in 1 .. Len(s) - 1 /\ (i - 1) + 1 = i
        BY <3>3, <1>1
      <4>2. Tail(s)[i - 1] = x
        BY <4>1, <1>2, <3>1
      <4> QED BY <4>1, <4>2, <1>3 DEF Range
    <3> QED BY <3>2, <3>3
  <2>2. ASSUME NEW x \in Range(Tail(s)) PROVE x \in Range(s)
    <3>1. PICK i \in 1 .. Len(s) - 1 : x = Tail(s)[i]
      BY <1>3, <2>2 DEF Range
    <3>2. i + 1 \in DOMAIN s /\ s[i + 1] = x
      BY <3>1, <1>1, <1>2
    <3> QED BY <3>2 DEF Range
  <2>3. Head(s) \in Range(s)
    BY <1>1, <1>4 DEF Range
  <2> QED BY <2>1, <2>2, <2>3
<1>6. ASSUME IsInjective(s)
      PROVE  IsInjective(Tail(s)) /\ Head(s) \notin Range(Tail(s))
  <2>1. ASSUME NEW i \in DOMAIN Tail(s), NEW j \in DOMAIN Tail(s), Tail(s)[i] = Tail(s)[j]
        PROVE  i = j
    <3>1. s[i + 1] = s[j + 1] /\ i + 1 \in DOMAIN s /\ j + 1 \in DOMAIN s
      BY <2>1, <1>1, <1>2, <1>3
    <3>2. i + 1 = j + 1
      BY <3>1, <1>6 DEF IsInjective
    <3> QED BY <3>2, <1>3, <1>1
  <2>2. ASSUME NEW i \in DOMAIN Tail(s) PROVE Tail(s)[i] # Head(s)
    <3>1. Tail(s)[i] = s[i + 1] /\ i + 1 \in DOMAIN s /\ 1 \in DOMAIN s /\ i + 1 # 1
      BY <1>1, <1>2, <1>3
    <3> QED BY <3>1, <1>4, <1>6 DEF IsInjective
  <2> QED BY <2>1, <2>2 DEF IsInjective, Range
<1> QED
  BY <1>2, <1>5, <1>6

\* What enqueue_waiter() makes of a queue: one thread more, at the end.
LEMMA AppendFacts ==
  ASSUME NEW S, NEW s \in Seq(S), NEW x \in S
  PROVE  /\ Append(s, x) \in Seq(S) /\ Append(s, x) # <<>>
         /\ Range(Append(s, x)) = Range(s) \cup {x}
         /\ s # <<>> => Head(Append(s, x)) = Head(s)
         /\ IsInjective(s) /\ x \notin Range(s) => IsInjective(Append(s, x))
<1>1. DOMAIN s = 1 .. Len(s) /\ Len(s) \in Nat
  BY LenProperties
<1> DEFINE r == Append(s, x)
<1>2. /\ r \in Seq(S) /\ r # <<>> /\ Len(r) = Len(s) + 1
      /\ \A i \in 1 .. Len(s) : r[i] = s[i]
      /\ r[Len(s) + 1] = x
  BY AppendProperties
<1>3. DOMAIN r = 1 .. Len(s) + 1
  BY <1>2, LenProperties
<1>4. s # <<>> => Head(r) = Head(s)
  BY HeadTailAppend
<1> HIDE DEF r
<1>5. Range(r) = Range(s) \cup {x}
  BY <1>1, <1>2, <1>3 DEF Range
<1>6. ASSUME IsInjective(s), x \notin Range(s) PROVE IsInjective(r)
  <2>1. ASSUME NEW i \in DOMAIN r, NEW j \in DOMAIN r, r[i] = r[j], i < j PROVE FALSE
    <3>1. i \in DOMAIN s /\ r[i] = s[i]
      BY <1>1, <1>2, <1>3, <2>1
    <3>2. CASE j = Len(s) + 1
      BY <3>1, <3>2, <2>1, <1>2, <1>6 DEF Range
    <3>3. CASE j # Len(s) + 1
      <4>1. j \in DOMAIN s /\ r[j] = s[j]
        BY <3>3, <1>1, <1>2, <1>3
      <4>2. i = j
        BY <4>1, <3>1, <2>1, <1>6 DEF IsInjective
      <4> QED BY <4>2, <2>1, <1>1, <1>3
    <3> QED BY <3>2, <3>3
  <2> QED BY <2>1, <1>1, <1>3 DEF IsInjective
<1> QED
  BY <1>2, <1>4, <1>5, <1>6 DEF r

\* What a thread at the front adds to a list of threads to wake.
LEMMA ConsFacts ==
  ASSUME NEW S, NEW s \in Seq(S), NEW x \in S
  PROVE  /\ <<x>> \o s \in Seq(S) /\ <<x>> \o s # <<>>
         /\ Range(<<x>> \o s) = Range(s) \cup {x}
         /\ IsInjective(s) /\ x \notin Range(s) => IsInjective(<<x>> \o s)
<1> DEFINE r == <<x>> \o s
<1>1. DOMAIN s = 1 .. Len(s) /\ Len(s) \in Nat
  BY LenProperties
<1>2. <<x>> \in Seq(S) /\ Len(<<x>>) = 1 /\ <<x>>[1] = x
  OBVIOUS
<1>3. /\ r \in Seq(S) /\ Len(r) = 1 + Len(s)
      /\ \A i \in 1 .. 1 + Len(s) : r[i] = IF i <= 1 THEN <<x>>[i] ELSE s[i - 1]
  BY <1>2, ConcatProperties
<1>4. DOMAIN r = 1 .. Len(s) + 1
  BY <1>1, <1>3, LenProperties
<1>5. r # <<>>
  BY <1>1, <1>3, EmptySeq
<1> HIDE DEF r
<1>6. r[1] = x /\ \A i \in 1 .. Len(s) : r[i + 1] = s[i] /\ i + 1 \in DOMAIN r
  BY <1>1, <1>2, <1>3, <1>4
<1>7. \A i \in DOMAIN r : i # 1 => i - 1 \in DOMAIN s /\ r[i] = s[i - 1]
  BY <1>1, <1>3, <1>4
<1>8. Range(r) = Range(s) \cup {x}
  <2>1. ASSUME NEW y \in Range(r) PROVE y \in Range(s) \cup {x}
    BY <1>6, <1>7 DEF Range
  <2>2. ASSUME NEW y \in Range(s) PROVE y \in Range(r)
    BY <1>1, <1>6 DEF Range
  <2>3. x \in Range(r)
    BY <1>1, <1>4, <1>6 DEF Range
  <2> QED BY <2>1, <2>2, <2>3
<1>9. ASSUME IsInjective(s), x \notin Range(s) PROVE IsInjective(r)
  <2>1. ASSUME NEW i \in DOMAIN r, NEW j \in DOMAIN r, r[i] = r[j], i < j PROVE FALSE
    <3>1. j # 1 /\ j - 1 \in DOMAIN s /\ r[j] = s[j - 1]
      BY <1>1, <1>4, <1>7, <2>1
    <3>2. CASE i = 1
      BY <3>1, <3>2, <2>1, <1>6, <1>9 DEF Range
    <3>3. CASE i # 1
      <4>1. i - 1 \in DOMAIN s /\ r[i] = s[i - 1]
        BY <3>3, <1>7
      <4>2. i - 1 = j - 1
        BY <4>1, <3>1, <2>1, <1>9 DEF IsInjective
      <4> QED BY <4>2, <2>1, <1>1, <1>4
    <3> QED BY <3>2, <3>3
  <2> QED BY <2>1, <1>1, <1>4 DEF IsInjective
<1> QED
  BY <1>3, <1>5, <1>8, <1>9 DEF r

-----------------------------------------------------------------------------
(* The lock order, and the choices proc_safelock() makes by it.            *)

\* The lock order is a strict order: lock bit first, then process.
LEMMA BeforeFacts ==
  ASSUME NEW l \in Locks, NEW m \in Locks, NEW p \in Procs, NEW q \in Procs
  PROVE  /\ Before(m, p, l, p) <=> m < l
         /\ q # p => Before(m, q, l, p) \/ Before(l, p, m, q)
         /\ m < l => Before(m, q, l, p)
         /\ \A k \in Locks, r \in Procs :
              Before(m, q, l, p) /\ Before(l, p, k, r) => Before(m, q, k, r)
BY BitFacts, ProcAssumption DEF Before

\* Of the locks that are needed some are of the chosen process and come before all
\* that are needed of others, and before what is left of that process.
LEMMA NeededFirst ==
  ASSUME NEW locks \in [Procs -> SUBSET Locks], locks # None
  PROVE  LET p == FirstNeeded(locks)
             mask == lock_mask(p, locks)
         IN  /\ p \in Procs /\ mask # {} /\ mask \subseteq locks[p]
             /\ \A l \in mask : \A q \in Procs :
                  \A m \in [locks EXCEPT ![p] = @ \ mask][q] : Before(l, p, m, q)
<1> DEFINE A == {l \in Locks : \E p \in Procs : l \in locks[p]}
           a == Min(A)
           P == {p \in Procs : a \in locks[p]}
           b == Min(P)
<1>1. A # {} /\ A \subseteq Locks
  <2>1. PICK p \in Procs : locks[p] # {}
    BY DEF None
  <2> QED BY <2>1
<1>2. a \in A /\ \A y \in A : a <= y
  BY <1>1, MinLock
<1>3. P # {} /\ P \subseteq Procs
  BY <1>2
<1>4. b \in P /\ \A y \in P : b <= y
  BY <1>3, MinProc
<1> HIDE DEF a, b
<1>5. \A q \in Procs \ {b} : \A m \in locks[q] : Before(a, b, m, q)
  <2> SUFFICES ASSUME NEW q \in Procs \ {b}, NEW m \in locks[q]
               PROVE  Before(a, b, m, q)
    OBVIOUS
  <2>1. m \in A /\ a \in Nat /\ m \in Nat /\ b \in Nat /\ q \in Nat
    BY <1>2, <1>4, BitFacts, ProcAssumption
  <2>2. CASE a < m
    BY <2>2 DEF Before
  <2>3. CASE a = m
    BY <2>1, <2>3, <1>4 DEF Before
  <2> QED BY <2>1, <2>2, <2>3, <1>2
<1> DEFINE p == FirstNeeded(locks)
           mask == lock_mask(p, locks)
           Chosen(x) == \E l \in locks[x] :
                          \A q \in Procs \ {x} : \A m \in locks[q] : Before(l, x, m, q)
<1>6. \E x \in Procs : Chosen(x)
  BY <1>4, <1>5
<1>7. p = CHOOSE x \in Procs : Chosen(x)
  BY DEF FirstNeeded
<1> HIDE DEF Chosen
<1>8. p \in Procs /\ Chosen(p)
  BY <1>6, <1>7
<1> USE DEF Chosen
<1> HIDE DEF p
<1>9. mask # {} /\ mask \subseteq locks[p]
  BY <1>8 DEF lock_mask
<1>10. ASSUME NEW l \in mask, NEW q \in Procs, NEW m \in [locks EXCEPT ![p] = @ \ mask][q]
       PROVE  Before(l, p, m, q)
  <2>1. l \in Locks /\ m \in Locks /\ m \in locks[q]
    BY <1>9, <1>8, <1>10
  <2>2. CASE q # p
    BY <2>1, <2>2, <1>8, <1>10 DEF lock_mask
  <2>3. CASE q = p
    <3>1. m \in locks[p] /\ m \notin mask
      BY <2>3, <1>8
    <3>2. PICK r \in Procs \ {p} : \E k \in locks[r] : ~ Before(m, p, k, r)
      BY <3>1, <1>8 DEF lock_mask
    <3>3. PICK k \in Locks : k \in locks[r] /\ ~ Before(m, p, k, r)
      BY <3>2
    <3>4. Before(k, r, m, p)
      BY <3>3, <2>1, <1>8, BeforeFacts
    <3>5. Before(l, p, k, r)
      BY <3>3 DEF lock_mask
    <3> QED BY <3>3, <3>4, <3>5, <2>1, <2>3, <1>8, BeforeFacts
  <2> QED BY <2>2, <2>3
<1> QED
  BY <1>8, <1>9, <1>10 DEF p

\* What a caller of proc_safelock() gives: the locks it has on each of two processes, and the
\* ones it does not have yet.
SafeLockArgs(have1, have2, need1, need2, p1, p2) ==
  /\ have1 \subseteq Locks /\ have2 \subseteq Locks /\ need1 \subseteq Locks /\ need2 \subseteq Locks
  /\ need1 \cup need2 # {} /\ need1 \cap have1 = {} /\ need2 \cap have2 = {}
  /\ p1 \in Procs /\ p2 \in Procs /\ p1 < p2

\* The locks it keeps come before every lock that it takes.
SafeLockKeeps(have1, have2, need1, need2, p1, p2) ==
  LET mask == unlock_mask(need1, need2)
  IN  /\ \A m \in have1 \ mask :
           /\ \A l \in need1 \cup (have1 \cap mask) : Before(m, p1, l, p1)
           /\ \A l \in need2 \cup (have2 \cap mask) : Before(m, p1, l, p2)
      /\ \A m \in have2 \ mask :
           /\ \A l \in need1 \cup (have1 \cap mask) : Before(m, p2, l, p1)
           /\ \A l \in need2 \cup (have2 \cap mask) : Before(m, p2, l, p2)

\* Before proc_safelock() locks anything it has released what is in the way.
LEMMA SafeLockOrder ==
  ASSUME NEW have1, NEW have2, NEW need1, NEW need2, NEW p1, NEW p2,
         SafeLockArgs(have1, have2, need1, need2, p1, p2)
  PROVE  SafeLockKeeps(have1, have2, need1, need2, p1, p2)
<1> DEFINE first == Min(need1 \cup need2)
           mask == unlock_mask(need1, need2)
<1>1. first \in need1 \cup need2 /\ first \in Locks /\ \A l \in need1 \cup need2 : first <= l
  BY MinLock DEF SafeLockArgs
<1>2. mask = {l \in Locks : l > first \/ (l = first /\ first \in need1)}
  BY DEF unlock_mask
<1> HIDE DEF first, mask
<1>3. /\ p1 \in Nat /\ p2 \in Nat /\ p1 < p2 /\ Locks \subseteq Nat
      /\ have1 \subseteq Locks /\ have2 \subseteq Locks /\ need1 \subseteq Locks /\ need2 \subseteq Locks
      /\ need1 \cap have1 = {} /\ need2 \cap have2 = {}
  BY ProcAssumption, BitFacts DEF SafeLockArgs
<1>4. ASSUME NEW m \in have1 \ mask
      PROVE  /\ \A l \in need1 \cup (have1 \cap mask) : m < l
             /\ \A l \in need2 \cup (have2 \cap mask) : m < l \/ (m = l /\ p1 < p2)
  BY <1>1, <1>2, <1>3, <1>4
<1>5. ASSUME NEW m \in have2 \ mask
      PROVE  /\ \A l \in need1 \cup (have1 \cap mask) : m < l
             /\ \A l \in need2 \cup (have2 \cap mask) : m < l
  BY <1>1, <1>2, <1>3, <1>5
<1> QED
  BY <1>3, <1>4, <1>5 DEF SafeLockKeeps, Before, mask

-----------------------------------------------------------------------------
(* The invariant holds initially, and every step preserves it.             *)

\* Every process starts with all its locks had by the thread that created it.
LEMMA InitInv == Init => IInv
<1> SUFFICES ASSUME Init PROVE IInv
  OBVIOUS
<1>1. PICK creator \in [Procs -> Threads] :
        /\ flags = [p \in Procs |-> Locks]
        /\ have = [t \in Threads |-> [p \in Procs |-> IF creator[p] = t THEN Locks ELSE {}]]
  BY DEF Init
<1>2. /\ queue = [p \in Procs |-> [l \in Locks |-> <<>>]]
      /\ pix = [p \in Procs |-> NoThread]
      /\ rel = [t \in Threads |-> None] /\ req = [t \in Threads |-> None]
      /\ pc = [t \in Threads |-> "call"] /\ proc = [t \in Threads |-> Min(Procs)]
      /\ need = [t \in Threads |-> {}] /\ seen = [t \in Threads |-> {}]
      /\ uaflgs = [t \in Threads |-> 0] /\ event = [t \in Threads |-> FALSE]
      /\ trnsfr = [t \in Threads |-> {}] /\ unset = [t \in Threads |-> {}]
      /\ wtr = [t \in Threads |-> NoThread] /\ wakeup = [t \in Threads |-> <<>>]
  BY DEF Init
<1>3. Min(Procs) \in Procs
  BY MinProc, ProcAssumption
<1>4. TypeOK
  <2>1. flags \in [Procs -> SUBSET Bits]
    BY <1>1 DEF Bits
  <2>2. have \in [Threads -> [Procs -> SUBSET Locks]]
    BY <1>1
  <2>3. queue \in [Procs -> [Locks -> Seq(Threads)]]
    BY <1>2
  <2> QED BY <1>2, <1>3, <2>1, <2>2, <2>3 DEF TypeOK, None
<1>5. Range(<<>>) = {} /\ IsInjective(<<>>)
  BY RangeFacts, EmptySeq
<1>6. PlaceInv
  BY <1>2 DEF PlaceInv, Place, Serving
<1>7. PixInv
  BY <1>2, ThreadAssumption DEF PixInv
<1>8. OwnerInv
  BY <1>1, <1>2 DEF OwnerInv, Own
<1>9. QueueInv
  BY <1>2, <1>5 DEF QueueInv
<1>10. FlagInv
  BY <1>1, <1>2, BitFacts DEF FlagInv
<1>11. TransferInv
  BY <1>2 DEF TransferInv
<1>12. WakeInv
  BY <1>2, <1>5 DEF WakeInv, Pending
<1>13. QueuedInv /\ ToldInv /\ WokenInv
  BY <1>2 DEF QueuedInv, ToldInv, WokenInv, Asleep
<1>14. OrderInv
  BY <1>1, <1>2 DEF OrderInv, None
<1> QED
  BY <1>4, <1>6, <1>7, <1>8, <1>9, <1>10, <1>11, <1>12, <1>13, <1>14 DEF IInv

\* Queues and lists of threads to wake are made of threads.
LEMMA RangeTypes ==
  ASSUME TypeOK, PlaceInv
  PROVE  /\ \A p \in Procs, l \in Locks : Range(queue[p][l]) \subseteq Threads
         /\ \A u \in Threads : Range(wakeup[u]) \subseteq Threads /\ Pending(u) \subseteq Range(wakeup[u])
<1>1. \A p \in Procs, l \in Locks : Range(queue[p][l]) \subseteq Threads
  BY RangeFacts DEF TypeOK
<1>2. \A u \in Threads : Range(wakeup[u]) \subseteq Threads
  BY RangeFacts DEF TypeOK
<1>3. \A u \in Threads : Pending(u) \subseteq Range(wakeup[u])
  BY TailFacts DEF TypeOK, Pending, PlaceInv, Place
<1> QED BY <1>1, <1>2, <1>3

\* A failed compare and exchange has the lock word read again.
LEMMA RereadStep ==
  ASSUME IInv, NEW t \in Threads, Reread(t)
  PROVE  IInv'
<1> USE DEF IInv
<1>1. TypeOK'
  BY BitFacts DEF Reread, lock, calls, tse, transfer, TypeOK
<1>2. UNCHANGED <<flags, queue, pix, have, rel, req, pc, proc, need, uaflgs, event, trnsfr,
                  unset, wtr, wakeup>>
  BY DEF Reread, lock, calls, tse, transfer
<1>3. PlaceInv' /\ PixInv' /\ OwnerInv'
  BY <1>2 DEF PlaceInv, Place, Serving, Asleep, PixInv, OwnerInv, Own
<1>4. QueueInv' /\ FlagInv' /\ TransferInv'
  BY <1>2 DEF QueueInv, FlagInv, TransferInv, Asleep
<1>5. WakeInv' /\ OrderInv'
  BY <1>2 DEF WakeInv, Pending, Asleep, OrderInv
<1>6. QueuedInv' /\ ToldInv' /\ WokenInv'
  BY <1>2 DEF QueuedInv, ToldInv, WokenInv, Pending, Asleep
<1> QED
  BY <1>1, <1>3, <1>4, <1>5, <1>6

\* erts_tse_reset() before a thread looks whether it has been told.
LEMMA TseResetStep ==
  ASSUME IInv, NEW t \in Threads, TseReset(t)
  PROVE  IInv'
<1> USE DEF IInv
<1>1. /\ pc[t] = "reset" /\ pc' = [pc EXCEPT ![t] = "check"]
      /\ event' = [event EXCEPT ![t] = FALSE]
      /\ UNCHANGED <<flags, queue, pix, have, rel, req, proc, need, seen, uaflgs, trnsfr,
                     unset, wtr, wakeup>>
  BY DEF TseReset, At, Goto, lock, calls, transfer
<1>2. TypeOK'
  BY <1>1 DEF TypeOK
<1>3. \A u \in Threads : (Asleep(u)' <=> Asleep(u)) /\ (Serving(u)' <=> Serving(u))
  BY <1>1 DEF Asleep, Serving, TypeOK
<1>4. \A u \in Threads : Pending(u)' = Pending(u)
  BY <1>1 DEF Pending, TypeOK
<1>5. PlaceInv'
  BY <1>1, <1>3 DEF PlaceInv, Place, TypeOK
<1>6. PixInv' /\ OwnerInv'
  BY <1>1 DEF PixInv, OwnerInv, Own, TypeOK
<1>7. QueueInv'
  BY <1>1, <1>3, RangeTypes DEF QueueInv, TypeOK
<1>8. FlagInv'
  BY <1>1 DEF FlagInv
<1>9. TransferInv'
  BY <1>1, <1>3 DEF TransferInv
<1>10. WakeInv'
  BY <1>1, <1>3, <1>4, RangeTypes DEF WakeInv
<1>11. QueuedInv' /\ ToldInv'
  BY <1>1, <1>3, <1>4 DEF QueuedInv, ToldInv
<1>12. WokenInv'
  BY <1>1 DEF WokenInv, TypeOK
<1>13. OrderInv'
  BY <1>1 DEF OrderInv
<1> QED
  BY <1>2, <1>5, <1>6, <1>7, <1>8, <1>9, <1>10, <1>11, <1>12, <1>13

\* erts_tse_wait() returns once the event is set.
LEMMA TseWaitStep ==
  ASSUME IInv, NEW t \in Threads, TseWait(t)
  PROVE  IInv'
<1> USE DEF IInv
<1>1. /\ pc[t] = "wait" /\ pc' = [pc EXCEPT ![t] = "reset"]
      /\ UNCHANGED <<flags, queue, pix, have, rel, req, proc, need, seen, uaflgs, event,
                     trnsfr, unset, wtr, wakeup>>
  BY DEF TseWait, At, Goto, lock, calls, tse, transfer
<1>2. TypeOK'
  BY <1>1 DEF TypeOK
<1>3. \A u \in Threads : (Asleep(u)' <=> Asleep(u)) /\ (Serving(u)' <=> Serving(u))
  BY <1>1 DEF Asleep, Serving, TypeOK
<1>4. \A u \in Threads : Pending(u)' = Pending(u)
  BY <1>1 DEF Pending, TypeOK
<1>5. PlaceInv'
  BY <1>1, <1>3 DEF PlaceInv, Place, TypeOK
<1>6. PixInv' /\ OwnerInv'
  BY <1>1 DEF PixInv, OwnerInv, Own, TypeOK
<1>7. QueueInv'
  BY <1>1, <1>3, RangeTypes DEF QueueInv, TypeOK
<1>8. FlagInv'
  BY <1>1 DEF FlagInv
<1>9. TransferInv'
  BY <1>1, <1>3 DEF TransferInv
<1>10. WakeInv'
  BY <1>1, <1>3, <1>4, RangeTypes DEF WakeInv
<1>11. QueuedInv' /\ ToldInv'
  BY <1>1, <1>3, <1>4 DEF QueuedInv, ToldInv
<1>12. WokenInv'
  BY <1>1 DEF WokenInv, TypeOK
<1>13. OrderInv'
  BY <1>1 DEF OrderInv
<1> QED
  BY <1>2, <1>5, <1>6, <1>7, <1>8, <1>9, <1>10, <1>11, <1>12, <1>13

\* wait_for_locks() returns, or goes to sleep, by uaflgs.
LEMMA TseCheckStep ==
  ASSUME IInv, NEW t \in Threads, TseCheck(t)
  PROVE  IInv'
<1> USE DEF IInv
<1>1. /\ pc[t] = "check"
      /\ UNCHANGED <<flags, queue, pix, have, rel, req, need, seen, uaflgs, trnsfr, unset,
                     wtr, wakeup>>
  BY DEF TseCheck, At, lock, calls, transfer
<1>2. CASE uaflgs[t] = 0
  <2>1. /\ pc' = [pc EXCEPT ![t] = "call"] /\ proc' = [proc EXCEPT ![t] = Min(Procs)]
        /\ event' = [event EXCEPT ![t] = FALSE]
    BY <1>2 DEF TseCheck, Return, Goto
  <2>2. Min(Procs) \in Procs
    BY MinProc, ProcAssumption
  \* It has been told, so it has all its locks, and nobody serves it.
  <2>3. need[t] = {} /\ trnsfr[t] = {} /\ unset[t] = {} /\ wtr[t] = NoThread
    BY <1>1, <1>2 DEF QueuedInv, PlaceInv, Place, Serving, Asleep
  <2>4. TypeOK'
    BY <1>1, <2>1, <2>2 DEF TypeOK
  <2>5. \A u \in Threads : /\ u # t => (Asleep(u)' <=> Asleep(u)) /\ proc'[u] = proc[u]
                           /\ Asleep(u)' => Asleep(u)
                           /\ Serving(u)' <=> Serving(u)
                           /\ Pending(u)' = Pending(u)
    BY <1>1, <2>1 DEF Asleep, Serving, Pending, TypeOK
  <2>6. \A u \in Threads : wtr[u] # t
    BY <1>1, <2>3, ThreadAssumption DEF PlaceInv, Place
  <2>7. PlaceInv'
    BY <1>1, <2>1, <2>3, <2>5, <2>6 DEF PlaceInv, Place, TypeOK
  <2>8. PixInv'
    BY <1>1, <2>1 DEF PixInv, TypeOK
  <2>9. OwnerInv'
    BY <1>1, <2>3, <2>5 DEF OwnerInv, Own
  <2>10. QueueInv'
    BY <1>1, <1>2, <2>5, RangeTypes DEF QueueInv
  <2>11. FlagInv'
    BY <1>1 DEF FlagInv
  <2>12. TransferInv'
    BY <1>1, <1>2, <2>3, <2>5 DEF TransferInv
  <2>13. WakeInv'
    BY <1>1, <1>2, <2>5, RangeTypes DEF WakeInv
  <2>14. QueuedInv' /\ ToldInv'
    BY <1>1, <2>3, <2>5 DEF QueuedInv, ToldInv
  <2>15. WokenInv'
    BY <1>1, <2>1 DEF WokenInv, TypeOK
  <2>16. OrderInv'
    BY <1>1, <2>3, <2>5 DEF OrderInv
  <2> QED
    BY <2>4, <2>7, <2>8, <2>9, <2>10, <2>11, <2>12, <2>13, <2>14, <2>15, <2>16
<1>3. CASE uaflgs[t] # 0
  <2>1. pc' = [pc EXCEPT ![t] = "wait"] /\ UNCHANGED <<proc, event>>
    BY <1>3 DEF TseCheck, Goto
  <2>2. TypeOK'
    BY <1>1, <2>1 DEF TypeOK
  <2>3. \A u \in Threads : (Asleep(u)' <=> Asleep(u)) /\ (Serving(u)' <=> Serving(u))
    BY <1>1, <2>1 DEF Asleep, Serving, TypeOK
  <2>4. \A u \in Threads : Pending(u)' = Pending(u)
    BY <1>1, <2>1 DEF Pending, TypeOK
  <2>5. PlaceInv'
    BY <1>1, <2>1, <2>3 DEF PlaceInv, Place, TypeOK
  <2>6. PixInv' /\ OwnerInv'
    BY <1>1, <2>1 DEF PixInv, OwnerInv, Own, TypeOK
  <2>7. QueueInv'
    BY <1>1, <2>1, <2>3, RangeTypes DEF QueueInv, TypeOK
  <2>8. FlagInv'
    BY <1>1, <2>1 DEF FlagInv
  <2>9. TransferInv'
    BY <1>1, <2>1, <2>3 DEF TransferInv
  <2>10. WakeInv'
    BY <1>1, <2>1, <2>3, <2>4, RangeTypes DEF WakeInv
  <2>11. QueuedInv' /\ ToldInv'
    BY <1>1, <2>1, <2>3, <2>4 DEF QueuedInv, ToldInv
  <2>12. WokenInv'
    BY <1>1, <1>3, <2>1 DEF WokenInv, TypeOK
  <2>13. OrderInv'
    BY <1>1, <2>1 DEF OrderInv
  <2> QED
    BY <2>2, <2>5, <2>6, <2>7, <2>8, <2>9, <2>10, <2>11, <2>12, <2>13
<1> QED
  BY <1>2, <1>3

\* wait_for_locks() takes the pix lock.
LEMMA WaitPixStep ==
  ASSUME IInv, NEW t \in Threads, WaitPix(t)
  PROVE  IInv'
<1> USE DEF IInv
<1>1. /\ pc[t] = "failed" /\ pix[proc[t]] = NoThread
      /\ pc' = [pc EXCEPT ![t] = "aquire"] /\ pix' = [pix EXCEPT ![proc[t]] = t]
      /\ seen' = [seen EXCEPT ![t] = {}] /\ wtr' = [wtr EXCEPT ![t] = t]
      /\ UNCHANGED <<flags, queue, have, rel, req, proc, need, uaflgs, event, trnsfr, unset,
                     wakeup>>
  BY DEF WaitPix, GiveUp, At, Goto, calls, tse
<1>2. /\ need[t] # {} /\ trnsfr[t] = {} /\ unset[t] = {} /\ wtr[t] = NoThread
      /\ wakeup[t] = <<>>
  BY <1>1 DEF PlaceInv, Place, Serving
<1>3. TypeOK'
  BY <1>1 DEF TypeOK
<1>4. \A u \in Threads : /\ Asleep(u)' <=> Asleep(u)
                         /\ Serving(u)' <=> Serving(u)
                         /\ Pending(u)' = Pending(u)
                         /\ u # t => wtr'[u] = wtr[u]
  BY <1>1 DEF Asleep, Serving, Pending, TypeOK
<1>5. ~ Asleep(t)
  BY <1>1 DEF Asleep
<1>6. wtr'[t] = t
  BY <1>1 DEF TypeOK
<1>7. PlaceInv'
  <2>1. pc'[t] = "aquire" /\ ~ Serving(t)'
    BY <1>1, <1>6 DEF Serving, TypeOK
  <2>2. \A u \in Threads \ {t} : pc'[u] = pc[u] /\ wtr'[u] = wtr[u]
    BY <1>1 DEF TypeOK
  <2> SUFFICES ASSUME NEW u \in Threads PROVE Place(u)'
    BY DEF PlaceInv, Place
  <2>3. CASE u = t
    BY <1>1, <1>2, <1>6, <2>1, <2>3 DEF PlaceInv, Place
  <2>4. CASE u # t
    BY <1>1, <1>4, <2>2, <2>4 DEF PlaceInv, Place
  <2> QED BY <2>3, <2>4
<1>8. PixInv'
  BY <1>1, ThreadAssumption DEF PixInv, TypeOK
<1>9. OwnerInv'
  BY <1>1 DEF OwnerInv, Own
<1>10. QueueInv'
  BY <1>1, <1>4, <1>5, <1>6, RangeTypes DEF QueueInv
<1>11. FlagInv'
  BY <1>1, ThreadAssumption DEF FlagInv, TypeOK
<1>12. TransferInv'
  BY <1>1, <1>2, <1>4 DEF TransferInv
<1>13. WakeInv'
  BY <1>1, <1>4, RangeTypes DEF WakeInv
<1>14. QueuedInv'
  BY <1>1, <1>2, <1>4, ThreadAssumption DEF QueuedInv
<1>15. ToldInv'
  BY <1>1, <1>4 DEF ToldInv
<1>16. WokenInv'
  BY <1>1 DEF WokenInv, TypeOK
<1>17. OrderInv'
  BY <1>1 DEF OrderInv
<1> QED
  BY <1>3, <1>7, <1>8, <1>9, <1>10, <1>11, <1>12, <1>13, <1>14, <1>15, <1>16, <1>17

\* transfer_locks() takes the pix lock.
LEMMA TransferPixStep ==
  ASSUME IInv, NEW t \in Threads, TransferPix(t)
  PROVE  IInv'
<1> USE DEF IInv
<1>1. /\ pc[t] = "transfer_pix" /\ pix[proc[t]] = NoThread
      /\ pc' = [pc EXCEPT ![t] = "transfer"] /\ pix' = [pix EXCEPT ![proc[t]] = t]
      /\ UNCHANGED <<flags, queue, have, rel, req, proc, need, seen, uaflgs, event, trnsfr,
                     unset, wtr, wakeup>>
  BY DEF TransferPix, At, Goto, calls, tse, transfer
<1>2. need[t] = {} /\ unset[t] = {} /\ wtr[t] = NoThread /\ wakeup[t] = <<>>
  BY <1>1 DEF PlaceInv, Place, Serving
<1>3. TypeOK'
  BY <1>1 DEF TypeOK
<1>4. \A u \in Threads : /\ Asleep(u)' <=> Asleep(u)
                         /\ u # t => (Serving(u)' <=> Serving(u))
                         /\ Pending(u)' = Pending(u)
  BY <1>1 DEF Asleep, Serving, Pending, TypeOK
<1>5. Serving(t)'
  BY <1>1 DEF Serving, TypeOK
<1>6. PlaceInv'
  BY <1>1, <1>2, <1>4, <1>5 DEF PlaceInv, Place, TypeOK
<1>7. PixInv'
  BY <1>1, ThreadAssumption DEF PixInv, TypeOK
<1>8. OwnerInv'
  BY <1>1 DEF OwnerInv, Own
<1>9. QueueInv'
  BY <1>1, <1>4, RangeTypes DEF QueueInv
<1>10. FlagInv'
  BY <1>1, ThreadAssumption DEF FlagInv, TypeOK
<1>11. TransferInv'
  BY <1>1, <1>4 DEF TransferInv
<1>12. WakeInv'
  BY <1>1, <1>4, RangeTypes DEF WakeInv
<1>13. QueuedInv' /\ ToldInv'
  BY <1>1, <1>4 DEF QueuedInv, ToldInv
<1>14. WokenInv'
  BY <1>1 DEF WokenInv, TypeOK
<1>15. OrderInv'
  BY <1>1 DEF OrderInv
<1> QED
  BY <1>3, <1>6, <1>7, <1>8, <1>9, <1>10, <1>11, <1>12, <1>13, <1>14, <1>15

\* transfer_locks() clears uaflgs of a thread that has got all it needs.
LEMMA WakeTellStep ==
  ASSUME IInv, NEW t \in Threads, WakeTell(t)
  PROVE  IInv'
<1> USE DEF IInv
<1> DEFINE w == Head(wakeup[t])
<1>1. /\ pc[t] = "wake" /\ pc' = [pc EXCEPT ![t] = "set"]
      /\ uaflgs' = [uaflgs EXCEPT ![w] = 0]
      /\ UNCHANGED <<flags, queue, pix, have, rel, req, proc, need, seen, event, trnsfr,
                     unset, wtr, wakeup>>
  BY DEF WakeTell, At, Goto, lock, calls, transfer
<1>2. wakeup[t] # <<>> /\ wakeup[t] \in Seq(Threads)
  BY <1>1 DEF PlaceInv, Place, TypeOK
<1>3. w \in Threads /\ w \in Range(wakeup[t]) /\ Range(Tail(wakeup[t])) = Range(wakeup[t]) \ {w}
  BY <1>2, TailFacts DEF WakeInv
<1>4. Pending(t) = Range(wakeup[t]) /\ Pending(t)' = Range(Tail(wakeup[t]))
  BY <1>1 DEF Pending, TypeOK
<1> HIDE DEF w
<1>5. Asleep(w) /\ need[w] = {} /\ uaflgs[w] = 1
  BY <1>3, <1>4 DEF WakeInv
<1>6. \A u \in Threads : /\ Asleep(u)' <=> Asleep(u)
                         /\ Serving(u)' <=> Serving(u)
                         /\ u # t => Pending(u)' = Pending(u)
                         /\ u # w => uaflgs'[u] = uaflgs[u]
  BY <1>1 DEF Asleep, Serving, Pending, TypeOK
<1>7. TypeOK'
  BY <1>1, <1>3 DEF TypeOK
<1>8. PlaceInv'
  BY <1>1, <1>2, <1>6 DEF PlaceInv, Place, TypeOK
<1>9. PixInv' /\ OwnerInv'
  BY <1>1 DEF PixInv, OwnerInv, Own, TypeOK
<1>10. QueueInv'
  BY <1>1, <1>5, <1>6, RangeTypes DEF QueueInv
<1>11. FlagInv'
  BY <1>1 DEF FlagInv
\* w is told after this transfer is over, and no other transfer has served it.
<1>12. \A u \in Threads : \A l \in unset[u] : l \notin have[w][proc[u]]
  <2> SUFFICES ASSUME NEW u \in Threads, NEW l \in unset[u], l \in have[w][proc[u]]
               PROVE  FALSE
    OBVIOUS
  <2>1. w \in Range(wakeup[u]) /\ Serving(u)
    BY <1>3, <1>5 DEF TransferInv, PlaceInv, Place
  <2>2. u # t /\ w \in Pending(u)
    BY <1>1, <2>1 DEF Serving, Pending
  <2> QED BY <2>2, <1>3, <1>4 DEF WakeInv
<1>13. TransferInv'
  BY <1>1, <1>6, <1>12 DEF TransferInv
<1>14. WakeInv'
  <2>1. \A u \in Threads : Pending(u)' \subseteq Pending(u) /\ w \notin Pending(u)'
    BY <1>3, <1>4, <1>6 DEF WakeInv
  <2> QED BY <1>1, <1>6, <2>1, RangeTypes DEF WakeInv
<1>15. QueuedInv'
  BY <1>1, <1>5, <1>6 DEF QueuedInv
<1>16. ToldInv'
  <2> SUFFICES ASSUME NEW x \in Threads, Asleep(x)', need'[x] = {}, uaflgs'[x] = 1
               PROVE  \E u \in Threads : x \in Pending(u)'
    BY DEF ToldInv
  <2>1. x # w
    BY <1>1, <1>3 DEF TypeOK
  <2>2. PICK u \in Threads : x \in Pending(u)
    BY <1>1, <1>6, <2>1 DEF ToldInv
  <2> QED BY <1>3, <1>4, <1>6, <2>1, <2>2
<1>17. WokenInv'
  <2> SUFFICES ASSUME NEW x \in Threads, pc'[x] = "wait", uaflgs'[x] = 0, event'[x] = FALSE
               PROVE  \E u \in Threads : pc'[u] = "set" /\ Head(wakeup'[u]) = x
    BY DEF WokenInv
  <2>1. CASE x = w
    BY <1>1, <2>1 DEF w, TypeOK
  <2>2. CASE x # w
    BY <1>1, <1>6, <2>2 DEF WokenInv, TypeOK
  <2> QED BY <2>1, <2>2
<1>18. OrderInv'
  BY <1>1 DEF OrderInv
<1> QED
  BY <1>7, <1>8, <1>9, <1>10, <1>11, <1>13, <1>14, <1>15, <1>16, <1>17, <1>18

\* ... and sets its event.
LEMMA WakeSetStep ==
  ASSUME IInv, NEW t \in Threads, WakeSet(t)
  PROVE  IInv'
<1> USE DEF IInv
<1> DEFINE w == Head(wakeup[t])
           ws == Tail(wakeup[t])
<1>1. /\ pc[t] = "set" /\ event' = [event EXCEPT ![w] = TRUE]
      /\ wakeup' = [wakeup EXCEPT ![t] = ws]
      /\ UNCHANGED <<flags, queue, pix, have, rel, req, need, seen, uaflgs, trnsfr, unset, wtr>>
  BY DEF WakeSet, Wakeup, At, lock, calls
<1>2. \/ ws = <<>> /\ pc' = [pc EXCEPT ![t] = "call"] /\ proc' = [proc EXCEPT ![t] = Min(Procs)]
      \/ ws # <<>> /\ pc' = [pc EXCEPT ![t] = "wake"] /\ proc' = proc
  BY DEF WakeSet, Wakeup, Goto, Return
<1>3. wakeup[t] # <<>> /\ wakeup[t] \in Seq(Threads)
  BY <1>1 DEF PlaceInv, Place, TypeOK
<1>4. w \in Threads /\ ws \in Seq(Threads) /\ IsInjective(ws)
  BY <1>3, TailFacts DEF WakeInv
<1>5. need[t] = {} /\ trnsfr[t] = {} /\ unset[t] = {} /\ wtr[t] = NoThread
  BY <1>1 DEF PlaceInv, Place, Serving
<1>6. Min(Procs) \in Procs
  BY MinProc, ProcAssumption
<1> HIDE DEF w, ws
<1>7. TypeOK'
  <2>1. pc' \in [Threads -> {"call", "failed", "aquire", "reset", "check", "wait",
                             "transfer_pix", "transfer", "wake", "set"}]
    BY <1>2 DEF TypeOK
  <2>3. proc' \in [Threads -> Procs]
    BY <1>2, <1>6 DEF TypeOK
  <2>2. event' \in [Threads -> BOOLEAN] /\ wakeup' \in [Threads -> Seq(Threads)]
    BY <1>1, <1>4 DEF TypeOK
  <2> QED BY <1>1, <2>1, <2>2, <2>3 DEF TypeOK
<1>8. /\ pc'[t] \in {"call", "wake"} /\ wakeup'[t] = ws
      /\ pc'[t] = "wake" <=> ws # <<>>
      /\ \A u \in Threads \ {t} : pc'[u] = pc[u] /\ proc'[u] = proc[u] /\ wakeup'[u] = wakeup[u]
  BY <1>1, <1>2 DEF TypeOK
<1>9. \A u \in Threads : /\ Asleep(u)' <=> Asleep(u)
                         /\ Serving(u)' <=> Serving(u)
  BY <1>1, <1>8 DEF Asleep, Serving
<1>10. \A u \in Threads : Pending(u)' = Pending(u)
  BY <1>1, <1>8 DEF Pending, ws
<1>11. PlaceInv'
  <2> SUFFICES ASSUME NEW u \in Threads PROVE Place(u)'
    BY DEF PlaceInv
  <2>1. CASE u = t
    BY <1>1, <1>5, <1>8, <2>1 DEF Place, Serving
  <2>2. CASE u # t
    <3>1. wtr[u] # t
      BY <1>1, <1>5, <2>2, ThreadAssumption DEF PlaceInv, Place
    <3> QED BY <1>1, <1>8, <1>9, <2>2, <3>1 DEF PlaceInv, Place
  <2> QED BY <2>1, <2>2
<1>12. PixInv'
  BY <1>1, <1>8 DEF PixInv
<1>13. OwnerInv'
  BY <1>1, <1>5, <1>8 DEF OwnerInv, Own
<1>14. QueueInv'
  <2>1. \A p \in Procs, l \in Locks : t \notin Range(queue[p][l])
    BY <1>1 DEF QueueInv, Asleep
  <2> QED BY <1>1, <1>8, <1>9, <2>1, RangeTypes DEF QueueInv
<1>15. FlagInv'
  BY <1>1 DEF FlagInv
<1>16. TransferInv'
  <2>1. \A u \in Threads : Asleep(u) => u # t /\ proc'[u] = proc[u]
    BY <1>1, <1>8 DEF Asleep
  <2> QED BY <1>1, <1>5, <1>8, <1>9, <2>1 DEF TransferInv
<1>17. WakeInv'
  <2>1. \A u \in Threads : IsInjective(wakeup'[u])
    BY <1>4, <1>8 DEF WakeInv
  <2> QED BY <1>1, <1>9, <1>10, <2>1, RangeTypes DEF WakeInv
<1>18. QueuedInv' /\ ToldInv'
  BY <1>1, <1>5, <1>8, <1>9, <1>10 DEF QueuedInv, ToldInv
<1>19. WokenInv'
  <2> SUFFICES ASSUME NEW x \in Threads, pc'[x] = "wait", uaflgs'[x] = 0, event'[x] = FALSE
               PROVE  \E u \in Threads : pc'[u] = "set" /\ Head(wakeup'[u]) = x
    BY DEF WokenInv
  <2>1. x # w /\ event[x] = FALSE
    BY <1>1, <1>4 DEF TypeOK
  <2>2. pc[x] = "wait" /\ uaflgs[x] = 0
    BY <1>1, <1>8
  <2>3. PICK u \in Threads : pc[u] = "set" /\ Head(wakeup[u]) = x
    BY <2>1, <2>2 DEF WokenInv
  <2>4. u # t
    BY <2>1, <2>3 DEF w
  <2> QED BY <1>8, <2>3, <2>4
<1>20. OrderInv'
  BY <1>1, <1>5, <1>8 DEF OrderInv
<1> QED
  BY <1>7, <1>11, <1>12, <1>13, <1>14, <1>15, <1>16, <1>17, <1>18, <1>19, <1>20

\* transfer_locks() unsets wait bits and releases the pix lock.
LEMMA TransferDoneStep ==
  ASSUME IInv, NEW t \in Threads, TransferDone(t)
  PROVE  IInv'
<1> USE DEF IInv
<1> DEFINE p == proc[t]
<1>1. /\ pc[t] = "transfer" /\ trnsfr[t] = {}
      /\ flags' = [flags EXCEPT ![p] = @ \ {Waiter(l) : l \in unset[t]}]
      /\ unset' = [unset EXCEPT ![t] = {}] /\ pix' = [pix EXCEPT ![p] = NoThread]
      /\ wakeup' = [wakeup EXCEPT ![t] = wakeup[t]]
      /\ UNCHANGED <<queue, have, rel, req, need, seen, uaflgs, event, trnsfr, wtr>>
  BY DEF TransferDone, Wakeup, At, calls, tse
<1>2. \/ wakeup[t] = <<>> /\ pc' = [pc EXCEPT ![t] = "call"] /\ proc' = [proc EXCEPT ![t] = Min(Procs)]
      \/ wakeup[t] # <<>> /\ pc' = [pc EXCEPT ![t] = "wake"] /\ proc' = proc
  BY DEF TransferDone, Wakeup, Goto, Return
<1>3. p \in Procs /\ pix[p] = t /\ wakeup' = wakeup
  BY <1>1 DEF PixInv, TypeOK
<1>4. need[t] = {} /\ wtr[t] = NoThread
  BY <1>1 DEF PlaceInv, Place, Serving
<1>5. Min(Procs) \in Procs
  BY MinProc, ProcAssumption
<1> HIDE DEF p
<1>6. TypeOK'
  <2>1. pc' \in [Threads -> {"call", "failed", "aquire", "reset", "check", "wait",
                             "transfer_pix", "transfer", "wake", "set"}]
    BY <1>2 DEF TypeOK
  <2>3. proc' \in [Threads -> Procs]
    BY <1>2, <1>5 DEF TypeOK
  <2>2. /\ flags' \in [Procs -> SUBSET Bits] /\ pix' \in [Procs -> Threads \cup {NoThread}]
        /\ unset' \in [Threads -> SUBSET Locks]
    BY <1>1, <1>3 DEF TypeOK
  <2> QED BY <1>1, <1>3, <2>1, <2>2, <2>3 DEF TypeOK
<1>7. /\ pc'[t] \in {"call", "wake"} /\ unset'[t] = {}
      /\ pc'[t] = "wake" <=> wakeup[t] # <<>>
      /\ \A u \in Threads \ {t} : pc'[u] = pc[u] /\ proc'[u] = proc[u] /\ unset'[u] = unset[u]
      /\ pix'[p] = NoThread /\ \A q \in Procs \ {p} : pix'[q] = pix[q] /\ flags'[q] = flags[q]
      /\ flags'[p] = flags[p] \ {Waiter(l) : l \in unset[t]}
  BY <1>1, <1>2, <1>3 DEF TypeOK
<1>8. \A u \in Threads : /\ Asleep(u)' <=> Asleep(u)
                         /\ u # t => (Serving(u)' <=> Serving(u))
                         /\ Pending(u)' = Pending(u)
  BY <1>1, <1>3, <1>7 DEF Asleep, Serving, Pending
<1>9. \A q \in Procs, l \in Locks : l \in flags'[q] <=> l \in flags[q]
  <2>1. \A l \in unset[t] : Waiter(l) \notin Locks
    BY BitFacts DEF TypeOK
  <2> QED BY <1>3, <1>7, <2>1
<1>10. PlaceInv'
  <2> SUFFICES ASSUME NEW u \in Threads PROVE Place(u)'
    BY DEF PlaceInv
  <2>1. CASE u = t
    BY <1>1, <1>3, <1>4, <1>7, <2>1 DEF Place, Serving
  <2>2. CASE u # t
    <3>1. wtr[u] # t
      BY <1>1, <1>4, <2>2, ThreadAssumption DEF PlaceInv, Place
    <3> QED BY <1>1, <1>3, <1>7, <1>8, <2>2, <3>1 DEF PlaceInv, Place
  <2> QED BY <2>1, <2>2
<1>11. PixInv'
  BY <1>1, <1>3, <1>7, ThreadAssumption DEF PixInv
<1>12. OwnerInv'
  BY <1>1, <1>7, <1>9 DEF OwnerInv, Own
<1>13. QueueInv'
  <2>1. \A q \in Procs, l \in Locks : t \notin Range(queue[q][l])
    BY <1>1 DEF QueueInv, Asleep
  <2> QED BY <1>1, <1>7, <1>8, <2>1, RangeTypes DEF QueueInv
<1>14. FlagInv'
  <2> SUFFICES ASSUME NEW q \in Procs, NEW l \in Locks
               PROVE  /\ queue[q][l] # <<>> => l \in flags'[q] /\ Waiter(l) \in flags'[q]
                      /\ Waiter(l) \in flags'[q] =>
                           \/ queue[q][l] # <<>>
                           \/ \E u \in Threads : pix'[q] = u /\ l \in unset'[u]
    BY <1>1 DEF FlagInv
  <2>1. CASE q # p
    <3>1. \A u \in Threads : pix[q] = u => u # t
      BY <1>1, <2>1 DEF PixInv, p
    <3> QED BY <1>7, <2>1, <3>1 DEF FlagInv
  <2>2. CASE q = p
    <3>1. Waiter(l) \in flags'[p] <=> Waiter(l) \in flags[p] /\ l \notin unset[t]
      BY <1>7, BitFacts DEF TypeOK
    <3>2. l \in unset[t] => queue[p][l] = <<>>
      BY DEF TransferInv, p
    <3> QED BY <1>3, <1>9, <2>2, <3>1, <3>2 DEF FlagInv
  <2> QED BY <2>1, <2>2
<1>15. TransferInv'
  <2>1. \A u \in Threads : \A l \in unset'[u] : l \in Locks /\ u # t
    BY <1>7 DEF TypeOK
  <2>2. ASSUME NEW u \in Threads, NEW l \in trnsfr'[u] PROVE queue'[proc'[u]][l] # <<>>
    BY <1>1, <1>7, <2>2 DEF TransferInv
  <2>3. ASSUME NEW u \in Threads, NEW l \in unset'[u]
        PROVE  /\ queue'[proc'[u]][l] = <<>> /\ l \in flags'[proc'[u]]
               /\ \A m \in trnsfr'[u] : l < m
               /\ wtr'[u] # NoThread => \A m \in need'[wtr'[u]] : l < m
    <3>1. u # t /\ l \in unset[u] /\ proc'[u] = proc[u] /\ proc[u] \in Procs /\ l \in Locks
      BY <1>7, <2>1, <2>3 DEF TypeOK
    <3> QED BY <1>1, <1>9, <3>1 DEF TransferInv
  <2>4. ASSUME NEW u \in Threads, NEW l \in unset'[u], NEW w \in Threads,
               l \in have'[w][proc'[u]]
        PROVE  /\ Asleep(w)' /\ proc'[w] = proc'[u] /\ uaflgs'[w] = 1
               /\ need'[w] # {} \/ w \in Range(wakeup'[u])
    <3>1. u # t /\ l \in unset[u] /\ proc'[u] = proc[u]
      BY <1>7, <2>1, <2>4
    <3>2. Asleep(w) => w # t /\ proc'[w] = proc[w]
      BY <1>1, <1>7 DEF Asleep
    <3> QED BY <1>1, <1>3, <1>8, <2>4, <3>1, <3>2 DEF TransferInv
  <2> QED BY <2>2, <2>3, <2>4 DEF TransferInv
<1>16. WakeInv'
  BY <1>1, <1>3, <1>8, RangeTypes DEF WakeInv
<1>17. QueuedInv' /\ ToldInv'
  BY <1>1, <1>4, <1>7, <1>8 DEF QueuedInv, ToldInv
<1>18. WokenInv'
  BY <1>1, <1>3, <1>7 DEF WokenInv
<1>19. OrderInv'
  BY <1>1, <1>4, <1>7 DEF OrderInv
<1> QED
  BY <1>6, <1>10, <1>11, <1>12, <1>13, <1>14, <1>15, <1>16, <1>17, <1>18, <1>19

\* In try_aquire(): the thread it is called for is served by nobody else and in no
\* queue, and the wait flag of the lock it is to get is not about to be unset.
LEMMA AquireFacts ==
  ASSUME IInv, NEW t \in Threads, pc[t] = "aquire"
  PROVE  /\ wtr[t] \in Threads /\ proc[t] \in Procs /\ proc[wtr[t]] = proc[t]
         /\ pix[proc[t]] = t
         /\ Min(need[wtr[t]]) \in need[wtr[t]] /\ Min(need[wtr[t]]) \in Locks
         /\ \A m \in need[wtr[t]] : Min(need[wtr[t]]) <= m
         /\ \A u \in Threads : wtr[u] = wtr[t] => u = t
         /\ \A u \in Threads : wtr[u] = t => u = t
         /\ \A u \in Threads : unset[u] # {} /\ proc[u] = proc[t] => u = t
         /\ Min(need[wtr[t]]) \notin unset[t]
         /\ \A q \in Procs, m \in Locks : wtr[t] \notin Range(queue[q][m])
         /\ \A u \in Threads : wtr[t] \notin Pending(u)
         /\ trnsfr[wtr[t]] # {} \/ unset[wtr[t]] # {} => FALSE
         /\ wtr[t] = t => trnsfr[t] = {} /\ unset[t] = {} /\ wakeup[t] = <<>>
         /\ wtr[t] # t => Asleep(wtr[t]) /\ need[t] = {} /\ uaflgs[wtr[t]] = 1
<1> USE DEF IInv
<1> DEFINE w == wtr[t]
           p == proc[t]
           l == Min(need[w])
<1>1. w \in Threads /\ p \in Procs /\ need[w] # {} /\ need[w] \subseteq Locks
  BY DEF PlaceInv, Place, TypeOK
<1>2. l \in need[w] /\ l \in Locks /\ \A m \in need[w] : l <= m
  BY <1>1, MinLock
<1>3. pix[p] = t
  BY <1>1 DEF PixInv
<1>4. w # t => Asleep(w) /\ proc[w] = p /\ need[t] = {}
  BY DEF PlaceInv, Place, Serving
<1>5. w = t => trnsfr[t] = {} /\ unset[t] = {} /\ wakeup[t] = <<>>
  BY DEF PlaceInv, Place, Serving
<1> HIDE DEF l
<1>6. \A u \in Threads : wtr[u] # NoThread =>
        pc[u] = "aquire" /\ (wtr[u] # u => Asleep(wtr[u]) /\ proc[wtr[u]] = proc[u])
  BY DEF PlaceInv, Place
<1>7. \A u \in Threads : wtr[u] = t => u = t
  BY <1>6, ThreadAssumption DEF Asleep
<1>8. \A u \in Threads : wtr[u] = w => u = t
  <2> SUFFICES ASSUME NEW u \in Threads, wtr[u] = w, u # t PROVE FALSE
    OBVIOUS
  <2>1. pc[u] = "aquire" /\ w # t
    BY <1>1, <1>6, <1>7, ThreadAssumption
  <2>2. w # u
    BY <1>4, <2>1 DEF Asleep
  <2>3. proc[u] = p
    BY <1>1, <1>4, <1>6, <2>1, <2>2, ThreadAssumption
  <2> QED BY <1>1, <1>3, <2>1, <2>3 DEF PixInv
<1>9. \A u \in Threads : unset[u] # {} /\ proc[u] = p => u = t
  BY <1>1, <1>3 DEF PlaceInv, Place, Serving, PixInv
<1>10. l \notin unset[t]
  BY <1>1, <1>2, ThreadAssumption, BitFacts DEF TransferInv
<1>11. \A q \in Procs, m \in Locks : w \notin Range(queue[q][m])
  BY DEF QueueInv
<1>12. \A u \in Threads : w \notin Pending(u)
  BY <1>1 DEF WakeInv
<1>13. w # t => trnsfr[w] = {} /\ unset[w] = {}
  BY <1>1, <1>4 DEF PlaceInv, Place, Serving, Asleep
<1>14. w # t => uaflgs[w] = 1
  BY <1>1, <1>4 DEF QueuedInv
<1> QED
  BY <1>1, <1>2, <1>3, <1>4, <1>5, <1>7, <1>8, <1>9, <1>10, <1>11, <1>12, <1>13, <1>14 DEF l

\* try_aquire() puts the thread in queue: AquireQueued and AquireBusy.
Enqueue(t) ==
  LET p == proc[t]
      l == Min(need[wtr[t]])
  IN /\ pc[t] = "aquire" /\ l \in flags[p]
     /\ flags' = [flags EXCEPT ![p] = flags[p] \cup {Waiter(l)}]
     /\ queue' = [queue EXCEPT ![p] = [queue[p] EXCEPT ![l] = Append(queue[p][l], wtr[t])]]
     /\ Tried(t) /\ UNCHANGED <<have, rel, req, need, seen, event, trnsfr, unset>>

\* Both ways in which try_aquire() fails end in enqueue_waiter().
LEMMA EnqueueStep ==
  ASSUME IInv, NEW t \in Threads, Enqueue(t)
  PROVE  IInv'
<1> USE DEF IInv
<1>0. /\ pc[t] = "aquire" /\ Tried(t)
      /\ UNCHANGED <<have, rel, req, need, seen, event, trnsfr, unset>>
  BY DEF Enqueue
<1>w. PICK w \in Threads : w = wtr[t]
  BY <1>0, AquireFacts
<1>p. PICK p \in Procs : p = proc[t]
  BY DEF TypeOK
<1>l. PICK l \in Locks : l = Min(need[w])
  BY <1>0, <1>w, AquireFacts
<1>1. /\ w \in Threads /\ p \in Procs /\ proc[w] = p /\ pix[p] = t
      /\ l \in need[w] /\ l \in Locks /\ \A m \in need[w] : l <= m
      /\ \A u \in Threads : wtr[u] = w => u = t
      /\ \A u \in Threads : wtr[u] = t => u = t
      /\ \A u \in Threads : unset[u] # {} /\ proc[u] = p => u = t
      /\ l \notin unset[t]
      /\ \A q \in Procs, m \in Locks : w \notin Range(queue[q][m])
      /\ w = t => trnsfr[t] = {} /\ unset[t] = {} /\ wakeup[t] = <<>>
      /\ w # t => Asleep(w) /\ need[t] = {} /\ uaflgs[w] = 1
  BY <1>0, <1>w, <1>p, <1>l, AquireFacts
<1>2. /\ wtr' = [wtr EXCEPT ![t] = NoThread] /\ wakeup' = wakeup /\ proc' = proc
      /\ w = t => /\ pix' = [pix EXCEPT ![p] = NoThread] /\ pc' = [pc EXCEPT ![t] = "reset"]
                  /\ uaflgs' = [uaflgs EXCEPT ![t] = 1]
      /\ w # t => pix' = pix /\ pc' = [pc EXCEPT ![t] = "transfer"] /\ uaflgs' = uaflgs
  BY <1>0, <1>1, <1>w, <1>p DEF Tried, Return, Goto
<1>3. l \in flags[p] /\ Waiter(l) \notin Locks /\ Waiter(l) \in Bits
  BY <1>1, <1>w, <1>p, <1>l, BitFacts DEF Enqueue
<1>4. /\ flags' = [flags EXCEPT ![p] = flags[p] \cup {Waiter(l)}]
      /\ queue' = [queue EXCEPT ![p] = [queue[p] EXCEPT ![l] = Append(queue[p][l], w)]]
  BY <1>w, <1>p, <1>l DEF Enqueue
<1>5. /\ flags' \in [Procs -> SUBSET Bits] /\ flags'[p] = flags[p] \cup {Waiter(l)}
      /\ \A q \in Procs : q # p => flags'[q] = flags[q]
  <2>1. flags[p] \cup {Waiter(l)} \in SUBSET Bits /\ flags \in [Procs -> SUBSET Bits]
    BY <1>1, <1>3 DEF TypeOK
  <2> QED BY <1>1, <1>4, <2>1, Update
<1>6. queue[p][l] \in Seq(Threads) /\ IsInjective(queue[p][l])
  BY <1>1 DEF TypeOK, QueueInv
<1>7. /\ queue' \in [Procs -> [Locks -> Seq(Threads)]] /\ queue'[p][l] # <<>>
      /\ Range(queue'[p][l]) = Range(queue[p][l]) \cup {w} /\ IsInjective(queue'[p][l])
      /\ \A q \in Procs, m \in Locks : q # p \/ m # l => queue'[q][m] = queue[q][m]
  <2> DEFINE s == Append(queue[p][l], w)
  <2>1. /\ s \in Seq(Threads) /\ s # <<>> /\ Range(s) = Range(queue[p][l]) \cup {w}
        /\ IsInjective(s)
    BY <1>1, <1>6, AppendFacts
  <2>2. queue' = [queue EXCEPT ![p] = [queue[p] EXCEPT ![l] = s]]
    BY <1>4
  <2>3. queue \in [Procs -> [Locks -> Seq(Threads)]]
    BY DEF TypeOK
  <2> HIDE DEF s
  <2>4. /\ queue' \in [Procs -> [Locks -> Seq(Threads)]] /\ queue'[p][l] = s
        /\ \A q \in Procs, m \in Locks : q # p \/ m # l => queue'[q][m] = queue[q][m]
    BY <1>1, <2>1, <2>2, <2>3, Update2
  <2> QED BY <2>1, <2>4
<1>8. TypeOK'
  <2>1. CASE w = t
    <3>1. pix' \in [Procs -> Threads \cup {NoThread}]
      BY <1>2, <2>1 DEF TypeOK
    <3>2. uaflgs \in [Threads -> 0..1]
      BY DEF TypeOK
    <3>3. uaflgs' \in [Threads -> 0..1]
      BY <1>2, <2>1, <3>2
    <3> QED BY <1>0, <1>2, <1>5, <1>7, <2>1, <3>1, <3>3 DEF TypeOK
  <2>2. CASE w # t
    BY <1>0, <1>2, <1>5, <1>7, <2>2 DEF TypeOK
  <2> QED BY <2>1, <2>2
<1>9. /\ wtr'[t] = NoThread /\ pc'[t] = (IF w = t THEN "reset" ELSE "transfer")
      /\ \A u \in Threads \ {t} : pc'[u] = pc[u] /\ wtr'[u] = wtr[u] /\ uaflgs'[u] = uaflgs[u]
      /\ \A q \in Procs \ {p} : pix'[q] = pix[q]
      /\ pix'[p] = IF w = t THEN NoThread ELSE t
  BY <1>1, <1>2 DEF TypeOK
<1>10. ~ Asleep(t)
  BY <1>0 DEF Asleep
<1>11. Asleep(w)' /\ uaflgs'[w] = 1
  <2>1. uaflgs \in [Threads -> 0..1]
    BY DEF TypeOK
  <2>2. CASE w = t
    BY <1>2, <1>9, <2>1, <2>2 DEF Asleep
  <2>3. CASE w # t
    <3>1. pc'[w] = pc[w] /\ uaflgs'[w] = uaflgs[w]
      BY <1>1, <1>9, <2>3
    <3> QED BY <1>1, <2>3, <3>1 DEF Asleep
  <2> QED BY <2>2, <2>3
<1>12. \A u \in Threads : /\ u # w => (Asleep(u)' <=> Asleep(u))
                          /\ Asleep(u) => Asleep(u)' /\ uaflgs'[u] = uaflgs[u]
                          /\ Serving(u)' <=> Serving(u)
                          /\ Pending(u)' = Pending(u)
  <2>1. \A u \in Threads : u # t => /\ Asleep(u)' <=> Asleep(u)
                                    /\ Serving(u)' <=> Serving(u)
                                    /\ Pending(u)' = Pending(u)
    BY <1>0, <1>2, <1>9 DEF Asleep, Serving, Pending
  <2>2. (Serving(t)' <=> Serving(t)) /\ Pending(t)' = Pending(t)
    BY <1>0, <1>2, <1>9, <1>w DEF Serving, Pending
  <2>3. t # w => ~ Asleep(t)'
    BY <1>9 DEF Asleep
  <2> QED BY <1>9, <1>10, <2>1, <2>2, <2>3
<1>13. PlaceInv'
  <2> SUFFICES ASSUME NEW u \in Threads PROVE Place(u)'
    BY DEF PlaceInv
  <2>1. CASE u = t /\ w = t
    <3>1. pc'[t] = "reset" /\ wtr'[t] = NoThread /\ ~ Serving(t)'
      BY <1>9, <2>1 DEF Serving
    <3> QED BY <1>0, <1>1, <1>2, <2>1, <3>1 DEF Place
  <2>2. CASE u = t /\ w # t
    <3>1. pc'[t] = "transfer" /\ wtr'[t] = NoThread /\ Serving(t)'
      BY <1>9, <2>2 DEF Serving
    <3> QED BY <1>0, <1>1, <1>2, <2>2, <3>1 DEF Place
  <2>3. CASE u # t
    <3>1. wtr[u] # w
      BY <1>1, <2>3
    <3> QED BY <1>0, <1>2, <1>9, <1>12, <2>3, <3>1 DEF PlaceInv, Place
  <2> QED BY <2>1, <2>2, <2>3
<1>14. PixInv'
  BY <1>0, <1>1, <1>2, <1>9, <1>p, ThreadAssumption DEF PixInv
<1>15. \A q \in Procs, m \in Locks : m \in flags'[q] <=> m \in flags[q]
  BY <1>3, <1>5
<1>16. OwnerInv'
  BY <1>0, <1>2, <1>15 DEF OwnerInv, Own
<1>17. \A q \in Procs, m \in Locks : Range(queue[q][m]) \subseteq Threads
  BY RangeTypes
<1>18. \A q \in Procs, m \in Locks : q # p \/ m # l => queue'[q][m] = queue[q][m]
  BY <1>7
<1>19. QueueInv'
  <2> SUFFICES ASSUME NEW q \in Procs, NEW m \in Locks
               PROVE  /\ IsInjective(queue'[q][m])
                      /\ \A x \in Range(queue'[q][m]) :
                           /\ Asleep(x)' /\ uaflgs'[x] = 1 /\ proc'[x] = q
                           /\ m \in need'[x] /\ \A k \in need'[x] : m <= k
                           /\ \A u \in Threads : wtr'[u] # x
    BY DEF QueueInv
  <2>1. IsInjective(queue'[q][m])
    <3>1. CASE q = p /\ m = l
      BY <1>7, <3>1
    <3>2. CASE q # p \/ m # l
      BY <1>18, <3>2 DEF QueueInv
    <3> QED BY <3>1, <3>2
  <2>2. ASSUME NEW x \in Range(queue[q][m])
        PROVE  /\ Asleep(x)' /\ uaflgs'[x] = 1 /\ proc'[x] = q
               /\ m \in need'[x] /\ \A k \in need'[x] : m <= k
               /\ \A u \in Threads : wtr'[u] # x
    <3>1. x \in Threads /\ Asleep(x)
      BY <1>17, <2>2 DEF QueueInv
    <3> QED BY <1>0, <1>2, <1>9, <1>12, <2>2, <3>1, ThreadAssumption DEF QueueInv
  <2>3. \A u \in Threads : wtr'[u] # w
    BY <1>1, <1>9, ThreadAssumption
  <2>4. \A x \in Range(queue'[q][m]) : x \in Range(queue[q][m]) \/ (x = w /\ q = p /\ m = l)
    BY <1>7, <1>18
  <2>5. CASE q = p /\ m = l
    <3>1. proc'[w] = q /\ m \in need'[w] /\ \A k \in need'[w] : m <= k
      BY <1>0, <1>1, <1>2, <2>5
    <3>2. \A x \in Range(queue'[q][m]) : x \in Range(queue[q][m]) \/ x = w
      BY <2>4
    <3> QED BY <1>11, <2>1, <2>2, <2>3, <3>1, <3>2
  <2>6. CASE q # p \/ m # l
    BY <2>1, <2>2, <2>4, <2>6
  <2> QED BY <2>5, <2>6
<1>20. FlagInv'
  <2> SUFFICES ASSUME NEW q \in Procs, NEW m \in Locks
               PROVE  /\ queue'[q][m] # <<>> => m \in flags'[q] /\ Waiter(m) \in flags'[q]
                      /\ Waiter(m) \in flags'[q] =>
                           \/ queue'[q][m] # <<>>
                           \/ \E u \in Threads : pix'[q] = u /\ m \in unset'[u]
    BY DEF FlagInv
  <2>1. CASE q = p /\ m = l
    BY <1>3, <1>5, <1>7, <2>1
  <2>2. CASE q # p \/ m # l
    <3>1. queue'[q][m] = queue[q][m] /\ (Waiter(m) \in flags'[q] <=> Waiter(m) \in flags[q])
      BY <1>1, <1>5, <1>18, <2>2, BitFacts
    <3>2. \A u \in Threads : pix[q] = u /\ m \in unset[u] => pix'[q] = u
      BY <1>1, <1>9
    <3>3. m \in flags'[q] <=> m \in flags[q]
      BY <1>15
    <3>4. queue[q][m] # <<>> => m \in flags[q] /\ Waiter(m) \in flags[q]
      BY DEF FlagInv
    <3>5. Waiter(m) \in flags[q] =>
            queue[q][m] # <<>> \/ \E u \in Threads : pix[q] = u /\ m \in unset[u]
      BY DEF FlagInv
    <3> QED BY <1>0, <3>1, <3>2, <3>3, <3>4, <3>5
  <2> QED BY <2>1, <2>2
<1>21. TransferInv'
  <2>1. ASSUME NEW u \in Threads, NEW m \in trnsfr'[u] PROVE queue'[proc'[u]][m] # <<>>
    <3>1. proc[u] \in Procs /\ m \in Locks /\ queue[proc[u]][m] # <<>>
      BY <1>0, <2>1 DEF TransferInv, TypeOK
    <3> QED BY <1>0, <1>2, <1>7, <1>18, <3>1
  <2>2. ASSUME NEW u \in Threads, NEW m \in unset'[u]
        PROVE  /\ queue'[proc'[u]][m] = <<>> /\ m \in flags'[proc'[u]]
               /\ \A k \in trnsfr'[u] : m < k
               /\ wtr'[u] # NoThread => \A k \in need'[wtr'[u]] : m < k
    <3>1. m \in unset[u] /\ proc'[u] = proc[u] /\ proc[u] \in Procs /\ m \in Locks
      BY <1>0, <1>2, <2>2 DEF TypeOK
    <3>2. proc[u] # p \/ m # l
      BY <1>1, <3>1
    <3>3. queue'[proc[u]][m] = queue[proc[u]][m] /\ (m \in flags'[proc[u]] <=> m \in flags[proc[u]])
      BY <1>15, <1>18, <3>1, <3>2
    <3>4. wtr'[u] # NoThread => wtr'[u] = wtr[u]
      BY <1>9
    <3>5. /\ queue[proc[u]][m] = <<>> /\ m \in flags[proc[u]] /\ \A k \in trnsfr[u] : m < k
          /\ wtr[u] # NoThread => \A k \in need[wtr[u]] : m < k
      BY <3>1 DEF TransferInv
    <3> QED BY <1>0, <3>1, <3>3, <3>4, <3>5
  <2>3. ASSUME NEW u \in Threads, NEW m \in unset'[u], NEW x \in Threads,
               m \in have'[x][proc'[u]]
        PROVE  /\ Asleep(x)' /\ proc'[x] = proc'[u] /\ uaflgs'[x] = 1
               /\ need'[x] # {} \/ x \in Range(wakeup'[u])
    BY <1>0, <1>2, <1>12, <2>3 DEF TransferInv
  <2> QED BY <2>1, <2>2, <2>3 DEF TransferInv
<1>22. WakeInv'
  <2>1. \A u \in Threads : Pending(u) \subseteq Threads
    BY RangeTypes
  <2> QED BY <1>0, <1>2, <1>12, <2>1 DEF WakeInv
<1>23. QueuedInv'
  <2> SUFFICES ASSUME NEW x \in Threads, Asleep(x)', need'[x] # {}
               PROVE  /\ uaflgs'[x] = 1
                      /\ \/ \E m \in need'[x] : x \in Range(queue'[proc'[x]][m])
                         \/ \E u \in Threads \ {x} : wtr'[u] = x
    BY DEF QueuedInv
  <2>1. CASE x = w
    BY <1>0, <1>1, <1>2, <1>7, <1>11, <2>1
  <2>2. CASE x # w
    <3>1. Asleep(x) /\ x # t
      BY <1>10, <1>12, <2>2
    <3>2. \A q \in Procs, m \in Locks : Range(queue[q][m]) \subseteq Range(queue'[q][m])
      BY <1>7, <1>18
    <3>3. need[x] \subseteq Locks /\ proc[x] \in Procs
      BY DEF TypeOK
    <3>4. CASE \E m \in need[x] : x \in Range(queue[proc[x]][m])
      BY <1>0, <1>2, <1>9, <3>1, <3>2, <3>3, <3>4 DEF QueuedInv
    <3>5. CASE \E u \in Threads \ {x} : wtr[u] = x
      <4>1. PICK u \in Threads \ {x} : wtr[u] = x
        BY <3>5
      <4>2. u # t
        BY <2>2, <4>1, <1>w
      <4> QED BY <1>0, <1>9, <3>1, <4>1, <4>2 DEF QueuedInv
    <3> QED BY <1>0, <3>1, <3>4, <3>5 DEF QueuedInv
  <2> QED BY <2>1, <2>2
<1>24. ToldInv'
  BY <1>0, <1>1, <1>12 DEF ToldInv
<1>25. WokenInv'
  BY <1>0, <1>2, <1>9 DEF WokenInv
<1>26. OrderInv'
  BY <1>0, <1>2 DEF OrderInv
<1> QED
  BY <1>8, <1>13, <1>14, <1>16, <1>19, <1>20, <1>21, <1>22, <1>23, <1>24, <1>25, <1>26

\* try_aquire() finds a queue.
LEMMA AquireQueuedStep ==
  ASSUME IInv, NEW t \in Threads, AquireQueued(t)
  PROVE  IInv'
<1> DEFINE p == proc[t]
           l == Min(need[wtr[t]])
<1>1. /\ pc[t] = "aquire" /\ queue[p][l] # <<>>
      /\ queue' = [queue EXCEPT ![p] = [queue[p] EXCEPT ![l] = Append(queue[p][l], wtr[t])]]
      /\ Tried(t) /\ UNCHANGED <<flags, have, rel, req, need, seen, event, trnsfr, unset>>
  BY DEF AquireQueued, At, calls
<1>2. p \in Procs /\ l \in Locks
  BY <1>1, AquireFacts
<1>3. l \in flags[p] /\ Waiter(l) \in flags[p]
  BY <1>1, <1>2 DEF IInv, FlagInv
<1>4. flags' = [flags EXCEPT ![p] = flags[p] \cup {Waiter(l)}]
  BY <1>1, <1>3 DEF IInv, TypeOK
<1> QED
  BY <1>1, <1>3, <1>4, EnqueueStep DEF Enqueue

\* try_aquire() finds the lock taken and sets the wait bit.
LEMMA AquireBusyStep ==
  ASSUME IInv, NEW t \in Threads, AquireBusy(t)
  PROVE  IInv'
<1> DEFINE p == proc[t]
           l == Min(need[wtr[t]])
<1>1. /\ pc[t] = "aquire" /\ queue[p][l] = <<>> /\ l \in flags[p]
      /\ flags' = [flags EXCEPT ![p] = flags[p] \cup {Waiter(l)}]
      /\ queue' = [queue EXCEPT ![p] = [queue[p] EXCEPT ![l] = <<wtr[t]>>]]
      /\ Tried(t) /\ UNCHANGED <<have, rel, req, need, seen, event, trnsfr, unset>>
  BY DEF AquireBusy, At, calls
<1>2. p \in Procs /\ l \in Locks
  BY <1>1, AquireFacts
<1>3. Append(queue[p][l], wtr[t]) = <<wtr[t]>>
  BY <1>1
<1>4. queue' = [queue EXCEPT ![p] = [queue[p] EXCEPT ![l] = Append(queue[p][l], wtr[t])]]
  BY <1>1, <1>3
<1> QED
  BY <1>1, <1>4, EnqueueStep DEF Enqueue

\* try_aquire() gets the lock.
LEMMA AquireGotStep ==
  ASSUME IInv, NEW t \in Threads, AquireGot(t)
  PROVE  IInv'
<1> USE DEF IInv
<1>0. /\ pc[t] = "aquire"
      /\ UNCHANGED <<queue, rel, req, seen, event, trnsfr, unset>>
  BY DEF AquireGot, At, calls
<1>w. PICK w \in Threads : w = wtr[t]
  BY <1>0, AquireFacts
<1>p. PICK p \in Procs : p = proc[t]
  BY DEF TypeOK
<1>l. PICK l \in Locks : l = Min(need[w])
  BY <1>0, <1>w, AquireFacts
<1>1. /\ proc[w] = p /\ pix[p] = t
      /\ l \in need[w] /\ \A m \in need[w] : l <= m
      /\ \A u \in Threads : wtr[u] = w => u = t
      /\ \A u \in Threads : wtr[u] = t => u = t
      /\ \A u \in Threads : unset[u] # {} /\ proc[u] = p => u = t
      /\ l \notin unset[t]
      /\ \A q \in Procs, m \in Locks : w \notin Range(queue[q][m])
      /\ \A u \in Threads : w \notin Pending(u)
      /\ trnsfr[w] = {}
      /\ w = t => trnsfr[t] = {} /\ unset[t] = {} /\ wakeup[t] = <<>>
      /\ w # t => Asleep(w) /\ need[t] = {} /\ uaflgs[w] = 1
  BY <1>0, <1>w, <1>p, <1>l, AquireFacts
<1>2. /\ queue[p][l] = <<>> /\ l \notin flags[p]
      /\ flags' = [flags EXCEPT ![p] = (flags[p] \cup {l, Waiter(l)}) \ {Waiter(l)}]
      /\ have' = [have EXCEPT ![w] = [have[w] EXCEPT ![p] = have[w][p] \cup {l}]]
      /\ need' = [need EXCEPT ![w] = need[w] \ {l}]
  BY <1>w, <1>p, <1>l DEF AquireGot
\* The three ways it ends: it goes on with the next lock, returns to
\* wait_for_locks(), or to transfer_locks().
<1> DEFINE GoesOn == need'[w] # {} /\ UNCHANGED <<pix, pc, proc, uaflgs, wtr, wakeup>>
           Returns == /\ need'[w] = {} /\ w = t /\ wtr' = [wtr EXCEPT ![t] = NoThread]
                      /\ pix' = [pix EXCEPT ![p] = NoThread] /\ pc' = [pc EXCEPT ![t] = "call"]
                      /\ proc' = [proc EXCEPT ![t] = Min(Procs)] /\ UNCHANGED <<wakeup, uaflgs>>
           Served == /\ need'[w] = {} /\ w # t /\ wtr' = [wtr EXCEPT ![t] = NoThread]
                     /\ pc' = [pc EXCEPT ![t] = "transfer"] /\ UNCHANGED <<pix, uaflgs, proc>>
                     /\ wakeup' = [wakeup EXCEPT ![t] = <<w>> \o wakeup[t]]
<1>3. GoesOn \/ Returns \/ Served
  BY <1>w, <1>p DEF AquireGot, Tried, Return, Goto
<1> HIDE DEF GoesOn, Returns, Served
<1>4. l \in Bits /\ Waiter(l) \notin flags[p] /\ Waiter(l) # l
  <2>1. \A u \in Threads : pix[p] = u => u = t
    BY <1>1
  <2> QED BY <1>1, <1>2, <2>1, BitFacts DEF FlagInv
<1>5. /\ flags' \in [Procs -> SUBSET Bits] /\ flags'[p] = flags[p] \cup {l}
      /\ \A q \in Procs : q # p => flags'[q] = flags[q]
  <2>1. flags \in [Procs -> SUBSET Bits]
    BY DEF TypeOK
  <2>2. (flags[p] \cup {l, Waiter(l)}) \ {Waiter(l)} = flags[p] \cup {l}
    BY <1>4
  <2>3. flags[p] \cup {l} \in SUBSET Bits
    BY <1>4, <2>1
  <2> QED BY <1>2, <2>1, <2>2, <2>3, Update
<1>6. /\ have' \in [Threads -> [Procs -> SUBSET Locks]]
      /\ \A x \in Threads, q \in Procs, m \in Locks :
           m \in have'[x][q] <=> m \in have[x][q] \/ (x = w /\ q = p /\ m = l)
  <2>1. have \in [Threads -> [Procs -> SUBSET Locks]] /\ have[w][p] \cup {l} \in SUBSET Locks
    BY DEF TypeOK
  <2>2. /\ have' \in [Threads -> [Procs -> SUBSET Locks]] /\ have'[w][p] = have[w][p] \cup {l}
        /\ \A x \in Threads, q \in Procs : x # w \/ q # p => have'[x][q] = have[x][q]
    BY <1>2, <2>1, Update2
  <2> QED BY <2>2
<1>7. /\ need' \in [Threads -> SUBSET Locks] /\ need'[w] = need[w] \ {l}
      /\ \A x \in Threads : x # w => need'[x] = need[x]
  <2>1. need \in [Threads -> SUBSET Locks] /\ need[w] \ {l} \in SUBSET Locks
    BY DEF TypeOK
  <2> QED BY <1>2, <2>1, Update
<1>8. Min(Procs) \in Procs
  BY MinProc, ProcAssumption
<1>9. wakeup' \in [Threads -> Seq(Threads)] /\ \A u \in Threads : u # t => wakeup'[u] = wakeup[u]
  <2>1. wakeup \in [Threads -> Seq(Threads)] /\ <<w>> \o wakeup[t] \in Seq(Threads)
    BY ConsFacts DEF TypeOK
  <2>2. CASE Served
    BY <2>1, <2>2, Update DEF Served
  <2> QED BY <1>3, <2>1, <2>2 DEF GoesOn, Returns
<1>10. TypeOK'
  <2>1. CASE GoesOn
    BY <1>0, <1>5, <1>6, <1>7, <2>1 DEF TypeOK, GoesOn
  <2>2. CASE Returns
    <3>1. /\ pc' \in [Threads -> {"call", "failed", "aquire", "reset", "check", "wait",
                                  "transfer_pix", "transfer", "wake", "set"}]
          /\ proc' \in [Threads -> Procs] /\ pix' \in [Procs -> Threads \cup {NoThread}]
          /\ wtr' \in [Threads -> Threads \cup {NoThread}] /\ uaflgs' = uaflgs
      BY <1>8, <2>2 DEF TypeOK, Returns
    <3> QED BY <1>0, <1>5, <1>6, <1>7, <1>9, <3>1 DEF TypeOK
  <2>3. CASE Served
    <3>1. /\ pc' \in [Threads -> {"call", "failed", "aquire", "reset", "check", "wait",
                                  "transfer_pix", "transfer", "wake", "set"}]
          /\ wtr' \in [Threads -> Threads \cup {NoThread}] /\ UNCHANGED <<uaflgs, proc, pix>>
      BY <2>3 DEF TypeOK, Served
    <3> QED BY <1>0, <1>5, <1>6, <1>7, <1>9, <3>1 DEF TypeOK
  <2> QED BY <1>3, <2>1, <2>2, <2>3
<1>11. /\ \A u \in Threads : u # t => pc'[u] = pc[u] /\ proc'[u] = proc[u] /\ wtr'[u] = wtr[u]
       /\ wtr'[t] \in {w, NoThread} /\ uaflgs' = uaflgs
       /\ \A q \in Procs : q # p => pix'[q] = pix[q]
       /\ w # t => proc'[t] = proc[t] /\ pix' = pix
       /\ need'[w] # {} => /\ pc'[t] = "aquire" /\ wtr'[t] = w /\ proc'[t] = p
                           /\ wakeup'[t] = wakeup[t] /\ pix' = pix
       /\ need'[w] = {} /\ w = t => /\ pc'[t] = "call" /\ wtr'[t] = NoThread
                                    /\ wakeup'[t] = wakeup[t] /\ pix'[p] = NoThread
       /\ need'[w] = {} /\ w # t => /\ pc'[t] = "transfer" /\ wtr'[t] = NoThread
                                    /\ wakeup'[t] = <<w>> \o wakeup[t]
  <2>1. CASE GoesOn
    BY <1>0, <1>w, <1>p, <2>1 DEF GoesOn
  <2>2. CASE Returns
    BY <2>2 DEF Returns, TypeOK
  <2>3. CASE Served
    BY <2>3 DEF Served, TypeOK
  <2> QED BY <1>3, <2>1, <2>2, <2>3
<1>12. ~ Asleep(t) /\ ~ Asleep(t)'
  BY <1>0, <1>11 DEF Asleep
<1>13. \A u \in Threads : (Asleep(u)' <=> Asleep(u)) /\ (Asleep(u) => u # t /\ proc'[u] = proc[u])
  BY <1>11, <1>12 DEF Asleep
<1>14. /\ \A u \in Threads : u # t => Pending(u)' = Pending(u) /\ (Serving(u)' <=> Serving(u))
       /\ need'[w] = {} /\ w # t => Pending(t)' = Pending(t) \cup {w}
       /\ need'[w] # {} \/ w = t => Pending(t)' = Pending(t)
       /\ Pending(t) = Range(wakeup[t]) /\ Pending(t)' = Range(wakeup'[t])
  <2>1. \A u \in Threads : u # t => Pending(u)' = Pending(u) /\ (Serving(u)' <=> Serving(u))
    BY <1>9, <1>11 DEF Pending, Serving
  <2>2. Pending(t) = Range(wakeup[t]) /\ Pending(t)' = Range(wakeup'[t])
    BY <1>0, <1>11 DEF Pending
  <2>3. Range(<<w>> \o wakeup[t]) = Range(wakeup[t]) \cup {w}
    BY ConsFacts DEF TypeOK
  <2> QED BY <1>11, <2>1, <2>2, <2>3
<1>15. \A u \in Threads : IsInjective(wakeup'[u]) /\ Range(wakeup[u]) \subseteq Range(wakeup'[u])
  <2>1. IsInjective(wakeup[t]) /\ w \notin Range(wakeup[t]) /\ wakeup[t] \in Seq(Threads)
    BY <1>1, <1>14 DEF WakeInv, TypeOK
  <2>2. IsInjective(<<w>> \o wakeup[t])
    BY <2>1, ConsFacts
  <2>3. wakeup'[t] = wakeup[t] \/ wakeup'[t] = <<w>> \o wakeup[t]
    BY <1>11
  <2>4. IsInjective(wakeup'[t])
    BY <2>1, <2>2, <2>3, Zenon
  <2>5. Range(wakeup[t]) \subseteq Range(wakeup'[t])
    BY <1>14
  <2>6. \A u \in Threads : IsInjective(wakeup[u])
    BY DEF WakeInv
  <2> QED BY <1>9, <2>4, <2>5, <2>6
<1>16. PlaceInv'
  <2> SUFFICES ASSUME NEW u \in Threads PROVE Place(u)'
    BY DEF PlaceInv
  <2>1. CASE u # t
    <3>1. (wtr[u] # w /\ need'[wtr[u]] = need[wtr[u]]) \/ wtr[u] = NoThread
      BY <1>1, <1>7, <2>1 DEF TypeOK
    <3>2. (need'[u] # {} => need[u] # {}) /\ (pc[u] = "failed" => need'[u] = need[u])
      BY <1>1, <1>7, <2>1 DEF Asleep
    <3>3. wtr[u] # NoThread => wtr[u] \in Threads /\ wtr[u] # t
      BY <1>1, <2>1 DEF TypeOK
    <3>4. /\ pc'[u] = pc[u] /\ proc'[u] = proc[u] /\ wtr'[u] = wtr[u] /\ wakeup'[u] = wakeup[u]
          /\ trnsfr'[u] = trnsfr[u] /\ unset'[u] = unset[u] /\ (Serving(u)' <=> Serving(u))
      BY <1>0, <1>9, <1>11, <1>14, <2>1
    <3>5. \A x \in Threads : x # t => (Asleep(x)' <=> Asleep(x)) /\ proc'[x] = proc[x]
      BY <1>11, <1>13
    <3>6. Place(u)
      BY DEF PlaceInv
    <3>7. CASE wtr[u] = NoThread
      <4>1. pc[u] # "aquire"
        BY <3>6, <3>7, ThreadAssumption DEF Place
      <4> QED BY <3>2, <3>4, <3>6, <3>7, <4>1 DEF Place
    <3>8. CASE wtr[u] # NoThread
      <4>1. PICK v \in Threads : v = wtr[u] /\ v # t /\ v # w
        BY <3>1, <3>3, <3>8
      <4>2. (Asleep(v)' <=> Asleep(v)) /\ proc'[v] = proc[v] /\ need'[v] = need[v]
        BY <1>7, <3>5, <4>1
      <4>3. /\ pc'[u] = "aquire" /\ need'[v] # {} /\ wtr'[u] = v
            /\ u # v => need[u] = {} /\ Asleep(v)' /\ proc'[v] = proc'[u]
        BY <3>4, <3>6, <3>8, <4>1, <4>2 DEF Place, Serving
      <4> QED BY <3>2, <3>4, <3>6, <3>8, <4>1, <4>3 DEF Place
    <3> QED BY <3>7, <3>8
  <2>2. CASE u = t /\ need'[w] # {}
    <3>1. Serving(t)' <=> Serving(t)
      BY <1>0, <1>11, <1>w, <2>2 DEF Serving
    <3>2. /\ pc'[t] = "aquire" /\ wtr'[t] = w /\ need'[w] # {}
          /\ w # t => need'[t] = {} /\ Asleep(w)' /\ proc'[w] = proc'[t]
      BY <1>1, <1>7, <1>11, <1>13, <2>2
    <3>3. w # t => Serving(t)
      BY <1>0, <1>w DEF Serving
    <3>4. w = t => ~ Serving(t)'
      BY <3>2 DEF Serving
    <3> QED BY <1>0, <1>1, <1>11, <2>2, <3>1, <3>2, <3>3, <3>4 DEF Place
  <2>3. CASE u = t /\ need'[w] = {} /\ w = t
    BY <1>0, <1>1, <1>11, <2>3 DEF Place, Serving
  <2>4. CASE u = t /\ need'[w] = {} /\ w # t
    BY <1>0, <1>1, <1>7, <1>11, <2>4 DEF Place, Serving
  <2> QED BY <2>1, <2>2, <2>3, <2>4
<1>17. PixInv'
  <2>1. CASE need'[w] # {}
    <3>1. GoesOn
      BY <1>3, <2>1 DEF Returns, Served
    <3> QED BY <3>1 DEF PixInv, GoesOn
  <2>2. CASE need'[w] = {} /\ w = t
    BY <1>0, <1>1, <1>11, <1>p, <2>2, ThreadAssumption DEF PixInv
  <2>3. CASE need'[w] = {} /\ w # t
    BY <1>0, <1>1, <1>11, <2>3 DEF PixInv
  <2> QED BY <2>1, <2>2, <2>3
<1>18. \A q \in Procs, m \in Locks :
         /\ m \in flags'[q] <=> m \in flags[q] \/ (q = p /\ m = l)
         /\ Waiter(m) \in flags'[q] <=> Waiter(m) \in flags[q]
  BY <1>5, BitFacts
<1>19. OwnerInv'
  <2>1. \A u \in Threads : trnsfr[u] # {} => proc'[u] = proc[u]
    BY <1>1, <1>11
  <2>2. \A u \in Threads, q \in Procs, m \in Locks :
          Own(u, q, m)' <=> Own(u, q, m) \/ (u = w /\ q = p /\ m = l)
    BY <1>0, <1>6, <2>1 DEF Own
  <2>3. \A u \in Threads : ~ Own(u, p, l)
    BY <1>2 DEF OwnerInv
  <2> SUFFICES ASSUME NEW q \in Procs, NEW m \in Locks
               PROVE  /\ m \in flags'[q] <=> \E u \in Threads : Own(u, q, m)'
                      /\ \A u, v \in Threads : Own(u, q, m)' /\ Own(v, q, m)' => u = v
                      /\ \A u \in Threads : proc'[u] = q /\ m \in trnsfr'[u] => m \notin have'[u][q]
    BY DEF OwnerInv
  <2>4. \A u \in Threads : proc'[u] = q /\ m \in trnsfr'[u] => m \notin have'[u][q]
    BY <1>0, <1>1, <1>6, <2>1 DEF OwnerInv
  <2>5. CASE q = p /\ m = l
    BY <1>18, <2>2, <2>3, <2>4, <2>5
  <2>6. CASE q # p \/ m # l
    <3>1. \A u \in Threads : Own(u, q, m)' <=> Own(u, q, m)
      BY <2>2, <2>6
    <3>2. m \in flags'[q] <=> m \in flags[q]
      BY <1>18, <2>6
    <3> QED BY <2>4, <3>1, <3>2 DEF OwnerInv
  <2> QED BY <2>5, <2>6
<1>20. QueueInv'
  <2>1. \A q \in Procs, m \in Locks : Range(queue[q][m]) \subseteq Threads
    BY RangeTypes
  <2>2. \A u \in Threads : wtr'[u] = wtr[u] \/ wtr'[u] = NoThread
    BY <1>11, <1>w
  <2>3. ASSUME NEW q \in Procs, NEW m \in Locks, NEW x \in Range(queue[q][m])
        PROVE  /\ Asleep(x)' /\ uaflgs'[x] = 1 /\ proc'[x] = q
               /\ m \in need'[x] /\ \A k \in need'[x] : m <= k
               /\ \A u \in Threads : wtr'[u] # x
    <3>1. x \in Threads /\ Asleep(x) /\ x # w
      BY <1>1, <2>1, <2>3 DEF QueueInv
    <3> QED BY <1>7, <1>11, <1>13, <2>2, <2>3, <3>1, ThreadAssumption DEF QueueInv
  <2> QED BY <1>0, <2>3 DEF QueueInv
<1>21. FlagInv'
  <2>1. \A q \in Procs, u \in Threads : pix[q] = u /\ unset[u] # {} => pix'[q] = u
    BY <1>1, <1>11
  <2> QED BY <1>0, <1>18, <2>1 DEF FlagInv
<1>22. TransferInv'
  <2>1. ASSUME NEW u \in Threads, NEW m \in trnsfr'[u] PROVE queue'[proc'[u]][m] # <<>>
    BY <1>0, <1>1, <1>11, <2>1 DEF TransferInv
  <2>2. ASSUME NEW u \in Threads, NEW m \in unset'[u]
        PROVE  m \in unset[u] /\ proc'[u] = proc[u] /\ proc[u] \in Procs /\ m \in Locks
    BY <1>0, <1>1, <1>11, <2>2 DEF TypeOK
  <2>3. ASSUME NEW u \in Threads, NEW m \in unset'[u]
        PROVE  /\ queue'[proc'[u]][m] = <<>> /\ m \in flags'[proc'[u]]
               /\ \A k \in trnsfr'[u] : m < k
               /\ wtr'[u] # NoThread => \A k \in need'[wtr'[u]] : m < k
    <3>1. /\ queue[proc[u]][m] = <<>> /\ m \in flags[proc[u]] /\ \A k \in trnsfr[u] : m < k
          /\ wtr[u] # NoThread => \A k \in need[wtr[u]] : m < k
      BY <2>2, <2>3 DEF TransferInv
    <3>2. m \in flags'[proc[u]]
      BY <1>18, <2>2, <2>3, <3>1
    <3>3. wtr'[u] # NoThread => wtr'[u] = wtr[u] /\ wtr[u] \in Threads
      BY <1>11, <1>w DEF TypeOK
    <3>4. \A x \in Threads : need'[x] \subseteq need[x]
      BY <1>7
    <3> QED BY <1>0, <2>2, <2>3, <3>1, <3>2, <3>3, <3>4
  <2>4. ASSUME NEW u \in Threads, NEW m \in unset'[u], NEW x \in Threads,
               m \in have'[x][proc'[u]]
        PROVE  /\ Asleep(x)' /\ proc'[x] = proc'[u] /\ uaflgs'[x] = 1
               /\ need'[x] # {} \/ x \in Range(wakeup'[u])
    <3>1. m \in have[x][proc[u]]
      BY <1>1, <1>6, <2>2, <2>4
    <3>2. /\ Asleep(x) /\ proc[x] = proc[u] /\ uaflgs[x] = 1
          /\ need[x] # {} \/ x \in Range(wakeup[u])
      BY <2>2, <2>4, <3>1 DEF TransferInv
    <3>3. Asleep(x)' /\ proc'[x] = proc'[u] /\ uaflgs'[x] = 1 /\ x # t
      BY <1>11, <1>13, <2>2, <2>4, <3>2
    <3>4. CASE x # w
      BY <1>7, <1>15, <3>2, <3>3, <3>4
    <3>5. CASE x = w
      <4>1. u = t
        BY <1>1, <2>2, <2>4, <3>2, <3>5
      <4>2. need'[w] = {} => w \in Range(wakeup'[t])
        BY <1>14, <3>3, <3>5
      <4> QED BY <3>3, <3>5, <4>1, <4>2
    <3> QED BY <3>4, <3>5
  <2> QED BY <2>1, <2>3, <2>4 DEF TransferInv
<1>23. WakeInv'
  <2>1. \A u \in Threads : Pending(u) \subseteq Threads
    BY RangeTypes
  <2>2. ASSUME NEW u \in Threads, NEW x \in Pending(u)'
        PROVE  Asleep(x)' /\ need'[x] = {} /\ uaflgs'[x] = 1
    <3>1. CASE x \in Pending(u)
      BY <1>1, <1>7, <1>11, <1>13, <2>1, <3>1 DEF WakeInv
    <3>2. CASE x \notin Pending(u)
      <4>1. x = w /\ w # t /\ need'[w] = {}
        BY <1>14, <2>2, <3>2
      <4> QED BY <1>1, <1>11, <1>13, <4>1
    <3> QED BY <3>1, <3>2
  <2>3. ASSUME NEW u \in Threads, NEW v \in Threads, v # u
        PROVE  Pending(u)' \cap Pending(v)' = {}
    BY <1>1, <1>14, <2>3 DEF WakeInv
  <2> QED BY <1>15, <2>2, <2>3 DEF WakeInv
<1>24. QueuedInv'
  <2> SUFFICES ASSUME NEW x \in Threads, Asleep(x)', need'[x] # {}
               PROVE  /\ uaflgs'[x] = 1
                      /\ \/ \E m \in need'[x] : x \in Range(queue'[proc'[x]][m])
                         \/ \E u \in Threads \ {x} : wtr'[u] = x
    BY DEF QueuedInv
  <2>1. CASE x = w
    BY <1>1, <1>11, <1>12, <2>1
  <2>2. CASE x # w
    <3>1. Asleep(x) /\ x # t /\ need'[x] = need[x] /\ proc'[x] = proc[x]
      BY <1>7, <1>13, <2>2
    <3>2. \A u \in Threads : wtr[u] = x => wtr'[u] = x
      BY <1>11, <1>w, <2>2
    <3> QED BY <1>0, <1>11, <3>1, <3>2 DEF QueuedInv
  <2> QED BY <2>1, <2>2
<1>25. ToldInv'
  <2> SUFFICES ASSUME NEW x \in Threads, Asleep(x)', need'[x] = {}, uaflgs'[x] = 1
               PROVE  \E u \in Threads : x \in Pending(u)'
    BY DEF ToldInv
  <2>1. CASE x = w
    BY <1>12, <1>14, <2>1
  <2>2. CASE x # w
    <3>1. PICK u \in Threads : x \in Pending(u)
      BY <1>7, <1>11, <1>13, <2>2 DEF ToldInv
    <3> QED BY <1>14, <3>1
  <2> QED BY <2>1, <2>2
<1>26. WokenInv'
  <2>1. \A x \in Threads : pc'[x] = "wait" => pc[x] = "wait"
    BY <1>11
  <2>2. \A u \in Threads : pc[u] = "set" => pc'[u] = "set" /\ wakeup'[u] = wakeup[u]
    BY <1>0, <1>9, <1>11
  <2> QED BY <1>0, <1>11, <2>1, <2>2 DEF WokenInv
<1>27. OrderInv'
  <2> SUFFICES ASSUME NEW x \in Threads
               PROVE  /\ \A q \in Procs : rel'[x][q] \subseteq have'[x][q]
                      /\ need'[x] # {} => rel'[x] = None
                      /\ \A q \in Procs : \A m \in have'[x][q] \ rel'[x][q] :
                           \A r \in Procs : \A k \in req'[x][r] : Before(m, q, k, r)
                      /\ \A q \in Procs : \A m \in have'[x][q], k \in need'[x] :
                           Before(m, q, k, proc'[x])
                      /\ \A k \in need'[x] : \A q \in Procs : \A m \in req'[x][q] :
                           Before(k, proc'[x], m, q)
    BY DEF OrderInv
  <2>1. /\ \A q \in Procs : rel[x][q] \subseteq Locks /\ have[x][q] \subseteq have'[x][q]
        /\ \A q \in Procs : have'[x][q] \subseteq Locks
    BY <1>6 DEF TypeOK
  <2>2. need'[x] \subseteq need[x] /\ (need'[x] # {} => proc'[x] = proc[x])
    BY <1>1, <1>7, <1>11, <1>p
  <2>3. \A q \in Procs : rel'[x][q] \subseteq have'[x][q]
    BY <1>0, <2>1 DEF OrderInv
  <2>4. need'[x] # {} => rel'[x] = None
    BY <1>0, <2>2 DEF OrderInv
  <2>5. ASSUME NEW q \in Procs, NEW m \in have'[x][q] \ rel'[x][q],
               NEW r \in Procs, NEW k \in req'[x][r]
        PROVE  Before(m, q, k, r)
    <3>1. m \in have[x][q] \/ (x = w /\ q = p /\ m = l)
      BY <1>6, <2>1, <2>5
    <3>2. k \in req[x][r] /\ m \notin rel[x][q]
      BY <1>0, <2>5
    <3> QED BY <1>1, <3>1, <3>2 DEF OrderInv
  <2>6. ASSUME NEW q \in Procs, NEW m \in have'[x][q], NEW k \in need'[x]
        PROVE  Before(m, q, k, proc'[x])
    <3>1. m \in have[x][q] \/ (x = w /\ q = p /\ m = l)
      BY <1>6, <2>1, <2>6
    <3>2. k \in need[x] /\ proc'[x] = proc[x]
      BY <2>2, <2>6
    <3>3. CASE m \in have[x][q]
      BY <3>2, <3>3 DEF OrderInv
    <3>4. CASE x = w /\ q = p /\ m = l
      <4>1. l <= k /\ k # l /\ k \in Nat /\ l \in Nat
        BY <1>1, <1>7, <2>6, <3>2, <3>4, BitFacts DEF TypeOK
      <4> QED BY <1>1, <3>2, <3>4, <4>1 DEF Before
    <3> QED BY <3>1, <3>3, <3>4
  <2>7. ASSUME NEW k \in need'[x], NEW q \in Procs, NEW m \in req'[x][q]
        PROVE  Before(k, proc'[x], m, q)
    BY <1>0, <2>2, <2>7 DEF OrderInv
  <2> QED BY <2>3, <2>4, <2>5, <2>6, <2>7
<1> QED
  BY <1>10, <1>16, <1>17, <1>19, <1>20, <1>21, <1>22, <1>23, <1>24, <1>25, <1>26, <1>27

\* transfer_locks() hands one lock to the first thread in its queue.
LEMMA TransferStep ==
  ASSUME IInv, NEW t \in Threads, Transfer(t)
  PROVE  IInv'
<1> USE DEF IInv
<1>0. /\ pc[t] = "transfer" /\ trnsfr[t] # {}
      /\ UNCHANGED <<flags, pix, rel, req, proc, seen, uaflgs, event>>
  BY DEF Transfer, At, calls, tse
<1>p. PICK p \in Procs : p = proc[t]
  BY DEF TypeOK
<1>l. PICK l \in Locks : l = Min(trnsfr[t]) /\ l \in trnsfr[t] /\ \A m \in trnsfr[t] : l <= m
  BY <1>0, MinLock DEF TypeOK
<1>q. queue[p][l] \in Seq(Threads) /\ queue[p][l] # <<>> /\ IsInjective(queue[p][l])
  BY <1>p, <1>l DEF TransferInv, QueueInv, TypeOK
<1>w. PICK w \in Threads : w = Head(queue[p][l]) /\ w \in Range(queue[p][l])
  BY <1>q, TailFacts
<1>s. PICK s \in Seq(Threads) : /\ s = Tail(queue[p][l]) /\ IsInjective(s)
                                /\ Range(s) = Range(queue[p][l]) \ {w}
  BY <1>q, <1>w, TailFacts
<1>1. /\ trnsfr' = [trnsfr EXCEPT ![t] = trnsfr[t] \ {l}]
      /\ queue' = [queue EXCEPT ![p] = [queue[p] EXCEPT ![l] = s]]
      /\ unset' = [unset EXCEPT ![t] = IF queue'[p][l] = <<>> THEN unset[t] \cup {l} ELSE unset[t]]
      /\ have' = [have EXCEPT ![w] = [have[w] EXCEPT ![p] = have[w][p] \cup {l}]]
      /\ need' = [need EXCEPT ![w] = need[w] \ {l}]
  BY <1>p, <1>l, <1>w, <1>s DEF Transfer
<1> DEFINE GoesOn == /\ need'[w] # {} /\ pc' = [pc EXCEPT ![t] = "aquire"]
                     /\ wtr' = [wtr EXCEPT ![t] = w] /\ UNCHANGED wakeup
           Served == /\ need'[w] = {} /\ wakeup' = [wakeup EXCEPT ![t] = <<w>> \o wakeup[t]]
                     /\ UNCHANGED <<pc, wtr>>
<1>2. GoesOn \/ Served
  BY <1>p, <1>l, <1>w DEF Transfer, Goto
<1> HIDE DEF GoesOn, Served
\* The thread that gets the lock sleeps, in no other queue and served by nobody.
<1>3. /\ Asleep(w) /\ uaflgs[w] = 1 /\ proc[w] = p /\ l \in need[w]
      /\ \A m \in need[w] : l <= m
      /\ \A u \in Threads : wtr[u] # w
  BY <1>w DEF QueueInv
<1>4. /\ w # t /\ trnsfr[w] = {} /\ need[t] = {} /\ wtr[t] = NoThread
      /\ \A u \in Threads : wtr[u] # t
  BY <1>0, <1>3, ThreadAssumption DEF PlaceInv, Place, Serving, Asleep
<1>5. \A q \in Procs, m \in Locks : w \in Range(queue[q][m]) => q = p /\ m = l
  <2> SUFFICES ASSUME NEW q \in Procs, NEW m \in Locks, w \in Range(queue[q][m])
               PROVE  q = p /\ m = l
    OBVIOUS
  <2>1. proc[w] = q /\ m \in need[w] /\ m <= l
    BY <1>3 DEF QueueInv
  <2>2. l <= m /\ l \in Nat /\ m \in Nat
    BY <1>3, <2>1, BitFacts
  <2> QED BY <1>3, <2>1, <2>2
<1>6. /\ pix[p] = t
      /\ \A u \in Threads : unset[u] # {} /\ proc[u] = p => u = t
  BY <1>0, <1>p DEF PlaceInv, Place, Serving, PixInv
<1>7. \A u \in Threads : Own(u, p, l) => u = t
  BY <1>p, <1>l DEF OwnerInv, Own
<1>8. l \in flags[p] /\ l \notin have[t][p]
  BY <1>p, <1>l DEF OwnerInv, Own
<1>9. \A u \in Threads : w \notin Pending(u)
  BY <1>3 DEF WakeInv
\* What the step changes.
<1>10. /\ trnsfr' \in [Threads -> SUBSET Locks] /\ trnsfr'[t] = trnsfr[t] \ {l}
       /\ \A u \in Threads : u # t => trnsfr'[u] = trnsfr[u]
  <2>1. trnsfr \in [Threads -> SUBSET Locks] /\ trnsfr[t] \ {l} \in SUBSET Locks
    BY DEF TypeOK
  <2> QED BY <1>1, <2>1, Update
<1>11. /\ queue' \in [Procs -> [Locks -> Seq(Threads)]] /\ queue'[p][l] = s
       /\ \A q \in Procs, m \in Locks : q # p \/ m # l => queue'[q][m] = queue[q][m]
  <2>1. queue \in [Procs -> [Locks -> Seq(Threads)]]
    BY DEF TypeOK
  <2> QED BY <1>1, <2>1, Update2
<1>12. /\ unset' \in [Threads -> SUBSET Locks]
       /\ unset'[t] = IF s = <<>> THEN unset[t] \cup {l} ELSE unset[t]
       /\ \A u \in Threads : u # t => unset'[u] = unset[u]
  <2>1. unset \in [Threads -> SUBSET Locks] /\ unset[t] \cup {l} \in SUBSET Locks
    BY DEF TypeOK
  <2> QED BY <1>1, <1>11, <2>1, Update
<1>13. /\ have' \in [Threads -> [Procs -> SUBSET Locks]]
       /\ \A x \in Threads, q \in Procs, m \in Locks :
            m \in have'[x][q] <=> m \in have[x][q] \/ (x = w /\ q = p /\ m = l)
  <2>1. have \in [Threads -> [Procs -> SUBSET Locks]] /\ have[w][p] \cup {l} \in SUBSET Locks
    BY DEF TypeOK
  <2>2. /\ have' \in [Threads -> [Procs -> SUBSET Locks]] /\ have'[w][p] = have[w][p] \cup {l}
        /\ \A x \in Threads, q \in Procs : x # w \/ q # p => have'[x][q] = have[x][q]
    BY <1>1, <2>1, Update2
  <2> QED BY <2>2
<1>14. /\ need' \in [Threads -> SUBSET Locks] /\ need'[w] = need[w] \ {l}
       /\ \A x \in Threads : x # w => need'[x] = need[x]
  <2>1. need \in [Threads -> SUBSET Locks] /\ need[w] \ {l} \in SUBSET Locks
    BY DEF TypeOK
  <2> QED BY <1>1, <2>1, Update
<1>15. wakeup' \in [Threads -> Seq(Threads)] /\ \A u \in Threads : u # t => wakeup'[u] = wakeup[u]
  <2>1. wakeup \in [Threads -> Seq(Threads)] /\ <<w>> \o wakeup[t] \in Seq(Threads)
    BY ConsFacts DEF TypeOK
  <2>2. CASE Served
    BY <2>1, <2>2, Update DEF Served
  <2> QED BY <1>2, <2>1, <2>2 DEF GoesOn
<1>16. TypeOK'
  <2>1. CASE GoesOn
    <3>1. /\ pc' \in [Threads -> {"call", "failed", "aquire", "reset", "check", "wait",
                                  "transfer_pix", "transfer", "wake", "set"}]
          /\ wtr' \in [Threads -> Threads \cup {NoThread}]
      BY <2>1 DEF TypeOK, GoesOn
    <3> QED BY <1>0, <1>10, <1>11, <1>12, <1>13, <1>14, <1>15, <3>1 DEF TypeOK
  <2>2. CASE Served
    <3>1. UNCHANGED <<pc, wtr>>
      BY <2>2 DEF Served
    <3> QED BY <1>0, <1>10, <1>11, <1>12, <1>13, <1>14, <1>15, <3>1 DEF TypeOK
  <2> QED BY <1>2, <2>1, <2>2
<1>17. /\ \A u \in Threads : u # t => pc'[u] = pc[u] /\ wtr'[u] = wtr[u]
       /\ need'[w] # {} => pc'[t] = "aquire" /\ wtr'[t] = w /\ wakeup'[t] = wakeup[t]
       /\ need'[w] = {} => /\ pc'[t] = "transfer" /\ wtr'[t] = NoThread
                           /\ wakeup'[t] = <<w>> \o wakeup[t]
  <2>1. CASE GoesOn
    BY <2>1 DEF GoesOn, TypeOK
  <2>2. CASE Served
    BY <1>0, <1>4, <2>2 DEF Served, TypeOK
  <2> QED BY <1>2, <2>1, <2>2
<1>18. \A u \in Threads : (Asleep(u)' <=> Asleep(u)) /\ (Serving(u)' <=> Serving(u))
  BY <1>0, <1>4, <1>17 DEF Asleep, Serving
<1>19. /\ \A u \in Threads : u # t => Pending(u)' = Pending(u)
       /\ need'[w] = {} => Pending(t)' = Pending(t) \cup {w}
       /\ need'[w] # {} => Pending(t)' = Pending(t)
       /\ Pending(t) = Range(wakeup[t]) /\ Pending(t)' = Range(wakeup'[t])
  <2>1. \A u \in Threads : u # t => Pending(u)' = Pending(u)
    BY <1>15, <1>17 DEF Pending
  <2>2. Pending(t) = Range(wakeup[t]) /\ Pending(t)' = Range(wakeup'[t])
    BY <1>0, <1>17 DEF Pending
  <2>3. Range(<<w>> \o wakeup[t]) = Range(wakeup[t]) \cup {w}
    BY ConsFacts DEF TypeOK
  <2> QED BY <1>17, <2>1, <2>2, <2>3
<1>20. \A u \in Threads : IsInjective(wakeup'[u]) /\ Range(wakeup[u]) \subseteq Range(wakeup'[u])
  <2>1. IsInjective(wakeup[t]) /\ w \notin Range(wakeup[t]) /\ wakeup[t] \in Seq(Threads)
    BY <1>9, <1>19 DEF WakeInv, TypeOK
  <2>2. IsInjective(<<w>> \o wakeup[t])
    BY <2>1, ConsFacts
  <2>3. wakeup'[t] = wakeup[t] \/ wakeup'[t] = <<w>> \o wakeup[t]
    BY <1>17
  <2>4. IsInjective(wakeup'[t])
    BY <2>1, <2>2, <2>3, Zenon
  <2>5. Range(wakeup[t]) \subseteq Range(wakeup'[t])
    BY <1>19
  <2>6. \A u \in Threads : IsInjective(wakeup[u])
    BY DEF WakeInv
  <2> QED BY <1>15, <2>4, <2>5, <2>6
<1>21. PlaceInv'
  <2> SUFFICES ASSUME NEW u \in Threads PROVE Place(u)'
    BY DEF PlaceInv
  <2>1. CASE u # t
    <3>1. /\ pc'[u] = pc[u] /\ proc'[u] = proc[u] /\ wtr'[u] = wtr[u] /\ wakeup'[u] = wakeup[u]
          /\ trnsfr'[u] = trnsfr[u] /\ unset'[u] = unset[u] /\ (Serving(u)' <=> Serving(u))
      BY <1>0, <1>10, <1>12, <1>15, <1>17, <1>18, <2>1
    <3>2. (need'[u] # {} => need[u] # {}) /\ (pc[u] = "failed" => need'[u] = need[u])
      BY <1>3, <1>14 DEF Asleep
    <3>3. Place(u)
      BY DEF PlaceInv
    <3>4. CASE wtr[u] = NoThread
      <4>1. pc[u] # "aquire"
        BY <3>3, <3>4, ThreadAssumption DEF Place
      <4> QED BY <3>1, <3>2, <3>3, <3>4, <4>1 DEF Place
    <3>5. CASE wtr[u] # NoThread
      <4>1. PICK v \in Threads : v = wtr[u] /\ v # w
        BY <1>3, <3>5 DEF TypeOK
      <4>2. (Asleep(v)' <=> Asleep(v)) /\ proc'[v] = proc[v] /\ need'[v] = need[v]
        BY <1>0, <1>14, <1>18, <4>1
      <4>3. /\ pc'[u] = "aquire" /\ need'[v] # {} /\ wtr'[u] = v
            /\ u # v => need[u] = {} /\ Asleep(v)' /\ proc'[v] = proc'[u]
        BY <3>1, <3>3, <3>5, <4>1, <4>2 DEF Place, Serving
      <4> QED BY <3>1, <3>2, <3>3, <3>5, <4>1, <4>3 DEF Place
    <3> QED BY <3>4, <3>5
  <2>2. CASE u = t /\ need'[w] # {}
    <3>1. /\ pc'[t] = "aquire" /\ wtr'[t] = w /\ need'[t] = {} /\ Serving(t)'
          /\ Asleep(w)' /\ proc'[w] = proc'[t]
      BY <1>0, <1>3, <1>4, <1>14, <1>17, <1>18, <1>p, <2>2 DEF Serving
    <3> QED BY <1>4, <2>2, <3>1 DEF Place
  <2>3. CASE u = t /\ need'[w] = {}
    <3>1. pc'[t] = "transfer" /\ wtr'[t] = NoThread /\ need'[t] = {} /\ Serving(t)'
      BY <1>4, <1>14, <1>17, <2>3 DEF Serving
    <3> QED BY <2>3, <3>1 DEF Place
  <2> QED BY <2>1, <2>2, <2>3
<1>22. PixInv'
  <2>1. pc'[t] \in {"aquire", "transfer"}
    BY <1>17
  <2> QED BY <1>0, <1>17, <2>1 DEF PixInv
<1>23. OwnerInv'
  <2>1. \A u \in Threads, q \in Procs, m \in Locks :
          q # p \/ m # l => (Own(u, q, m)' <=> Own(u, q, m))
    BY <1>0, <1>10, <1>13, <1>p DEF Own
  <2>2. \A u \in Threads : Own(u, p, l)' <=> u = w
    <3>1. \A u \in Threads : u # t => l \notin have[u][p] /\ ~ (proc[u] = p /\ l \in trnsfr[u])
      BY <1>7 DEF Own
    <3>2. \A u \in Threads : l \in have'[u][p] <=> u = w
      BY <1>4, <1>8, <1>13, <3>1
    <3>3. \A u \in Threads : ~ (proc'[u] = p /\ l \in trnsfr'[u])
      BY <1>0, <1>10, <3>1
    <3> QED BY <3>2, <3>3 DEF Own
  <2> SUFFICES ASSUME NEW q \in Procs, NEW m \in Locks
               PROVE  /\ m \in flags'[q] <=> \E u \in Threads : Own(u, q, m)'
                      /\ \A u, v \in Threads : Own(u, q, m)' /\ Own(v, q, m)' => u = v
                      /\ \A u \in Threads : proc'[u] = q /\ m \in trnsfr'[u] => m \notin have'[u][q]
    BY DEF OwnerInv
  <2>3. \A u \in Threads : proc'[u] = q /\ m \in trnsfr'[u] => m \notin have'[u][q]
    <3>1. \A u \in Threads : trnsfr'[u] \subseteq trnsfr[u]
      BY <1>10
    <3>2. \A u \in Threads : proc[u] = q /\ m \in trnsfr[u] => m \notin have[u][q]
      BY DEF OwnerInv
    <3>3. \A u \in Threads : m \in trnsfr[u] => u # w
      BY <1>4
    <3> QED BY <1>0, <1>13, <3>1, <3>2, <3>3
  <2>4. CASE q = p /\ m = l
    BY <1>0, <1>8, <2>2, <2>3, <2>4
  <2>5. CASE q # p \/ m # l
    <3>1. \A u \in Threads : Own(u, q, m)' <=> Own(u, q, m)
      BY <2>1, <2>5
    <3> QED BY <1>0, <2>3, <3>1 DEF OwnerInv
  <2> QED BY <2>4, <2>5
<1>24. \A q \in Procs, m \in Locks : Range(queue'[q][m]) = Range(queue[q][m]) \ {w}
  BY <1>5, <1>11, <1>s
<1>25. QueueInv'
  <2>1. \A q \in Procs, m \in Locks : IsInjective(queue'[q][m])
    BY <1>11, <1>s DEF QueueInv
  <2>2. \A q \in Procs, m \in Locks : Range(queue[q][m]) \subseteq Threads
    BY RangeTypes
  <2>3. \A u \in Threads : wtr'[u] = wtr[u] \/ wtr'[u] = w \/ wtr'[u] = NoThread
    BY <1>17
  <2>4. ASSUME NEW q \in Procs, NEW m \in Locks, NEW x \in Range(queue'[q][m])
        PROVE  /\ Asleep(x)' /\ uaflgs'[x] = 1 /\ proc'[x] = q
               /\ m \in need'[x] /\ \A k \in need'[x] : m <= k
               /\ \A u \in Threads : wtr'[u] # x
    <3>1. x \in Threads /\ x \in Range(queue[q][m]) /\ x # w
      BY <1>24, <2>2, <2>4
    <3> QED BY <1>0, <1>14, <1>18, <2>3, <3>1, ThreadAssumption DEF QueueInv
  <2> QED BY <2>1, <2>4 DEF QueueInv
<1>26. FlagInv'
  <2> SUFFICES ASSUME NEW q \in Procs, NEW m \in Locks
               PROVE  /\ queue'[q][m] # <<>> => m \in flags'[q] /\ Waiter(m) \in flags'[q]
                      /\ Waiter(m) \in flags'[q] =>
                           \/ queue'[q][m] # <<>>
                           \/ \E u \in Threads : pix'[q] = u /\ m \in unset'[u]
    BY DEF FlagInv
  <2>1. CASE q = p /\ m = l
    <3>1. m \in flags[q] /\ Waiter(m) \in flags[q]
      BY <1>q, <2>1 DEF FlagInv
    <3>2. queue'[q][m] # <<>> \/ (pix'[q] = t /\ m \in unset'[t])
      BY <1>0, <1>6, <1>11, <1>12, <2>1
    <3> QED BY <1>0, <3>1, <3>2
  <2>2. CASE q # p \/ m # l
    <3>1. queue'[q][m] = queue[q][m]
      BY <1>11, <2>2
    <3>2. \A u \in Threads : unset[u] \subseteq unset'[u]
      BY <1>12
    <3> QED BY <1>0, <3>1, <3>2 DEF FlagInv
  <2> QED BY <2>1, <2>2
<1>27. TransferInv'
  <2>1. ASSUME NEW u \in Threads, NEW m \in trnsfr'[u] PROVE queue'[proc'[u]][m] # <<>>
    <3>1. m \in trnsfr[u] /\ m \in Locks /\ proc[u] \in Procs /\ (u = t => m # l)
      BY <1>10, <2>1 DEF TypeOK
    <3>2. proc[u] # p \/ m # l
      BY <1>7, <3>1 DEF Own
    <3>3. queue[proc[u]][m] # <<>>
      BY <3>1 DEF TransferInv
    <3> QED BY <1>0, <1>11, <3>1, <3>2, <3>3
  <2>2. ASSUME NEW u \in Threads, NEW m \in unset'[u]
        PROVE  /\ queue'[proc'[u]][m] = <<>> /\ m \in flags'[proc'[u]]
               /\ \A k \in trnsfr'[u] : m < k
               /\ wtr'[u] # NoThread => \A k \in need'[wtr'[u]] : m < k
               /\ \A x \in Threads : m \in have'[x][proc'[u]] =>
                    /\ Asleep(x)' /\ proc'[x] = proc'[u] /\ uaflgs'[x] = 1
                    /\ need'[x] # {} \/ x \in Range(wakeup'[u])
    \* Those that get the lock now, ...
    <3>1. CASE u = t /\ m = l
      <4>1. s = <<>>
        <5>1. l \notin unset[t]
          BY <1>l, BitFacts DEF TransferInv
        <5> QED BY <1>12, <2>2, <3>1, <5>1
      <4>2. queue'[proc'[u]][m] = <<>> /\ m \in flags'[proc'[u]]
        BY <1>0, <1>8, <1>11, <1>p, <3>1, <4>1
      <4>3. \A k \in trnsfr'[u] : m < k
        <5>1. \A k \in trnsfr[t] : k \in Nat /\ l \in Nat /\ l <= k
          BY <1>l, BitFacts DEF TypeOK
        <5> QED BY <1>10, <3>1, <5>1
      <4>4. wtr'[u] # NoThread => \A k \in need'[wtr'[u]] : m < k
        <5>1. \A k \in need[w] : k \in Nat /\ l \in Nat /\ l <= k
          BY <1>3, BitFacts DEF TypeOK
        <5>2. \A k \in need'[w] : l < k
          BY <1>14, <5>1
        <5> QED BY <1>17, <3>1, <5>2
      <4>5. ASSUME NEW x \in Threads, m \in have'[x][proc'[u]] PROVE x = w
        <5>1. ~ Own(x, p, l) \/ x = t
          BY <1>7
        <5>2. l \in have'[x][p]
          BY <1>0, <1>p, <3>1, <4>5
        <5> QED BY <1>8, <1>13, <5>1, <5>2 DEF Own
      <4>6. /\ Asleep(w)' /\ proc'[w] = proc'[u] /\ uaflgs'[w] = 1
            /\ need'[w] # {} \/ w \in Range(wakeup'[u])
        BY <1>0, <1>3, <1>18, <1>19, <1>p, <3>1
      <4> QED BY <4>2, <4>3, <4>4, <4>5, <4>6
    \* ... those that got it before in this transfer, ...
    <3>2. CASE u = t /\ m # l
      <4>1. m \in unset[t] /\ m \in Locks /\ m < l
        BY <1>12, <1>l, <2>2, <3>2 DEF TransferInv, TypeOK
      <4>2. queue'[proc'[u]][m] = <<>> /\ m \in flags'[proc'[u]] /\ \A k \in trnsfr'[u] : m < k
        <5>1. queue[p][m] = <<>> /\ m \in flags[p] /\ \A k \in trnsfr[t] : m < k
          BY <1>p, <4>1 DEF TransferInv
        <5> QED BY <1>0, <1>10, <1>11, <1>p, <3>2, <4>1, <5>1
      <4>3. wtr'[u] # NoThread => \A k \in need'[wtr'[u]] : m < k
        <5>1. \A k \in need[w] : k \in Nat /\ l \in Nat /\ m \in Nat /\ l <= k
          BY <1>3, <4>1, BitFacts DEF TypeOK
        <5>2. \A k \in need'[w] : m < k
          BY <1>14, <4>1, <5>1
        <5> QED BY <1>17, <3>2, <5>2
      <4>4. ASSUME NEW x \in Threads, m \in have'[x][proc'[u]]
            PROVE  /\ Asleep(x)' /\ proc'[x] = proc'[u] /\ uaflgs'[x] = 1
                   /\ need'[x] # {} \/ x \in Range(wakeup'[u])
        <5>1. m \in have[x][p]
          BY <1>0, <1>13, <1>p, <3>2, <4>1, <4>4
        <5>2. /\ Asleep(x) /\ proc[x] = proc[t] /\ uaflgs[x] = 1
              /\ need[x] # {} \/ x \in Range(wakeup[t])
          BY <1>p, <4>1, <5>1 DEF TransferInv
        <5>3. Asleep(x)' /\ proc'[x] = proc'[u] /\ uaflgs'[x] = 1
          BY <1>0, <1>18, <3>2, <5>2
        <5>4. need'[x] # {} \/ x \in Range(wakeup'[t])
          BY <1>14, <1>19, <1>20, <5>2
        <5> QED BY <3>2, <5>3, <5>4
      <4> QED BY <4>2, <4>3, <4>4
    \* ... and those of a transfer of another process.
    <3>3. CASE u # t
      <4>1. m \in unset[u] /\ m \in Locks /\ proc[u] \in Procs /\ proc[u] # p
        BY <1>6, <1>12, <2>2, <3>3 DEF TypeOK
      <4>2. queue'[proc'[u]][m] = <<>> /\ m \in flags'[proc'[u]] /\ \A k \in trnsfr'[u] : m < k
        <5>1. queue[proc[u]][m] = <<>> /\ m \in flags[proc[u]] /\ \A k \in trnsfr[u] : m < k
          BY <4>1 DEF TransferInv
        <5> QED BY <1>0, <1>10, <1>11, <3>3, <4>1, <5>1
      <4>3. wtr'[u] # NoThread => \A k \in need'[wtr'[u]] : m < k
        <5>1. \A x \in Threads : need'[x] \subseteq need[x]
          BY <1>14
        <5>2. wtr'[u] = wtr[u] /\ (wtr[u] # NoThread => wtr[u] \in Threads)
          BY <1>17, <3>3 DEF TypeOK
        <5>3. wtr[u] # NoThread => \A k \in need[wtr[u]] : m < k
          BY <4>1 DEF TransferInv
        <5> QED BY <5>1, <5>2, <5>3
      <4>4. ASSUME NEW x \in Threads, m \in have'[x][proc'[u]]
            PROVE  /\ Asleep(x)' /\ proc'[x] = proc'[u] /\ uaflgs'[x] = 1
                   /\ need'[x] # {} \/ x \in Range(wakeup'[u])
        <5>1. m \in have[x][proc[u]]
          BY <1>0, <1>13, <4>1, <4>4
        <5>2. /\ Asleep(x) /\ proc[x] = proc[u] /\ uaflgs[x] = 1
              /\ need[x] # {} \/ x \in Range(wakeup[u])
          BY <4>1, <5>1 DEF TransferInv
        <5>3. need'[x] = need[x]
          BY <1>3, <1>14, <4>1, <5>2
        <5> QED BY <1>0, <1>15, <1>18, <3>3, <5>2, <5>3
      <4> QED BY <4>2, <4>3, <4>4
    <3> QED BY <3>1, <3>2, <3>3
  <2> QED BY <2>1, <2>2 DEF TransferInv
<1>28. WakeInv'
  <2>1. \A u \in Threads : Pending(u) \subseteq Threads
    BY RangeTypes
  <2>2. ASSUME NEW u \in Threads, NEW x \in Pending(u)'
        PROVE  Asleep(x)' /\ need'[x] = {} /\ uaflgs'[x] = 1
    <3>1. CASE x \in Pending(u)
      BY <1>0, <1>9, <1>14, <1>18, <2>1, <3>1 DEF WakeInv
    <3>2. CASE x \notin Pending(u)
      <4>1. x = w /\ need'[w] = {}
        BY <1>19, <2>2, <3>2
      <4> QED BY <1>0, <1>3, <1>18, <4>1
    <3> QED BY <3>1, <3>2
  <2>3. ASSUME NEW u \in Threads, NEW v \in Threads, v # u
        PROVE  Pending(u)' \cap Pending(v)' = {}
    BY <1>9, <1>19, <2>3 DEF WakeInv
  <2> QED BY <1>20, <2>2, <2>3 DEF WakeInv
<1>29. QueuedInv'
  <2> SUFFICES ASSUME NEW x \in Threads, Asleep(x)', need'[x] # {}
               PROVE  /\ uaflgs'[x] = 1
                      /\ \/ \E m \in need'[x] : x \in Range(queue'[proc'[x]][m])
                         \/ \E u \in Threads \ {x} : wtr'[u] = x
    BY DEF QueuedInv
  <2>1. CASE x = w
    BY <1>0, <1>3, <1>4, <1>17, <2>1
  <2>2. CASE x # w
    <3>1. Asleep(x) /\ need'[x] = need[x] /\ need[x] \subseteq Locks /\ proc[x] \in Procs
      BY <1>14, <1>18, <2>2 DEF TypeOK
    <3>2. \A u \in Threads : wtr[u] = x => wtr'[u] = x
      BY <1>4, <1>17, ThreadAssumption
    <3>3. \A m \in need[x] : x \in Range(queue[proc[x]][m]) => x \in Range(queue'[proc[x]][m])
      BY <1>24, <2>2, <3>1
    <3> QED BY <1>0, <3>1, <3>2, <3>3 DEF QueuedInv
  <2> QED BY <2>1, <2>2
<1>30. ToldInv'
  <2> SUFFICES ASSUME NEW x \in Threads, Asleep(x)', need'[x] = {}, uaflgs'[x] = 1
               PROVE  \E u \in Threads : x \in Pending(u)'
    BY DEF ToldInv
  <2>1. CASE x = w
    BY <1>19, <2>1
  <2>2. CASE x # w
    <3>1. PICK u \in Threads : x \in Pending(u)
      BY <1>0, <1>14, <1>18, <2>2 DEF ToldInv
    <3> QED BY <1>19, <3>1
  <2> QED BY <2>1, <2>2
<1>31. WokenInv'
  <2>1. \A x \in Threads : pc'[x] = "wait" => pc[x] = "wait"
    BY <1>17
  <2>2. \A u \in Threads : pc[u] = "set" => pc'[u] = "set" /\ wakeup'[u] = wakeup[u]
    BY <1>0, <1>15, <1>17
  <2> QED BY <1>0, <2>1, <2>2 DEF WokenInv
<1>32. OrderInv'
  <2> SUFFICES ASSUME NEW x \in Threads
               PROVE  /\ \A q \in Procs : rel'[x][q] \subseteq have'[x][q]
                      /\ need'[x] # {} => rel'[x] = None
                      /\ \A q \in Procs : \A m \in have'[x][q] \ rel'[x][q] :
                           \A r \in Procs : \A k \in req'[x][r] : Before(m, q, k, r)
                      /\ \A q \in Procs : \A m \in have'[x][q], k \in need'[x] :
                           Before(m, q, k, proc'[x])
                      /\ \A k \in need'[x] : \A q \in Procs : \A m \in req'[x][q] :
                           Before(k, proc'[x], m, q)
    BY DEF OrderInv
  <2>1. /\ \A q \in Procs : rel[x][q] \subseteq Locks /\ have[x][q] \subseteq have'[x][q]
        /\ \A q \in Procs : have'[x][q] \subseteq Locks
    BY <1>13 DEF TypeOK
  <2>2. need'[x] \subseteq need[x]
    BY <1>14
  <2>3. \A q \in Procs : rel'[x][q] \subseteq have'[x][q]
    BY <1>0, <2>1 DEF OrderInv
  <2>4. need'[x] # {} => rel'[x] = None
    BY <1>0, <2>2 DEF OrderInv
  <2>5. ASSUME NEW q \in Procs, NEW m \in have'[x][q] \ rel'[x][q],
               NEW r \in Procs, NEW k \in req'[x][r]
        PROVE  Before(m, q, k, r)
    <3>1. m \in have[x][q] \/ (x = w /\ q = p /\ m = l)
      BY <1>13, <2>1, <2>5
    <3>2. k \in req[x][r] /\ m \notin rel[x][q]
      BY <1>0, <2>5
    <3> QED BY <1>3, <3>1, <3>2 DEF OrderInv
  <2>6. ASSUME NEW q \in Procs, NEW m \in have'[x][q], NEW k \in need'[x]
        PROVE  Before(m, q, k, proc'[x])
    <3>1. m \in have[x][q] \/ (x = w /\ q = p /\ m = l)
      BY <1>13, <2>1, <2>6
    <3>2. k \in need[x] /\ proc'[x] = proc[x]
      BY <1>0, <2>2, <2>6
    <3>3. CASE m \in have[x][q]
      BY <3>2, <3>3 DEF OrderInv
    <3>4. CASE x = w /\ q = p /\ m = l
      <4>1. l <= k /\ k # l /\ k \in Nat /\ l \in Nat
        BY <1>3, <1>14, <2>6, <3>2, <3>4, BitFacts DEF TypeOK
      <4> QED BY <1>3, <3>2, <3>4, <4>1 DEF Before
    <3> QED BY <3>1, <3>3, <3>4
  <2>7. ASSUME NEW k \in need'[x], NEW q \in Procs, NEW m \in req'[x][q]
        PROVE  Before(k, proc'[x], m, q)
    BY <1>0, <2>2, <2>7 DEF OrderInv
  <2> QED BY <2>3, <2>4, <2>5, <2>6, <2>7
<1> QED
  BY <1>16, <1>21, <1>22, <1>23, <1>25, <1>26, <1>27, <1>28, <1>29, <1>30, <1>31, <1>32

-----------------------------------------------------------------------------
(* Steps that change flags without the pix lock.                           *)

\* t, not asleep, locks what nobody has, and changes what it keeps for itself.
Grants(t, p, locks) ==
  /\ pc[t] \in {"call", "failed"} /\ pc'[t] \in {"call", "failed"}
  /\ need'[t] # {} <=> pc'[t] = "failed"
  /\ \A u \in Threads : u # t => pc'[u] = pc[u] /\ proc'[u] = proc[u] /\ need'[u] = need[u]
  /\ locks \cap flags[p] = {}
  /\ flags' = [flags EXCEPT ![p] = flags[p] \cup locks]
  /\ have' = [have EXCEPT ![t] = [have[t] EXCEPT ![p] = have[t][p] \cup locks]]
  /\ UNCHANGED <<queue, pix, uaflgs, event, trnsfr, unset, wtr, wakeup>>

\* What a thread that gets free locks in one compare and exchange changes.
LEMMA GrantFacts ==
  ASSUME TypeOK, NEW t \in Threads, NEW p \in Procs, NEW locks \in SUBSET Locks,
         Grants(t, p, locks)
  PROVE  /\ flags' \in [Procs -> SUBSET Bits]
         /\ have' \in [Threads -> [Procs -> SUBSET Locks]]
         /\ \A q \in Procs, m \in Locks :
              /\ m \in flags'[q] <=> m \in flags[q] \/ (q = p /\ m \in locks)
              /\ Waiter(m) \in flags'[q] <=> Waiter(m) \in flags[q]
         /\ \A x \in Threads, q \in Procs, m \in Locks :
              m \in have'[x][q] <=> m \in have[x][q] \/ (x = t /\ q = p /\ m \in locks)
<1>1. /\ flags' = [flags EXCEPT ![p] = flags[p] \cup locks]
      /\ have' = [have EXCEPT ![t] = [have[t] EXCEPT ![p] = have[t][p] \cup locks]]
  BY DEF Grants
<1>2. flags \in [Procs -> SUBSET Bits] /\ flags[p] \cup locks \in SUBSET Bits
  BY DEF TypeOK, Bits
<1>3. /\ flags' \in [Procs -> SUBSET Bits] /\ flags'[p] = flags[p] \cup locks
      /\ \A q \in Procs : q # p => flags'[q] = flags[q]
  BY <1>1, <1>2, Update
<1>4. have \in [Threads -> [Procs -> SUBSET Locks]] /\ have[t][p] \cup locks \in SUBSET Locks
  BY DEF TypeOK
<1>5. /\ have' \in [Threads -> [Procs -> SUBSET Locks]] /\ have'[t][p] = have[t][p] \cup locks
      /\ \A x \in Threads, q \in Procs : x # t \/ q # p => have'[x][q] = have[x][q]
  BY <1>1, <1>4, Update2
<1>6. \A m \in Locks : Waiter(m) \notin locks
  BY BitFacts
<1> QED BY <1>3, <1>5, <1>6

\* Nobody queues, serves or is about to tell a thread that does not sleep.
LEMMA AwakeFacts ==
  ASSUME IInv, NEW t \in Threads, pc[t] \in {"call", "failed"}
  PROVE  /\ ~ Asleep(t) /\ ~ Serving(t)
         /\ trnsfr[t] = {} /\ unset[t] = {} /\ wtr[t] = NoThread /\ wakeup[t] = <<>>
         /\ \A u \in Threads : wtr[u] # t
         /\ \A q \in Procs, m \in Locks : t \notin Range(queue[q][m])
         /\ \A u \in Threads : t \notin Pending(u)
<1> USE DEF IInv
<1>1. ~ Asleep(t) /\ ~ Serving(t)
  BY DEF Asleep, Serving
<1>2. trnsfr[t] = {} /\ unset[t] = {} /\ wtr[t] = NoThread /\ wakeup[t] = <<>>
  BY <1>1 DEF PlaceInv, Place
<1>3. \A u \in Threads : wtr[u] # t
  BY <1>1, <1>2, ThreadAssumption DEF PlaceInv, Place
<1>4. \A q \in Procs, m \in Locks : t \notin Range(queue[q][m])
  BY <1>1 DEF QueueInv
<1>5. \A u \in Threads : t \notin Pending(u)
  BY <1>1 DEF WakeInv
<1> QED BY <1>1, <1>2, <1>3, <1>4, <1>5

\* Locks taken in one compare and exchange, by any caller.
LEMMA GrantStep ==
  ASSUME IInv, NEW t \in Threads, NEW p \in Procs, NEW locks \in SUBSET Locks,
         Grants(t, p, locks), TypeOK', OrderInv'
  PROVE  IInv'
<1> USE DEF IInv
<1>0. /\ pc[t] \in {"call", "failed"} /\ pc'[t] \in {"call", "failed"}
      /\ need'[t] # {} <=> pc'[t] = "failed"
      /\ \A u \in Threads : u # t => pc'[u] = pc[u] /\ proc'[u] = proc[u] /\ need'[u] = need[u]
      /\ locks \cap flags[p] = {}
      /\ UNCHANGED <<queue, pix, uaflgs, event, trnsfr, unset, wtr, wakeup>>
  BY DEF Grants
<1>1. /\ ~ Asleep(t) /\ ~ Serving(t)
      /\ trnsfr[t] = {} /\ unset[t] = {} /\ wtr[t] = NoThread /\ wakeup[t] = <<>>
      /\ \A u \in Threads : wtr[u] # t
      /\ \A q \in Procs, m \in Locks : t \notin Range(queue[q][m])
      /\ \A u \in Threads : t \notin Pending(u)
  BY <1>0, AwakeFacts
<1>2. /\ \A q \in Procs, m \in Locks :
           /\ m \in flags'[q] <=> m \in flags[q] \/ (q = p /\ m \in locks)
           /\ Waiter(m) \in flags'[q] <=> Waiter(m) \in flags[q]
      /\ \A x \in Threads, q \in Procs, m \in Locks :
           m \in have'[x][q] <=> m \in have[x][q] \/ (x = t /\ q = p /\ m \in locks)
  BY GrantFacts
<1>3. \A u \in Threads : /\ Asleep(u)' <=> Asleep(u)
                         /\ Asleep(u) => u # t
                         /\ Serving(u)' <=> Serving(u)
                         /\ Pending(u)' = Pending(u)
  <2>1. \A u \in Threads : u # t => /\ Asleep(u)' <=> Asleep(u)
                                    /\ Serving(u)' <=> Serving(u)
                                    /\ Pending(u)' = Pending(u)
    BY <1>0 DEF Asleep, Serving, Pending
  <2>2. ~ Asleep(t)' /\ ~ Serving(t)' /\ Pending(t)' = Pending(t)
    BY <1>0 DEF Asleep, Serving, Pending
  <2> QED BY <1>1, <2>1, <2>2
<1>4. PlaceInv'
  <2> SUFFICES ASSUME NEW u \in Threads PROVE Place(u)'
    BY DEF PlaceInv
  <2>1. CASE u = t
    BY <1>0, <1>1, <1>3, <2>1 DEF Place
  <2>2. CASE u # t
    <3>1. pc[u] = "aquire" => wtr[u] \in Threads \ {t}
      BY <1>1, <2>2 DEF PlaceInv, Place
    <3>2. \A x \in Threads \ {t} : /\ Asleep(x)' <=> Asleep(x)
                                   /\ proc'[x] = proc[x] /\ need'[x] = need[x]
      BY <1>0, <1>3
    <3>3. /\ pc'[u] = pc[u] /\ proc'[u] = proc[u] /\ need'[u] = need[u]
          /\ wtr'[u] = wtr[u] /\ trnsfr'[u] = trnsfr[u] /\ unset'[u] = unset[u]
          /\ wakeup'[u] = wakeup[u] /\ (Serving(u)' <=> Serving(u))
      BY <1>0, <1>3, <2>2
    <3> QED BY <3>1, <3>2, <3>3 DEF PlaceInv, Place
  <2> QED BY <2>1, <2>2
<1>5. PixInv'
  BY <1>0 DEF PixInv
<1>6. OwnerInv'
  <2>1. \A u \in Threads, q \in Procs, m \in Locks :
          Own(u, q, m)' <=> Own(u, q, m) \/ (u = t /\ q = p /\ m \in locks)
    BY <1>0, <1>1, <1>2 DEF Own
  <2>2. \A u \in Threads, m \in locks : ~ Own(u, p, m)
    BY <1>0 DEF OwnerInv
  <2> SUFFICES ASSUME NEW q \in Procs, NEW m \in Locks
               PROVE  /\ m \in flags'[q] <=> \E u \in Threads : Own(u, q, m)'
                      /\ \A u, v \in Threads : Own(u, q, m)' /\ Own(v, q, m)' => u = v
                      /\ \A u \in Threads : proc'[u] = q /\ m \in trnsfr'[u] => m \notin have'[u][q]
    BY DEF OwnerInv
  <2>3. \A u \in Threads : proc'[u] = q /\ m \in trnsfr'[u] => m \notin have'[u][q]
    BY <1>0, <1>1, <1>2 DEF OwnerInv
  <2>4. CASE q = p /\ m \in locks
    BY <1>2, <2>1, <2>2, <2>3, <2>4
  <2>5. CASE ~ (q = p /\ m \in locks)
    <3>1. \A u \in Threads : Own(u, q, m)' <=> Own(u, q, m)
      BY <2>1, <2>5
    <3>2. m \in flags'[q] <=> m \in flags[q]
      BY <1>2, <2>5
    <3> QED BY <2>3, <3>1, <3>2 DEF OwnerInv
  <2> QED BY <2>4, <2>5
<1>7. QueueInv'
  <2>1. \A q \in Procs, m \in Locks : Range(queue[q][m]) \subseteq Threads \ {t}
    BY <1>1, RangeTypes
  <2> QED BY <1>0, <1>3, <2>1 DEF QueueInv
<1>8. FlagInv'
  BY <1>0, <1>2 DEF FlagInv
<1>9. TransferInv'
  <2>1. ASSUME NEW u \in Threads, NEW m \in trnsfr'[u] PROVE queue'[proc'[u]][m] # <<>>
    <3>1. u # t /\ m \in trnsfr[u]
      BY <1>0, <1>1, <2>1
    <3> QED BY <1>0, <3>1 DEF TransferInv
  <2>2. ASSUME NEW u \in Threads, NEW m \in unset'[u]
        PROVE  u # t /\ m \in unset[u] /\ proc'[u] = proc[u] /\ proc[u] \in Procs /\ m \in Locks
    BY <1>0, <1>1, <2>2 DEF TypeOK
  <2>3. ASSUME NEW u \in Threads, NEW m \in unset'[u]
        PROVE  /\ queue'[proc'[u]][m] = <<>> /\ m \in flags'[proc'[u]]
               /\ \A k \in trnsfr'[u] : m < k
               /\ wtr'[u] # NoThread => \A k \in need'[wtr'[u]] : m < k
    <3>1. /\ queue[proc[u]][m] = <<>> /\ m \in flags[proc[u]] /\ \A k \in trnsfr[u] : m < k
          /\ wtr[u] # NoThread => \A k \in need[wtr[u]] : m < k
      BY <2>2, <2>3 DEF TransferInv
    <3>2. m \in flags'[proc[u]]
      BY <1>2, <2>2, <2>3, <3>1
    <3>3. wtr[u] # NoThread => need'[wtr[u]] = need[wtr[u]]
      BY <1>0, <1>1 DEF TypeOK
    <3> QED BY <1>0, <2>2, <2>3, <3>1, <3>2, <3>3
  <2>4. ASSUME NEW u \in Threads, NEW m \in unset'[u], NEW x \in Threads,
               m \in have'[x][proc'[u]]
        PROVE  /\ Asleep(x)' /\ proc'[x] = proc'[u] /\ uaflgs'[x] = 1
               /\ need'[x] # {} \/ x \in Range(wakeup'[u])
    <3>1. m \in flags[proc[u]]
      BY <2>2, <2>4 DEF TransferInv
    <3>2. m \in have[x][proc[u]]
      BY <1>0, <1>2, <2>2, <2>4, <3>1
    <3>3. /\ Asleep(x) /\ proc[x] = proc[u] /\ uaflgs[x] = 1
          /\ need[x] # {} \/ x \in Range(wakeup[u])
      BY <2>2, <2>4, <3>2 DEF TransferInv
    <3> QED BY <1>0, <1>3, <2>2, <2>4, <3>3
  <2> QED BY <2>1, <2>3, <2>4 DEF TransferInv
<1>10. WakeInv'
  <2>1. \A u \in Threads : Pending(u) \subseteq Threads \ {t}
    BY <1>1, RangeTypes
  <2> QED BY <1>0, <1>3, <2>1 DEF WakeInv
<1>11. QueuedInv'
  BY <1>0, <1>3 DEF QueuedInv
<1>12. ToldInv'
  BY <1>0, <1>3 DEF ToldInv
<1>13. WokenInv'
  <2>1. \A u \in Threads : (pc'[u] = "wait" => pc[u] = "wait") /\ (pc[u] = "set" => pc'[u] = "set")
    BY <1>0
  <2> QED BY <1>0, <2>1 DEF WokenInv
<1> QED
  BY <1>4, <1>5, <1>6, <1>7, <1>8, <1>9, <1>10, <1>11, <1>12, <1>13

\* erts_smp_proc_trylock().
LEMMA TryLockStep ==
  ASSUME IInv, NEW t \in Threads, NEW p \in Procs, NEW locks \in SUBSET Locks,
         TryLock(t, p, locks)
  PROVE  IInv'
<1> USE DEF IInv
<1>1. /\ pc[t] = "call" /\ rel[t] = None /\ req[t] = None
      /\ UNCHANGED <<queue, pix, rel, req, pc, proc, need, seen, uaflgs, event, trnsfr, unset,
                     wtr, wakeup>>
  BY DEF TryLock, Idle, At, calls, tse, transfer
<1>2. need[t] = {}
  BY <1>1 DEF PlaceInv, Place
<1>3. Grants(t, p, locks)
  BY <1>1, <1>2 DEF TryLock, Granted, Grants
<1>4. TypeOK'
  BY <1>1, <1>3, GrantFacts DEF TypeOK
<1>5. OrderInv'
  <2>1. \A x \in Threads, q \in Procs :
          have[x][q] \subseteq have'[x][q] /\ (x # t => have'[x][q] = have[x][q])
    <3>1. \A x \in Threads, q \in Procs : have[x][q] \subseteq Locks /\ have'[x][q] \subseteq Locks
      BY <1>4 DEF TypeOK
    <3>2. \A x \in Threads, q \in Procs, m \in Locks :
            m \in have'[x][q] <=> m \in have[x][q] \/ (x = t /\ q = p /\ m \in locks)
      BY <1>3, GrantFacts
    <3> QED BY <3>1, <3>2
  <2>2. \A q \in Procs : req'[t][q] = {} /\ rel'[t][q] = {}
    BY <1>1 DEF None
  <2> QED BY <1>1, <1>2, <2>1, <2>2 DEF OrderInv
<1> QED
  BY <1>3, <1>4, <1>5, GrantStep DEF IInv

\* erts_proc_lock_failed() grabs what it can of the locks it needs.
LEMMA GrabStep ==
  ASSUME IInv, NEW t \in Threads, Grab(t)
  PROVE  IInv'
<1> USE DEF IInv
<1>p. PICK p \in Procs : p = proc[t]
  BY DEF TypeOK
<1>g. PICK grab \in SUBSET Locks : grab = can_grab(t) /\ grab \subseteq need[t]
  BY DEF can_grab, in_order_locks, TypeOK
<1>1. /\ pc[t] = "failed" /\ flags[p] \cap need[t] = seen[t]
      /\ UNCHANGED <<queue, pix, rel, req, seen, uaflgs, event, trnsfr, unset, wtr, wakeup>>
  BY <1>p DEF Grab, At, calls, tse, transfer
<1>2. /\ need' = [need EXCEPT ![t] = need[t] \ grab]
      /\ flags' = [flags EXCEPT ![p] = flags[p] \cup grab]
      /\ have' = [have EXCEPT ![t] = [have[t] EXCEPT ![p] = have[t][p] \cup grab]]
  BY <1>p, <1>g DEF Grab, Granted
<1>3. \/ /\ need'[t] = {} /\ pc' = [pc EXCEPT ![t] = "call"]
         /\ proc' = [proc EXCEPT ![t] = Min(Procs)]
      \/ need'[t] # {} /\ UNCHANGED <<pc, proc>>
  BY DEF Grab, Return, Goto
<1>4. Min(Procs) \in Procs
  BY MinProc, ProcAssumption
\* Of what it needs it grabs what is free and below what is not, ...
<1>5. grab \cap flags[p] = {}
  <2>1. \A l \in grab : l \in Nat /\ \A busy \in seen[t] \cap need[t] : l < busy
    BY <1>g, BitFacts DEF can_grab, in_order_locks
  <2> QED BY <1>1, <1>g, <2>1
\* ... so that it still needs only what comes after.
<1>6. \A l \in grab, k \in need[t] \ grab : l < k
  <2> SUFFICES ASSUME NEW l \in grab, NEW k \in need[t] \ grab PROVE l < k
    OBVIOUS
  <2>1. PICK busy \in seen[t] \cap need[t] : ~ (k < busy)
    BY <1>g DEF can_grab, in_order_locks
  <2>2. l < busy
    BY <1>g, <2>1 DEF can_grab, in_order_locks
  <2>3. l \in Nat /\ k \in Nat /\ busy \in Nat
    BY <2>1, BitFacts DEF TypeOK
  <2> QED BY <2>1, <2>2, <2>3
<1>7. /\ need' \in [Threads -> SUBSET Locks] /\ need'[t] = need[t] \ grab
      /\ \A u \in Threads : u # t => need'[u] = need[u]
  <2>1. need \in [Threads -> SUBSET Locks] /\ need[t] \ grab \in SUBSET Locks
    BY DEF TypeOK
  <2> QED BY <1>2, <2>1, Update
<1>8. /\ pc' \in [Threads -> {"call", "failed", "aquire", "reset", "check", "wait",
                              "transfer_pix", "transfer", "wake", "set"}]
      /\ \A u \in Threads : u # t => pc'[u] = pc[u]
      /\ pc'[t] \in {"call", "failed"} /\ (need'[t] # {} <=> pc'[t] = "failed")
  BY <1>1, <1>3 DEF TypeOK
<1>9. /\ proc' \in [Threads -> Procs] /\ \A u \in Threads : u # t => proc'[u] = proc[u]
      /\ need'[t] # {} => proc'[t] = p
  BY <1>3, <1>4, <1>p DEF TypeOK
<1>10. Grants(t, p, grab)
  BY <1>1, <1>2, <1>5, <1>7, <1>8, <1>9 DEF Grants
<1>11. TypeOK'
  BY <1>1, <1>7, <1>8, <1>9, <1>10, GrantFacts DEF TypeOK
<1>12. OrderInv'
  <2> SUFFICES ASSUME NEW x \in Threads
               PROVE  /\ \A q \in Procs : rel'[x][q] \subseteq have'[x][q]
                      /\ need'[x] # {} => rel'[x] = None
                      /\ \A q \in Procs : \A m \in have'[x][q] \ rel'[x][q] :
                           \A r \in Procs : \A k \in req'[x][r] : Before(m, q, k, r)
                      /\ \A q \in Procs : \A m \in have'[x][q], k \in need'[x] :
                           Before(m, q, k, proc'[x])
                      /\ \A k \in need'[x] : \A q \in Procs : \A m \in req'[x][q] :
                           Before(k, proc'[x], m, q)
    BY DEF OrderInv
  <2>1. /\ \A q \in Procs : rel[x][q] \subseteq Locks /\ have'[x][q] \subseteq Locks
        /\ \A q \in Procs, m \in Locks :
             m \in have'[x][q] <=> m \in have[x][q] \/ (x = t /\ q = p /\ m \in grab)
    <3>1. \A q \in Procs : rel[x][q] \subseteq Locks /\ have'[x][q] \subseteq Locks
      BY <1>11 DEF TypeOK
    <3> QED BY <1>10, <3>1, GrantFacts
  <2>2. need'[x] \subseteq need[x] /\ (need'[x] # {} => proc'[x] = proc[x])
    BY <1>7, <1>9, <1>p
  <2>3. \A q \in Procs : rel'[x][q] \subseteq have'[x][q]
    BY <1>1, <2>1 DEF OrderInv
  <2>4. need'[x] # {} => rel'[x] = None
    BY <1>1, <2>2 DEF OrderInv
  <2>5. ASSUME NEW q \in Procs, NEW m \in have'[x][q] \ rel'[x][q],
               NEW r \in Procs, NEW k \in req'[x][r]
        PROVE  Before(m, q, k, r)
    <3>1. m \in have[x][q] \/ (x = t /\ q = p /\ m \in need[t])
      BY <1>g, <2>1, <2>5
    <3>2. k \in req[x][r] /\ m \notin rel[x][q]
      BY <1>1, <2>5
    <3> QED BY <1>p, <3>1, <3>2 DEF OrderInv
  <2>6. ASSUME NEW q \in Procs, NEW m \in have'[x][q], NEW k \in need'[x]
        PROVE  Before(m, q, k, proc'[x])
    <3>1. m \in have[x][q] \/ (x = t /\ q = p /\ m \in grab)
      BY <2>1, <2>6
    <3>2. k \in need[x] /\ proc'[x] = proc[x]
      BY <2>2, <2>6
    <3>3. CASE m \in have[x][q]
      BY <3>2, <3>3 DEF OrderInv
    <3>4. CASE x = t /\ q = p /\ m \in grab
      BY <1>6, <1>7, <1>p, <2>6, <3>2, <3>4 DEF Before
    <3> QED BY <3>1, <3>3, <3>4
  <2>7. ASSUME NEW k \in need'[x], NEW q \in Procs, NEW m \in req'[x][q]
        PROVE  Before(k, proc'[x], m, q)
    BY <1>1, <2>2, <2>7 DEF OrderInv
  <2> QED BY <2>3, <2>4, <2>5, <2>6, <2>7
<1> QED
  BY <1>10, <1>11, <1>12, GrantStep DEF IInv

-----------------------------------------------------------------------------
(* The calls of an operation.                                              *)

\* t is between two lock calls: it has what it is to release, and what it keeps
\* comes before what it is to lock.
Ready(t, unlocks, locks) ==
  /\ pc[t] = "call" /\ (unlocks = None => rel[t] = None)
  /\ unlocks \in [Procs -> SUBSET Locks] /\ locks \in [Procs -> SUBSET Locks]
  /\ unlocks # None \/ locks # None
  /\ \A p \in Procs : unlocks[p] \subseteq have[t][p]
  /\ \A q \in Procs : \A m \in have[t][q] \ unlocks[q] :
       \A p \in Procs : \A l \in locks[p] : Before(m, q, l, p)

\* erts_smp_proc_lock__().
LEMMA AcquireStep ==
  ASSUME IInv, NEW t \in Threads, NEW unlocks, NEW locks, Ready(t, unlocks, locks),
         unlocks = None, Proceed(t, unlocks, locks)
  PROVE  IInv'
<1> USE DEF IInv
<1>0. /\ pc[t] = "call" /\ rel[t] = None /\ locks \in [Procs -> SUBSET Locks] /\ locks # None
      /\ \A q \in Procs : \A m \in have[t][q] : \A p \in Procs : \A l \in locks[p] : Before(m, q, l, p)
  <2>1. \A q \in Procs : unlocks[q] = {}
    BY DEF None
  <2> QED BY <2>1 DEF Ready
<1>p. PICK p \in Procs : p = FirstNeeded(locks)
  BY <1>0, NeededFirst
<1>m. PICK mask \in SUBSET Locks : /\ mask = lock_mask(p, locks) /\ mask \subseteq locks[p] /\ mask # {}
  BY <1>0, <1>p, NeededFirst
<1>r. PICK rest \in [Procs -> SUBSET Locks] : rest = [locks EXCEPT ![p] = locks[p] \ mask]
  BY <1>0
<1>1. \A l \in mask : \A q \in Procs : \A m \in rest[q] : Before(l, p, m, q)
  BY <1>0, <1>p, <1>m, <1>r, NeededFirst
<1>2. \A q \in Procs : rest[q] \subseteq locks[q]
  BY <1>0, <1>r
<1>3. /\ Acquire(t, p, mask) /\ req' = [req EXCEPT ![t] = rest]
      /\ UNCHANGED <<rel, queue, pix, uaflgs, event, unset, wtr, wakeup, trnsfr>>
  BY <1>p, <1>m, <1>r DEF Proceed, Acquire, tse
<1>4. need[t] = {}
  BY <1>0 DEF PlaceInv, Place
<1>5. /\ req' \in [Threads -> [Procs -> SUBSET Locks]] /\ req'[t] = rest
      /\ \A x \in Threads : x # t => req'[x] = req[x]
  <2>1. req \in [Threads -> [Procs -> SUBSET Locks]]
    BY DEF TypeOK
  <2> QED BY <1>3, <2>1, Update
<1>6. CASE flags[p] \cap mask = {}
  <2>1. /\ flags' = [flags EXCEPT ![p] = flags[p] \cup mask]
        /\ have' = [have EXCEPT ![t] = [have[t] EXCEPT ![p] = have[t][p] \cup mask]]
        /\ UNCHANGED <<pc, proc, need, seen>>
    BY <1>3, <1>6 DEF Acquire, Granted
  <2>2. Grants(t, p, mask)
    BY <1>0, <1>3, <1>4, <1>6, <2>1 DEF Grants
  <2>3. TypeOK'
    BY <1>3, <1>5, <2>1, <2>2, GrantFacts DEF TypeOK
  <2>4. \A x \in Threads, q \in Procs, m \in Locks :
          m \in have'[x][q] <=> m \in have[x][q] \/ (x = t /\ q = p /\ m \in mask)
    BY <2>2, GrantFacts
  <2>5. \A x \in Threads, q \in Procs : /\ have'[x][q] \subseteq Locks /\ have[x][q] \subseteq have'[x][q]
                                        /\ x # t => have'[x][q] = have[x][q]
    <3>1. \A x \in Threads, q \in Procs : have'[x][q] \subseteq Locks /\ have[x][q] \subseteq Locks
      BY <2>3 DEF TypeOK
    <3> QED BY <2>4, <3>1
  <2>6. ASSUME NEW q \in Procs, NEW m \in have'[t][q], NEW r \in Procs, NEW k \in rest[r]
        PROVE  Before(m, q, k, r)
    <3>1. m \in have[t][q] \/ (q = p /\ m \in mask)
      BY <2>4, <2>5, <2>6
    <3>2. k \in locks[r]
      BY <1>2, <2>6
    <3> QED BY <1>0, <1>1, <2>6, <3>1, <3>2
  <2>7. OrderInv'
    <3> SUFFICES ASSUME NEW x \in Threads
                 PROVE  /\ \A q \in Procs : rel'[x][q] \subseteq have'[x][q]
                        /\ need'[x] # {} => rel'[x] = None
                        /\ \A q \in Procs : \A m \in have'[x][q] \ rel'[x][q] :
                             \A r \in Procs : \A k \in req'[x][r] : Before(m, q, k, r)
                        /\ \A q \in Procs : \A m \in have'[x][q], k \in need'[x] :
                             Before(m, q, k, proc'[x])
                        /\ \A k \in need'[x] : \A q \in Procs : \A m \in req'[x][q] :
                             Before(k, proc'[x], m, q)
      BY DEF OrderInv
    <3>1. CASE x = t
      <4>1. \A q \in Procs : rel'[t][q] = {}
        BY <1>0, <1>3 DEF None
      <4> QED BY <1>0, <1>3, <1>4, <1>5, <2>1, <2>6, <3>1, <4>1
    <3>2. CASE x # t
      BY <1>3, <1>5, <2>1, <2>5, <3>2 DEF OrderInv
    <3> QED BY <3>1, <3>2
  <2> QED BY <2>2, <2>3, <2>7, GrantStep DEF IInv
<1>7. CASE flags[p] \cap mask # {}
  <2>1. /\ pc' = [pc EXCEPT ![t] = "failed"] /\ proc' = [proc EXCEPT ![t] = p]
        /\ need' = [need EXCEPT ![t] = mask] /\ seen' = [seen EXCEPT ![t] = flags[p] \cap mask]
        /\ UNCHANGED <<flags, have>>
    BY <1>3, <1>7 DEF Acquire, Goto
  <2>2. /\ pc' \in [Threads -> {"call", "failed", "aquire", "reset", "check", "wait",
                                "transfer_pix", "transfer", "wake", "set"}]
        /\ pc'[t] = "failed" /\ \A u \in Threads : u # t => pc'[u] = pc[u]
    BY <2>1 DEF TypeOK
  <2>3. /\ proc' \in [Threads -> Procs] /\ proc'[t] = p
        /\ \A u \in Threads : u # t => proc'[u] = proc[u]
    BY <2>1 DEF TypeOK
  <2>4. /\ need' \in [Threads -> SUBSET Locks] /\ need'[t] = mask
        /\ \A u \in Threads : u # t => need'[u] = need[u]
    <3>1. need \in [Threads -> SUBSET Locks]
      BY DEF TypeOK
    <3> QED BY <2>1, <3>1, Update
  <2>5. seen' \in [Threads -> SUBSET Bits]
    <3>1. seen \in [Threads -> SUBSET Bits] /\ flags[p] \cap mask \in SUBSET Bits
      BY DEF TypeOK
    <3> QED BY <2>1, <3>1, Update
  <2>6. Grants(t, p, {})
    <3>1. flags' = [flags EXCEPT ![p] = flags[p] \cup {}]
      BY <2>1 DEF TypeOK
    <3>2. have' = [have EXCEPT ![t] = [have[t] EXCEPT ![p] = have[t][p] \cup {}]]
      <4>1. have \in [Threads -> [Procs -> SUBSET Locks]] /\ have[t][p] \cup {} = have[t][p]
        BY DEF TypeOK
      <4>2. [have[t] EXCEPT ![p] = have[t][p]] = have[t]
        BY <4>1
      <4> QED BY <2>1, <4>1, <4>2
    <3> QED BY <1>0, <1>3, <1>m, <2>2, <2>3, <2>4, <3>1, <3>2 DEF Grants
  <2>7. TypeOK'
    BY <1>3, <1>5, <2>1, <2>2, <2>3, <2>4, <2>5 DEF TypeOK
  <2>8. OrderInv'
    <3> SUFFICES ASSUME NEW x \in Threads
                 PROVE  /\ \A q \in Procs : rel'[x][q] \subseteq have'[x][q]
                        /\ need'[x] # {} => rel'[x] = None
                        /\ \A q \in Procs : \A m \in have'[x][q] \ rel'[x][q] :
                             \A r \in Procs : \A k \in req'[x][r] : Before(m, q, k, r)
                        /\ \A q \in Procs : \A m \in have'[x][q], k \in need'[x] :
                             Before(m, q, k, proc'[x])
                        /\ \A k \in need'[x] : \A q \in Procs : \A m \in req'[x][q] :
                             Before(k, proc'[x], m, q)
      BY DEF OrderInv
    <3>1. CASE x = t
      <4>1. rel'[t] = None /\ have'[t] = have[t]
        BY <1>0, <1>3, <2>1
      <4>2. \A q \in Procs : rel'[t][q] = {}
        BY <4>1 DEF None
      <4>3. \A q \in Procs : \A m \in have[t][q] : \A r \in Procs : \A k \in rest[r] : Before(m, q, k, r)
        BY <1>0, <1>2
      <4>4. \A q \in Procs : \A m \in have[t][q], k \in mask : Before(m, q, k, p)
        BY <1>0, <1>m
      <4> QED BY <1>1, <1>5, <2>3, <2>4, <3>1, <4>1, <4>2, <4>3, <4>4
    <3>2. CASE x # t
      BY <1>3, <1>5, <2>1, <2>3, <2>4, <3>2 DEF OrderInv
    <3> QED BY <3>1, <3>2
  <2>9. {} \in SUBSET Locks
    OBVIOUS
  <2> QED BY <2>6, <2>7, <2>8, <2>9, GrantStep DEF IInv
<1> QED
  BY <1>6, <1>7

\* erts_smp_proc_unlock__().
LEMMA ReleaseStep ==
  ASSUME IInv, NEW t \in Threads, NEW unlocks, NEW locks, Ready(t, unlocks, locks),
         unlocks # None, Proceed(t, unlocks, locks)
  PROVE  IInv'
<1> USE DEF IInv
<1>0. /\ pc[t] = "call" /\ unlocks \in [Procs -> SUBSET Locks] /\ locks \in [Procs -> SUBSET Locks]
      /\ \A q \in Procs : unlocks[q] \subseteq have[t][q]
      /\ \A q \in Procs : \A m \in have[t][q] \ unlocks[q] :
           \A p \in Procs : \A l \in locks[p] : Before(m, q, l, p)
  BY DEF Ready
<1>p. PICK p \in Procs : p = Min({q \in Procs : unlocks[q] # {}})
  <2>1. {q \in Procs : unlocks[q] # {}} # {}
    BY <1>0 DEF None
  <2> QED BY <2>1, MinProc
<1>u. PICK mine \in SUBSET Locks : mine = unlocks[p] /\ mine \subseteq have[t][p]
  BY <1>0
<1>w. PICK wait \in SUBSET Locks : wait = {l \in mine : Waiter(l) \in flags[p]} /\ wait \subseteq mine
  OBVIOUS
<1>r. PICK rest \in [Procs -> SUBSET Locks] : /\ rest = [unlocks EXCEPT ![p] = {}] /\ rest[p] = {}
                                              /\ \A q \in Procs : q # p => rest[q] = unlocks[q]
  <2> DEFINE r == [unlocks EXCEPT ![p] = {}]
  <2>1. r \in [Procs -> SUBSET Locks] /\ r[p] = {} /\ \A q \in Procs : q # p => r[q] = unlocks[q]
    BY <1>0
  <2> QED BY <2>1
<1>1. /\ flags' = [flags EXCEPT ![p] = flags[p] \ (mine \ wait)]
      /\ have' = [have EXCEPT ![t] = [have[t] EXCEPT ![p] = have[t][p] \ mine]]
      /\ rel' = [rel EXCEPT ![t] = rest] /\ req' = [req EXCEPT ![t] = locks]
      /\ UNCHANGED <<need, seen, queue, pix, uaflgs, event, unset, wtr, wakeup>>
  BY <1>p, <1>u, <1>w, <1>r DEF Proceed, Release, tse
<1>2. \/ wait = {} /\ UNCHANGED <<pc, proc, trnsfr>>
      \/ /\ wait # {} /\ pc' = [pc EXCEPT ![t] = "transfer_pix"] /\ proc' = [proc EXCEPT ![t] = p]
         /\ trnsfr' = [trnsfr EXCEPT ![t] = wait]
  BY <1>p, <1>u, <1>w DEF Proceed, Release, Goto
<1>3. /\ ~ Asleep(t) /\ ~ Serving(t)
      /\ trnsfr[t] = {} /\ unset[t] = {} /\ wtr[t] = NoThread /\ wakeup[t] = <<>>
      /\ \A u \in Threads : wtr[u] # t
      /\ \A q \in Procs, m \in Locks : t \notin Range(queue[q][m])
      /\ \A u \in Threads : t \notin Pending(u)
  BY <1>0, AwakeFacts
<1>4. need[t] = {}
  BY <1>0 DEF PlaceInv, Place
<1>5. /\ flags' \in [Procs -> SUBSET Bits] /\ flags'[p] = flags[p] \ (mine \ wait)
      /\ \A q \in Procs : q # p => flags'[q] = flags[q]
  <2>1. flags \in [Procs -> SUBSET Bits] /\ flags[p] \ (mine \ wait) \in SUBSET Bits
    BY DEF TypeOK
  <2> QED BY <1>1, <2>1, Update
<1>6. /\ have' \in [Threads -> [Procs -> SUBSET Locks]] /\ have'[t][p] = have[t][p] \ mine
      /\ \A x \in Threads, q \in Procs : x # t \/ q # p => have'[x][q] = have[x][q]
  <2>1. have \in [Threads -> [Procs -> SUBSET Locks]] /\ have[t][p] \ mine \in SUBSET Locks
    BY DEF TypeOK
  <2> QED BY <1>1, <2>1, Update2
<1>7. /\ rel' \in [Threads -> [Procs -> SUBSET Locks]] /\ rel'[t] = rest
      /\ req' \in [Threads -> [Procs -> SUBSET Locks]] /\ req'[t] = locks
      /\ \A x \in Threads : x # t => rel'[x] = rel[x] /\ req'[x] = req[x]
  <2>1. rel \in [Threads -> [Procs -> SUBSET Locks]] /\ req \in [Threads -> [Procs -> SUBSET Locks]]
    BY DEF TypeOK
  <2> QED BY <1>0, <1>1, <2>1, Update
<1>8. /\ pc' \in [Threads -> {"call", "failed", "aquire", "reset", "check", "wait",
                              "transfer_pix", "transfer", "wake", "set"}]
      /\ pc'[t] = (IF wait = {} THEN "call" ELSE "transfer_pix")
      /\ \A u \in Threads : u # t => pc'[u] = pc[u]
  <2>1. pc \in [Threads -> {"call", "failed", "aquire", "reset", "check", "wait",
                            "transfer_pix", "transfer", "wake", "set"}]
    BY DEF TypeOK
  <2> QED BY <1>0, <1>2, <2>1
<1>9. /\ proc' \in [Threads -> Procs] /\ trnsfr' \in [Threads -> SUBSET Locks]
      /\ trnsfr'[t] = wait /\ (wait # {} => proc'[t] = p)
      /\ \A u \in Threads : u # t => proc'[u] = proc[u] /\ trnsfr'[u] = trnsfr[u]
  <2>1. proc \in [Threads -> Procs] /\ trnsfr \in [Threads -> SUBSET Locks]
    BY DEF TypeOK
  <2> QED BY <1>2, <1>3, <2>1
<1>10. TypeOK'
  BY <1>1, <1>5, <1>6, <1>7, <1>8, <1>9 DEF TypeOK
<1>11. \A u \in Threads : /\ Asleep(u)' <=> Asleep(u)
                          /\ Asleep(u) => u # t
                          /\ Serving(u)' <=> Serving(u)
                          /\ Pending(u)' = Pending(u)
  <2>1. \A u \in Threads : u # t => /\ Asleep(u)' <=> Asleep(u)
                                    /\ Serving(u)' <=> Serving(u)
                                    /\ Pending(u)' = Pending(u)
    BY <1>1, <1>8 DEF Asleep, Serving, Pending
  <2>2. ~ Asleep(t)' /\ ~ Serving(t)' /\ Pending(t)' = Pending(t)
    BY <1>0, <1>1, <1>8 DEF Asleep, Serving, Pending
  <2> QED BY <1>3, <2>1, <2>2
<1>12. \A q \in Procs, m \in Locks :
         /\ m \in flags'[q] <=> m \in flags[q] /\ ~ (q = p /\ m \in mine \ wait)
         /\ Waiter(m) \in flags'[q] <=> Waiter(m) \in flags[q]
  <2>1. \A m \in Locks : Waiter(m) \notin mine
    BY BitFacts
  <2> QED BY <1>5, <2>1
<1>13. \A x \in Threads, q \in Procs, m \in Locks :
         m \in have'[x][q] <=> m \in have[x][q] /\ ~ (x = t /\ q = p /\ m \in mine)
  BY <1>6
\* It is awake, so it has no lock whose wait flag is about to be unset.
<1>14. \A u \in Threads : \A m \in unset[u] : proc[u] = p => m \notin mine
  BY <1>3, <1>u DEF TransferInv
<1>15. PlaceInv'
  <2> SUFFICES ASSUME NEW u \in Threads PROVE Place(u)'
    BY DEF PlaceInv
  <2>1. CASE u = t
    BY <1>1, <1>3, <1>4, <1>8, <1>9, <1>11, <2>1 DEF Place
  <2>2. CASE u # t
    <3>1. pc[u] = "aquire" => wtr[u] \in Threads \ {t}
      BY <1>3, <2>2 DEF PlaceInv, Place
    <3>2. \A x \in Threads \ {t} : (Asleep(x)' <=> Asleep(x)) /\ proc'[x] = proc[x]
      BY <1>9, <1>11
    <3>3. /\ pc'[u] = pc[u] /\ proc'[u] = proc[u] /\ need'[u] = need[u]
          /\ wtr'[u] = wtr[u] /\ trnsfr'[u] = trnsfr[u] /\ unset'[u] = unset[u]
          /\ wakeup'[u] = wakeup[u] /\ (Serving(u)' <=> Serving(u))
      BY <1>1, <1>8, <1>9, <1>11, <2>2
    <3> QED BY <1>1, <3>1, <3>2, <3>3 DEF PlaceInv, Place
  <2> QED BY <2>1, <2>2
<1>16. PixInv'
  BY <1>0, <1>1, <1>8, <1>9 DEF PixInv
<1>17. OwnerInv'
  <2>1. \A u \in Threads, q \in Procs, m \in Locks :
          Own(u, q, m)' <=> Own(u, q, m) /\ ~ (u = t /\ q = p /\ m \in mine \ wait)
    <3> SUFFICES ASSUME NEW u \in Threads, NEW q \in Procs, NEW m \in Locks
                 PROVE  Own(u, q, m)' <=> Own(u, q, m) /\ ~ (u = t /\ q = p /\ m \in mine \ wait)
      OBVIOUS
    <3>1. CASE u # t
      BY <1>9, <1>13, <3>1 DEF Own
    <3>2. CASE u = t
      <4>1. Own(t, q, m) <=> m \in have[t][q]
        BY <1>3 DEF Own
      <4>2. Own(t, q, m)' <=> m \in have'[t][q] \/ (q = p /\ m \in wait)
        BY <1>9 DEF Own
      <4> QED BY <1>13, <1>u, <1>w, <3>2, <4>1, <4>2
    <3> QED BY <3>1, <3>2
  <2>2. \A u \in Threads, m \in mine : Own(u, p, m) => u = t
    BY <1>u DEF OwnerInv, Own
  <2> SUFFICES ASSUME NEW q \in Procs, NEW m \in Locks
               PROVE  /\ m \in flags'[q] <=> \E u \in Threads : Own(u, q, m)'
                      /\ \A u, v \in Threads : Own(u, q, m)' /\ Own(v, q, m)' => u = v
                      /\ \A u \in Threads : proc'[u] = q /\ m \in trnsfr'[u] => m \notin have'[u][q]
    BY DEF OwnerInv
  <2>3. \A u \in Threads : proc'[u] = q /\ m \in trnsfr'[u] => m \notin have'[u][q]
    <3>1. \A u \in Threads : u # t /\ proc'[u] = q /\ m \in trnsfr'[u] => m \notin have'[u][q]
      BY <1>9, <1>13 DEF OwnerInv
    <3>2. proc'[t] = q /\ m \in trnsfr'[t] => m \notin have'[t][q]
      BY <1>9, <1>13, <1>w
    <3> QED BY <3>1, <3>2
  <2>4. CASE q = p /\ m \in mine \ wait
    BY <1>12, <2>1, <2>2, <2>3, <2>4
  <2>5. CASE ~ (q = p /\ m \in mine \ wait)
    <3>1. \A u \in Threads : Own(u, q, m)' <=> Own(u, q, m)
      BY <2>1, <2>5
    <3>2. m \in flags'[q] <=> m \in flags[q]
      BY <1>12, <2>5
    <3> QED BY <2>3, <3>1, <3>2 DEF OwnerInv
  <2> QED BY <2>4, <2>5
<1>18. QueueInv'
  <2>1. \A q \in Procs, m \in Locks : Range(queue[q][m]) \subseteq Threads \ {t}
    BY <1>3, RangeTypes
  <2> QED BY <1>1, <1>9, <1>11, <2>1 DEF QueueInv
<1>19. FlagInv'
  <2>1. \A q \in Procs, m \in Locks : queue[q][m] # <<>> => m \in flags'[q]
    BY <1>12, <1>w DEF FlagInv
  <2> QED BY <1>1, <1>12, <2>1 DEF FlagInv
<1>20. TransferInv'
  <2>1. ASSUME NEW u \in Threads, NEW m \in trnsfr'[u] PROVE queue'[proc'[u]][m] # <<>>
    <3>1. CASE u # t
      BY <1>1, <1>9, <2>1, <3>1 DEF TransferInv
    <3>2. CASE u = t
      <4>1. m \in wait /\ proc'[u] = p /\ m \in mine /\ m \in Locks /\ Waiter(m) \in flags[p]
        BY <1>9, <1>w, <2>1, <3>2
      <4>2. \A v \in Threads : pix[p] = v => m \notin unset[v]
        BY <1>14, <4>1 DEF PixInv
      <4> QED BY <1>1, <4>1, <4>2 DEF FlagInv
    <3> QED BY <3>1, <3>2
  <2>2. ASSUME NEW u \in Threads, NEW m \in unset'[u]
        PROVE  /\ u # t /\ m \in unset[u] /\ proc'[u] = proc[u] /\ trnsfr'[u] = trnsfr[u]
               /\ proc[u] \in Procs /\ m \in Locks
    <3>1. u # t /\ m \in unset[u]
      BY <1>1, <1>3, <2>2
    <3> QED BY <1>9, <3>1 DEF TypeOK
  <2>3. ASSUME NEW u \in Threads, NEW m \in unset'[u]
        PROVE  /\ queue'[proc'[u]][m] = <<>> /\ m \in flags'[proc'[u]]
               /\ \A k \in trnsfr'[u] : m < k
               /\ wtr'[u] # NoThread => \A k \in need'[wtr'[u]] : m < k
    <3>1. /\ queue[proc[u]][m] = <<>> /\ m \in flags[proc[u]] /\ \A k \in trnsfr[u] : m < k
          /\ wtr[u] # NoThread => \A k \in need[wtr[u]] : m < k
      BY <2>2, <2>3 DEF TransferInv
    <3>2. m \in flags'[proc[u]]
      BY <1>12, <1>14, <2>2, <2>3, <3>1
    <3> QED BY <1>1, <2>2, <2>3, <3>1, <3>2
  <2>4. ASSUME NEW u \in Threads, NEW m \in unset'[u], NEW x \in Threads,
               m \in have'[x][proc'[u]]
        PROVE  /\ Asleep(x)' /\ proc'[x] = proc'[u] /\ uaflgs'[x] = 1
               /\ need'[x] # {} \/ x \in Range(wakeup'[u])
    <3>1. m \in have[x][proc[u]]
      BY <1>13, <2>2, <2>4
    <3>2. /\ Asleep(x) /\ proc[x] = proc[u] /\ uaflgs[x] = 1
          /\ need[x] # {} \/ x \in Range(wakeup[u])
      BY <2>2, <2>4, <3>1 DEF TransferInv
    <3> QED BY <1>1, <1>9, <1>11, <2>2, <2>4, <3>2
  <2> QED BY <2>1, <2>3, <2>4 DEF TransferInv
<1>21. WakeInv'
  <2>1. \A u \in Threads : Pending(u) \subseteq Threads
    BY RangeTypes
  <2> QED BY <1>1, <1>11, <2>1 DEF WakeInv
<1>22. QueuedInv'
  BY <1>1, <1>9, <1>11 DEF QueuedInv
<1>23. ToldInv'
  BY <1>1, <1>11 DEF ToldInv
<1>24. WokenInv'
  <2>1. \A u \in Threads : (pc'[u] = "wait" => pc[u] = "wait") /\ (pc[u] = "set" => pc'[u] = "set")
    BY <1>0, <1>8
  <2> QED BY <1>1, <2>1 DEF WokenInv
<1>25. OrderInv'
  <2> SUFFICES ASSUME NEW x \in Threads
               PROVE  /\ \A q \in Procs : rel'[x][q] \subseteq have'[x][q]
                      /\ need'[x] # {} => rel'[x] = None
                      /\ \A q \in Procs : \A m \in have'[x][q] \ rel'[x][q] :
                           \A r \in Procs : \A k \in req'[x][r] : Before(m, q, k, r)
                      /\ \A q \in Procs : \A m \in have'[x][q], k \in need'[x] :
                           Before(m, q, k, proc'[x])
                      /\ \A k \in need'[x] : \A q \in Procs : \A m \in req'[x][q] :
                           Before(k, proc'[x], m, q)
    BY DEF OrderInv
  <2>1. CASE x # t
    BY <1>1, <1>6, <1>7, <1>9, <2>1 DEF OrderInv
  <2>2. CASE x = t
    <3>1. \A q \in Procs : rest[q] \subseteq have'[t][q]
      BY <1>0, <1>6, <1>r
    <3>2. \A q \in Procs : have'[t][q] \ rest[q] = have[t][q] \ unlocks[q]
      BY <1>6, <1>r, <1>u
    <3>3. need'[t] = {}
      BY <1>1, <1>4
    <3> QED BY <1>0, <1>7, <2>2, <3>1, <3>2, <3>3
  <2> QED BY <2>1, <2>2
<1> QED
  BY <1>10, <1>15, <1>16, <1>17, <1>18, <1>19, <1>20, <1>21, <1>22, <1>23, <1>24, <1>25

\* One process of an operation: its locks to release, then its locks to take.
LEMMA ProceedStep ==
  ASSUME IInv, NEW t \in Threads, NEW unlocks, NEW locks, Ready(t, unlocks, locks),
         Proceed(t, unlocks, locks)
  PROVE  IInv'
BY AcquireStep, ReleaseStep

\* Every operation starts, and goes on, with a thread that is ready for it.
LEMMA ContinueReady ==
  ASSUME IInv, NEW t \in Threads, Continue(t)
  PROVE  Ready(t, rel[t], req[t]) /\ Proceed(t, rel[t], req[t])
BY DEF Continue, Idle, At, Ready, IInv, OrderInv, TypeOK

\* erts_smp_proc_unlock() releases locks that its caller has.
LEMMA UnlockReady ==
  ASSUME IInv, NEW t \in Threads, NEW p \in Procs, NEW locks \in SUBSET Locks,
         Unlock(t, p, locks)
  PROVE  LET unlocks == [None EXCEPT ![p] = locks]
         IN  Ready(t, unlocks, None) /\ Proceed(t, unlocks, None)
<1> DEFINE unlocks == [None EXCEPT ![p] = locks]
<1>1. /\ pc[t] = "call" /\ rel[t] = None /\ locks # {} /\ locks \subseteq have[t][p]
      /\ Proceed(t, unlocks, None)
  BY DEF Unlock, Idle, At
<1>2. None \in [Procs -> SUBSET Locks] /\ \A q \in Procs : None[q] = {}
  BY DEF None
<1>3. /\ unlocks \in [Procs -> SUBSET Locks] /\ unlocks[p] = locks
      /\ \A q \in Procs : q # p => unlocks[q] = {}
  BY <1>2
<1> HIDE DEF unlocks
<1>4. unlocks # None
  BY <1>1, <1>2, <1>3
<1>5. \A q \in Procs : unlocks[q] \subseteq have[t][q]
  BY <1>1, <1>3
<1>6. Ready(t, unlocks, None)
  BY <1>1, <1>2, <1>3, <1>4, <1>5 DEF Ready
<1> QED
  BY <1>1, <1>6 DEF unlocks

\* erts_smp_proc_lock() takes locks that come after all its caller has.
LEMMA LockReady ==
  ASSUME IInv, NEW t \in Threads, NEW p \in Procs, NEW locks \in SUBSET Locks,
         Lock(t, p, locks)
  PROVE  LET needs == [None EXCEPT ![p] = locks]
         IN  Ready(t, None, needs) /\ Proceed(t, None, needs)
<1> DEFINE needs == [None EXCEPT ![p] = locks]
<1>1. /\ pc[t] = "call" /\ rel[t] = None /\ locks # {}
      /\ \A q \in Procs : \A m \in have[t][q] : \A l \in locks : Before(m, q, l, p)
      /\ Proceed(t, None, needs)
  BY DEF Lock, Idle, At
<1>2. None \in [Procs -> SUBSET Locks] /\ \A q \in Procs : None[q] = {}
  BY DEF None
<1>3. /\ needs \in [Procs -> SUBSET Locks] /\ needs[p] = locks
      /\ \A q \in Procs : q # p => needs[q] = {}
  BY <1>2
<1> HIDE DEF needs
<1>4. needs # None
  BY <1>1, <1>2, <1>3
<1>5. Ready(t, None, needs)
  BY <1>1, <1>2, <1>3, <1>4 DEF Ready
<1> QED
  BY <1>1, <1>5 DEF needs

\* proc_safelock() takes locks that come after all it keeps.
LEMMA SafeLockReady ==
  ASSUME IInv, NEW t \in Threads, NEW p1 \in Procs, NEW p2 \in Procs,
         NEW locks1 \in SUBSET Locks, NEW locks2 \in SUBSET Locks,
         SafeLock(t, p1, locks1, p2, locks2)
  PROVE  \E unlocks, locks : Ready(t, unlocks, locks) /\ Proceed(t, unlocks, locks)
<1> DEFINE need1 == locks1 \ have[t][p1]
           need2 == locks2 \ have[t][p2]
           mask == unlock_mask(need1, need2)
           unlock1 == have[t][p1] \cap mask
           unlock2 == have[t][p2] \cap mask
           unlocks == [None EXCEPT ![p1] = unlock1, ![p2] = unlock2]
           locks == [None EXCEPT ![p1] = need1 \cup unlock1, ![p2] = need2 \cup unlock2]
<1>1. /\ pc[t] = "call" /\ rel[t] = None /\ p1 < p2
      /\ \A q \in Procs \ {p1, p2} : have[t][q] = {}
      /\ have[t][p1] \subseteq locks1 /\ have[t][p2] \subseteq locks2
      /\ <<locks1, locks2>> # <<have[t][p1], have[t][p2]>>
      /\ Proceed(t, unlocks, locks)
  BY DEF SafeLock, Idle, At
<1>2. /\ have[t][p1] \in SUBSET Locks /\ have[t][p2] \in SUBSET Locks /\ need1 \in SUBSET Locks
      /\ need2 \in SUBSET Locks /\ need1 \cup need2 # {} /\ p1 # p2
  <2>1. have[t][p1] \in SUBSET Locks /\ have[t][p2] \in SUBSET Locks
    BY DEF IInv, TypeOK
  <2>2. ASSUME need1 = {}, need2 = {} PROVE FALSE
    <3>1. locks1 = have[t][p1]
      BY <1>1, <2>2
    <3>2. locks2 = have[t][p2]
      BY <1>1, <2>2
    <3> QED BY <1>1, <3>1, <3>2
  <2> QED BY <1>1, <2>1, <2>2, ProcAssumption
<1>3. /\ need1 \cap have[t][p1] = {} /\ need2 \cap have[t][p2] = {}
  OBVIOUS
<1>4. /\ \A m \in have[t][p1] \ mask :
           /\ \A l \in need1 \cup unlock1 : Before(m, p1, l, p1)
           /\ \A l \in need2 \cup unlock2 : Before(m, p1, l, p2)
      /\ \A m \in have[t][p2] \ mask :
           /\ \A l \in need1 \cup unlock1 : Before(m, p2, l, p1)
           /\ \A l \in need2 \cup unlock2 : Before(m, p2, l, p2)
  <2>1. p1 < p2
    BY <1>1
  <2> DEFINE have1 == have[t][p1]
             have2 == have[t][p2]
  <2>2. /\ have1 \in SUBSET Locks /\ have2 \in SUBSET Locks /\ need1 \in SUBSET Locks
        /\ need2 \in SUBSET Locks /\ need1 \cup need2 # {}
        /\ need1 \cap have1 = {} /\ need2 \cap have2 = {}
    BY <1>2, <1>3
  <2> HIDE DEF need1, need2, have1, have2
  <2>3. SafeLockArgs(have1, have2, need1, need2, p1, p2)
    BY <2>1, <2>2 DEF SafeLockArgs
  <2>4. SafeLockKeeps(have1, have2, need1, need2, p1, p2)
    BY <2>3, SafeLockOrder
  <2> QED BY <2>4 DEF SafeLockKeeps, have1, have2
<1> HIDE DEF mask, need1, need2
<1>5. None \in [Procs -> SUBSET Locks] /\ \A q \in Procs : None[q] = {}
  BY DEF None
<1>6. /\ unlocks \in [Procs -> SUBSET Locks] /\ unlocks[p1] = unlock1 /\ unlocks[p2] = unlock2
      /\ \A q \in Procs \ {p1, p2} : unlocks[q] = {}
  BY <1>2, <1>5
<1>7. /\ locks \in [Procs -> SUBSET Locks]
      /\ locks[p1] = need1 \cup unlock1 /\ locks[p2] = need2 \cup unlock2
      /\ \A q \in Procs \ {p1, p2} : locks[q] = {}
  BY <1>2, <1>5
<1> HIDE DEF unlocks, locks
<1>8. locks # None
  BY <1>2, <1>5, <1>7
<1>9. \A q \in Procs : unlocks[q] \subseteq have[t][q]
  BY <1>6
<1>10. ASSUME NEW q \in Procs, NEW m \in have[t][q] \ unlocks[q], NEW p \in Procs, NEW l \in locks[p]
       PROVE  Before(m, q, l, p)
  <2>1. q \in {p1, p2} /\ m \in have[t][q] \ mask
    BY <1>1, <1>6, <1>10
  <2>2. p \in {p1, p2}
    BY <1>7, <1>10
  <2> QED BY <1>4, <1>7, <1>10, <2>1, <2>2
<1>11. Ready(t, unlocks, locks)
  BY <1>1, <1>6, <1>7, <1>8, <1>9, <1>10 DEF Ready
<1> QED
  BY <1>1, <1>11

\* The operations a caller starts.
LEMMA CallerReady ==
  ASSUME IInv, NEW t \in Threads, CallerStep(t)
  PROVE  \/ \E unlocks, locks : Ready(t, unlocks, locks) /\ Proceed(t, unlocks, locks)
         \/ \E p \in Procs : \E locks \in SUBSET Locks : TryLock(t, p, locks)
<1>1. \A p \in Procs : Uses[t][p] \subseteq Locks
  BY UsesAssumption
<1>2. CASE \E p \in Procs : \E locks \in SUBSET Uses[t][p] :
             Unlock(t, p, locks) \/ Lock(t, p, locks) \/ TryLock(t, p, locks)
  <2>1. PICK p \in Procs : \E locks \in SUBSET Uses[t][p] :
               Unlock(t, p, locks) \/ Lock(t, p, locks) \/ TryLock(t, p, locks)
    BY <1>2
  <2>2. PICK locks \in SUBSET Locks :
               Unlock(t, p, locks) \/ Lock(t, p, locks) \/ TryLock(t, p, locks)
    BY <1>1, <2>1
  <2>3. CASE Unlock(t, p, locks)
    BY <2>3, UnlockReady
  <2>4. CASE Lock(t, p, locks)
    BY <2>4, LockReady
  <2> QED BY <2>2, <2>3, <2>4
<1>3. CASE \E p1, p2 \in Procs : p1 < p2 /\
             \E locks1 \in SUBSET Uses[t][p1], locks2 \in SUBSET Uses[t][p2] :
               SafeLock(t, p1, locks1, p2, locks2)
  <2>1. PICK p1 \in Procs, p2 \in Procs :
             \E locks1 \in SUBSET Uses[t][p1], locks2 \in SUBSET Uses[t][p2] :
               SafeLock(t, p1, locks1, p2, locks2)
    BY <1>3
  <2>2. PICK locks1 \in SUBSET Locks, locks2 \in SUBSET Locks :
               SafeLock(t, p1, locks1, p2, locks2)
    BY <1>1, <2>1
  <2> QED BY <2>2, SafeLockReady
<1> QED
  BY <1>2, <1>3 DEF CallerStep

\* The invariant is inductive.
LEMMA NextInv == IInv /\ [Next]_vars => IInv'
<1> SUFFICES ASSUME IInv, [Next]_vars PROVE IInv'
  OBVIOUS
<1>1. CASE UNCHANGED vars
  <2>1. UNCHANGED <<flags, queue, pix, have, rel, req, pc, proc, need, seen, uaflgs, event,
                    trnsfr, unset, wtr, wakeup>>
    BY <1>1 DEF vars, lock, calls, tse, transfer
  <2>2. TypeOK' /\ PlaceInv' /\ PixInv' /\ OwnerInv'
    BY <2>1 DEF IInv, TypeOK, PlaceInv, Place, Serving, Asleep, PixInv, OwnerInv, Own
  <2>3. QueueInv' /\ FlagInv' /\ TransferInv'
    BY <2>1 DEF IInv, QueueInv, FlagInv, TransferInv, Asleep
  <2>4. WakeInv' /\ OrderInv'
    BY <2>1 DEF IInv, WakeInv, Pending, Asleep, OrderInv
  <2>5. QueuedInv' /\ ToldInv' /\ WokenInv'
    BY <2>1 DEF IInv, QueuedInv, ToldInv, WokenInv, Pending, Asleep
  <2> QED BY <2>2, <2>3, <2>4, <2>5 DEF IInv
<1>2. ASSUME NEW t \in Threads, Step(t) PROVE IInv'
  <2>1. CASE Continue(t)
    BY <2>1, ContinueReady, ProceedStep
  <2>2. CASE Grab(t)
    BY <2>2, GrabStep
  <2>3. CASE WaitPix(t)
    BY <2>3, WaitPixStep
  <2>4. CASE AquireQueued(t)
    BY <2>4, AquireQueuedStep
  <2>5. CASE AquireBusy(t)
    BY <2>5, AquireBusyStep
  <2>6. CASE AquireGot(t)
    BY <2>6, AquireGotStep
  <2>7. CASE TseReset(t)
    BY <2>7, TseResetStep
  <2>8. CASE TseCheck(t)
    BY <2>8, TseCheckStep
  <2>9. CASE TseWait(t)
    BY <2>9, TseWaitStep
  <2>10. CASE TransferPix(t)
    BY <2>10, TransferPixStep
  <2>11. CASE Transfer(t)
    BY <2>11, TransferStep
  <2>12. CASE TransferDone(t)
    BY <2>12, TransferDoneStep
  <2>13. CASE WakeTell(t)
    BY <2>13, WakeTellStep
  <2>14. CASE WakeSet(t)
    BY <2>14, WakeSetStep
  <2> QED BY <1>2, <2>1, <2>2, <2>3, <2>4, <2>5, <2>6, <2>7, <2>8, <2>9, <2>10, <2>11, <2>12,
             <2>13, <2>14 DEF Step
<1>3. ASSUME NEW t \in Threads, Reread(t) PROVE IInv'
  BY <1>3, RereadStep
<1>4. ASSUME NEW t \in Threads, CallerStep(t) PROVE IInv'
  BY <1>4, CallerReady, ProceedStep, TryLockStep
<1> QED
  BY <1>1, <1>2, <1>3, <1>4 DEF Next

\* Every reachable state satisfies the invariant, for any threads, processes and locks: the
\* words, the queues and the wakeups of the process locks agree with what the threads believe.
THEOREM Invariance == Spec => []IInv
BY InitInv, NextInv, PTL DEF Spec

-----------------------------------------------------------------------------
(* What the invariant says about the properties.                           *)

\* Type correctness of the lock words, the queues and what every thread keeps.
THEOREM TypeCorrect == Spec => []TypeOK
<1>1. IInv => TypeOK
  BY DEF IInv
<1> QED BY <1>1, Invariance, PTL

\* Mutual exclusion: a lock whose bit is set in erts_proc_lock_t.flags is had, or
\* being handed over, by exactly one thread, and one whose bit is not set by none;
\* for any threads, processes and number of locks.
THEOREM MutualExclusion == Spec => []LockHasOneOwner
<1>1. IInv => LockHasOneOwner
  <2> SUFFICES ASSUME IInv, NEW p \in Procs, NEW l \in Locks
               PROVE  Cardinality(Owners(p, l)) = IF l \in flags[p] THEN 1 ELSE 0
    BY DEF LockHasOneOwner
  <2>1. Owners(p, l) = {t \in Threads : Own(t, p, l)}
    BY DEF Owners, Own
  <2>2. CASE l \in flags[p]
    <3>1. PICK t \in Threads : Own(t, p, l)
      BY <2>2 DEF IInv, OwnerInv
    <3>2. \A u \in Threads : Own(u, p, l) => u = t
      BY <3>1 DEF IInv, OwnerInv
    <3>3. Owners(p, l) = {t}
      BY <2>1, <3>1, <3>2
    <3> QED BY <2>2, <3>3, FS_Singleton
  <2>3. CASE l \notin flags[p]
    <3>1. Owners(p, l) = {}
      BY <2>1, <2>3 DEF IInv, OwnerInv
    <3> QED BY <2>3, <3>1, FS_EmptySet
  <2> QED BY <2>2, <2>3
<1> QED BY <1>1, Invariance, PTL

\* A lock that threads are queued for is locked and its wait bit set, so that
\* erts_smp_proc_unlock__() hands it over; without the pix lock held no wait bit is
\* set for an empty queue.
THEOREM WaitersSeen == Spec => []WaitersAreSeen
<1>1. IInv => WaitersAreSeen
  BY ThreadAssumption DEF IInv, FlagInv, WaitersAreSeen
<1> QED BY <1>1, Invariance, PTL

\* A thread is queued only for a lock that comes, in the lock order, after all it
\* has, also in the middle of proc_safelock() and after locks were handed to it.
THEOREM WaitOrder == Spec => []WaitsAreInOrder
<1>1. IInv => WaitsAreInOrder
  <2> SUFFICES ASSUME IInv, NEW p \in Procs, NEW l \in Locks, NEW i \in DOMAIN queue[p][l],
                      NEW q \in Procs, NEW m \in have[queue[p][l][i]][q]
               PROVE  Before(m, q, l, p)
    BY DEF WaitsAreInOrder
  <2>1. PICK w : w = queue[p][l][i]
    OBVIOUS
  <2>2. w \in Range(queue[p][l]) /\ w \in Threads
    BY <2>1, RangeTypes DEF Range, IInv
  <2>3. proc[w] = p /\ l \in need[w]
    BY <2>2 DEF IInv, QueueInv
  <2> QED BY <2>1, <2>2, <2>3 DEF IInv, OrderInv
<1> QED BY <1>1, Invariance, PTL

\* erts_proc_lock_failed() returns only with all locks it was called for.
THEOREM ReturnsWithAll == Spec => []WokenHasAll
<1>1. IInv => WokenHasAll
  BY DEF IInv, PlaceInv, Place, WokenHasAll, At
<1> QED BY <1>1, Invariance, PTL

\* No lost wakeup: a thread that sleeps in wait_for_locks() is in the queue of the
\* first lock it needs, or being served, or about to be told and woken.
THEOREM NoLostWakeup == Spec => []NobodyIsForgotten
<1>1. IInv => NobodyIsForgotten
  <2> SUFFICES ASSUME IInv, NEW t \in Threads, Asleep(t)
               PROVE  IF need[t] # {}
                      THEN \/ \E i \in DOMAIN queue[proc[t]][Min(need[t])] :
                                queue[proc[t]][Min(need[t])][i] = t
                           \/ \E u \in Threads \ {t} : wtr[u] = t
                      ELSE \/ uaflgs[t] = 0 /\ (event[t] \/ ~ At(t, "wait"))
                           \/ \E u \in Threads : \E i \in DOMAIN wakeup[u] : wakeup[u][i] = t
    BY DEF NobodyIsForgotten
  <2>1. CASE need[t] # {}
    <3>1. CASE \E l \in need[t] : t \in Range(queue[proc[t]][l])
      <4>1. PICK l \in need[t] : t \in Range(queue[proc[t]][l])
        BY <3>1
      <4>2. l \in Locks /\ proc[t] \in Procs /\ need[t] \subseteq Locks
        BY <4>1 DEF IInv, TypeOK
      <4>3. \A m \in need[t] : l <= m
        BY <4>1, <4>2 DEF IInv, QueueInv
      <4>4. Min(need[t]) \in need[t] /\ Min(need[t]) <= l
        BY <4>1, <4>2, MinLock
      <4>5. Min(need[t]) \in Nat /\ l \in Nat /\ l <= Min(need[t])
        BY <4>2, <4>3, <4>4, BitFacts
      <4>6. Min(need[t]) = l
        BY <4>4, <4>5
      <4> QED BY <2>1, <4>1, <4>6 DEF Range
    <3>2. CASE \E u \in Threads \ {t} : wtr[u] = t
      BY <2>1, <3>2
    <3> QED BY <2>1, <3>1, <3>2 DEF IInv, QueuedInv
  <2>2. CASE need[t] = {} /\ uaflgs[t] = 1
    <3>1. PICK u \in Threads : t \in Pending(u)
      BY <2>2 DEF IInv, ToldInv
    <3>2. t \in Range(wakeup[u])
      BY <3>1, RangeTypes DEF IInv
    <3> QED BY <2>2, <3>2 DEF Range
  <2>3. CASE need[t] = {} /\ uaflgs[t] # 1
    <3>1. uaflgs[t] = 0
      BY <2>3 DEF IInv, TypeOK
    <3>2. CASE event[t] = FALSE /\ pc[t] = "wait"
      <4>1. PICK u \in Threads : pc[u] = "set" /\ Head(wakeup[u]) = t
        BY <3>1, <3>2 DEF IInv, WokenInv
      <4>2. wakeup[u] # <<>> /\ wakeup[u] \in Seq(Threads)
        BY <4>1 DEF IInv, PlaceInv, Place, TypeOK
      <4>3. t \in Range(wakeup[u])
        BY <4>1, <4>2, TailFacts
      <4> QED BY <2>3, <4>3 DEF Range
    <3>3. CASE event[t] = TRUE \/ pc[t] # "wait"
      BY <2>3, <3>1, <3>3 DEF At
    <3> QED BY <3>2, <3>3 DEF IInv, TypeOK
  <2> QED BY <2>1, <2>2, <2>3
<1> QED BY <1>1, Invariance, PTL

\* A step hands a lock that threads are queued for only to the first of them.
LEMMA HandOver ==
  ASSUME IInv, [Next]_vars
  PROVE  \A p \in Procs, l \in Locks, t \in Threads :
           queue[p][l] # <<>> /\ l \in have'[t][p] \ have[t][p] => t = Head(queue[p][l])
<1> DEFINE Served == \A p \in Procs, l \in Locks, t \in Threads :
             queue[p][l] # <<>> /\ l \in have'[t][p] \ have[t][p] => t = Head(queue[p][l])
<1> SUFFICES Served
  OBVIOUS
<1>1. \A p \in Procs, l \in Locks : queue[p][l] # <<>> => l \in flags[p]
  BY DEF IInv, FlagInv
<1>2. have \in [Threads -> [Procs -> SUBSET Locks]]
  BY DEF IInv, TypeOK
\* Locks that are taken without the pix lock were free, so nobody is queued.
<1>3. ASSUME NEW t \in Threads, NEW p \in Procs, NEW locks \in SUBSET Locks,
             locks \cap flags[p] = {},
             have' = [have EXCEPT ![t] = [have[t] EXCEPT ![p] = have[t][p] \cup locks]]
      PROVE  Served
  <2>1. have[t][p] \cup locks \in SUBSET Locks
    BY <1>2
  <2>2. /\ have'[t][p] = have[t][p] \cup locks
        /\ \A x \in Threads, q \in Procs : x # t \/ q # p => have'[x][q] = have[x][q]
    BY <1>2, <1>3, <2>1, Update2
  <2> QED BY <1>1, <1>3, <2>2
<1>4. ASSUME UNCHANGED have PROVE Served
  BY <1>4
<1>5. ASSUME NEW t \in Threads, NEW unlocks, NEW locks, Ready(t, unlocks, locks),
             Proceed(t, unlocks, locks)
      PROVE  Served
  <2>1. CASE unlocks # None
    <3>1. PICK p \in Procs : p = Min({q \in Procs : unlocks[q] # {}})
      <4>1. {q \in Procs : unlocks[q] # {}} # {}
        BY <1>5, <2>1 DEF None, Ready
      <4> QED BY <4>1, MinProc
    <3>2. have' = [have EXCEPT ![t] = [have[t] EXCEPT ![p] = have[t][p] \ unlocks[p]]]
      BY <1>5, <2>1, <3>1 DEF Proceed, Release
    <3>3. have[t][p] \ unlocks[p] \in SUBSET Locks
      BY <1>2
    <3>4. /\ have'[t][p] = have[t][p] \ unlocks[p]
          /\ \A x \in Threads, q \in Procs : x # t \/ q # p => have'[x][q] = have[x][q]
      BY <1>2, <3>2, <3>3, Update2
    <3> QED BY <3>4
  <2>2. CASE unlocks = None
    <3>1. locks \in [Procs -> SUBSET Locks] /\ locks # None
      BY <1>5, <2>2 DEF Ready
    <3>2. PICK p \in Procs : p = FirstNeeded(locks)
      BY <3>1, NeededFirst
    <3>3. PICK mask \in SUBSET Locks : mask = lock_mask(p, locks)
      BY <3>1, <3>2, NeededFirst
    <3>4. Acquire(t, p, mask)
      BY <1>5, <2>2, <3>2, <3>3 DEF Proceed
    <3>5. CASE flags[p] \cap mask = {}
      <4>1. have' = [have EXCEPT ![t] = [have[t] EXCEPT ![p] = have[t][p] \cup mask]]
        BY <3>4, <3>5 DEF Acquire, Granted
      <4>2. mask \cap flags[p] = {}
        BY <3>5
      <4> QED BY <1>3, <4>1, <4>2
    <3>6. CASE flags[p] \cap mask # {}
      BY <1>4, <3>4, <3>6 DEF Acquire
    <3> QED BY <3>5, <3>6
  <2> QED BY <2>1, <2>2
<1>6. ASSUME NEW t \in Threads, Grab(t) PROVE Served
  <2>1. PICK p \in Procs : p = proc[t]
    BY DEF IInv, TypeOK
  <2>2. PICK grab \in SUBSET Locks : grab = can_grab(t) /\ grab \subseteq need[t]
    BY DEF can_grab, in_order_locks, IInv, TypeOK
  <2>3. /\ flags[p] \cap need[t] = seen[t]
        /\ have' = [have EXCEPT ![t] = [have[t] EXCEPT ![p] = have[t][p] \cup grab]]
    BY <1>6, <2>1, <2>2 DEF Grab, Granted
  <2>4. \A l \in grab : l \in Nat /\ \A busy \in seen[t] \cap need[t] : l < busy
    BY <2>2, BitFacts DEF can_grab, in_order_locks
  <2>5. grab \cap flags[p] = {}
    BY <2>2, <2>3, <2>4
  <2> QED BY <1>3, <2>3, <2>5
<1>7. ASSUME NEW t \in Threads, AquireGot(t) PROVE Served
  <2>1. PICK w \in Threads : w = wtr[t]
    BY <1>7, AquireFacts DEF AquireGot, At
  <2>2. PICK p \in Procs : p = proc[t]
    BY DEF IInv, TypeOK
  <2>3. PICK l \in Locks : l = Min(need[w])
    BY <1>7, <2>1, AquireFacts DEF AquireGot, At
  <2>4. /\ l \notin flags[p]
        /\ have' = [have EXCEPT ![w] = [have[w] EXCEPT ![p] = have[w][p] \cup {l}]]
    BY <1>7, <2>1, <2>2, <2>3 DEF AquireGot
  <2>5. {l} \in SUBSET Locks /\ {l} \cap flags[p] = {}
    BY <2>4
  <2> QED BY <1>3, <2>4, <2>5
<1>8. ASSUME NEW t \in Threads, Transfer(t) PROVE Served
  <2>1. PICK p \in Procs : p = proc[t]
    BY DEF IInv, TypeOK
  <2>2. PICK l \in Locks : l = Min(trnsfr[t]) /\ l \in trnsfr[t]
    BY <1>8, MinLock DEF Transfer, IInv, TypeOK
  <2>3. queue[p][l] \in Seq(Threads) /\ queue[p][l] # <<>>
    BY <2>1, <2>2 DEF IInv, TransferInv, TypeOK
  <2>4. PICK w \in Threads : w = Head(queue[p][l])
    BY <2>3, TailFacts
  <2>5. have' = [have EXCEPT ![w] = [have[w] EXCEPT ![p] = have[w][p] \cup {l}]]
    BY <1>8, <2>1, <2>2, <2>4 DEF Transfer
  <2>6. have[w][p] \cup {l} \in SUBSET Locks
    BY <1>2
  <2>7. /\ have'[w][p] = have[w][p] \cup {l}
        /\ \A x \in Threads, q \in Procs : x # w \/ q # p => have'[x][q] = have[x][q]
    BY <1>2, <2>5, <2>6, Update2
  <2>8. ASSUME NEW q \in Procs, NEW m \in Locks, NEW x \in Threads, m \in have'[x][q] \ have[x][q]
        PROVE  x = w /\ q = p /\ m = l
    BY <2>7, <2>8
  <2> QED BY <2>4, <2>8
<1>9. ASSUME NEW t \in Threads, NEW p \in Procs, NEW locks \in SUBSET Locks, TryLock(t, p, locks)
      PROVE  Served
  <2>1. /\ locks \cap flags[p] = {}
        /\ have' = [have EXCEPT ![t] = [have[t] EXCEPT ![p] = have[t][p] \cup locks]]
    BY <1>9 DEF TryLock, Granted
  <2> QED BY <1>3, <2>1
<1>10. ASSUME NEW t \in Threads, CallerStep(t) PROVE Served
  BY <1>5, <1>9, <1>10, CallerReady
<1>11. ASSUME NEW t \in Threads, Step(t) \/ Reread(t) PROVE Served
  <2>1. CASE Continue(t)
    BY <1>5, <2>1, ContinueReady
  <2>2. CASE WaitPix(t) \/ AquireQueued(t) \/ AquireBusy(t) \/ TseReset(t) \/ TseCheck(t)
             \/ TseWait(t)
    <3>1. UNCHANGED have
      BY <2>2 DEF WaitPix, AquireQueued, AquireBusy, TseReset, TseCheck, TseWait
    <3> QED BY <1>4, <3>1
  <2>3. CASE TransferPix(t) \/ TransferDone(t) \/ WakeTell(t) \/ WakeSet(t) \/ Reread(t)
    <3>1. UNCHANGED have
      BY <2>3 DEF TransferPix, TransferDone, WakeTell, WakeSet, Reread
    <3> QED BY <1>4, <3>1
  <2> QED BY <1>6, <1>7, <1>8, <1>11, <2>1, <2>2, <2>3 DEF Step
<1>12. CASE UNCHANGED vars
  BY <1>4, <1>12 DEF vars
<1> HIDE DEF Served
<1> QED
  BY <1>10, <1>11, <1>12 DEF Next

\* Nobody overtakes a queue: neither a trylock, nor a thread that spins in
\* erts_proc_lock_failed(), nor one that is being served gets a lock that others
\* are queued for.
THEOREM ServedInOrder == Spec => QueueIsServedInOrder
<1>1. IInv /\ [Next]_vars =>
        [\A p \in Procs, l \in Locks, t \in Threads :
           queue[p][l] # <<>> /\ l \in have'[t][p] \ have[t][p] => t = Head(queue[p][l])]_vars
  BY HandOver
<1> QED BY <1>1, Invariance, PTL DEF Spec, QueueIsServedInOrder
=============================================================================

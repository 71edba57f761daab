--------------------------- MODULE ThrQueueProofs ---------------------------
(***************************************************************************)
(* Proofs about the thread queue, for any number of producers, elements    *)
(* and items: nobody follows a pointer to a freed element, no element is   *)
(* lost, and the queue implements FifoQueue.                               *)
(*                                                                         *)
(* The invariant says of every element in which list it is (where) and at  *)
(* which position (at).  Positions in the queue are never given again.     *)
(***************************************************************************)
EXTENDS ThrQueue, FiniteSetTheorems, SequenceTheorems, WellFoundedInduction, TLAPS

Lists == {"none", "queue", "deq", "fin", "arq"}

\* A thread that holds an element that is not linked,
HoldPlaces == {"inc", "reread_ix", "dec", "init", "link"}

\* has linked it,
LinkedPlaces == {"check", "move", "reread"}

\* may have a pointer to another one,
PointerPlaces == {"link"} \cup LinkedPlaces

\* is counted.
CountPlaces == {"reread_ix", "dec", "init", "linked"} \cup PointerPlaces

CleanPlaces == {"clean", "move_unref", "switch", "head"}
MarkerPlaces == PointerPlaces \cup {"marker", "linked", "inspected"}

IxType ==
  /\ um_refc \in [0 .. 1 -> Int] /\ um_refc_ix \in 0 .. 1
  /\ nxt \in [um_refc_ix : 0 .. 1, unref_end : Element, reached : BOOLEAN]
  /\ nxt.um_refc_ix = 1 - um_refc_ix
  /\ um_ix \in [Unmanaged -> 0 .. 1] /\ grace \subseteq Managed

ElementType ==
  /\ next \in [Element -> Pointer] /\ DOMAIN data = Element /\ live \subseteq El
  /\ last \in Element /\ head \in Element /\ first \in Element /\ unref_end \in Element
  /\ used_marker \in BOOLEAN

ListType ==
  /\ deq_fini \in [automatic : BOOLEAN, start : Pointer, end : Pointer]
  /\ fin_deq \in [start : Pointer, end : Pointer]
  /\ arq_fin_deq \in [start : Pointer, end : Pointer]
  /\ deq_fini.automatic => deq_fini.start = Null

ThreadType ==
  /\ DOMAIN pc = Threads
  /\ this \in [Threads -> Pointer] /\ ilast \in [Threads -> Pointer]
  /\ sent \in [Producers -> Nat] /\ got \in Nat

CallType ==
  call \in [ops : Nat, max : Nat, notify : BOOLEAN, ret : {"none", "dequeue", "clean"},
            mret : {"none", "inspect_head", "next_unref"}]

NoteType ==
  /\ wakeup \in {"none", "asked", "done"}
  /\ clean_reached_head_count \in 0 .. CleanReachedHead

\* Where the consumer is, and what it does with the marker.
ConsumerInv ==
  /\ pc[Consumer] \in CleanPlaces \cup MarkerPlaces
       \cup {"dequeue", "wait", "misc_prgr", "misc", "job", "reset", "chk_fin_deq",
             "ensure_empty", "inspect"}
  /\ pc[Consumer] \in MarkerPlaces => call.mret \in {"inspect_head", "next_unref"}
  /\ pc[Consumer] \in PointerPlaces => this[Consumer] = Marker
  /\ pc[Consumer] \notin HoldPlaces \ {"link"}

\* Where producers are, and what they have allocated.
ProducerInv ==
  \A t \in Producers :
    /\ pc[t] \in {"idle", "notify", "linked"} \cup HoldPlaces \cup LinkedPlaces
    /\ pc[t] \in HoldPlaces \cup LinkedPlaces => this[t] \in El
    /\ pc[t] \in HoldPlaces => data[this[t]] = <<t, sent[t] + 1>>
    /\ t \in Managed => pc[t] \in {"idle", "notify"} \cup PointerPlaces
    /\ pc[t] = "linked" => ilast[t] \in Element

\* No two threads work on the same element, nor on the last one.
OwnInv ==
  /\ \A t, u \in Threads :
       /\ pc[t] \in HoldPlaces \cup LinkedPlaces /\ pc[u] \in HoldPlaces \cup LinkedPlaces
       /\ this[t] = this[u]
       => t = u
  /\ \A t \in Threads : pc[t] \in HoldPlaces \cup LinkedPlaces => this[t] # last

\* A list: its elements have positions from start to end.
IsList(link, where, at, name, start, end) ==
  /\ start = Null <=> end = Null
  /\ start # Null => where[start] = name /\ where[end] = name
  /\ \A e \in Element : where[e] = name =>
       /\ start # Null /\ at[start] <= at[e] /\ at[e] <= at[end]
       /\ e # end => /\ link[e] \in Element /\ where[link[e]] = name
                     /\ at[link[e]] = at[e] + 1

\* The queue goes from first to the only element without a next one.
QueueInv(where, at) ==
  \E end \in Element : next[end] = Null /\ IsList(next, where, at, "queue", first, end)

\* The lists of elements to be freed; the first of them has not been cut off from
\* the queue yet.
ListInv(where, at) ==
  /\ IsList(next, where, at, "deq", deq_fini.start, deq_fini.end)
  /\ IsList(next, where, at, "fin", fin_deq.start, fin_deq.end)
  /\ IsList(next, where, at, "arq", arq_fin_deq.start, arq_fin_deq.end)
  /\ fin_deq.end # Null => next[fin_deq.end] = Null
  /\ arq_fin_deq.end # Null => next[arq_fin_deq.end] = Null
  /\ deq_fini.end # Null => next[deq_fini.end] \in {first, Marker}
  /\ deq_fini.end # Null /\ next[deq_fini.end] = Marker /\ where[Marker] # "queue" =>
       next[Marker] \in {Null, first}

\* Nothing has two places, and every element that is allocated has one, or is held.
PlaceInv(where, at) ==
  /\ \A e, f \in Element : where[e] = where[f] /\ where[e] # "none" /\ at[e] = at[f] => e = f
  /\ where[Marker] \in {"queue", "none"}
  /\ used_marker <=> where[Marker] = "queue" \/ pc[Consumer] = "link"
  /\ pc[Consumer] = "marker" => ~used_marker
  /\ pc[Consumer] = "link" => where[Marker] = "none" /\ next[Marker] = Null
  /\ \A t \in Producers : pc[t] \in HoldPlaces => where[this[t]] = "none" /\ this[t] \in live
  /\ \A e \in El : where[e] = "none" => next[e] = Null
  /\ \A e \in El : where[e] # "none" => e \in live
  /\ \A e \in live : where[e] # "none" \/ \E t \in Producers : pc[t] \in HoldPlaces /\ this[t] = e

\* The pointers into the queue are in order.
OrderInv(where, at) ==
  /\ where[last] = "queue" /\ where[head] = "queue" /\ where[unref_end] = "queue"
  /\ where[nxt.unref_end] = "queue"
  /\ at[unref_end] <= at[nxt.unref_end] /\ at[nxt.unref_end] <= at[last]
  /\ pc[Consumer] \in MarkerPlaces /\ call.mret = "next_unref" => unref_end = nxt.unref_end
  /\ pc[Consumer] = "move_unref" \/ (pc[Consumer] = "linked" /\ call.mret = "next_unref") =>
       /\ ilast[Consumer] \in Element /\ where[ilast[Consumer]] = "queue"
       /\ at[nxt.unref_end] <= at[ilast[Consumer]] /\ at[ilast[Consumer]] <= at[last]

\* The elements a thread may still follow or compare.
Pointers(t) == CASE pc[t] = "link" -> {ilast[t]}
                 [] pc[t] \in {"check", "move"} -> {ilast[t], this[t]}
                 [] pc[t] = "reread" -> {this[t]}
                 [] OTHER -> {}

\* next.unref_end waits for the thread.
Waited(t) == IF t \in Managed THEN t \in grace /\ ~nxt.reached
             ELSE t \in Unmanaged /\ um_ix[t] = IF pc[Consumer] = "switch" THEN um_refc_ix
                                                ELSE nxt.um_refc_ix

\* What a thread has a pointer to is not reclaimed, and will not be while it has it.
PointerInv(where, at) ==
  \A t \in Threads : \A e \in Pointers(t) :
    /\ e \in Element /\ where[e] = "queue"
    /\ at[unref_end] <= at[e]
    /\ at[nxt.unref_end] <= at[e] \/ Waited(t)

\* A thread moves the last pointer forward only.
MoveInv(at) ==
  \A t \in Threads :
    /\ pc[t] \in {"check", "move"} => ilast[t] # this[t]
    /\ pc[t] = "move" => at[ilast[t]] < at[this[t]]

\* The counters count unmanaged producers.
Counted(i) == {u \in Unmanaged : um_ix[u] = i /\ pc[u] \in CountPlaces}

CountInv == \A i \in 0 .. 1 : um_refc[i] = Cardinality(Counted(i))

\* When the counter is about to be switched nobody uses the new one.
SwitchInv ==
  pc[Consumer] = "switch" \/ (pc[Consumer] \in MarkerPlaces /\ call.mret = "next_unref") =>
    \A u \in Unmanaged : pc[u] \in {"init"} \cup PointerPlaces => um_ix[u] = um_refc_ix

Inv(where, at) ==
  /\ IxType /\ ElementType /\ ListType /\ ThreadType /\ CallType /\ NoteType
  /\ ConsumerInv /\ ProducerInv /\ OwnInv /\ CountInv /\ SwitchInv
  /\ QueueInv(where, at) /\ ListInv(where, at) /\ PlaceInv(where, at)
  /\ OrderInv(where, at) /\ PointerInv(where, at) /\ MoveInv(at)

IInv == \E where \in [Element -> Lists], at \in [Element -> Int] : Inv(where, at)

-----------------------------------------------------------------------------
(* Lemmas about numbers and lists.                                         *)

\* A set of naturals has a least one.
LEMMA MinNat == ASSUME NEW S \in SUBSET Nat, S # {}
                PROVE  \E m \in S : \A n \in S : m <= n
<1>1. IsWellFoundedOn(OpToRel(<,Nat), Nat)
  BY NatLessThanWellFounded
<1>2. PICK m \in S : \A n \in S : ~(<<n, m>> \in OpToRel(<,Nat))
  BY <1>1, WFMin
<1>3. ASSUME NEW n \in S, ~(m <= n) PROVE FALSE
  <2>1. n \in Nat /\ m \in Nat /\ n < m
    BY <1>3
  <2>2. <<n, m>> \in OpToRel(<,Nat)
    BY <2>1, Zenon DEF OpToRel
  <2> QED BY <1>2, <2>2
<1> QED BY <1>3

\* element_alloc() returns an element that is free.
LEMMA MinFree == ASSUME Free # {} PROVE Min(Free) \in Free
<1>1. \E m \in Free : \A n \in Free : m <= n
  BY MinNat, ConstantsAssumption DEF Free
<1> QED BY <1>1 DEF Min

\* Steps that neither start nor stop counting leave the counters right.
LEMMA CountSame ==
  ASSUME CountInv, um_refc' = um_refc,
         \A u \in Unmanaged, i \in 0 .. 1 :
           (um_ix[u] = i /\ pc[u] \in CountPlaces)' <=> (um_ix[u] = i /\ pc[u] \in CountPlaces)
  PROVE  CountInv'
<1>1. ASSUME NEW i \in 0 .. 1 PROVE Counted(i)' = Counted(i)
  BY DEF Counted
<1> QED BY <1>1 DEF CountInv

\* One producer starts to be counted,
LEMMA CountOne ==
  ASSUME CountInv, um_refc \in [0 .. 1 -> Int], NEW p \in Unmanaged, NEW j \in 0 .. 1,
         um_refc' = [um_refc EXCEPT ![j] = @ + 1], p \notin Counted(j),
         \A i \in 0 .. 1 : Counted(i)' = IF i = j THEN Counted(i) \cup {p} ELSE Counted(i)
  PROVE  CountInv'
<1>1. ASSUME NEW i \in 0 .. 1 PROVE IsFiniteSet(Counted(i)) /\ Cardinality(Counted(i)) \in Nat
  BY FS_Subset, FS_CardinalityType, ConstantsAssumption DEF Counted
<1>2. Cardinality(Counted(j) \cup {p}) = Cardinality(Counted(j)) + 1
  BY <1>1, FS_AddElement
<1> QED BY <1>1, <1>2 DEF CountInv

\* or stops.
LEMMA UncountOne ==
  ASSUME CountInv, um_refc \in [0 .. 1 -> Int], NEW p \in Unmanaged, NEW j \in 0 .. 1,
         um_refc' = [um_refc EXCEPT ![j] = @ - 1],
         \A u \in Unmanaged, i \in 0 .. 1 :
           (um_ix[u] = i /\ pc[u] \in CountPlaces)' <=>
             um_ix[u] = i /\ pc[u] \in CountPlaces /\ ~(u = p /\ i = j),
         um_ix[p] = j /\ pc[p] \in CountPlaces
  PROVE  CountInv'
<1>1. ASSUME NEW i \in 0 .. 1
      PROVE  /\ Counted(i)' = IF i = j THEN Counted(i) \ {p} ELSE Counted(i)
             /\ Counted(i) \in SUBSET Unmanaged
  BY DEF Counted
<1>2. ASSUME NEW i \in 0 .. 1 PROVE IsFiniteSet(Counted(i)) /\ Cardinality(Counted(i)) \in Nat
  BY <1>1, FS_Subset, FS_CardinalityType, ConstantsAssumption
<1>3. p \in Counted(j)
  BY DEF Counted
<1>4. Cardinality(Counted(j) \ {p}) = Cardinality(Counted(j)) - 1
  BY <1>2, <1>3, FS_RemoveElement
<1> QED BY <1>1, <1>2, <1>4 DEF CountInv

\* A counter that is zero counts nobody.
LEMMA NobodyCounted ==
  ASSUME CountInv, NEW i \in 0 .. 1, um_refc[i] = 0, NEW u \in Unmanaged, um_ix[u] = i
  PROVE  pc[u] \notin CountPlaces
<1>1. Counted(i) \in SUBSET Unmanaged
  BY DEF Counted
<1>2. Counted(i) = {}
  BY <1>1, FS_Subset, FS_EmptySet, ConstantsAssumption DEF CountInv
<1> QED BY <1>2 DEF Counted

-----------------------------------------------------------------------------
(* Lemmas about following links.                                           *)

\* A set that links do not leave, and in which they go forward.
IsForward(link, S, m) ==
  /\ S \subseteq Element /\ m \in [Element -> Int]
  /\ \A x \in S : link[x] = Null \/ (link[x] \in S /\ m[x] < m[link[x]])

\* Follow()'s table up to a number of steps.
Row(link, part, n, u) ==
  [x \in Element \cup {Null} |-> IF n = 0 \/ x = Null THEN <<>> ELSE part[x] \o u[n - 1][link[x]]]
IsTable(link, part, k, u) == u = [n \in 0 .. k |-> Row(link, part, n, u)]

\* The table exists, however many steps it has,
LEMMA TableExists == ASSUME NEW link, NEW part, NEW k \in Nat PROVE \E u : IsTable(link, part, k, u)
<1> DEFINE Bad == {n \in Nat : ~ \E u : IsTable(link, part, n, u)}
<1>1. SUFFICES ASSUME Bad # {} PROVE FALSE
  OBVIOUS
<1>2. PICK m \in Bad : \A n \in Bad : m <= n
  BY <1>1, MinNat
<1>3. CASE m = 0
  <2> DEFINE u == [n \in 0 .. 0 |-> [x \in Element \cup {Null} |-> <<>>]]
  <2>1. \A n \in 0 .. 0 : Row(link, part, n, u) = [x \in Element \cup {Null} |-> <<>>]
    BY DEF Row
  <2>2. u = [n \in 0 .. 0 |-> Row(link, part, n, u)]
    BY <2>1
  <2> QED BY <1>3, <2>2 DEF IsTable
<1>4. CASE m # 0
  <2>1. m - 1 \in Nat /\ m - 1 \notin Bad
    BY <1>2, <1>4
  <2>2. PICK u : u = [n \in 0 .. m - 1 |-> Row(link, part, n, u)]
    BY <2>1 DEF IsTable
  <2> DEFINE v == [n \in 0 .. m |-> IF n = m THEN Row(link, part, m, u) ELSE u[n]]
  <2>3. ASSUME NEW n \in 0 .. m PROVE v[n] = Row(link, part, n, v)
    <3>1. n # 0 => v[n - 1] = u[n - 1]
      BY <2>1
    <3>2. Row(link, part, n, v) = Row(link, part, n, u)
      BY <3>1 DEF Row
    <3>3. v[n] = Row(link, part, n, u)
      BY <2>1, <2>2
    <3> QED BY <3>2, <3>3
  <2>4. v = [n \in 0 .. m |-> Row(link, part, n, v)]
    <3> HIDE DEF v
    <3>1. DOMAIN v = 0 .. m /\ v = [n \in DOMAIN v |-> v[n]]
      BY DEF v
    <3> QED BY <2>3, <3>1
  <2> QED BY <2>4 DEF IsTable
<1> QED BY <1>3, <1>4

\* and Follow() looks into it.
IsFollowed(link, part, u) ==
  /\ \A e : Follow(link, e, part) = u[Cardinality(Element)][e]
  /\ \A n \in 0 .. Cardinality(Element) : u[n][Null] = <<>>
  /\ \A x \in Element :
       /\ u[0][x] = <<>>
       /\ \A n \in 1 .. Cardinality(Element) : u[n][x] = part[x] \o u[n - 1][link[x]]

\* Following is such a table.
LEMMA FollowTable == ASSUME NEW link, NEW part PROVE \E u : IsFollowed(link, part, u)
<1>1. Cardinality(Element) \in Nat
  BY FS_AddElement, FS_CardinalityType, ConstantsAssumption DEF Element
<1> DEFINE t == CHOOSE u : IsTable(link, part, Cardinality(Element), u)
<1>2. IsTable(link, part, Cardinality(Element), t)
  BY <1>1, TableExists
<1>3. \A e : Follow(link, e, part) = t[Cardinality(Element)][e]
  BY DEF Follow, IsTable, Row
<1> HIDE DEF t
<1>4. ASSUME NEW n \in 0 .. Cardinality(Element), NEW x \in Element \cup {Null}
      PROVE  t[n][x] = IF n = 0 \/ x = Null THEN <<>> ELSE part[x] \o t[n - 1][link[x]]
  <2>1. t[n] = Row(link, part, n, t)
    BY <1>2 DEF IsTable
  <2>2. Row(link, part, n, t)[x] = IF n = 0 \/ x = Null THEN <<>> ELSE part[x] \o t[n - 1][link[x]]
    BY DEF Row
  <2> QED BY <2>1, <2>2
<1>5. \A n \in 0 .. Cardinality(Element) : t[n][Null] = <<>>
  BY <1>4
<1>6. ASSUME NEW x \in Element
      PROVE  /\ t[0][x] = <<>>
             /\ \A n \in 1 .. Cardinality(Element) : t[n][x] = part[x] \o t[n - 1][link[x]]
  <2>1. x # Null
    BY ConstantsAssumption DEF Element
  <2>2. ASSUME NEW n \in 1 .. Cardinality(Element) PROVE t[n][x] = part[x] \o t[n - 1][link[x]]
    <3>1. n \in 0 .. Cardinality(Element) /\ n # 0
      BY <1>1
    <3> QED BY <1>4, <2>1, <3>1
  <2>3. t[0][x] = <<>>
    BY <1>1, <1>4
  <2> QED BY <2>2, <2>3
<1>7. IsFollowed(link, part, t)
  BY <1>3, <1>5, <1>6 DEF IsFollowed
<1> QED BY <1>7

\* What is not before an element.
After(S, m, x) == {y \in S : m[x] <= m[y]}

\* There are finitely many elements.
LEMMA FiniteElement == IsFiniteSet(Element) /\ Cardinality(Element) \in Nat
  BY FS_AddElement, FS_CardinalityType, ConstantsAssumption DEF Element

\* No path is longer than there are elements.
LEMMA AfterSize ==
  ASSUME NEW link, NEW S, NEW m, IsForward(link, S, m), NEW x \in S
  PROVE  /\ Cardinality(After(S, m, x)) \in 1 .. Cardinality(Element)
         /\ \A z \in S : m[x] < m[z] =>
              Cardinality(After(S, m, z)) < Cardinality(After(S, m, x))
<1>1. \A z \in S : /\ After(S, m, z) \subseteq Element /\ z \in After(S, m, z) /\ m[z] \in Int
                   /\ IsFiniteSet(After(S, m, z))
  BY FiniteElement, FS_Subset DEF IsForward, After
<1>2. \A z \in S : Cardinality(After(S, m, z)) \in Nat /\ Cardinality(After(S, m, z)) # 0
  BY <1>1, FS_CardinalityType, FS_EmptySet
<1>3. Cardinality(After(S, m, x)) <= Cardinality(Element)
  BY <1>1, FiniteElement, FS_Subset
<1>4. ASSUME NEW z \in S, m[x] < m[z]
      PROVE  Cardinality(After(S, m, z)) < Cardinality(After(S, m, x))
  <2>1. After(S, m, z) \subseteq After(S, m, x) /\ x \notin After(S, m, z)
    <3>1. \A y \in S : m[z] <= m[y] => m[x] <= m[y]
      BY <1>1, <1>4
    <3>2. ~(m[z] <= m[x])
      BY <1>1, <1>4
    <3> QED BY <3>1, <3>2 DEF After
  <2>2. After(S, m, z) # After(S, m, x)
    BY <1>1, <2>1
  <2> QED BY <1>1, <2>1, <2>2, FS_Subset, FS_CardinalityType
<1> QED BY <1>2, <1>3, <1>4, FiniteElement

\* Follow() gives the part of an element and then what comes after it.
LEMMA FollowUnfold ==
  ASSUME NEW link, NEW part, NEW S, NEW m, IsForward(link, S, m), NEW x \in S
  PROVE  Follow(link, x, part) = part[x] \o Follow(link, link[x], part)
<1> DEFINE N == Cardinality(Element)
           r(y) == Cardinality(After(S, m, y))
<1>1. PICK u : IsFollowed(link, part, u)
  BY FollowTable
<1>2. N \in Nat
  BY FiniteElement
<1>3. \A y \in S : /\ r(y) \in 1 .. N /\ y \in Element /\ y # Null
                   /\ link[y] = Null \/ (link[y] \in S /\ r(link[y]) < r(y))
  BY AfterSize, ConstantsAssumption DEF IsForward, Element
<1> HIDE DEF N, r
<1> DEFINE Bad == {n \in Nat : n < N /\ \E y \in S : r(y) <= n /\ u[n + 1][y] # u[n][y]}
<1>4. Bad = {}
  <2> SUFFICES ASSUME Bad # {} PROVE FALSE
    OBVIOUS
  <2>1. PICK n \in Bad : \A k \in Bad : n <= k
    BY MinNat
  <2>2. PICK y \in S : r(y) <= n /\ u[n + 1][y] # u[n][y]
    BY <2>1
  <2>3. n \in Nat /\ n < N /\ n >= 1 /\ n - 1 \in Nat /\ n - 1 \notin Bad
    BY <1>2, <1>3, <2>1, <2>2
  <2>4. u[n + 1][y] = part[y] \o u[n][link[y]] /\ u[n][y] = part[y] \o u[n - 1][link[y]]
    <3>1. n \in 0 .. N /\ n + 1 \in 0 .. N /\ n + 1 # 0 /\ n # 0 /\ n + 1 - 1 = n /\ y \in Element \cup {Null} /\ y # Null
      BY <1>2, <1>3, <2>3
    <3>2. n \in 1 .. N /\ n + 1 \in 1 .. N
      BY <3>1
    <3>3. \A k \in 1 .. N : u[k][y] = part[y] \o u[k - 1][link[y]]
      BY <1>1, <1>3 DEF IsFollowed, N
    <3>4. PICK k \in 1 .. N : k = n + 1 /\ k - 1 = n
      BY <3>1, <3>2
    <3>5. u[k][y] = part[y] \o u[k - 1][link[y]] /\ u[n][y] = part[y] \o u[n - 1][link[y]]
      BY <3>2, <3>3
    <3> QED BY <3>4, <3>5
  <2>5. CASE link[y] = Null
    <3>1. u[n][Null] = <<>> /\ u[n - 1][Null] = <<>>
      BY <1>1, <1>2, <2>3 DEF IsFollowed, N
    <3> QED BY <2>2, <2>4, <2>5, <3>1
  <2>6. CASE link[y] \in S /\ r(link[y]) < r(y)
    <3>1. r(link[y]) <= n - 1 /\ n - 1 < N
      BY <1>2, <1>3, <2>2, <2>3, <2>6
    <3>2. u[n - 1 + 1][link[y]] = u[n - 1][link[y]]
      BY <2>3, <2>6, <3>1
    <3>3. n - 1 + 1 = n
      BY <2>3
    <3> QED BY <2>2, <2>4, <3>2, <3>3
  <2> QED BY <1>3, <2>5, <2>6
<1>5. \A n \in Nat, y \in S : n < N /\ r(y) <= n => u[n + 1][y] = u[n][y]
  BY <1>4
<1>6. N >= 1 /\ N - 1 \in Nat /\ N - 1 + 1 = N
  BY <1>2, <1>3
<1>7. Follow(link, x, part) = part[x] \o u[N - 1][link[x]]
  <2>1. N \in 1 .. N /\ x \in Element
    BY <1>3, <1>6
  <2> QED BY <1>1, <2>1 DEF IsFollowed, N
<1>8. u[N - 1][link[x]] = u[N][link[x]]
  <2>1. CASE link[x] = Null
    BY <1>1, <1>6, <2>1 DEF IsFollowed, N
  <2>2. CASE link[x] \in S /\ r(link[x]) < r(x)
    <3>1. r(link[x]) <= N - 1 /\ N - 1 < N
      BY <1>3, <1>6, <2>2
    <3> QED BY <1>5, <1>6, <2>2, <3>1
  <2> QED BY <1>3, <2>1, <2>2
<1> QED BY <1>1, <1>7, <1>8 DEF IsFollowed, N

\* Nothing follows the null pointer.
LEMMA FollowNull == ASSUME NEW link, NEW part PROVE Follow(link, Null, part) = <<>>
<1>1. PICK u : IsFollowed(link, part, u)
  BY FollowTable
<1>2. Cardinality(Element) \in 0 .. Cardinality(Element)
  BY FiniteElement
<1> QED BY <1>1, <1>2 DEF IsFollowed

\* What is followed depends only on links and parts of what is passed.
LEMMA FollowSame ==
  ASSUME NEW link, NEW part, NEW link2, NEW part2, NEW S \in SUBSET Element,
         \A x \in S : (link[x] = Null \/ link[x] \in S) /\ link2[x] = link[x] /\ part2[x] = part[x],
         NEW e \in S \cup {Null}
  PROVE  Follow(link2, e, part2) = Follow(link, e, part)
<1> DEFINE N == Cardinality(Element)
<1>1. PICK u : IsFollowed(link, part, u)
  BY FollowTable
<1>2. PICK v : IsFollowed(link2, part2, v)
  BY FollowTable
<1>3. N \in Nat
  BY FiniteElement
<1> HIDE DEF N
<1> DEFINE Bad == {n \in Nat : n <= N /\ \E y \in S \cup {Null} : u[n][y] # v[n][y]}
<1>4. Bad = {}
  <2> SUFFICES ASSUME Bad # {} PROVE FALSE
    OBVIOUS
  <2>1. PICK n \in Bad : \A k \in Bad : n <= k
    BY MinNat
  <2>2. PICK y \in S \cup {Null} : u[n][y] # v[n][y]
    BY <2>1
  <2>3. n \in 0 .. N /\ y \in Element \cup {Null} /\ n \in Nat
    BY <1>3, <2>1
  <2>4. n # 0 /\ y # Null /\ y \in S
    BY <1>1, <1>2, <2>2, <2>3 DEF IsFollowed, N
  <2>5. n - 1 \in Nat /\ n - 1 \notin Bad /\ n - 1 <= N
    BY <1>3, <2>1, <2>3, <2>4
  <2>6. u[n - 1][link[y]] = v[n - 1][link[y]]
    BY <2>4, <2>5
  <2>7. n \in 1 .. N /\ y \in Element
    BY <2>3, <2>4
  <2>8. u[n][y] = part[y] \o u[n - 1][link[y]] /\ v[n][y] = part2[y] \o v[n - 1][link2[y]]
    BY <1>1, <1>2, <2>7 DEF IsFollowed, N
  <2> QED BY <2>2, <2>4, <2>6, <2>8
<1>5. u[N][e] = v[N][e]
  BY <1>3, <1>4
<1> QED BY <1>1, <1>2, <1>5 DEF IsFollowed, N

\* What is followed is made of the parts of what is passed.
LEMMA FollowSeq ==
  ASSUME NEW link, NEW part, NEW T, NEW S \in SUBSET Element,
         \A x \in S : (link[x] = Null \/ link[x] \in S) /\ part[x] \in Seq(T),
         NEW e \in S \cup {Null}
  PROVE  Follow(link, e, part) \in Seq(T)
<1> DEFINE N == Cardinality(Element)
<1>1. PICK u : IsFollowed(link, part, u)
  BY FollowTable
<1>2. N \in Nat
  BY FiniteElement
<1>3. /\ \A n \in 0 .. N : u[n][Null] = <<>>
      /\ \A x \in S : u[0][x] = <<>>
      /\ \A x \in S : \A n \in 1 .. N : u[n][x] = part[x] \o u[n - 1][link[x]]
      /\ Follow(link, e, part) = u[N][e]
  BY <1>1 DEF IsFollowed
<1> HIDE DEF N
<1> DEFINE Bad == {n \in Nat : n <= N /\ \E y \in S \cup {Null} : u[n][y] \notin Seq(T)}
<1>4. Bad = {}
  <2> SUFFICES ASSUME Bad # {} PROVE FALSE
    OBVIOUS
  <2>1. PICK n \in Bad : \A k \in Bad : n <= k
    BY MinNat
  <2>2. PICK y \in S \cup {Null} : u[n][y] \notin Seq(T)
    BY <2>1
  <2>3. n \in 0 .. N /\ n \in Nat
    BY <1>2, <2>1
  <2>4. n # 0 /\ y # Null /\ y \in S
    <3>1. <<>> \in Seq(T) /\ 0 \in 0 .. N
      BY <1>2
    <3>2. u[n][Null] \in Seq(T) /\ \A x \in S : u[0][x] \in Seq(T)
      BY <1>3, <2>3, <3>1
    <3> QED BY <2>2, <3>2
  <2>5. n - 1 \in Nat /\ n - 1 \notin Bad /\ n - 1 <= N /\ n \in 1 .. N
    BY <1>2, <2>1, <2>3, <2>4
  <2>6. u[n - 1][link[y]] \in Seq(T)
    BY <2>4, <2>5
  <2>7. u[n][y] = part[y] \o u[n - 1][link[y]]
    BY <1>3, <2>4, <2>5
  <2> QED BY <2>2, <2>4, <2>6, <2>7
<1>5. u[N][e] \in Seq(T)
  BY <1>2, <1>4
<1> QED BY <1>3, <1>5

\* What is reached by following links.
Ahead(link, x) == LET c == Follow(link, x, [y \in Element |-> <<y>>]) IN {c[i] : i \in DOMAIN c}

\* Nothing is reached from null.
LEMMA AheadNull == ASSUME NEW link PROVE Ahead(link, Null) = {}
<1>1. Follow(link, Null, [y \in Element |-> <<y>>]) = <<>>
  BY FollowNull
<1>2. DOMAIN <<>> = {}
  OBVIOUS
<1> QED BY <1>1, <1>2 DEF Ahead

\* Where links go forward, an element reaches itself and what its next one reaches.
LEMMA AheadUnfold ==
  ASSUME NEW link, NEW S, NEW m, IsForward(link, S, m), NEW x \in S
  PROVE  /\ Ahead(link, x) = {x} \cup Ahead(link, link[x])
         /\ Ahead(link, x) \subseteq S
<1> DEFINE part == [y \in Element |-> <<y>>]
           c == Follow(link, x, part)
           d == Follow(link, link[x], part)
<1>1. S \in SUBSET Element /\ \A y \in S : (link[y] = Null \/ link[y] \in S) /\ part[y] = <<y>> /\ part[y] \in Seq(S)
  BY DEF IsForward
<1>2. c = <<x>> \o d
  BY <1>1, FollowUnfold, Zenon
<1>3. c \in Seq(S) /\ d \in Seq(S)
  <2> HIDE DEF part
  <2> QED BY <1>1, FollowSeq
<1> HIDE DEF c, d
<1>4. /\ Len(c) = Len(d) + 1 /\ DOMAIN c = 1 .. Len(c) /\ DOMAIN d = 1 .. Len(d) /\ c[1] = x
      /\ \A i \in DOMAIN d : c[i + 1] = d[i]
      /\ \A i \in DOMAIN c : i # 1 => c[i] = d[i - 1] /\ i - 1 \in DOMAIN d
      /\ Len(d) \in Nat
  BY <1>2, <1>3
<1>5. \A i \in DOMAIN c : c[i] \in S
  BY <1>3
<1>6. {c[i] : i \in DOMAIN c} = {x} \cup {d[i] : i \in DOMAIN d}
  <2>1. ASSUME NEW i \in DOMAIN d PROVE d[i] \in {c[j] : j \in DOMAIN c}
    <3>1. i + 1 \in DOMAIN c /\ c[i + 1] = d[i]
      BY <1>4
    <3> QED BY <3>1
  <2>2. 1 \in DOMAIN c
    BY <1>4
  <2> QED BY <1>4, <2>1, <2>2
<1> QED BY <1>5, <1>6 DEF Ahead, c, d

\* The elements of a list.
Members(where, name) == {e \in Element : where[e] = name}

\* The links of a list go forward,
LEMMA ListForward ==
  ASSUME NEW link, NEW where, NEW at \in [Element -> Int], NEW name, NEW s, NEW e,
         IsList(link, where, at, name, s, e), e # Null => link[e] = Null
  PROVE  IsForward(link, Members(where, name), at)
  BY DEF IsForward, IsList, Members

\* so that all that are further on in a list are reached.
LEMMA AheadCovers ==
  ASSUME NEW link, NEW where, NEW at \in [Element -> Int], NEW name, NEW s, NEW e,
         IsList(link, where, at, name, s, e),
         \A x, y \in Members(where, name) : at[x] = at[y] => x = y,
         NEW S, NEW m, IsForward(link, S, m), Members(where, name) \subseteq S,
         NEW x \in Members(where, name), NEW y \in Members(where, name), at[x] <= at[y]
  PROVE  y \in Ahead(link, x)
<1> DEFINE Bad == {n \in Nat : \E z \in Members(where, name) :
                     at[z] <= at[y] /\ n = at[y] - at[z] /\ y \notin Ahead(link, z)}
<1>1. \A z \in Members(where, name) : at[z] \in Int /\ z \in S /\ at[z] <= at[e]
  BY DEF Members, IsList
<1>2. Bad = {}
  <2> SUFFICES ASSUME Bad # {} PROVE FALSE
    OBVIOUS
  <2>1. PICK n \in Bad : \A k \in Bad : n <= k
    BY MinNat
  <2>2. PICK z \in Members(where, name) : at[z] <= at[y] /\ n = at[y] - at[z] /\ y \notin Ahead(link, z)
    BY <2>1
  <2>3. Ahead(link, z) = {z} \cup Ahead(link, link[z])
    BY <1>1, AheadUnfold
  <2>4. z # y /\ at[z] < at[y] /\ z # e
    BY <1>1, <2>2, <2>3
  <2>5. link[z] \in Members(where, name) /\ at[link[z]] = at[z] + 1
    BY <2>4 DEF Members, IsList
  <2>6. at[link[z]] <= at[y] /\ n - 1 = at[y] - at[link[z]] /\ n - 1 \in Nat
    BY <1>1, <2>2, <2>4, <2>5
  <2>7. n - 1 \notin Bad
    BY <2>1, <2>6
  <2>8. y \in Ahead(link, link[z])
    BY <2>5, <2>6, <2>7
  <2> QED BY <2>2, <2>3, <2>8
<1>3. at[y] - at[x] \in Nat /\ at[y] - at[x] \notin Bad
  BY <1>1, <1>2
<1> QED BY <1>3

\* A sequence of elements that have the places from x to e.
IsPlaced(c, where, at, name, x, e) ==
  /\ c \in Seq(Element) /\ Len(c) = at[e] - at[x] + 1
  /\ \A i \in 1 .. Len(c) : where[c[i]] = name /\ at[c[i]] = at[x] + i - 1

\* The elements of a list follow each other in a chain.
LEMMA ChainPlaces ==
  ASSUME NEW link, NEW where, NEW at \in [Element -> Int], NEW name, NEW s \in Pointer,
         NEW e \in Pointer,
         IsList(link, where, at, name, s, e), e # Null => link[e] = Null,
         NEW x \in Members(where, name)
  PROVE  IsPlaced(Follow(link, x, [y \in Element |-> <<y>>]), where, at, name, x, e)
<1> DEFINE part == [y \in Element |-> <<y>>]
           S == Members(where, name)
           Good(z) == LET c == Follow(link, z, part)
                      IN  /\ c \in Seq(Element) /\ Len(c) = at[e] - at[z] + 1
                          /\ \A i \in 1 .. Len(c) : where[c[i]] = name /\ at[c[i]] = at[z] + i - 1
           Bad == {n \in Nat : \E z \in S : n = at[e] - at[z] /\ ~Good(z)}
<1>1. IsForward(link, S, at)
  BY ListForward
<1>2. \A z \in S : /\ z \in Element /\ where[z] = name /\ at[z] \in Int /\ at[z] <= at[e] /\ e \in Element /\ e # Null /\ at[e] \in Int
                   /\ part[z] = <<z>>
                   /\ z # e => link[z] \in S /\ at[link[z]] = at[z] + 1
  <2> SUFFICES ASSUME NEW z \in S
               PROVE  /\ z \in Element /\ where[z] = name /\ at[z] \in Int /\ at[z] <= at[e] /\ e \in Element /\ e # Null /\ at[e] \in Int
                      /\ part[z] = <<z>>
                      /\ z # e => link[z] \in S /\ at[link[z]] = at[z] + 1
    BY Zenon
  <2>1. z \in Element /\ where[z] = name /\ part[z] = <<z>>
    BY DEF Members
  <2>2. s # Null /\ e # Null /\ e \in Element /\ at[z] <= at[e] /\ (z # e => link[z] \in S /\ at[link[z]] = at[z] + 1)
    BY <2>1 DEF Members, IsList, Pointer
  <2> QED BY <2>1, <2>2
<1>3. \A z \in S : Follow(link, z, part) = <<z>> \o Follow(link, link[z], part)
  <2> HIDE DEF S
  <2>1. \A z \in S : part[z] = <<z>>
    BY <1>2
  <2> HIDE DEF part
  <2> QED BY <1>1, <2>1, FollowUnfold
<1> HIDE DEF Good, S
<1>4. Bad = {}
  <2> SUFFICES ASSUME Bad # {} PROVE FALSE
    OBVIOUS
  <2>1. PICK n \in Bad : \A k \in Bad : n <= k
    BY MinNat
  <2>2. PICK z \in S : n = at[e] - at[z] /\ ~Good(z)
    BY <2>1
  <2>3. CASE z = e
    <3>1. Follow(link, z, part) = <<z>> \o <<>>
      <4>1. link[e] = Null
        BY <1>2
      <4> QED BY <1>3, <2>3, <4>1, FollowNull
    <3>2. Follow(link, z, part) = <<z>>
      BY <3>1
    <3>3. Good(z)
      <4>1. z \in Element /\ where[z] = name /\ at[z] \in Int
        BY <1>2
      <4>2. /\ <<z>> \in Seq(Element) /\ Len(<<z>>) = at[z] - at[z] + 1
            /\ \A i \in 1 .. Len(<<z>>) : where[<<z>>[i]] = name /\ at[<<z>>[i]] = at[z] + i - 1
        BY <4>1
      <4> QED BY <2>3, <3>2, <4>2 DEF Good
    <3> QED BY <2>2, <3>3
  <2>4. CASE z # e
    <3> DEFINE d == Follow(link, link[z], part)
               c == Follow(link, z, part)
    <3>1. link[z] \in S /\ at[link[z]] = at[z] + 1 /\ n - 1 = at[e] - at[link[z]] /\ n - 1 \in Nat
      <4>1. /\ link[z] \in S /\ at[link[z]] = at[z] + 1 /\ at[e] \in Int /\ at[z] \in Int /\ at[link[z]] \in Int
            /\ at[link[z]] <= at[e]
        BY <1>2, <2>4
      <4> QED BY <2>2, <4>1
    <3>2. n - 1 \notin Bad
      BY <2>1, <3>1
    <3>3. Good(link[z])
      BY <3>1, <3>2
    <3>4. c = <<z>> \o d
      BY <1>3
    <3>5. /\ d \in Seq(Element) /\ Len(d) = at[e] - (at[z] + 1) + 1
          /\ \A i \in 1 .. Len(d) : where[d[i]] = name /\ at[d[i]] = at[z] + 1 + i - 1
      BY <3>1, <3>3 DEF Good
    <3>6. z \in Element /\ where[z] = name /\ at[z] \in Int /\ at[e] \in Int
      BY <1>2
    <3> HIDE DEF c, d
    <3>7. /\ c \in Seq(Element) /\ Len(c) = at[e] - at[z] + 1 /\ c[1] = z
          /\ \A i \in 1 .. Len(c) : i # 1 => c[i] = d[i - 1] /\ i - 1 \in 1 .. Len(d)
      BY <3>4, <3>5, <3>6
    <3>8. \A i \in 1 .. Len(c) : where[c[i]] = name /\ at[c[i]] = at[z] + i - 1
      <4> TAKE i \in 1 .. Len(c)
      <4>1. CASE i = 1
        BY <3>6, <3>7, <4>1
      <4>2. CASE i # 1
        <5>1. c[i] = d[i - 1] /\ i - 1 \in 1 .. Len(d) /\ i \in Int
          BY <3>7, <4>2
        <5>2. where[d[i - 1]] = name /\ at[d[i - 1]] = at[z] + 1 + (i - 1) - 1
          BY <3>5, <5>1
        <5> QED BY <3>6, <5>1, <5>2
      <4> QED BY <4>1, <4>2
    <3>9. Good(z)
      BY <3>7, <3>8 DEF Good, c
    <3> QED BY <2>2, <3>9
  <2> QED BY <2>3, <2>4
<1>5. Good(x)
  <2>1. x \in S
    BY DEF S
  <2>2. at[e] \in Int /\ at[x] \in Int /\ at[x] <= at[e]
    BY <1>2, <2>1
  <2>3. at[e] - at[x] \in Nat
    BY <2>2
  <2> QED BY <1>4, <2>1, <2>3
<1> QED BY <1>5 DEF Good, IsPlaced

-----------------------------------------------------------------------------
(* Lists that are joined.                                                  *)

\* What joining two lists does to where elements are: the second list's go behind
\* those of the first one; nothing else changes.
Joins(where, at, w, a, n0, n1) ==
  /\ \A e \in Element : w[e] = IF where[e] = n1 THEN n0 ELSE where[e]
  /\ \A e \in Element : where[e] # n1 => a[e] = at[e]
  /\ \A e, f \in Element : w[e] = w[f] /\ w[e] # "none" /\ a[e] = a[f] => e = f

\* The link that joins two lists,
JoinLink(link, e0, s1) == IF e0 # Null /\ s1 # Null THEN [link EXCEPT ![e0] = s1] ELSE link

\* and the list they become.
JoinStart(s0, s1) == IF s1 = Null \/ s0 # Null THEN s0 ELSE s1
JoinEnd(e0, s1, e1) == IF s1 = Null THEN e0 ELSE e1

\* The result of joining two lists is a list.
LEMMA JoinLists ==
  ASSUME NEW link \in [Element -> Pointer], NEW where \in [Element -> Lists],
         NEW at \in [Element -> Int],
         NEW n0 \in Lists \ {"none"}, NEW n1 \in Lists \ {"none"}, n0 # n1,
         NEW s0 \in Pointer, NEW e0 \in Pointer, NEW s1 \in Pointer, NEW e1 \in Pointer,
         IsList(link, where, at, n0, s0, e0), IsList(link, where, at, n1, s1, e1),
         \A e, f \in Element : where[e] = where[f] /\ where[e] # "none" /\ at[e] = at[f] => e = f
  PROVE  \E w \in [Element -> Lists], a \in [Element -> Int] :
           /\ Joins(where, at, w, a, n0, n1)
           /\ IsList(JoinLink(link, e0, s1), w, a, n0, JoinStart(s0, s1), JoinEnd(e0, s1, e1))
<1>1. PICK w \in [Element -> Lists] : w = [e \in Element |-> IF where[e] = n1 THEN n0 ELSE where[e]]
  OBVIOUS
<1>2. PICK k \in Int : s0 # Null /\ s1 # Null => k = at[e0] - at[s1] + 1
  <2>1. s0 # Null /\ s1 # Null => at[e0] - at[s1] + 1 \in Int
    BY DEF IsList, Pointer
  <2> QED BY <2>1
<1>3. PICK a \in [Element -> Int] : a = [e \in Element |-> IF where[e] = n1 THEN at[e] + k ELSE at[e]]
  <2>1. \A e \in Element : at[e] + k \in Int /\ at[e] \in Int
    OBVIOUS
  <2> QED BY <2>1
<1>4. \A e \in Element : /\ w[e] = (IF where[e] = n1 THEN n0 ELSE where[e])
                         /\ a[e] = (IF where[e] = n1 THEN at[e] + k ELSE at[e])
                         /\ at[e] \in Int /\ a[e] \in Int
  BY <1>1, <1>3
<1> HIDE <1>1, <1>3
<1>5. s0 # Null => /\ e0 # Null /\ e0 \in Element /\ s0 \in Element /\ where[s0] = n0 /\ where[e0] = n0
                   /\ at[s0] <= at[e0]
  BY DEF IsList, Pointer
<1>6. s1 # Null => /\ e1 # Null /\ e1 \in Element /\ s1 \in Element /\ where[s1] = n1 /\ where[e1] = n1
                   /\ at[s1] <= at[e1]
  BY DEF IsList, Pointer
<1>7. s0 = Null => e0 = Null /\ \A e \in Element : where[e] # n0
  BY DEF IsList
<1>8. s1 = Null => e1 = Null /\ \A e \in Element : where[e] # n1
  BY DEF IsList
<1>9. /\ \A e \in Element : where[e] = n0 => /\ at[s0] <= at[e] /\ at[e] <= at[e0]
                                             /\ e # e0 => link[e] \in Element /\ where[link[e]] = n0 /\ at[link[e]] = at[e] + 1
      /\ \A e \in Element : where[e] = n1 => /\ at[s1] <= at[e] /\ at[e] <= at[e1]
                                             /\ e # e1 => link[e] \in Element /\ where[link[e]] = n1 /\ at[link[e]] = at[e] + 1
  BY DEF IsList
<1>10. Joins(where, at, w, a, n0, n1)
  <2>1. ASSUME NEW e \in Element, NEW f \in Element, where[e] = n0, where[f] = n1 PROVE a[e] < a[f]
    BY <1>2, <1>4, <1>5, <1>6, <1>7, <1>8, <1>9, <2>1
  <2>2. ASSUME NEW e \in Element, NEW f \in Element, w[e] = w[f], w[e] # "none", a[e] = a[f] PROVE e = f
    <3>1. CASE where[e] = where[f]
      BY <1>4, <2>2, <3>1
    <3>2. CASE where[e] = n0 /\ where[f] = n1
      BY <1>4, <2>1, <2>2, <3>2
    <3>3. CASE where[e] = n1 /\ where[f] = n0
      BY <1>4, <2>1, <2>2, <3>3
    <3> QED BY <1>4, <2>2, <3>1, <3>2, <3>3
  <2> QED BY <1>4, <2>2 DEF Joins
<1>11. IsList(JoinLink(link, e0, s1), w, a, n0, JoinStart(s0, s1), JoinEnd(e0, s1, e1))
  <2>1. CASE s1 = Null
    <3>1. \A e \in Element : w[e] = where[e] /\ a[e] = at[e]
      BY <1>4, <1>8, <2>1
    <3> QED BY <1>5, <2>1, <3>1 DEF IsList, JoinLink, JoinStart, JoinEnd
  <2>2. CASE s1 # Null /\ s0 = Null
    <3>1. \A e \in Element : w[e] = n0 => where[e] = n1 /\ a[e] = at[e] + k
      BY <1>4, <1>7, <2>2
    <3>2. ASSUME NEW e \in Element, w[e] = n0
          PROVE  /\ a[s1] <= a[e] /\ a[e] <= a[e1]
                 /\ e # e1 => link[e] \in Element /\ w[link[e]] = n0 /\ a[link[e]] = a[e] + 1
      BY <1>4, <1>6, <1>9, <2>2, <3>1, <3>2
    <3> QED BY <1>4, <1>6, <1>7, <2>2, <3>2 DEF IsList, JoinLink, JoinStart, JoinEnd
  <2>3. CASE s1 # Null /\ s0 # Null
    <3> DEFINE l == [link EXCEPT ![e0] = s1]
    <3>1. JoinLink(link, e0, s1) = l /\ JoinStart(s0, s1) = s0 /\ JoinEnd(e0, s1, e1) = e1
      BY <1>5, <2>3 DEF JoinLink, JoinStart, JoinEnd
    <3>2. l[e0] = s1 /\ \A e \in Element : e # e0 => l[e] = link[e]
      BY <1>5, <2>3
    <3> HIDE DEF l
    <3>3. /\ w[s0] = n0 /\ w[e1] = n0 /\ a[s0] = at[s0] /\ a[e1] = at[e1] + k /\ a[e0] = at[e0] /\ a[s1] = at[e0] + 1
          /\ w[s1] = n0
      BY <1>2, <1>4, <1>5, <1>6, <2>3
    <3>4. a[s0] <= a[e0] /\ a[e0] < a[s1] /\ a[s1] <= a[e1]
      BY <1>4, <1>5, <1>6, <2>3, <3>3
    <3>5. ASSUME NEW e \in Element, w[e] = n0
          PROVE  /\ a[s0] <= a[e] /\ a[e] <= a[e1]
                 /\ e # e1 => l[e] \in Element /\ w[l[e]] = n0 /\ a[l[e]] = a[e] + 1
      <4>1. CASE where[e] = n1
        <5>1. /\ a[e] = at[e] + k /\ at[s1] <= at[e] /\ at[e] <= at[e1] /\ l[e] = link[e]
              /\ e # e1 => link[e] \in Element /\ where[link[e]] = n1 /\ at[link[e]] = at[e] + 1
          BY <1>4, <1>5, <1>9, <2>3, <3>2, <4>1
        <5>2. a[s1] = at[s1] + k
          BY <1>4, <1>6, <2>3
        <5>3. a[s1] <= a[e] /\ a[e] <= a[e1]
          BY <1>4, <1>6, <2>3, <3>3, <5>1, <5>2
        <5> QED BY <1>4, <1>5, <1>6, <2>3, <3>4, <5>1, <5>3
      <4>2. CASE where[e] = n0
        <5>1. /\ a[e] = at[e] /\ at[s0] <= at[e] /\ at[e] <= at[e0]
              /\ e # e0 => link[e] \in Element /\ where[link[e]] = n0 /\ at[link[e]] = at[e] + 1
          BY <1>4, <1>9, <4>2
        <5>2. a[s0] <= a[e] /\ a[e] <= a[e1]
          BY <1>4, <1>5, <1>6, <2>3, <3>3, <3>4, <5>1
        <5>3. CASE e = e0
          BY <1>6, <2>3, <3>2, <3>3, <5>1, <5>2, <5>3
        <5>4. CASE e # e0
          BY <1>4, <3>2, <5>1, <5>2, <5>4
        <5> QED BY <5>3, <5>4
      <4> QED BY <1>4, <3>5, <4>1, <4>2
    <3> QED BY <1>6, <2>3, <3>1, <3>3, <3>5 DEF IsList
  <2> QED BY <2>1, <2>2, <2>3
<1> QED BY <1>10, <1>11

\* A list whose elements are not touched stays as it is.
Keeps(link, l, where, at, w, a, name, e) ==
  \A x \in Element : /\ w[x] = name <=> where[x] = name
                     /\ where[x] = name => a[x] = at[x]
                     /\ where[x] = name /\ x # e => l[x] = link[x]

\* A list stays one when its links and places stay.
LEMMA ListKept ==
  ASSUME NEW link, NEW l, NEW where, NEW at, NEW w, NEW a, NEW name, NEW s \in Pointer, NEW e \in Pointer,
         IsList(link, where, at, name, s, e), Keeps(link, l, where, at, w, a, name, e)
  PROVE  IsList(l, w, a, name, s, e)
  BY DEF IsList, Keeps, Pointer

\* The list that is joined to another one is gone.
LEMMA JoinGone ==
  ASSUME NEW link, NEW where, NEW at, NEW w, NEW a, NEW n0, NEW n1, n0 # n1, Joins(where, at, w, a, n0, n1)
  PROVE  IsList(link, w, a, n1, Null, Null)
  BY DEF IsList, Joins

-----------------------------------------------------------------------------
(* Every step preserves the invariant: first those that leave all elements *)
(* in place.                                                               *)

\* clean() starts with arguments,
LEMMA StartCleanType ==
  ASSUME NEW from, NEW max \in Nat, NEW notify \in BOOLEAN, NEW ret \in {"dequeue", "clean"},
         StartClean(from, max, notify, ret)
  PROVE  CallType'
<1>1. call' = [ops |-> 0, max |-> max, notify |-> notify, ret |-> ret, mret |-> "none"]
  BY DEF StartClean, NoCall
<1> QED BY <1>1 DEF CallType

\* and leaves none behind.
LEMMA ReturnType ==
  ASSUME NEW from, NEW result, Return(from, result) PROVE CallType'
<1>1. call' = [ops |-> 0, max |-> 0, notify |-> FALSE, ret |-> "none", mret |-> "none"]
  BY DEF Return, NoCall
<1> QED BY <1>1 DEF CallType

\* inspect_head returns or goes on with its arguments.
LEMMA InspectType ==
  ASSUME NEW from, InspectHead(from), CallType PROVE CallType'
<1>1. CASE call' = [call EXCEPT !.mret = "inspect_head"]
  BY <1>1 DEF CallType
<1>2. CASE Return(from, "clean")
  BY <1>2, ReturnType
<1> QED BY <1>1, <1>2 DEF InspectHead

\* The arguments stay well typed.
LEMMA CallSteps ==
  ASSUME CallType, CleanReachesHead \/ CleanReadLast \/ CleanHead \/ Dequeue \/ AuxWorkThrPrgr
  PROVE  CallType'
<1>1. CASE CleanReachesHead
  BY <1>1, InspectType DEF CleanReachesHead
<1>2. CASE CleanReadLast
  BY <1>2, ReturnType DEF CleanReadLast, CallType
<1>3. CASE CleanHead
  BY <1>3, ReturnType, InspectType DEF CleanHead
<1>4. CASE Dequeue
  BY <1>4, StartCleanType, ConstantsAssumption DEF Dequeue
<1>5. CASE AuxWorkThrPrgr
  BY <1>5, StartCleanType, ConstantsAssumption DEF AuxWorkThrPrgr, CallType
<1> QED BY <1>1, <1>2, <1>3, <1>4, <1>5


\* An element that is allocated is in no list.
LEMMA EnqStartStep ==
  ASSUME NEW where \in [Element -> Lists], NEW at \in [Element -> Int], Inv(where, at),
         NEW p \in Producers, EnqStart(p)
  PROVE  Inv(where, at)'
<1> DEFINE e == Min(Free)
<1>1. e \in El /\ e \notin live /\ e # Marker /\ e \in Element
  BY MinFree, ConstantsAssumption DEF EnqStart, Free, Element
<1>2. where[e] = "none" /\ next[e] = Null
  BY <1>1 DEF Inv, PlaceInv
<1>3. /\ live' = live \cup {e} /\ data' = [data EXCEPT ![e] = <<p, sent[p] + 1>>]
      /\ pc[p] = "idle" /\ pc' = [pc EXCEPT ![p] = IF p \in Managed THEN "link" ELSE "inc"]
      /\ this' = [this EXCEPT ![p] = e]
      /\ UNCHANGED <<tail, head, used_marker, reclaim, notes, lists, call, counts>>
  BY DEF EnqStart, Goto, ReadLast
<1>4. next' = next
  BY <1>1, <1>2 DEF EnqStart, ReadLast, Inv, ElementType
<1> HIDE DEF e
<1>5. ElementType'
  BY <1>1, <1>3, <1>4 DEF Inv, ElementType, tail, reclaim
<1>6. ProducerInv'
  <2>1. \A t \in Producers : pc[t] \in HoldPlaces => this[t] # e
    BY <1>1, <1>2 DEF Inv, PlaceInv
  <2>2. \A t \in Producers \ {p} : pc'[t] = pc[t] /\ this'[t] = this[t] /\ sent'[t] = sent[t]
    BY <1>3 DEF Inv, ThreadType, Producers, Threads, counts
  <2>3. ASSUME NEW t \in Producers \ {p}, pc'[t] \in HoldPlaces PROVE data'[this'[t]] = <<t, sent'[t] + 1>>
    <3>1. pc[t] \in HoldPlaces /\ this'[t] = this[t] /\ this[t] # e /\ this[t] \in Element
      BY <2>1, <2>2, <2>3 DEF Inv, ProducerInv, Element
    <3>2. data'[this'[t]] = data[this[t]]
      BY <1>3, <3>1 DEF Inv, ElementType
    <3>3. data[this[t]] = <<t, sent[t] + 1>>
      BY <3>1 DEF Inv, ProducerInv
    <3> QED BY <2>2, <3>2, <3>3
  <2>4. pc'[p] \in {"inc", "link"} /\ this'[p] = e /\ data'[e] = <<p, sent'[p] + 1>> /\ (p \in Managed => pc'[p] = "link")
    BY <1>1, <1>3 DEF Inv, ThreadType, ElementType, Producers, Threads, counts
  <2>5. /\ pc'[p] \in {"idle", "notify", "linked"} \cup HoldPlaces \cup LinkedPlaces
        /\ this'[p] \in El /\ data'[this'[p]] = <<p, sent'[p] + 1>> /\ pc'[p] # "linked"
        /\ p \in Managed => pc'[p] \in {"idle", "notify"} \cup PointerPlaces
    BY <1>1, <2>4 DEF HoldPlaces, PointerPlaces
  <2>6. UNCHANGED <<ilast>> \/ \A t \in Producers \ {p} : ilast'[t] = ilast[t]
    BY DEF EnqStart, ReadLast, Inv, ThreadType, Producers, Threads
  <2>7. ASSUME NEW t \in Producers \ {p}
        PROVE  /\ pc'[t] \in {"idle", "notify", "linked"} \cup HoldPlaces \cup LinkedPlaces
               /\ pc'[t] \in HoldPlaces \cup LinkedPlaces => this'[t] \in El
               /\ t \in Managed => pc'[t] \in {"idle", "notify"} \cup PointerPlaces
               /\ pc'[t] = "linked" => ilast'[t] \in Element
    BY <2>2, <2>6 DEF Inv, ProducerInv
  <2> QED BY <2>3, <2>5, <2>7 DEF ProducerInv
<1>7. QueueInv(where, at)' /\ ListInv(where, at)'
  BY <1>3, <1>4 DEF Inv, QueueInv, ListInv, IsList, reclaim, lists
<1>8. PlaceInv(where, at)'
  <2>1. \A t \in Producers : pc[t] \in HoldPlaces => this[t] # e
    BY <1>1, <1>2 DEF Inv, PlaceInv
  <2>2. p # Consumer /\ pc' [Consumer] = pc[Consumer] /\ \A t \in Producers \ {p} : pc'[t] = pc[t] /\ this'[t] = this[t]
    BY <1>3, ConstantsAssumption DEF Inv, ThreadType, Producers, Threads
  <2>3. pc'[p] \in HoldPlaces /\ this'[p] = e /\ pc[p] \notin HoldPlaces
    BY <1>3 DEF Inv, ThreadType, Producers, Threads, HoldPlaces
  <2> QED BY <1>1, <1>2, <1>3, <1>4, <2>1, <2>2, <2>3 DEF Inv, PlaceInv
<1>9. IxType'
  BY ConstantsAssumption, MinFree DEF Inv, EnqStart, Free, Goto, ReadLast, tail, reclaim, notes,
         lists, counts, IxType, Element, ElementType, Pointer, ThreadType, Threads, Producers
<1>10. ThreadType'
  BY ConstantsAssumption, MinFree DEF Inv, EnqStart, Free, Goto, ReadLast, tail, reclaim, notes,
         lists, counts, ElementType, Element, Pointer, ThreadType, Threads, Producers
<1>11. ConsumerInv'
  BY ConstantsAssumption, MinFree DEF Inv, EnqStart, Free, Goto, ReadLast, tail, reclaim, notes,
         lists, counts, ElementType, Element, Pointer, ThreadType, Threads, Producers,
         ConsumerInv, CleanPlaces, MarkerPlaces, PointerPlaces, LinkedPlaces, HoldPlaces
<1>12. OwnInv'
  BY ConstantsAssumption, MinFree DEF Inv, EnqStart, Free, Goto, ReadLast, tail, reclaim, notes,
         lists, counts, IxType, Element, ElementType, Pointer, ThreadType, Threads, Producers,
         ConsumerInv, CleanPlaces, MarkerPlaces, PointerPlaces, LinkedPlaces, HoldPlaces,
         ProducerInv, OwnInv, SwitchInv, QueueInv, IsList, PlaceInv, OrderInv, PointerInv,
         Pointers, Waited, MoveInv
<1>13. CountInv'
  BY ConstantsAssumption, MinFree, CountSame DEF Inv, EnqStart, Free, Goto, ReadLast, tail,
         reclaim, notes, lists, counts, IxType, Element, ElementType, Pointer, ListType,
         ThreadType, Threads, Producers, CallType, CountPlaces, PointerPlaces, LinkedPlaces
<1>14. SwitchInv'
  BY ConstantsAssumption, MinFree DEF Inv, EnqStart, Free, Goto, ReadLast, tail, reclaim, notes,
         lists, counts, IxType, Element, ElementType, Pointer, ListType, ThreadType, Threads,
         Producers, CallType, SwitchInv, MarkerPlaces, PointerPlaces, LinkedPlaces
<1>15. OrderInv(where, at)'
  BY ConstantsAssumption, MinFree DEF Inv, EnqStart, Free, Goto, ReadLast, tail, reclaim, notes,
         lists, counts, ElementType, Element, Pointer, ThreadType, Threads, Producers, OrderInv,
         MarkerPlaces, PointerPlaces, LinkedPlaces
<1>16. PointerInv(where, at)'
  BY ConstantsAssumption, MinFree DEF Inv, EnqStart, Free, Goto, ReadLast, tail, reclaim, notes,
         lists, counts, IxType, Element, ElementType, Pointer, ThreadType, Threads, Producers,
         ConsumerInv, CleanPlaces, MarkerPlaces, PointerPlaces, LinkedPlaces, HoldPlaces,
         ProducerInv, OwnInv, QueueInv, IsList, PlaceInv, OrderInv, PointerInv, Pointers, Waited
<1>17. MoveInv(at)'
  BY ConstantsAssumption, MinFree DEF Inv, EnqStart, Free, Goto, ReadLast, tail, reclaim, notes,
         lists, counts, ElementType, Element, Pointer, ThreadType, Threads, Producers, MoveInv
<1>18. ListType' /\ CallType' /\ NoteType'
  BY ConstantsAssumption DEF Inv, ListType, Pointer, Element, CallType, NoteType, EnqStart,
         Goto, ReadLast, tail, reclaim, notes, lists, counts
<1> QED BY <1>5, <1>6, <1>7, <1>8, <1>9, <1>10, <1>11, <1>12, <1>13, <1>14, <1>15, <1>16, <1>17,
               <1>18 DEF Inv

\* One more is counted,
LEMMA EnqIncStep ==
  ASSUME NEW where \in [Element -> Lists], NEW at \in [Element -> Int], Inv(where, at),
         NEW p \in Producers, EnqInc(p)
  PROVE  Inv(where, at)'
<1>1. CountInv'
  <2>1. p \in Unmanaged
    BY ConstantsAssumption DEF Inv, ProducerInv, EnqInc, Goto, Producers, PointerPlaces,
       LinkedPlaces
  <2>2. PICK j \in 0 .. 1 : um_ix[p] = j
    BY <2>1 DEF Inv, IxType
  <2>3. pc[p] = "inc" /\ pc'[p] = "reread_ix" /\ \A u \in Threads \ {p} : pc'[u] = pc[u]
    BY DEF Inv, EnqInc, Goto, Threads, ThreadType, Producers
  <2>4. /\ p \notin Counted(j)
        /\ \A i \in 0 .. 1 : Counted(i)' = IF i = j THEN Counted(i) \cup {p} ELSE Counted(i)
    BY <2>1, <2>2, <2>3 DEF Counted, EnqInc, locals, CountPlaces, PointerPlaces, LinkedPlaces,
       Threads, Producers
  <2>5. CountInv /\ um_refc \in [0 .. 1 -> Int] /\ um_refc' = [um_refc EXCEPT ![j] = @ + 1]
    BY <2>1, <2>2 DEF Inv, IxType, EnqInc
  <2> HIDE <2>2
  <2> QED BY Zenon, <2>1, <2>3, <2>4, <2>5, CountOne
<1>2. IxType'
  BY ConstantsAssumption DEF Inv, EnqInc, Goto, elements, reclaim, notes, lists, locals, counts,
         IxType, Element, ElementType, Pointer, ListType, ThreadType, Threads, Producers,
         CallType, ConsumerInv, CleanPlaces, MarkerPlaces, PointerPlaces, LinkedPlaces,
         HoldPlaces, ProducerInv
<1>3. ThreadType'
  BY ConstantsAssumption DEF Inv, EnqInc, Goto, elements, reclaim, notes, lists, locals, counts,
         ElementType, Element, Pointer, ThreadType, Threads, Producers
<1>4. ConsumerInv'
  BY ConstantsAssumption DEF Inv, EnqInc, Goto, elements, reclaim, notes, lists, locals, counts,
         ElementType, Element, Pointer, ThreadType, Threads, Producers, ConsumerInv,
         CleanPlaces, MarkerPlaces, PointerPlaces, LinkedPlaces, HoldPlaces
<1>5. ProducerInv'
  BY ConstantsAssumption DEF Inv, EnqInc, Goto, elements, reclaim, notes, lists, locals, counts,
         ElementType, Element, Pointer, ThreadType, Threads, Producers, ProducerInv, HoldPlaces,
         LinkedPlaces, PointerPlaces
<1>6. OwnInv'
  BY ConstantsAssumption DEF Inv, EnqInc, Goto, elements, reclaim, notes, lists, locals, counts,
         ElementType, Element, Pointer, ThreadType, Threads, Producers, OwnInv, HoldPlaces,
         LinkedPlaces
<1>7. SwitchInv'
  BY ConstantsAssumption DEF Inv, EnqInc, Goto, elements, reclaim, notes, lists, locals, counts,
         ElementType, Element, Pointer, ThreadType, Threads, Producers, SwitchInv, MarkerPlaces,
         PointerPlaces, LinkedPlaces
<1>8. PlaceInv(where, at)'
  BY ConstantsAssumption DEF Inv, EnqInc, Goto, elements, reclaim, notes, lists, locals, counts,
         ElementType, Element, Pointer, ThreadType, Threads, Producers, PlaceInv, HoldPlaces
<1>9. OrderInv(where, at)'
  BY ConstantsAssumption DEF Inv, EnqInc, Goto, elements, reclaim, notes, lists, locals, counts,
         ElementType, Element, Pointer, ThreadType, Threads, Producers, OrderInv, MarkerPlaces,
         PointerPlaces, LinkedPlaces
<1>10. PointerInv(where, at)'
  BY ConstantsAssumption DEF Inv, EnqInc, Goto, elements, reclaim, notes, lists, locals, counts,
         ElementType, Element, Pointer, ThreadType, Threads, Producers, PointerInv, Pointers,
         Waited
<1>11. MoveInv(at)'
  BY ConstantsAssumption DEF Inv, EnqInc, Goto, elements, reclaim, notes, lists, locals, counts,
         ElementType, Element, Pointer, ThreadType, Threads, Producers, MoveInv
<1>12. ElementType' /\ ListType' /\ CallType' /\ NoteType'
  BY ConstantsAssumption DEF Inv, ElementType, Element, Pointer, ListType, CallType, NoteType,
         EnqInc, Goto, elements, reclaim, notes, lists, locals, counts
<1>13. QueueInv(where, at)' /\ ListInv(where, at)'
  BY DEF Inv, QueueInv, Element, IsList, ListInv, EnqInc, Goto, elements, reclaim, notes, lists,
         locals, counts
<1> QED BY <1>1, <1>2, <1>3, <1>4, <1>5, <1>6, <1>7, <1>8, <1>9, <1>10, <1>11, <1>12, <1>13 DEF
               Inv

\* the counter is the right one or not,
LEMMA EnqRereadIxStep ==
  ASSUME NEW where \in [Element -> Lists], NEW at \in [Element -> Int], Inv(where, at),
         NEW p \in Producers, EnqRereadIx(p)
  PROVE  Inv(where, at)'
<1>1. ThreadType'
  BY ConstantsAssumption DEF Inv, EnqRereadIx, Goto, elements, tail, reclaim, notes, lists,
         locals, counts, ElementType, Element, Pointer, ThreadType, Threads, Producers
<1>2. ConsumerInv'
  BY ConstantsAssumption DEF Inv, EnqRereadIx, Goto, elements, tail, reclaim, notes, lists,
         locals, counts, ElementType, Element, Pointer, ThreadType, Threads, Producers,
         ConsumerInv, CleanPlaces, MarkerPlaces, PointerPlaces, LinkedPlaces, HoldPlaces
<1>3. ProducerInv'
  BY ConstantsAssumption DEF Inv, EnqRereadIx, Goto, elements, tail, reclaim, notes, lists,
         locals, counts, ElementType, Element, Pointer, ThreadType, Threads, Producers,
         ProducerInv, HoldPlaces, LinkedPlaces, PointerPlaces
<1>4. OwnInv'
  BY ConstantsAssumption DEF Inv, EnqRereadIx, Goto, elements, tail, reclaim, notes, lists,
         locals, counts, ElementType, Element, Pointer, ThreadType, Threads, Producers, OwnInv,
         HoldPlaces, LinkedPlaces
<1>5. CountInv'
  BY ConstantsAssumption, CountSame DEF Inv, EnqRereadIx, Goto, elements, tail, reclaim, notes,
         lists, locals, counts, ElementType, Element, Pointer, ThreadType, Threads, Producers,
         CountPlaces, PointerPlaces, LinkedPlaces
<1>6. SwitchInv'
  BY ConstantsAssumption DEF Inv, EnqRereadIx, Goto, elements, tail, reclaim, notes, lists,
         locals, counts, ElementType, Element, Pointer, ThreadType, Threads, Producers,
         SwitchInv, MarkerPlaces, PointerPlaces, LinkedPlaces
<1>7. PlaceInv(where, at)'
  BY ConstantsAssumption DEF Inv, EnqRereadIx, Goto, elements, tail, reclaim, notes, lists,
         locals, counts, ElementType, Element, Pointer, ThreadType, Threads, Producers,
         PlaceInv, HoldPlaces
<1>8. OrderInv(where, at)'
  BY ConstantsAssumption DEF Inv, EnqRereadIx, Goto, elements, tail, reclaim, notes, lists,
         locals, counts, ElementType, Element, Pointer, ThreadType, Threads, Producers,
         OrderInv, MarkerPlaces, PointerPlaces, LinkedPlaces
<1>9. PointerInv(where, at)'
  BY ConstantsAssumption DEF Inv, EnqRereadIx, Goto, elements, tail, reclaim, notes, lists,
         locals, counts, ElementType, Element, Pointer, ThreadType, Threads, Producers,
         PointerInv, Pointers, Waited
<1>10. MoveInv(at)'
  BY ConstantsAssumption DEF Inv, EnqRereadIx, Goto, elements, tail, reclaim, notes, lists,
         locals, counts, ElementType, Element, Pointer, ThreadType, Threads, Producers, MoveInv
<1>11. IxType' /\ ElementType' /\ ListType' /\ CallType' /\ NoteType'
  BY ConstantsAssumption DEF Inv, IxType, Element, ElementType, Pointer, ListType, CallType,
         NoteType, EnqRereadIx, Goto, elements, tail, reclaim, notes, lists, locals, counts
<1>12. QueueInv(where, at)' /\ ListInv(where, at)'
  BY DEF Inv, QueueInv, Element, IsList, ListInv, EnqRereadIx, Goto, elements, tail, reclaim,
         notes, lists, locals, counts
<1> QED BY <1>1, <1>2, <1>3, <1>4, <1>5, <1>6, <1>7, <1>8, <1>9, <1>10, <1>11, <1>12 DEF Inv

\* one less is counted,
LEMMA EnqDecStep ==
  ASSUME NEW where \in [Element -> Lists], NEW at \in [Element -> Int], Inv(where, at),
         NEW p \in Producers, EnqDec(p)
  PROVE  Inv(where, at)'
<1>1. CountInv'
  <2>1. p \in Unmanaged /\ pc[p] = "dec" /\ pc'[p] = "inc" /\ \A u \in Threads \ {p} : pc'[u] = pc[u]
    BY ConstantsAssumption DEF Inv, ProducerInv, EnqDec, Goto, Producers, PointerPlaces,
       LinkedPlaces, Threads, ThreadType
  <2>2. \A u \in Unmanaged, i \in 0 .. 1 :
           (um_ix[u] = i /\ pc[u] \in CountPlaces)' <=>
             um_ix[u] = i /\ pc[u] \in CountPlaces /\ ~(u = p /\ i = um_ix[p])
    BY <2>1 DEF Inv, IxType, EnqDec, CountPlaces, PointerPlaces, LinkedPlaces, Threads, Producers
  <2>3. pc[p] \in CountPlaces
    BY <2>1 DEF CountPlaces
  <2>4. /\ CountInv /\ um_refc \in [0 .. 1 -> Int] /\ um_ix[p] \in 0 .. 1
        /\ um_refc' = [um_refc EXCEPT ![um_ix[p]] = @ - 1]
    BY <2>1 DEF Inv, IxType, EnqDec
  <2> QED BY Zenon, <2>1, <2>2, <2>3, <2>4, UncountOne
<1>2. IxType'
  BY ConstantsAssumption DEF Inv, EnqDec, Goto, elements, reclaim, notes, lists, counts, IxType,
         Element, ElementType, Pointer, ListType, ThreadType, Threads, Producers, CallType,
         ConsumerInv, CleanPlaces, MarkerPlaces, PointerPlaces, LinkedPlaces, HoldPlaces,
         ProducerInv
<1>3. ThreadType'
  BY ConstantsAssumption DEF Inv, EnqDec, Goto, elements, reclaim, notes, lists, counts,
         ElementType, Element, Pointer, ThreadType, Threads, Producers
<1>4. ConsumerInv'
  BY ConstantsAssumption DEF Inv, EnqDec, Goto, elements, reclaim, notes, lists, counts,
         ElementType, Element, Pointer, ThreadType, Threads, Producers, ConsumerInv,
         CleanPlaces, MarkerPlaces, PointerPlaces, LinkedPlaces, HoldPlaces
<1>5. ProducerInv'
  BY ConstantsAssumption DEF Inv, EnqDec, Goto, elements, reclaim, notes, lists, counts,
         ElementType, Element, Pointer, ThreadType, Threads, Producers, ProducerInv, HoldPlaces,
         LinkedPlaces, PointerPlaces
<1>6. OwnInv'
  BY ConstantsAssumption DEF Inv, EnqDec, Goto, elements, reclaim, notes, lists, counts,
         ElementType, Element, Pointer, ThreadType, Threads, Producers, OwnInv, HoldPlaces,
         LinkedPlaces
<1>7. SwitchInv'
  BY ConstantsAssumption DEF Inv, EnqDec, Goto, elements, reclaim, notes, lists, counts,
         ElementType, Element, Pointer, ThreadType, Threads, Producers, SwitchInv, MarkerPlaces,
         PointerPlaces, LinkedPlaces
<1>8. PlaceInv(where, at)'
  BY ConstantsAssumption DEF Inv, EnqDec, Goto, elements, reclaim, notes, lists, counts,
         ElementType, Element, Pointer, ThreadType, Threads, Producers, PlaceInv, HoldPlaces
<1>9. OrderInv(where, at)'
  BY ConstantsAssumption DEF Inv, EnqDec, Goto, elements, reclaim, notes, lists, counts,
         ElementType, Element, Pointer, ThreadType, Threads, Producers, OrderInv, MarkerPlaces,
         PointerPlaces, LinkedPlaces
<1>10. PointerInv(where, at)'
  BY ConstantsAssumption DEF Inv, EnqDec, Goto, elements, reclaim, notes, lists, counts,
         ElementType, Element, Pointer, ThreadType, Threads, Producers, PointerInv, Pointers,
         Waited
<1>11. MoveInv(at)'
  BY ConstantsAssumption DEF Inv, EnqDec, Goto, elements, reclaim, notes, lists, counts,
         ElementType, Element, Pointer, ThreadType, Threads, Producers, MoveInv
<1>12. ElementType' /\ ListType' /\ CallType' /\ NoteType'
  BY ConstantsAssumption DEF Inv, ElementType, Element, Pointer, ListType, CallType, NoteType,
         EnqDec, Goto, elements, reclaim, notes, lists, counts
<1>13. QueueInv(where, at)' /\ ListInv(where, at)'
  BY DEF Inv, QueueInv, Element, IsList, ListInv, EnqDec, Goto, elements, reclaim, notes, lists,
         counts
<1> QED BY <1>1, <1>2, <1>3, <1>4, <1>5, <1>6, <1>7, <1>8, <1>9, <1>10, <1>11, <1>12, <1>13 DEF
               Inv

\* the last pointer is read: it is not behind the unreferenced end.
LEMMA EnqInitStep ==
  ASSUME NEW where \in [Element -> Lists], NEW at \in [Element -> Int], Inv(where, at),
         NEW p \in Producers, EnqInit(p)
  PROVE  Inv(where, at)'
<1>1. ElementType'
  BY ConstantsAssumption DEF Inv, EnqInit, Goto, ReadLast, tail, reclaim, notes, lists, counts,
         IxType, Element, ElementType, Pointer, ListType, ThreadType, Threads, Producers,
         CallType, ConsumerInv, CleanPlaces, MarkerPlaces, PointerPlaces, LinkedPlaces,
         HoldPlaces, ProducerInv
<1>2. ThreadType'
  BY ConstantsAssumption DEF Inv, EnqInit, Goto, ReadLast, tail, reclaim, notes, lists, counts,
         ElementType, Element, Pointer, ThreadType, Threads, Producers
<1>3. ConsumerInv'
  BY ConstantsAssumption DEF Inv, EnqInit, Goto, ReadLast, tail, reclaim, notes, lists, counts,
         ElementType, Element, Pointer, ThreadType, Threads, Producers, ConsumerInv,
         CleanPlaces, MarkerPlaces, PointerPlaces, LinkedPlaces, HoldPlaces
<1>4. ProducerInv'
  BY ConstantsAssumption DEF Inv, EnqInit, Goto, ReadLast, tail, reclaim, notes, lists, counts,
         ElementType, Element, Pointer, ThreadType, Threads, Producers, ProducerInv, HoldPlaces,
         LinkedPlaces, PointerPlaces
<1>5. OwnInv'
  BY ConstantsAssumption DEF Inv, EnqInit, Goto, ReadLast, tail, reclaim, notes, lists, counts,
         ElementType, Element, Pointer, ThreadType, Threads, Producers, OwnInv, HoldPlaces,
         LinkedPlaces
<1>6. CountInv'
  BY ConstantsAssumption, CountSame DEF Inv, EnqInit, Goto, ReadLast, tail, reclaim, notes,
         lists, counts, ElementType, Element, Pointer, ThreadType, Threads, Producers,
         CountPlaces, PointerPlaces, LinkedPlaces
<1>7. SwitchInv'
  BY ConstantsAssumption DEF Inv, EnqInit, Goto, ReadLast, tail, reclaim, notes, lists, counts,
         ElementType, Element, Pointer, ThreadType, Threads, Producers, SwitchInv, MarkerPlaces,
         PointerPlaces, LinkedPlaces
<1>8. QueueInv(where, at)'
  <2>1. next' = next
    <3>1. this[p] \in El /\ next[this[p]] = Null
      BY DEF EnqInit, Goto, Inv, ProducerInv, PlaceInv, HoldPlaces
    <3> QED BY <3>1 DEF EnqInit, ReadLast, Inv, ElementType, Element
  <2> QED BY <2>1 DEF EnqInit, Inv, QueueInv, IsList, reclaim
<1>9. ListInv(where, at)'
  <2>1. next' = next
    <3>1. this[p] \in El /\ next[this[p]] = Null
      BY DEF EnqInit, Goto, Inv, ProducerInv, PlaceInv, HoldPlaces
    <3> QED BY <3>1 DEF EnqInit, ReadLast, Inv, ElementType, Element
  <2> QED BY <2>1 DEF EnqInit, Inv, ListInv, IsList, reclaim, lists
<1>10. PlaceInv(where, at)'
  BY ConstantsAssumption DEF Inv, EnqInit, Goto, ReadLast, tail, reclaim, notes, lists, counts,
         ElementType, Element, Pointer, ThreadType, Threads, Producers, PlaceInv, HoldPlaces
<1>11. OrderInv(where, at)'
  BY ConstantsAssumption DEF Inv, EnqInit, Goto, ReadLast, tail, reclaim, notes, lists, counts,
         ElementType, Element, Pointer, ThreadType, Threads, Producers, OrderInv, MarkerPlaces,
         PointerPlaces, LinkedPlaces
<1>12. PointerInv(where, at)'
  BY ConstantsAssumption DEF Inv, EnqInit, Goto, ReadLast, tail, reclaim, notes, lists, counts,
         IxType, Element, ElementType, Pointer, ThreadType, Threads, Producers, ConsumerInv,
         CleanPlaces, MarkerPlaces, PointerPlaces, LinkedPlaces, HoldPlaces, ProducerInv,
         OwnInv, QueueInv, IsList, PlaceInv, OrderInv, PointerInv, Pointers, Waited
<1>13. MoveInv(at)'
  BY ConstantsAssumption DEF Inv, EnqInit, Goto, ReadLast, tail, reclaim, notes, lists, counts,
         ElementType, Element, Pointer, ThreadType, Threads, Producers, MoveInv
<1>14. IxType' /\ ListType' /\ CallType' /\ NoteType'
  BY ConstantsAssumption DEF Inv, IxType, Element, ListType, Pointer, CallType, NoteType,
         EnqInit, Goto, ReadLast, tail, reclaim, notes, lists, counts
<1> QED BY <1>1, <1>2, <1>3, <1>4, <1>5, <1>6, <1>7, <1>8, <1>9, <1>10, <1>11, <1>12, <1>13,
               <1>14 DEF Inv

\* A reference is dropped.
LEMMA EnqUnrefStep ==
  ASSUME NEW where \in [Element -> Lists], NEW at \in [Element -> Int], Inv(where, at),
         NEW p \in Producers, EnqUnref(p)
  PROVE  Inv(where, at)'
<1>1. CountInv'
  <2>1. p \in Unmanaged /\ pc[p] = "linked" /\ pc'[p] \in {"notify", "idle"} /\ \A u \in Threads \ {p} : pc'[u] = pc[u]
    BY DEF Inv, EnqUnref, Leave, Goto, Threads, ThreadType, Producers
  <2>2. \A u \in Unmanaged, i \in 0 .. 1 :
           (um_ix[u] = i /\ pc[u] \in CountPlaces)' <=>
             um_ix[u] = i /\ pc[u] \in CountPlaces /\ ~(u = p /\ i = um_ix[p])
    BY <2>1 DEF Inv, IxType, EnqUnref, CountPlaces, PointerPlaces, LinkedPlaces, Threads,
       Producers
  <2>3. pc[p] \in CountPlaces
    BY <2>1 DEF CountPlaces
  <2>4. /\ CountInv /\ um_refc \in [0 .. 1 -> Int] /\ um_ix[p] \in 0 .. 1
        /\ um_refc' = [um_refc EXCEPT ![um_ix[p]] = @ - 1]
    BY <2>1 DEF Inv, IxType, EnqUnref
  <2> QED BY Zenon, <2>1, <2>2, <2>3, <2>4, UncountOne
<1>2. IxType'
  BY ConstantsAssumption DEF Inv, EnqUnref, Leave, Goto, elements, reclaim, notes, lists,
         counts, IxType, Element, ElementType, Pointer, ThreadType, Threads, Producers
<1>3. ThreadType'
  BY ConstantsAssumption DEF Inv, EnqUnref, Leave, Goto, elements, reclaim, notes, lists,
         counts, ElementType, Element, Pointer, ThreadType, Threads, Producers
<1>4. ConsumerInv'
  BY ConstantsAssumption DEF Inv, EnqUnref, Leave, Goto, elements, reclaim, notes, lists,
         counts, ElementType, Element, Pointer, ThreadType, Threads, Producers, ConsumerInv,
         CleanPlaces, MarkerPlaces, PointerPlaces, LinkedPlaces, HoldPlaces
<1>5. ProducerInv'
  BY ConstantsAssumption DEF Inv, EnqUnref, Leave, Goto, elements, reclaim, notes, lists,
         counts, ElementType, Element, Pointer, ThreadType, Threads, Producers, ProducerInv,
         HoldPlaces, LinkedPlaces, PointerPlaces
<1>6. OwnInv'
  BY ConstantsAssumption DEF Inv, EnqUnref, Leave, Goto, elements, reclaim, notes, lists,
         counts, ElementType, Element, Pointer, ThreadType, Threads, Producers, OwnInv,
         HoldPlaces, LinkedPlaces
<1>7. SwitchInv'
  BY ConstantsAssumption DEF Inv, EnqUnref, Leave, Goto, elements, reclaim, notes, lists,
         counts, ElementType, Element, Pointer, ThreadType, Threads, Producers, SwitchInv,
         MarkerPlaces, PointerPlaces, LinkedPlaces
<1>8. PlaceInv(where, at)'
  BY ConstantsAssumption DEF Inv, EnqUnref, Leave, Goto, elements, reclaim, notes, lists,
         counts, ElementType, Element, Pointer, ThreadType, Threads, Producers, PlaceInv,
         HoldPlaces
<1>9. OrderInv(where, at)'
  BY ConstantsAssumption DEF Inv, EnqUnref, Leave, Goto, elements, reclaim, notes, lists,
         counts, ElementType, Element, Pointer, ThreadType, Threads, Producers, OrderInv,
         MarkerPlaces, PointerPlaces, LinkedPlaces
<1>10. PointerInv(where, at)'
  BY ConstantsAssumption DEF Inv, EnqUnref, Leave, Goto, elements, reclaim, notes, lists,
         counts, ElementType, Element, Pointer, ThreadType, Threads, Producers, PointerInv,
         Pointers, Waited
<1>11. MoveInv(at)'
  BY ConstantsAssumption DEF Inv, EnqUnref, Leave, Goto, elements, reclaim, notes, lists,
         counts, ElementType, Element, Pointer, ThreadType, Threads, Producers, MoveInv
<1>12. ElementType' /\ ListType' /\ CallType' /\ NoteType'
  BY ConstantsAssumption DEF Inv, ElementType, Element, Pointer, ListType, CallType, NoteType,
         EnqUnref, Leave, Goto, elements, reclaim, notes, lists, counts
<1>13. QueueInv(where, at)' /\ ListInv(where, at)'
  BY DEF Inv, QueueInv, Element, IsList, ListInv, EnqUnref, Leave, Goto, elements, reclaim,
         notes, lists, counts
<1> QED BY <1>1, <1>2, <1>3, <1>4, <1>5, <1>6, <1>7, <1>8, <1>9, <1>10, <1>11, <1>12, <1>13 DEF
               Inv

\* Notifications are about no list.
LEMMA EnqNotifyStep ==
  ASSUME NEW where \in [Element -> Lists], NEW at \in [Element -> Int], Inv(where, at),
         NEW p \in Producers, EnqNotify(p)
  PROVE  Inv(where, at)'
<1>1. ThreadType'
  BY ConstantsAssumption DEF Inv, EnqNotify, Goto, Notify, elements, tail, reclaim, lists,
         locals, counts, ElementType, Element, Pointer, ThreadType, Threads, Producers
<1>2. ConsumerInv'
  BY ConstantsAssumption DEF Inv, EnqNotify, Goto, Notify, elements, tail, reclaim, lists,
         locals, counts, ElementType, Element, Pointer, ThreadType, Threads, Producers,
         ConsumerInv, CleanPlaces, MarkerPlaces, PointerPlaces, LinkedPlaces, HoldPlaces
<1>3. ProducerInv'
  BY ConstantsAssumption DEF Inv, EnqNotify, Goto, Notify, elements, tail, reclaim, lists,
         locals, counts, ElementType, Element, Pointer, ThreadType, Threads, Producers,
         ProducerInv, HoldPlaces, LinkedPlaces, PointerPlaces
<1>4. OwnInv'
  BY ConstantsAssumption DEF Inv, EnqNotify, Goto, Notify, elements, tail, reclaim, lists,
         locals, counts, ElementType, Element, Pointer, ThreadType, Threads, Producers, OwnInv,
         HoldPlaces, LinkedPlaces
<1>5. CountInv'
  BY ConstantsAssumption, CountSame DEF Inv, EnqNotify, Goto, Notify, elements, tail, reclaim,
         lists, locals, counts, ElementType, Element, Pointer, ThreadType, Threads, Producers,
         CountPlaces, PointerPlaces, LinkedPlaces
<1>6. SwitchInv'
  BY ConstantsAssumption DEF Inv, EnqNotify, Goto, Notify, elements, tail, reclaim, lists,
         locals, counts, ElementType, Element, Pointer, ThreadType, Threads, Producers,
         SwitchInv, MarkerPlaces, PointerPlaces, LinkedPlaces
<1>7. PlaceInv(where, at)'
  BY ConstantsAssumption DEF Inv, EnqNotify, Goto, Notify, elements, tail, reclaim, lists,
         locals, counts, ElementType, Element, Pointer, ThreadType, Threads, Producers,
         PlaceInv, HoldPlaces
<1>8. OrderInv(where, at)'
  BY ConstantsAssumption DEF Inv, EnqNotify, Goto, Notify, elements, tail, reclaim, lists,
         locals, counts, ElementType, Element, Pointer, ThreadType, Threads, Producers,
         OrderInv, MarkerPlaces, PointerPlaces, LinkedPlaces
<1>9. PointerInv(where, at)'
  BY ConstantsAssumption DEF Inv, EnqNotify, Goto, Notify, elements, tail, reclaim, lists,
         locals, counts, ElementType, Element, Pointer, ThreadType, Threads, Producers,
         PointerInv, Pointers, Waited
<1>10. MoveInv(at)'
  BY ConstantsAssumption DEF Inv, EnqNotify, Goto, Notify, elements, tail, reclaim, lists,
         locals, counts, ElementType, Element, Pointer, ThreadType, Threads, Producers, MoveInv
<1>11. IxType' /\ ElementType' /\ ListType' /\ CallType' /\ NoteType'
  BY ConstantsAssumption DEF Inv, IxType, Element, ElementType, Pointer, ListType, CallType,
         NoteType, EnqNotify, Goto, Notify, elements, tail, reclaim, lists, locals, counts
<1>12. QueueInv(where, at)' /\ ListInv(where, at)'
  BY DEF Inv, QueueInv, Element, IsList, ListInv, EnqNotify, Goto, Notify, elements, tail,
         reclaim, lists, locals, counts
<1> QED BY <1>1, <1>2, <1>3, <1>4, <1>5, <1>6, <1>7, <1>8, <1>9, <1>10, <1>11, <1>12 DEF Inv

\* A managed producer that is idle has no pointers.
LEMMA QuiesceStep ==
  ASSUME NEW where \in [Element -> Lists], NEW at \in [Element -> Int], Inv(where, at),
         NEW p \in Producers, Quiesce(p)
  PROVE  Inv(where, at)'
<1>1. IxType'
  BY ConstantsAssumption DEF Inv, Quiesce, elements, tail, notes, lists, locals, counts, IxType,
         Element, ElementType, Pointer, ThreadType, Threads, Producers
<1>2. PointerInv(where, at)'
  BY ConstantsAssumption DEF Inv, Quiesce, elements, tail, notes, lists, locals, counts,
         ElementType, Element, Pointer, ThreadType, Threads, Producers, PointerInv, Pointers,
         Waited
<1>3. ElementType' /\ ListType' /\ ThreadType' /\ CallType' /\ NoteType' /\ ConsumerInv' /\
      ProducerInv' /\ OwnInv' /\ CountInv' /\ SwitchInv' /\ PlaceInv(where, at)' /\
      OrderInv(where, at)' /\ MoveInv(at)'
  BY ConstantsAssumption DEF Inv, ElementType, Element, Pointer, ListType, ThreadType, Threads,
         Producers, CallType, NoteType, ConsumerInv, CleanPlaces, MarkerPlaces, PointerPlaces,
         LinkedPlaces, HoldPlaces, ProducerInv, OwnInv, CountInv, Counted, CountPlaces,
         SwitchInv, PlaceInv, OrderInv, MoveInv, Quiesce, elements, tail, notes, lists, locals,
         counts
<1>4. QueueInv(where, at)' /\ ListInv(where, at)'
  BY DEF Inv, QueueInv, Element, IsList, ListInv, Quiesce, elements, tail, notes, lists, locals,
         counts
<1> QED BY <1>1, <1>2, <1>3, <1>4 DEF Inv

\* Pointers are followed within the queue, forward.
LEMMA EnqFollowStep ==
  ASSUME NEW where \in [Element -> Lists], NEW at \in [Element -> Int], Inv(where, at),
         NEW t \in Threads, EnqFollow(t)
  PROVE  Inv(where, at)'
<1>1. ThreadType'
  BY ConstantsAssumption DEF Inv, EnqFollow, elements, tail, reclaim, notes, lists, counts,
         IxType, Element, ElementType, Pointer, ThreadType, Threads, Producers, ConsumerInv,
         CleanPlaces, MarkerPlaces, PointerPlaces, LinkedPlaces, HoldPlaces, ProducerInv,
         OwnInv, SwitchInv, QueueInv, IsList, PlaceInv, OrderInv, PointerInv, Pointers, Waited,
         MoveInv
<1>2. ProducerInv'
  BY ConstantsAssumption DEF Inv, EnqFollow, elements, tail, reclaim, notes, lists, counts,
         ElementType, Element, Pointer, ThreadType, Threads, Producers, ProducerInv, HoldPlaces,
         LinkedPlaces, PointerPlaces
<1>3. OrderInv(where, at)'
  BY ConstantsAssumption DEF Inv, EnqFollow, elements, tail, reclaim, notes, lists, counts,
         ElementType, Element, Pointer, ThreadType, Threads, Producers, OrderInv, MarkerPlaces,
         PointerPlaces, LinkedPlaces
<1>4. PointerInv(where, at)'
  BY ConstantsAssumption DEF Inv, EnqFollow, elements, tail, reclaim, notes, lists, counts,
         IxType, Element, ElementType, Pointer, ListType, ThreadType, Threads, Producers,
         ConsumerInv, CleanPlaces, MarkerPlaces, PointerPlaces, LinkedPlaces, HoldPlaces,
         ProducerInv, OwnInv, QueueInv, IsList, PlaceInv, PointerInv, Pointers, Waited
<1>5. MoveInv(at)'
  BY ConstantsAssumption DEF Inv, EnqFollow, elements, tail, reclaim, notes, lists, counts,
         ElementType, Element, Pointer, ThreadType, Threads, Producers, MoveInv
<1>6. IxType' /\ ElementType' /\ ListType' /\ CallType' /\ NoteType' /\ ConsumerInv' /\ OwnInv'
      /\ CountInv' /\ SwitchInv' /\ PlaceInv(where, at)'
  BY ConstantsAssumption DEF Inv, IxType, Element, ElementType, Pointer, ListType, CallType,
         NoteType, ConsumerInv, CleanPlaces, MarkerPlaces, PointerPlaces, LinkedPlaces,
         HoldPlaces, OwnInv, Threads, Producers, CountInv, Counted, CountPlaces, SwitchInv,
         PlaceInv, EnqFollow, elements, tail, reclaim, notes, lists, counts
<1>7. QueueInv(where, at)' /\ ListInv(where, at)'
  BY DEF Inv, QueueInv, Element, IsList, ListInv, EnqFollow, elements, tail, reclaim, notes,
         lists, counts
<1> QED BY <1>1, <1>2, <1>3, <1>4, <1>5, <1>6, <1>7 DEF Inv

\* There is a next element,
LEMMA EnqCheckStep ==
  ASSUME NEW where \in [Element -> Lists], NEW at \in [Element -> Int], Inv(where, at),
         NEW t \in Threads, EnqCheck(t)
  PROVE  Inv(where, at)'
<1>1. ThreadType'
  BY ConstantsAssumption DEF Inv, EnqCheck, Goto, elements, tail, reclaim, notes, lists, locals,
         counts, ElementType, Element, Pointer, ThreadType, Threads, Producers
<1>2. ConsumerInv'
  BY ConstantsAssumption DEF Inv, EnqCheck, Goto, elements, tail, reclaim, notes, lists, locals,
         counts, ElementType, Element, Pointer, ThreadType, Threads, Producers, ConsumerInv,
         CleanPlaces, MarkerPlaces, PointerPlaces, LinkedPlaces, HoldPlaces
<1>3. ProducerInv'
  BY ConstantsAssumption DEF Inv, EnqCheck, Goto, elements, tail, reclaim, notes, lists, locals,
         counts, ElementType, Element, Pointer, ThreadType, Threads, Producers, ProducerInv,
         HoldPlaces, LinkedPlaces, PointerPlaces
<1>4. OwnInv'
  BY ConstantsAssumption DEF Inv, EnqCheck, Goto, elements, tail, reclaim, notes, lists, locals,
         counts, ElementType, Element, Pointer, ThreadType, Threads, Producers, OwnInv,
         HoldPlaces, LinkedPlaces
<1>5. CountInv'
  BY ConstantsAssumption, CountSame DEF Inv, EnqCheck, Goto, elements, tail, reclaim, notes,
         lists, locals, counts, ElementType, Element, Pointer, ThreadType, Threads, Producers,
         CountPlaces, PointerPlaces, LinkedPlaces
<1>6. SwitchInv'
  BY ConstantsAssumption DEF Inv, EnqCheck, Goto, elements, tail, reclaim, notes, lists, locals,
         counts, ElementType, Element, Pointer, ThreadType, Threads, Producers, SwitchInv,
         MarkerPlaces, PointerPlaces, LinkedPlaces
<1>7. PlaceInv(where, at)'
  BY ConstantsAssumption DEF Inv, EnqCheck, Goto, elements, tail, reclaim, notes, lists, locals,
         counts, ElementType, Element, Pointer, ThreadType, Threads, Producers, PlaceInv,
         HoldPlaces
<1>8. OrderInv(where, at)'
  BY ConstantsAssumption DEF Inv, EnqCheck, Goto, elements, tail, reclaim, notes, lists, locals,
         counts, ElementType, Element, Pointer, ThreadType, Threads, Producers, OrderInv,
         MarkerPlaces, PointerPlaces, LinkedPlaces
<1>9. PointerInv(where, at)'
  BY ConstantsAssumption DEF Inv, EnqCheck, Goto, elements, tail, reclaim, notes, lists, locals,
         counts, ElementType, Element, Pointer, ThreadType, Threads, Producers, PointerInv,
         Pointers, Waited
<1>10. MoveInv(at)'
  BY ConstantsAssumption DEF Inv, EnqCheck, Goto, elements, tail, reclaim, notes, lists, locals,
         counts, IxType, Element, ElementType, Pointer, ThreadType, Threads, Producers,
         ConsumerInv, CleanPlaces, MarkerPlaces, PointerPlaces, LinkedPlaces, HoldPlaces,
         ProducerInv, OwnInv, SwitchInv, QueueInv, IsList, PlaceInv, OrderInv, PointerInv,
         Pointers, Waited, MoveInv
<1>11. IxType' /\ ElementType' /\ ListType' /\ CallType' /\ NoteType'
  BY ConstantsAssumption DEF Inv, IxType, Element, ElementType, Pointer, ListType, CallType,
         NoteType, EnqCheck, Goto, elements, tail, reclaim, notes, lists, locals, counts
<1>12. QueueInv(where, at)' /\ ListInv(where, at)'
  BY DEF Inv, QueueInv, Element, IsList, ListInv, EnqCheck, Goto, elements, tail, reclaim,
         notes, lists, locals, counts
<1> QED BY <1>1, <1>2, <1>3, <1>4, <1>5, <1>6, <1>7, <1>8, <1>9, <1>10, <1>11, <1>12 DEF Inv

\* or not,
LEMMA EnqRereadStep ==
  ASSUME NEW where \in [Element -> Lists], NEW at \in [Element -> Int], Inv(where, at),
         NEW t \in Threads, EnqReread(t)
  PROVE  Inv(where, at)'
<1>1. ThreadType'
  BY ConstantsAssumption DEF Inv, EnqReread, Leave, Goto, Linked, elements, tail, reclaim,
         notes, lists, counts, ElementType, Element, Pointer, ThreadType, Threads, Producers
<1>2. ConsumerInv'
  BY ConstantsAssumption DEF Inv, EnqReread, Leave, Goto, Linked, elements, tail, reclaim,
         notes, lists, counts, ElementType, Element, Pointer, ThreadType, Threads, Producers,
         ConsumerInv, CleanPlaces, MarkerPlaces, PointerPlaces, LinkedPlaces, HoldPlaces
<1>3. ProducerInv'
  BY ConstantsAssumption DEF Inv, EnqReread, Leave, Goto, Linked, elements, tail, reclaim,
         notes, lists, counts, ElementType, Element, Pointer, ThreadType, Threads, Producers,
         ProducerInv, HoldPlaces, LinkedPlaces, PointerPlaces
<1>4. OwnInv'
  BY ConstantsAssumption DEF Inv, EnqReread, Leave, Goto, Linked, elements, tail, reclaim,
         notes, lists, counts, ElementType, Element, Pointer, ThreadType, Threads, Producers,
         OwnInv, HoldPlaces, LinkedPlaces
<1>5. CountInv'
  BY ConstantsAssumption, CountSame DEF Inv, EnqReread, Leave, Goto, Linked, elements, tail,
         reclaim, notes, lists, counts, ElementType, Element, Pointer, ThreadType, Threads,
         Producers, CountPlaces, PointerPlaces, LinkedPlaces
<1>6. SwitchInv'
  BY ConstantsAssumption DEF Inv, EnqReread, Leave, Goto, Linked, elements, tail, reclaim,
         notes, lists, counts, ElementType, Element, Pointer, ThreadType, Threads, Producers,
         SwitchInv, MarkerPlaces, PointerPlaces, LinkedPlaces
<1>7. PlaceInv(where, at)'
  BY ConstantsAssumption DEF Inv, EnqReread, Leave, Goto, Linked, elements, tail, reclaim,
         notes, lists, counts, ElementType, Element, Pointer, ThreadType, Threads, Producers,
         PlaceInv, HoldPlaces
<1>8. OrderInv(where, at)'
  BY ConstantsAssumption DEF Inv, EnqReread, Leave, Goto, Linked, elements, tail, reclaim,
         notes, lists, counts, ElementType, Element, Pointer, ThreadType, Threads, Producers,
         OrderInv, MarkerPlaces, PointerPlaces, LinkedPlaces
<1>9. PointerInv(where, at)'
  BY ConstantsAssumption DEF Inv, EnqReread, Leave, Goto, Linked, elements, tail, reclaim,
         notes, lists, counts, ElementType, Element, Pointer, ThreadType, Threads, Producers,
         PointerInv, Pointers, Waited
<1>10. MoveInv(at)'
  BY ConstantsAssumption DEF Inv, EnqReread, Leave, Goto, Linked, elements, tail, reclaim,
         notes, lists, counts, ElementType, Element, Pointer, ThreadType, Threads, Producers,
         MoveInv
<1>11. IxType' /\ ElementType' /\ ListType' /\ CallType' /\ NoteType'
  BY ConstantsAssumption DEF Inv, IxType, Element, ElementType, Pointer, ListType, CallType,
         NoteType, EnqReread, Leave, Goto, Linked, elements, tail, reclaim, notes, lists, counts
<1>12. QueueInv(where, at)' /\ ListInv(where, at)'
  BY DEF Inv, QueueInv, Element, IsList, ListInv, EnqReread, Leave, Goto, Linked, elements,
         tail, reclaim, notes, lists, counts
<1> QED BY <1>1, <1>2, <1>3, <1>4, <1>5, <1>6, <1>7, <1>8, <1>9, <1>10, <1>11, <1>12 DEF Inv

\* and the last pointer moves forward.
LEMMA EnqMoveStep ==
  ASSUME NEW where \in [Element -> Lists], NEW at \in [Element -> Int], Inv(where, at),
         NEW t \in Threads, EnqMove(t)
  PROVE  Inv(where, at)'
<1>1. ElementType'
  BY ConstantsAssumption DEF Inv, EnqMove, Leave, Goto, Linked, elements, reclaim, notes, lists,
         counts, IxType, Element, ElementType, Pointer, ListType, ThreadType, Threads,
         Producers, CallType, ConsumerInv, CleanPlaces, MarkerPlaces, PointerPlaces,
         LinkedPlaces, HoldPlaces, ProducerInv
<1>2. ThreadType'
  BY ConstantsAssumption DEF Inv, EnqMove, Leave, Goto, Linked, elements, reclaim, notes, lists,
         counts, ElementType, Element, Pointer, ThreadType, Threads, Producers
<1>3. ConsumerInv'
  BY ConstantsAssumption DEF Inv, EnqMove, Leave, Goto, Linked, elements, reclaim, notes, lists,
         counts, ElementType, Element, Pointer, ThreadType, Threads, Producers, ConsumerInv,
         CleanPlaces, MarkerPlaces, PointerPlaces, LinkedPlaces, HoldPlaces
<1>4. ProducerInv'
  BY ConstantsAssumption DEF Inv, EnqMove, Leave, Goto, Linked, elements, reclaim, notes, lists,
         counts, ElementType, Element, Pointer, ThreadType, Threads, Producers, ProducerInv,
         HoldPlaces, LinkedPlaces, PointerPlaces
<1>5. OwnInv'
  BY ConstantsAssumption DEF Inv, EnqMove, Leave, Goto, Linked, elements, reclaim, notes, lists,
         counts, ElementType, Element, Pointer, ThreadType, Threads, Producers, OwnInv,
         HoldPlaces, LinkedPlaces
<1>6. CountInv'
  BY ConstantsAssumption, CountSame DEF Inv, EnqMove, Leave, Goto, Linked, elements, reclaim,
         notes, lists, counts, ElementType, Element, Pointer, ThreadType, Threads, Producers,
         CountPlaces, PointerPlaces, LinkedPlaces
<1>7. SwitchInv'
  BY ConstantsAssumption DEF Inv, EnqMove, Leave, Goto, Linked, elements, reclaim, notes, lists,
         counts, ElementType, Element, Pointer, ThreadType, Threads, Producers, SwitchInv,
         MarkerPlaces, PointerPlaces, LinkedPlaces
<1>8. PlaceInv(where, at)'
  BY ConstantsAssumption DEF Inv, EnqMove, Leave, Goto, Linked, elements, reclaim, notes, lists,
         counts, ElementType, Element, Pointer, ThreadType, Threads, Producers, PlaceInv,
         HoldPlaces
<1>9. OrderInv(where, at)'
  BY ConstantsAssumption DEF Inv, EnqMove, Leave, Goto, Linked, elements, reclaim, notes, lists,
         counts, IxType, Element, ElementType, Pointer, ThreadType, Threads, Producers,
         ConsumerInv, CleanPlaces, MarkerPlaces, PointerPlaces, LinkedPlaces, HoldPlaces,
         ProducerInv, OwnInv, SwitchInv, QueueInv, IsList, PlaceInv, OrderInv, PointerInv,
         Pointers, Waited, MoveInv
<1>10. PointerInv(where, at)'
  BY ConstantsAssumption DEF Inv, EnqMove, Leave, Goto, Linked, elements, reclaim, notes, lists,
         counts, IxType, Element, ElementType, Pointer, ThreadType, Threads, Producers,
         ConsumerInv, CleanPlaces, MarkerPlaces, PointerPlaces, LinkedPlaces, HoldPlaces,
         ProducerInv, OwnInv, QueueInv, IsList, PlaceInv, OrderInv, PointerInv, Pointers, Waited
<1>11. MoveInv(at)'
  BY ConstantsAssumption DEF Inv, EnqMove, Leave, Goto, Linked, elements, reclaim, notes, lists,
         counts, IxType, Element, ElementType, Pointer, ThreadType, Threads, Producers,
         ConsumerInv, CleanPlaces, MarkerPlaces, PointerPlaces, LinkedPlaces, HoldPlaces,
         ProducerInv, OwnInv, PlaceInv, MoveInv
<1>12. IxType' /\ ListType' /\ CallType' /\ NoteType'
  BY ConstantsAssumption DEF Inv, IxType, Element, ListType, Pointer, CallType, NoteType,
         EnqMove, Leave, Goto, Linked, elements, reclaim, notes, lists, counts
<1>13. QueueInv(where, at)' /\ ListInv(where, at)'
  BY DEF Inv, QueueInv, Element, IsList, ListInv, EnqMove, Leave, Goto, Linked, elements,
         reclaim, notes, lists, counts
<1> QED BY <1>1, <1>2, <1>3, <1>4, <1>5, <1>6, <1>7, <1>8, <1>9, <1>10, <1>11, <1>12, <1>13 DEF
               Inv

\* The first element is the head,
LEMMA CleanReachesHeadStep ==
  ASSUME NEW where \in [Element -> Lists], NEW at \in [Element -> Int], Inv(where, at),
         CleanReachesHead
  PROVE  Inv(where, at)'
<1>1. ThreadType'
  BY ConstantsAssumption DEF Inv, CleanReachesHead, InspectHead, Goto, notes, Return, NoCall,
         Notify, elements, tail, lists, counts, ElementType, Element, Pointer, ThreadType,
         Threads, Producers
<1>2. CallType'
  BY CallSteps DEF Inv
<1>3. NoteType'
  BY ConstantsAssumption DEF Inv, CleanReachesHead, InspectHead, Goto, notes, Return, NoCall,
         Notify, elements, tail, lists, counts, ElementType, Element, Pointer, ThreadType,
         Threads, Producers, NoteType
<1>4. ConsumerInv'
  BY ConstantsAssumption DEF Inv, CleanReachesHead, InspectHead, Goto, notes, Return, NoCall,
         Notify, elements, tail, lists, counts, IxType, Element, ElementType, Pointer, ListType,
         ThreadType, Threads, Producers, CallType, ConsumerInv, CleanPlaces, MarkerPlaces,
         PointerPlaces, LinkedPlaces, HoldPlaces
<1>5. ProducerInv'
  BY ConstantsAssumption DEF Inv, CleanReachesHead, InspectHead, Goto, notes, Return, NoCall,
         Notify, elements, tail, lists, counts, ElementType, Element, Pointer, ThreadType,
         Threads, Producers, ProducerInv, HoldPlaces, LinkedPlaces, PointerPlaces
<1>6. OwnInv'
  BY ConstantsAssumption DEF Inv, CleanReachesHead, InspectHead, Goto, notes, Return, NoCall,
         Notify, elements, tail, lists, counts, ElementType, Element, Pointer, ThreadType,
         Threads, Producers, OwnInv, HoldPlaces, LinkedPlaces
<1>7. CountInv'
  BY ConstantsAssumption, CountSame DEF Inv, CleanReachesHead, InspectHead, Goto, notes, Return,
         NoCall, Notify, elements, tail, lists, counts, ElementType, Element, Pointer,
         ThreadType, Threads, Producers, CountPlaces, PointerPlaces, LinkedPlaces
<1>8. SwitchInv'
  BY ConstantsAssumption DEF Inv, CleanReachesHead, InspectHead, Goto, notes, Return, NoCall,
         Notify, elements, tail, lists, counts, IxType, Element, ElementType, Pointer, ListType,
         ThreadType, Threads, Producers, CallType, SwitchInv, MarkerPlaces, PointerPlaces,
         LinkedPlaces
<1>9. PlaceInv(where, at)'
  BY ConstantsAssumption DEF Inv, CleanReachesHead, InspectHead, Goto, notes, Return, NoCall,
         Notify, elements, tail, lists, counts, ElementType, Element, Pointer, ThreadType,
         Threads, Producers, PlaceInv, HoldPlaces
<1>10. OrderInv(where, at)'
  BY ConstantsAssumption DEF Inv, CleanReachesHead, InspectHead, Goto, notes, Return, NoCall,
         Notify, elements, tail, lists, counts, IxType, Element, ElementType, Pointer, ListType,
         ThreadType, Threads, Producers, CallType, OrderInv, MarkerPlaces, PointerPlaces,
         LinkedPlaces
<1>11. PointerInv(where, at)'
  BY ConstantsAssumption DEF Inv, CleanReachesHead, InspectHead, Goto, notes, Return, NoCall,
         Notify, elements, tail, lists, counts, ElementType, Element, Pointer, ThreadType,
         Threads, Producers, PointerInv, Pointers, Waited
<1>12. MoveInv(at)'
  BY ConstantsAssumption DEF Inv, CleanReachesHead, InspectHead, Goto, notes, Return, NoCall,
         Notify, elements, tail, lists, counts, ElementType, Element, Pointer, ThreadType,
         Threads, Producers, MoveInv
<1>13. IxType' /\ ElementType' /\ ListType'
  BY ConstantsAssumption DEF Inv, IxType, Element, ElementType, Pointer, ListType,
         CleanReachesHead, InspectHead, Goto, notes, Return, NoCall, Notify, elements, tail,
         lists, counts
<1>14. QueueInv(where, at)' /\ ListInv(where, at)'
  BY DEF Inv, QueueInv, Element, IsList, ListInv, CleanReachesHead, InspectHead, Goto, notes,
         Return, NoCall, Notify, elements, tail, lists, counts
<1> QED BY <1>1, <1>2, <1>3, <1>4, <1>5, <1>6, <1>7, <1>8, <1>9, <1>10, <1>11, <1>12, <1>13,
               <1>14 DEF Inv

\* the last pointer is read,
LEMMA CleanReadLastStep ==
  ASSUME NEW where \in [Element -> Lists], NEW at \in [Element -> Int], Inv(where, at),
         CleanReadLast
  PROVE  Inv(where, at)'
<1>1. ThreadType'
  BY ConstantsAssumption DEF Inv, CleanReadLast, Return, NoCall, Goto, Notify, notes, elements,
         tail, lists, counts, ElementType, Element, Pointer, ThreadType, Threads, Producers
<1>2. CallType'
  BY CallSteps DEF Inv
<1>3. NoteType'
  BY ConstantsAssumption DEF Inv, CleanReadLast, Return, NoCall, Goto, Notify, notes, elements,
         tail, lists, counts, ElementType, Element, Pointer, ThreadType, Threads, Producers,
         NoteType
<1>4. ConsumerInv'
  BY ConstantsAssumption DEF Inv, CleanReadLast, Return, NoCall, Goto, Notify, notes, elements,
         tail, lists, counts, ElementType, Element, Pointer, ThreadType, Threads, Producers,
         ConsumerInv, CleanPlaces, MarkerPlaces, PointerPlaces, LinkedPlaces, HoldPlaces
<1>5. ProducerInv'
  BY ConstantsAssumption DEF Inv, CleanReadLast, Return, NoCall, Goto, Notify, notes, elements,
         tail, lists, counts, ElementType, Element, Pointer, ThreadType, Threads, Producers,
         ProducerInv, HoldPlaces, LinkedPlaces, PointerPlaces
<1>6. OwnInv'
  BY ConstantsAssumption DEF Inv, CleanReadLast, Return, NoCall, Goto, Notify, notes, elements,
         tail, lists, counts, ElementType, Element, Pointer, ThreadType, Threads, Producers,
         OwnInv, HoldPlaces, LinkedPlaces
<1>7. CountInv'
  BY ConstantsAssumption, CountSame DEF Inv, CleanReadLast, Return, NoCall, Goto, Notify, notes,
         elements, tail, lists, counts, ElementType, Element, Pointer, ThreadType, Threads,
         Producers, CountPlaces, PointerPlaces, LinkedPlaces
<1>8. SwitchInv'
  BY ConstantsAssumption DEF Inv, CleanReadLast, Return, NoCall, Goto, Notify, notes, elements,
         tail, lists, counts, ElementType, Element, Pointer, ThreadType, Threads, Producers,
         SwitchInv, MarkerPlaces, PointerPlaces, LinkedPlaces
<1>9. PlaceInv(where, at)'
  BY ConstantsAssumption DEF Inv, CleanReadLast, Return, NoCall, Goto, Notify, notes, elements,
         tail, lists, counts, ElementType, Element, Pointer, ThreadType, Threads, Producers,
         PlaceInv, HoldPlaces
<1>10. OrderInv(where, at)'
  BY ConstantsAssumption DEF Inv, CleanReadLast, Return, NoCall, Goto, Notify, notes, elements,
         tail, lists, counts, ElementType, Element, Pointer, ThreadType, Threads, Producers,
         OrderInv, MarkerPlaces, PointerPlaces, LinkedPlaces
<1>11. PointerInv(where, at)'
  BY ConstantsAssumption DEF Inv, CleanReadLast, Return, NoCall, Goto, Notify, notes, elements,
         tail, lists, counts, ElementType, Element, Pointer, ThreadType, Threads, Producers,
         PointerInv, Pointers, Waited
<1>12. MoveInv(at)'
  BY ConstantsAssumption DEF Inv, CleanReadLast, Return, NoCall, Goto, Notify, notes, elements,
         tail, lists, counts, ElementType, Element, Pointer, ThreadType, Threads, Producers,
         MoveInv
<1>13. IxType' /\ ElementType' /\ ListType'
  BY ConstantsAssumption DEF Inv, IxType, Element, ElementType, Pointer, ListType,
         CleanReadLast, Return, NoCall, Goto, Notify, notes, elements, tail, lists, counts
<1>14. QueueInv(where, at)' /\ ListInv(where, at)'
  BY DEF Inv, QueueInv, Element, IsList, ListInv, CleanReadLast, Return, NoCall, Goto, Notify,
         notes, elements, tail, lists, counts
<1> QED BY <1>1, <1>2, <1>3, <1>4, <1>5, <1>6, <1>7, <1>8, <1>9, <1>10, <1>11, <1>12, <1>13,
               <1>14 DEF Inv

\* and the unreferenced end moves on when nobody has a pointer from before it.
LEMMA CleanMoveUnrefStep ==
  ASSUME NEW where \in [Element -> Lists], NEW at \in [Element -> Int], Inv(where, at),
         CleanMoveUnref
  PROVE  Inv(where, at)'
<1> DEFINE reached == nxt.reached \/ grace = {}
           move == reached /\ um_refc[nxt.um_refc_ix] = 0
           end == ilast[Consumer]
           next_end == nxt.unref_end
           ix == nxt.um_refc_ix
<1>1. /\ nxt = [um_refc_ix |-> ix, unref_end |-> next_end, reached |-> nxt.reached]
      /\ ix \in 0 .. 1 /\ ix = 1 - um_refc_ix /\ um_refc_ix \in 0 .. 1 /\ nxt.reached \in BOOLEAN
      /\ next_end \in Element /\ end \in Element /\ Consumer \in Threads
      /\ where[end] = "queue" /\ at[next_end] <= at[end] /\ at[end] <= at[last]
      /\ pc[Consumer] = "move_unref"
      /\ call \in [ops : Nat, max : Nat, notify : BOOLEAN, ret : {"none", "dequeue", "clean"},
            mret : {"none", "inspect_head", "next_unref"}]
  BY DEF CleanMoveUnref, Inv, OrderInv, IxType, CallType, Goto, NextUnref, Threads
<1>2. /\ unref_end' = IF move THEN next_end ELSE unref_end
      /\ ilast' = [ilast EXCEPT ![Consumer] = Null] /\ this' = this
      /\ UNCHANGED <<elements, tail, head, used_marker, first, deq_fini, event, misc,
                     misc_prgr, lists, this, um_ix, counts>>
      /\ \/ /\ move /\ pc' = [pc EXCEPT ![Consumer] = "head"] /\ UNCHANGED <<grace, call>>
            /\ nxt' = [um_refc_ix |-> ix, unref_end |-> next_end, reached |-> TRUE]
         \/ /\ move /\ pc' = [pc EXCEPT ![Consumer] = "switch"] /\ grace' = Managed /\ UNCHANGED call
            /\ nxt' = [um_refc_ix |-> ix, unref_end |-> end, reached |-> FALSE]
         \/ /\ move /\ pc' = [pc EXCEPT ![Consumer] = "marker"] /\ UNCHANGED grace
            /\ call' = [call EXCEPT !.mret = "next_unref"]
            /\ nxt' = [um_refc_ix |-> ix, unref_end |-> next_end, reached |-> TRUE]
         \/ /\ ~move /\ pc' = [pc EXCEPT ![Consumer] = "head"] /\ UNCHANGED <<grace, call>>
            /\ nxt' = [um_refc_ix |-> ix, unref_end |-> next_end, reached |-> reached]
  BY <1>1 DEF CleanMoveUnref, NextUnref, Goto
<1>3. ASSUME move, NEW u \in Unmanaged, pc[u] \in CountPlaces
      PROVE  um_ix[u] = um_refc_ix
  <2>1. um_ix[u] # ix
    BY <1>1, <1>3, NobodyCounted, Zenon DEF Inv
  <2>2. um_ix[u] \in 0 .. 1
    BY DEF Inv, IxType
  <2> QED BY <1>1, <2>1, <2>2
<1> HIDE DEF end, next_end, ix
<1>4. IxType'
  <2>1. nxt' \in [um_refc_ix : 0 .. 1, unref_end : Element, reached : BOOLEAN] /\ nxt'.um_refc_ix = ix
    <3>1. reached \in BOOLEAN
      OBVIOUS
    <3> HIDE DEF reached, move
    <3>2. PICK r \in BOOLEAN, e \in {next_end, end} :
            nxt' = [um_refc_ix |-> ix, unref_end |-> e, reached |-> r]
      BY <1>2, <3>1, Zenon
    <3> QED BY <1>1, <3>2
  <2>2. um_refc' = um_refc /\ um_refc_ix' = um_refc_ix /\ um_ix' = um_ix /\ (grace' = grace \/ grace' = Managed)
    BY <1>2 DEF tail
  <2> QED BY <1>1, <2>1, <2>2 DEF Inv, IxType
<1>5. SwitchInv'
  <2>1. ASSUME move, NEW u \in Unmanaged, pc'[u] \in {"init"} \cup PointerPlaces
        PROVE  um_ix'[u] = um_refc_ix'
    <3>1. pc'[u] = pc[u] /\ um_ix' = um_ix /\ um_refc_ix' = um_refc_ix
      BY <1>2, ConstantsAssumption DEF Inv, ThreadType, Threads, Producers, tail
    <3>2. pc[u] \in CountPlaces
      BY <3>1, <2>1 DEF CountPlaces
    <3> QED BY <1>3, <2>1, <3>1, <3>2
  <2>2. move \/ pc'[Consumer] = "head"
    BY <1>1, <1>2 DEF Inv, ThreadType
  <2> QED BY <2>1, <2>2 DEF SwitchInv, MarkerPlaces, PointerPlaces, LinkedPlaces
<1>6. OrderInv(where, at)'
  <2>1. pc'[Consumer] \in {"head", "switch", "marker"}
    BY <1>1, <1>2 DEF Inv, ThreadType
  <2>2. pc'[Consumer] = "marker" => unref_end' = nxt'.unref_end
    BY <1>1, <1>2 DEF Inv, ThreadType
  <2>3. UNCHANGED <<last, head>>
    BY <1>2 DEF tail
  <2>4. /\ where[unref_end'] = "queue" /\ where[nxt'.unref_end] = "queue"
        /\ at[unref_end'] <= at[nxt'.unref_end] /\ at[nxt'.unref_end] <= at[last]
    BY <1>1, <1>2 DEF Inv, OrderInv, IxType, ElementType, next_end
  <2> QED BY <2>1, <2>2, <2>3, <2>4 DEF Inv, OrderInv, MarkerPlaces, PointerPlaces, LinkedPlaces
<1>7. PointerInv(where, at)'
  <2> SUFFICES ASSUME NEW t \in Threads, NEW e \in Pointers(t)'
               PROVE  (/\ e \in Element /\ where[e] = "queue"
                       /\ at[unref_end] <= at[e]
                       /\ at[nxt.unref_end] <= at[e] \/ Waited(t))'
    BY Zenon DEF PointerInv
  <2>1. t # Consumer /\ pc'[t] = pc[t] /\ ilast'[t] = ilast[t] /\ this'[t] = this[t]
    BY <1>1, <1>2 DEF Inv, ThreadType, Pointers
  <2>2. e \in Pointers(t) /\ pc[t] \in PointerPlaces /\ pc[t] \in CountPlaces
    BY <2>1 DEF Pointers, PointerPlaces, LinkedPlaces, CountPlaces
  <2>3. /\ e \in Element /\ where[e] = "queue" /\ at[unref_end] <= at[e]
        /\ at[next_end] <= at[e] \/ Waited(t)
    BY <2>2 DEF Inv, PointerInv, next_end
  <2>4. t \in Managed \/ (t \in Unmanaged /\ t \notin Managed)
    BY <2>1, ConstantsAssumption DEF Threads, Producers
  <2>5. CASE move
    <3>1. ~Waited(t)
      BY <1>1, <1>3, <2>2, <2>4, <2>5 DEF Waited, ix
    <3>2. at[unref_end'] <= at[e]
      BY <1>2, <2>3, <3>1, <2>5
    <3>3. CASE nxt'.unref_end = next_end
      BY <2>3, <3>1, <3>2, <3>3
    <3>4. CASE nxt'.unref_end = end /\ pc'[Consumer] = "switch" /\ grace' = Managed /\ ~nxt'.reached
      <4>1. um_ix' = um_ix /\ um_refc_ix' = um_refc_ix
        BY <1>2 DEF tail
      <4>2. Waited(t)'
        BY <1>3, <2>2, <2>4, <2>5, <3>4, <4>1 DEF Waited
      <4> QED BY <2>3, <3>2, <4>2
    <3> QED BY <1>1, <1>2, <2>5, <3>3, <3>4 DEF Inv, ThreadType
  <2>6. CASE ~move
    <3>1. /\ unref_end' = unref_end /\ nxt'.unref_end = next_end /\ nxt'.um_refc_ix = nxt.um_refc_ix
          /\ pc'[Consumer] = "head" /\ grace' = grace /\ nxt'.reached = reached /\ um_ix' = um_ix
      BY <1>1, <1>2, <2>6 DEF Inv, ThreadType, ix
    <3>2. Waited(t) => Waited(t)'
      BY <1>1, <3>1 DEF Waited
    <3> QED BY <2>3, <3>1, <3>2
  <2> QED BY <2>5, <2>6
<1>8. ElementType'
  BY ConstantsAssumption DEF Inv, CleanMoveUnref, NextUnref, Goto, elements, tail, lists,
         counts, IxType, Element, ElementType, Pointer, ListType, ThreadType, Threads,
         Producers, CallType
<1>9. ThreadType'
  BY ConstantsAssumption DEF Inv, CleanMoveUnref, NextUnref, Goto, elements, tail, lists,
         counts, ElementType, Element, Pointer, ThreadType, Threads, Producers
<1>10. CallType'
  BY ConstantsAssumption DEF Inv, CleanMoveUnref, NextUnref, Goto, elements, tail, lists,
         counts, ElementType, Element, Pointer, ThreadType, Threads, Producers, CallType
<1>11. NoteType'
  BY ConstantsAssumption DEF Inv, CleanMoveUnref, NextUnref, Goto, elements, tail, lists,
         counts, ElementType, Element, Pointer, ThreadType, Threads, Producers, NoteType
<1>12. ConsumerInv'
  BY ConstantsAssumption DEF Inv, CleanMoveUnref, NextUnref, Goto, elements, tail, lists,
         counts, IxType, Element, ElementType, Pointer, ListType, ThreadType, Threads,
         Producers, CallType, ConsumerInv, CleanPlaces, MarkerPlaces, PointerPlaces,
         LinkedPlaces, HoldPlaces
<1>13. ProducerInv'
  BY ConstantsAssumption DEF Inv, CleanMoveUnref, NextUnref, Goto, elements, tail, lists,
         counts, ElementType, Element, Pointer, ThreadType, Threads, Producers, ProducerInv,
         HoldPlaces, LinkedPlaces, PointerPlaces
<1>14. OwnInv'
  BY ConstantsAssumption DEF Inv, CleanMoveUnref, NextUnref, Goto, elements, tail, lists,
         counts, ElementType, Element, Pointer, ThreadType, Threads, Producers, OwnInv,
         HoldPlaces, LinkedPlaces
<1>15. CountInv'
  BY ConstantsAssumption, CountSame DEF Inv, CleanMoveUnref, NextUnref, Goto, elements, tail,
         lists, counts, ElementType, Element, Pointer, ThreadType, Threads, Producers,
         CountPlaces, PointerPlaces, LinkedPlaces
<1>16. PlaceInv(where, at)'
  BY ConstantsAssumption DEF Inv, CleanMoveUnref, NextUnref, Goto, elements, tail, lists,
         counts, ElementType, Element, Pointer, ThreadType, Threads, Producers, PlaceInv,
         HoldPlaces
<1>17. MoveInv(at)'
  BY ConstantsAssumption DEF Inv, CleanMoveUnref, NextUnref, Goto, elements, tail, lists,
         counts, ElementType, Element, Pointer, ThreadType, Threads, Producers, MoveInv
<1>18. ListType'
  BY ConstantsAssumption DEF Inv, ListType, Pointer, Element, CleanMoveUnref, NextUnref, Goto,
         elements, tail, lists, counts
<1>19. QueueInv(where, at)' /\ ListInv(where, at)'
  BY DEF Inv, QueueInv, Element, IsList, ListInv, CleanMoveUnref, NextUnref, Goto, elements,
         tail, lists, counts
<1> QED BY <1>4, <1>5, <1>6, <1>7, <1>8, <1>9, <1>10, <1>11, <1>12, <1>13, <1>14, <1>15, <1>16,
               <1>17, <1>18, <1>19 DEF Inv

\* Nobody uses the counter that is switched to.
LEMMA CleanSwitchStep ==
  ASSUME NEW where \in [Element -> Lists], NEW at \in [Element -> Int], Inv(where, at),
         CleanSwitch
  PROVE  Inv(where, at)'
<1>1. IxType'
  BY ConstantsAssumption DEF Inv, CleanSwitch, Goto, elements, notes, lists, locals, counts,
         IxType, Element, ElementType, Pointer, ThreadType, Threads, Producers
<1>2. ThreadType'
  BY ConstantsAssumption DEF Inv, CleanSwitch, Goto, elements, notes, lists, locals, counts,
         ElementType, Element, Pointer, ThreadType, Threads, Producers
<1>3. ConsumerInv'
  BY ConstantsAssumption DEF Inv, CleanSwitch, Goto, elements, notes, lists, locals, counts,
         ElementType, Element, Pointer, ThreadType, Threads, Producers, ConsumerInv,
         CleanPlaces, MarkerPlaces, PointerPlaces, LinkedPlaces, HoldPlaces
<1>4. ProducerInv'
  BY ConstantsAssumption DEF Inv, CleanSwitch, Goto, elements, notes, lists, locals, counts,
         ElementType, Element, Pointer, ThreadType, Threads, Producers, ProducerInv, HoldPlaces,
         LinkedPlaces, PointerPlaces
<1>5. OwnInv'
  BY ConstantsAssumption DEF Inv, CleanSwitch, Goto, elements, notes, lists, locals, counts,
         ElementType, Element, Pointer, ThreadType, Threads, Producers, OwnInv, HoldPlaces,
         LinkedPlaces
<1>6. CountInv'
  BY ConstantsAssumption, CountSame DEF Inv, CleanSwitch, Goto, elements, notes, lists, locals,
         counts, ElementType, Element, Pointer, ThreadType, Threads, Producers, CountPlaces,
         PointerPlaces, LinkedPlaces
<1>7. SwitchInv'
  BY ConstantsAssumption DEF Inv, CleanSwitch, Goto, elements, notes, lists, locals, counts,
         ElementType, Element, Pointer, ThreadType, Threads, Producers, SwitchInv, MarkerPlaces,
         PointerPlaces, LinkedPlaces
<1>8. PlaceInv(where, at)'
  BY ConstantsAssumption DEF Inv, CleanSwitch, Goto, elements, notes, lists, locals, counts,
         ElementType, Element, Pointer, ThreadType, Threads, Producers, PlaceInv, HoldPlaces
<1>9. OrderInv(where, at)'
  BY ConstantsAssumption DEF Inv, CleanSwitch, Goto, elements, notes, lists, locals, counts,
         ElementType, Element, Pointer, ThreadType, Threads, Producers, OrderInv, MarkerPlaces,
         PointerPlaces, LinkedPlaces
<1>10. PointerInv(where, at)'
  BY ConstantsAssumption DEF Inv, CleanSwitch, Goto, elements, notes, lists, locals, counts,
         IxType, Element, ElementType, Pointer, ListType, ThreadType, Threads, Producers,
         CallType, PointerInv, Pointers, Waited
<1>11. MoveInv(at)'
  BY ConstantsAssumption DEF Inv, CleanSwitch, Goto, elements, notes, lists, locals, counts,
         ElementType, Element, Pointer, ThreadType, Threads, Producers, MoveInv
<1>12. ElementType' /\ ListType' /\ CallType' /\ NoteType'
  BY ConstantsAssumption DEF Inv, ElementType, Element, Pointer, ListType, CallType, NoteType,
         CleanSwitch, Goto, elements, notes, lists, locals, counts
<1>13. QueueInv(where, at)' /\ ListInv(where, at)'
  BY DEF Inv, QueueInv, Element, IsList, ListInv, CleanSwitch, Goto, elements, notes, lists,
         locals, counts
<1> QED BY <1>1, <1>2, <1>3, <1>4, <1>5, <1>6, <1>7, <1>8, <1>9, <1>10, <1>11, <1>12, <1>13 DEF
               Inv

\* The head is looked at,
LEMMA CleanHeadStep ==
  ASSUME NEW where \in [Element -> Lists], NEW at \in [Element -> Int], Inv(where, at),
         CleanHead
  PROVE  Inv(where, at)'
<1>1. ThreadType'
  BY ConstantsAssumption DEF Inv, CleanHead, InspectHead, Goto, notes, Return, NoCall, Notify,
         NeedThrPrgr, elements, tail, reclaim, lists, counts, ElementType, Element, Pointer,
         ThreadType, Threads, Producers
<1>2. CallType'
  BY CallSteps DEF Inv
<1>3. NoteType'
  BY ConstantsAssumption DEF Inv, CleanHead, InspectHead, Goto, notes, Return, NoCall, Notify,
         NeedThrPrgr, elements, tail, reclaim, lists, counts, ElementType, Element, Pointer,
         ThreadType, Threads, Producers, NoteType
<1>4. ConsumerInv'
  BY ConstantsAssumption DEF Inv, CleanHead, InspectHead, Goto, notes, Return, NoCall, Notify,
         NeedThrPrgr, elements, tail, reclaim, lists, counts, IxType, Element, ElementType,
         Pointer, ListType, ThreadType, Threads, Producers, CallType, ConsumerInv, CleanPlaces,
         MarkerPlaces, PointerPlaces, LinkedPlaces, HoldPlaces
<1>5. ProducerInv'
  BY ConstantsAssumption DEF Inv, CleanHead, InspectHead, Goto, notes, Return, NoCall, Notify,
         NeedThrPrgr, elements, tail, reclaim, lists, counts, ElementType, Element, Pointer,
         ThreadType, Threads, Producers, ProducerInv, HoldPlaces, LinkedPlaces, PointerPlaces
<1>6. OwnInv'
  BY ConstantsAssumption DEF Inv, CleanHead, InspectHead, Goto, notes, Return, NoCall, Notify,
         NeedThrPrgr, elements, tail, reclaim, lists, counts, ElementType, Element, Pointer,
         ThreadType, Threads, Producers, OwnInv, HoldPlaces, LinkedPlaces
<1>7. CountInv'
  BY ConstantsAssumption, CountSame DEF Inv, CleanHead, InspectHead, Goto, notes, Return,
         NoCall, Notify, NeedThrPrgr, elements, tail, reclaim, lists, counts, ElementType,
         Element, Pointer, ThreadType, Threads, Producers, CountPlaces, PointerPlaces,
         LinkedPlaces
<1>8. SwitchInv'
  BY ConstantsAssumption DEF Inv, CleanHead, InspectHead, Goto, notes, Return, NoCall, Notify,
         NeedThrPrgr, elements, tail, reclaim, lists, counts, IxType, Element, ElementType,
         Pointer, ListType, ThreadType, Threads, Producers, CallType, SwitchInv, MarkerPlaces,
         PointerPlaces, LinkedPlaces
<1>9. PlaceInv(where, at)'
  BY ConstantsAssumption DEF Inv, CleanHead, InspectHead, Goto, notes, Return, NoCall, Notify,
         NeedThrPrgr, elements, tail, reclaim, lists, counts, ElementType, Element, Pointer,
         ThreadType, Threads, Producers, PlaceInv, HoldPlaces
<1>10. OrderInv(where, at)'
  BY ConstantsAssumption DEF Inv, CleanHead, InspectHead, Goto, notes, Return, NoCall, Notify,
         NeedThrPrgr, elements, tail, reclaim, lists, counts, IxType, Element, ElementType,
         Pointer, ListType, ThreadType, Threads, Producers, CallType, OrderInv, MarkerPlaces,
         PointerPlaces, LinkedPlaces
<1>11. PointerInv(where, at)'
  BY ConstantsAssumption DEF Inv, CleanHead, InspectHead, Goto, notes, Return, NoCall, Notify,
         NeedThrPrgr, elements, tail, reclaim, lists, counts, ElementType, Element, Pointer,
         ThreadType, Threads, Producers, PointerInv, Pointers, Waited
<1>12. MoveInv(at)'
  BY ConstantsAssumption DEF Inv, CleanHead, InspectHead, Goto, notes, Return, NoCall, Notify,
         NeedThrPrgr, elements, tail, reclaim, lists, counts, ElementType, Element, Pointer,
         ThreadType, Threads, Producers, MoveInv
<1>13. IxType' /\ ElementType' /\ ListType'
  BY ConstantsAssumption DEF Inv, IxType, Element, ElementType, Pointer, ListType, CleanHead,
         InspectHead, Goto, notes, Return, NoCall, Notify, NeedThrPrgr, elements, tail, reclaim,
         lists, counts
<1>14. QueueInv(where, at)' /\ ListInv(where, at)'
  BY DEF Inv, QueueInv, Element, IsList, ListInv, CleanHead, InspectHead, Goto, notes, Return,
         NoCall, Notify, NeedThrPrgr, elements, tail, reclaim, lists, counts
<1> QED BY <1>1, <1>2, <1>3, <1>4, <1>5, <1>6, <1>7, <1>8, <1>9, <1>10, <1>11, <1>12, <1>13,
               <1>14 DEF Inv

\* and looked at again.
LEMMA CleanInspectedStep ==
  ASSUME NEW where \in [Element -> Lists], NEW at \in [Element -> Int], Inv(where, at),
         CleanInspected
  PROVE  Inv(where, at)'
<1>1. ThreadType'
  BY ConstantsAssumption DEF Inv, CleanInspected, Return, NoCall, Goto, Notify, notes,
         NeedThrPrgr, elements, tail, reclaim, lists, counts, ElementType, Element, Pointer,
         ThreadType, Threads, Producers
<1>2. CallType'
  BY ConstantsAssumption DEF Inv, CleanInspected, Return, NoCall, Goto, Notify, notes,
         NeedThrPrgr, elements, tail, reclaim, lists, counts, ElementType, Element, Pointer,
         ThreadType, Threads, Producers, CallType
<1>3. NoteType'
  BY ConstantsAssumption DEF Inv, CleanInspected, Return, NoCall, Goto, Notify, notes,
         NeedThrPrgr, elements, tail, reclaim, lists, counts, ElementType, Element, Pointer,
         ThreadType, Threads, Producers, NoteType
<1>4. ConsumerInv'
  BY ConstantsAssumption DEF Inv, CleanInspected, Return, NoCall, Goto, Notify, notes,
         NeedThrPrgr, elements, tail, reclaim, lists, counts, ElementType, Element, Pointer,
         ThreadType, Threads, Producers, ConsumerInv, CleanPlaces, MarkerPlaces, PointerPlaces,
         LinkedPlaces, HoldPlaces
<1>5. ProducerInv'
  BY ConstantsAssumption DEF Inv, CleanInspected, Return, NoCall, Goto, Notify, notes,
         NeedThrPrgr, elements, tail, reclaim, lists, counts, ElementType, Element, Pointer,
         ThreadType, Threads, Producers, ProducerInv, HoldPlaces, LinkedPlaces, PointerPlaces
<1>6. OwnInv'
  BY ConstantsAssumption DEF Inv, CleanInspected, Return, NoCall, Goto, Notify, notes,
         NeedThrPrgr, elements, tail, reclaim, lists, counts, ElementType, Element, Pointer,
         ThreadType, Threads, Producers, OwnInv, HoldPlaces, LinkedPlaces
<1>7. CountInv'
  BY ConstantsAssumption, CountSame DEF Inv, CleanInspected, Return, NoCall, Goto, Notify,
         notes, NeedThrPrgr, elements, tail, reclaim, lists, counts, ElementType, Element,
         Pointer, ThreadType, Threads, Producers, CountPlaces, PointerPlaces, LinkedPlaces
<1>8. SwitchInv'
  BY ConstantsAssumption DEF Inv, CleanInspected, Return, NoCall, Goto, Notify, notes,
         NeedThrPrgr, elements, tail, reclaim, lists, counts, ElementType, Element, Pointer,
         ThreadType, Threads, Producers, SwitchInv, MarkerPlaces, PointerPlaces, LinkedPlaces
<1>9. PlaceInv(where, at)'
  BY ConstantsAssumption DEF Inv, CleanInspected, Return, NoCall, Goto, Notify, notes,
         NeedThrPrgr, elements, tail, reclaim, lists, counts, ElementType, Element, Pointer,
         ThreadType, Threads, Producers, PlaceInv, HoldPlaces
<1>10. OrderInv(where, at)'
  BY ConstantsAssumption DEF Inv, CleanInspected, Return, NoCall, Goto, Notify, notes,
         NeedThrPrgr, elements, tail, reclaim, lists, counts, ElementType, Element, Pointer,
         ThreadType, Threads, Producers, OrderInv, MarkerPlaces, PointerPlaces, LinkedPlaces
<1>11. PointerInv(where, at)'
  BY ConstantsAssumption DEF Inv, CleanInspected, Return, NoCall, Goto, Notify, notes,
         NeedThrPrgr, elements, tail, reclaim, lists, counts, ElementType, Element, Pointer,
         ThreadType, Threads, Producers, PointerInv, Pointers, Waited
<1>12. MoveInv(at)'
  BY ConstantsAssumption DEF Inv, CleanInspected, Return, NoCall, Goto, Notify, notes,
         NeedThrPrgr, elements, tail, reclaim, lists, counts, ElementType, Element, Pointer,
         ThreadType, Threads, Producers, MoveInv
<1>13. IxType' /\ ElementType' /\ ListType'
  BY ConstantsAssumption DEF Inv, IxType, Element, ElementType, Pointer, ListType,
         CleanInspected, Return, NoCall, Goto, Notify, notes, NeedThrPrgr, elements, tail,
         reclaim, lists, counts
<1>14. QueueInv(where, at)' /\ ListInv(where, at)'
  BY DEF Inv, QueueInv, Element, IsList, ListInv, CleanInspected, Return, NoCall, Goto, Notify,
         notes, NeedThrPrgr, elements, tail, reclaim, lists, counts
<1> QED BY <1>1, <1>2, <1>3, <1>4, <1>5, <1>6, <1>7, <1>8, <1>9, <1>10, <1>11, <1>12, <1>13,
               <1>14 DEF Inv

\* The marker is not in the queue when it starts to be linked.
LEMMA MarkerStartStep ==
  ASSUME NEW where \in [Element -> Lists], NEW at \in [Element -> Int], Inv(where, at),
         MarkerStart
  PROVE  Inv(where, at)'
<1>1. ElementType'
  BY ConstantsAssumption DEF Inv, MarkerStart, Goto, ReadLast, tail, reclaim, notes, lists,
         counts, ElementType, Element, Pointer, ThreadType, Threads, Producers
<1>2. ThreadType'
  BY ConstantsAssumption DEF Inv, MarkerStart, Goto, ReadLast, tail, reclaim, notes, lists,
         counts, ElementType, Element, Pointer, ThreadType, Threads, Producers
<1>3. ConsumerInv'
  BY ConstantsAssumption DEF Inv, MarkerStart, Goto, ReadLast, tail, reclaim, notes, lists,
         counts, ElementType, Element, Pointer, ThreadType, Threads, Producers, ConsumerInv,
         CleanPlaces, MarkerPlaces, PointerPlaces, LinkedPlaces, HoldPlaces
<1>4. ProducerInv'
  BY ConstantsAssumption DEF Inv, MarkerStart, Goto, ReadLast, tail, reclaim, notes, lists,
         counts, ElementType, Element, Pointer, ThreadType, Threads, Producers, ProducerInv,
         HoldPlaces, LinkedPlaces, PointerPlaces
<1>5. OwnInv'
  BY ConstantsAssumption DEF Inv, MarkerStart, Goto, ReadLast, tail, reclaim, notes, lists,
         counts, IxType, Element, ElementType, Pointer, ThreadType, Threads, Producers,
         ConsumerInv, CleanPlaces, MarkerPlaces, PointerPlaces, LinkedPlaces, HoldPlaces,
         ProducerInv, OwnInv, QueueInv, IsList, PlaceInv, OrderInv
<1>6. CountInv'
  BY ConstantsAssumption, CountSame DEF Inv, MarkerStart, Goto, ReadLast, tail, reclaim, notes,
         lists, counts, ElementType, Element, Pointer, ThreadType, Threads, Producers,
         CountPlaces, PointerPlaces, LinkedPlaces
<1>7. SwitchInv'
  BY ConstantsAssumption DEF Inv, MarkerStart, Goto, ReadLast, tail, reclaim, notes, lists,
         counts, ElementType, Element, Pointer, ThreadType, Threads, Producers, SwitchInv,
         MarkerPlaces, PointerPlaces, LinkedPlaces
<1>8. QueueInv(where, at)'
  BY ConstantsAssumption DEF Inv, MarkerStart, Goto, ReadLast, tail, reclaim, notes, lists,
         counts, IxType, Element, ElementType, Pointer, ThreadType, Threads, Producers,
         ConsumerInv, CleanPlaces, MarkerPlaces, PointerPlaces, LinkedPlaces, HoldPlaces,
         ProducerInv, OwnInv, QueueInv, IsList, PlaceInv
<1>9. ListInv(where, at)'
  BY ConstantsAssumption DEF Inv, MarkerStart, Goto, ReadLast, tail, reclaim, notes, lists,
         counts, IxType, Element, ElementType, Pointer, ThreadType, Threads, Producers,
         ConsumerInv, CleanPlaces, MarkerPlaces, PointerPlaces, LinkedPlaces, HoldPlaces,
         ProducerInv, OwnInv, ListInv, IsList, PlaceInv
<1>10. PlaceInv(where, at)'
  BY ConstantsAssumption DEF Inv, MarkerStart, Goto, ReadLast, tail, reclaim, notes, lists,
         counts, ElementType, Element, Pointer, ThreadType, Threads, Producers, PlaceInv,
         HoldPlaces
<1>11. OrderInv(where, at)'
  BY ConstantsAssumption DEF Inv, MarkerStart, Goto, ReadLast, tail, reclaim, notes, lists,
         counts, ElementType, Element, Pointer, ThreadType, Threads, Producers, OrderInv,
         MarkerPlaces, PointerPlaces, LinkedPlaces
<1>12. PointerInv(where, at)'
  BY ConstantsAssumption DEF Inv, MarkerStart, Goto, ReadLast, tail, reclaim, notes, lists,
         counts, IxType, Element, ElementType, Pointer, ThreadType, Threads, Producers,
         ConsumerInv, CleanPlaces, MarkerPlaces, PointerPlaces, LinkedPlaces, HoldPlaces,
         ProducerInv, OwnInv, QueueInv, IsList, PlaceInv, OrderInv, PointerInv, Pointers, Waited
<1>13. MoveInv(at)'
  BY ConstantsAssumption DEF Inv, MarkerStart, Goto, ReadLast, tail, reclaim, notes, lists,
         counts, ElementType, Element, Pointer, ThreadType, Threads, Producers, MoveInv
<1>14. IxType' /\ ListType' /\ CallType' /\ NoteType'
  BY ConstantsAssumption DEF Inv, IxType, Element, ListType, Pointer, CallType, NoteType,
         MarkerStart, Goto, ReadLast, tail, reclaim, notes, lists, counts
<1> QED BY <1>1, <1>2, <1>3, <1>4, <1>5, <1>6, <1>7, <1>8, <1>9, <1>10, <1>11, <1>12, <1>13,
               <1>14 DEF Inv

\* Then it is, and a grace period may begin.
LEMMA MarkerDoneStep ==
  ASSUME NEW where \in [Element -> Lists], NEW at \in [Element -> Int], Inv(where, at),
         MarkerDone
  PROVE  Inv(where, at)'
<1> DEFINE end == ilast[Consumer]
           next_end == nxt.unref_end
           ix == nxt.um_refc_ix
<1>1. /\ nxt = [um_refc_ix |-> ix, unref_end |-> next_end, reached |-> nxt.reached]
      /\ ix \in 0 .. 1 /\ ix = 1 - um_refc_ix /\ um_refc_ix \in 0 .. 1 /\ nxt.reached \in BOOLEAN
      /\ next_end \in Element /\ Consumer \in Threads /\ pc[Consumer] = "linked"
      /\ call.mret = "next_unref" =>
           /\ end \in Element /\ where[end] = "queue" /\ at[next_end] <= at[end]
           /\ at[end] <= at[last] /\ unref_end = next_end
  BY DEF MarkerDone, Inv, OrderInv, IxType, Goto, NextUnref, Threads, MarkerPlaces
<1>2. /\ ilast' = [ilast EXCEPT ![Consumer] = Null] /\ this' = [this EXCEPT ![Consumer] = Null]
      /\ UNCHANGED <<elements, tail, used_marker, first, unref_end, clean_reached_head_count,
                     deq_fini, lists, um_ix, call, counts>>
      /\ head' = IF next[head] = Marker THEN Marker ELSE head
      /\ \/ /\ pc' = [pc EXCEPT ![Consumer] = "head"] /\ UNCHANGED grace
            /\ call.mret = "next_unref"
            /\ nxt' = [um_refc_ix |-> ix, unref_end |-> next_end, reached |-> TRUE]
            /\ unref_end = next_end /\ end = next_end
         \/ /\ pc' = [pc EXCEPT ![Consumer] = "switch"] /\ grace' = Managed
            /\ call.mret = "next_unref"
            /\ nxt' = [um_refc_ix |-> ix, unref_end |-> end, reached |-> FALSE]
         \/ /\ pc' = [pc EXCEPT ![Consumer] = "inspected"] /\ UNCHANGED <<grace, nxt>>
            /\ call.mret = "inspect_head"
  BY <1>1 DEF MarkerDone, NextUnref, Goto, Inv, ConsumerInv, MarkerPlaces
<1>3. um_ix' = um_ix /\ um_refc_ix' = um_refc_ix /\ last' = last
  BY <1>2 DEF tail
<1> HIDE DEF end, next_end, ix
<1>4. IxType'
  <2>1. nxt' \in [um_refc_ix : 0 .. 1, unref_end : Element, reached : BOOLEAN] /\ nxt'.um_refc_ix = ix
    <3>1. CASE nxt' = nxt
      BY <3>1 DEF Inv, IxType, ix
    <3>2. CASE nxt' # nxt
      <4>1. PICK r \in BOOLEAN, e \in {next_end, end} :
              nxt' = [um_refc_ix |-> ix, unref_end |-> e, reached |-> r] /\ e \in Element
        BY <1>1, <1>2, <3>2, Zenon
      <4> QED BY <1>1, <4>1
    <3> QED BY <3>1, <3>2
  <2>2. um_refc' = um_refc /\ (grace' = grace \/ grace' = Managed)
    BY <1>2 DEF tail
  <2> QED BY <1>1, <1>3, <2>1, <2>2 DEF Inv, IxType
<1>5. OrderInv(where, at)'
  <2>1. pc'[Consumer] \in {"head", "switch", "inspected"} /\ (pc'[Consumer] = "inspected" => call'.mret = "inspect_head")
    BY <1>1, <1>2 DEF Inv, ThreadType
  <2>2. where[head'] = "queue"
    <3>1. next[head] = Marker => where[Marker] = "queue"
      <4>1. where[head] = "queue" /\ head \in Element /\ Marker # Null
        BY ConstantsAssumption DEF Inv, OrderInv, ElementType
      <4> QED BY <4>1 DEF Inv, QueueInv, IsList
    <3> QED BY <1>2, <3>1 DEF Inv, OrderInv
  <2>4. /\ where[unref_end'] = "queue" /\ where[nxt'.unref_end] = "queue"
        /\ at[unref_end'] <= at[nxt'.unref_end] /\ at[nxt'.unref_end] <= at[last]
    BY <1>1, <1>2 DEF Inv, OrderInv, IxType, ElementType, next_end
  <2> QED BY <1>3, <2>1, <2>2, <2>4 DEF Inv, OrderInv, MarkerPlaces, PointerPlaces, LinkedPlaces
<1>6. PointerInv(where, at)'
  <2> SUFFICES ASSUME NEW t \in Threads, NEW e \in Pointers(t)'
               PROVE  (/\ e \in Element /\ where[e] = "queue"
                       /\ at[unref_end] <= at[e]
                       /\ at[nxt.unref_end] <= at[e] \/ Waited(t))'
    BY Zenon DEF PointerInv
  <2>1. t # Consumer /\ pc'[t] = pc[t] /\ ilast'[t] = ilast[t] /\ this'[t] = this[t]
    BY <1>1, <1>2 DEF Inv, ThreadType, Pointers
  <2>2. e \in Pointers(t) /\ pc[t] \in PointerPlaces
    BY <2>1 DEF Pointers, PointerPlaces, LinkedPlaces
  <2>3. /\ e \in Element /\ where[e] = "queue" /\ at[unref_end] <= at[e]
        /\ at[next_end] <= at[e] \/ Waited(t)
    BY <2>2 DEF Inv, PointerInv, next_end
  <2>4. t \in Managed \/ (t \in Unmanaged /\ t \notin Managed)
    BY <2>1, ConstantsAssumption DEF Threads, Producers
  <2>5. CASE pc'[Consumer] = "inspected"
    BY <1>1, <1>2, <1>3, <2>3, <2>5 DEF Waited, Inv, ThreadType, next_end
  <2>6. CASE pc'[Consumer] = "head"
    BY <1>1, <1>2, <1>3, <2>3, <2>6 DEF Waited, Inv, ThreadType, next_end
  <2>7. CASE pc'[Consumer] = "switch" /\ call.mret = "next_unref"
    <3>1. t \in Unmanaged => um_ix[t] = um_refc_ix
      BY <1>1, <2>2, <2>7 DEF Inv, SwitchInv, MarkerPlaces
    <3>2. grace' = Managed /\ ~nxt'.reached
      BY <1>1, <1>2, <2>7 DEF Inv, ThreadType
    <3>3. Waited(t)'
      BY <1>3, <2>4, <2>7, <3>1, <3>2 DEF Waited
    <3> QED BY <1>2, <2>3, <3>3
  <2> QED BY <1>1, <1>2, <2>5, <2>6, <2>7 DEF Inv, ThreadType
<1>7. ElementType'
  BY ConstantsAssumption DEF Inv, MarkerDone, NextUnref, Goto, elements, tail, lists, counts,
         ElementType, Element, Pointer, ThreadType, Threads, Producers
<1>8. ThreadType'
  BY ConstantsAssumption DEF Inv, MarkerDone, NextUnref, Goto, elements, tail, lists, counts,
         ElementType, Element, Pointer, ThreadType, Threads, Producers
<1>9. NoteType'
  BY ConstantsAssumption DEF Inv, MarkerDone, NextUnref, Goto, elements, tail, lists, counts,
         ElementType, Element, Pointer, ThreadType, Threads, Producers, NoteType
<1>10. ConsumerInv'
  BY ConstantsAssumption DEF Inv, MarkerDone, NextUnref, Goto, elements, tail, lists, counts,
         ElementType, Element, Pointer, ThreadType, Threads, Producers, ConsumerInv,
         CleanPlaces, MarkerPlaces, PointerPlaces, LinkedPlaces, HoldPlaces
<1>11. ProducerInv'
  BY ConstantsAssumption DEF Inv, MarkerDone, NextUnref, Goto, elements, tail, lists, counts,
         ElementType, Element, Pointer, ThreadType, Threads, Producers, ProducerInv, HoldPlaces,
         LinkedPlaces, PointerPlaces
<1>12. OwnInv'
  BY ConstantsAssumption DEF Inv, MarkerDone, NextUnref, Goto, elements, tail, lists, counts,
         ElementType, Element, Pointer, ThreadType, Threads, Producers, OwnInv, HoldPlaces,
         LinkedPlaces
<1>13. CountInv'
  BY ConstantsAssumption, CountSame DEF Inv, MarkerDone, NextUnref, Goto, elements, tail, lists,
         counts, ElementType, Element, Pointer, ThreadType, Threads, Producers, CountPlaces,
         PointerPlaces, LinkedPlaces
<1>14. SwitchInv'
  BY ConstantsAssumption DEF Inv, MarkerDone, NextUnref, Goto, elements, tail, lists, counts,
         ElementType, Element, Pointer, ThreadType, Threads, Producers, SwitchInv, MarkerPlaces,
         PointerPlaces, LinkedPlaces
<1>15. PlaceInv(where, at)'
  BY ConstantsAssumption DEF Inv, MarkerDone, NextUnref, Goto, elements, tail, lists, counts,
         ElementType, Element, Pointer, ThreadType, Threads, Producers, PlaceInv, HoldPlaces
<1>16. MoveInv(at)'
  BY ConstantsAssumption DEF Inv, MarkerDone, NextUnref, Goto, elements, tail, lists, counts,
         ElementType, Element, Pointer, ThreadType, Threads, Producers, MoveInv
<1>17. ListType' /\ CallType'
  BY ConstantsAssumption DEF Inv, ListType, Pointer, Element, CallType, MarkerDone, NextUnref,
         Goto, elements, tail, lists, counts
<1>18. QueueInv(where, at)' /\ ListInv(where, at)'
  BY DEF Inv, QueueInv, Element, IsList, ListInv, MarkerDone, NextUnref, Goto, elements, tail,
         lists, counts
<1> QED BY <1>4, <1>5, <1>6, <1>7, <1>8, <1>9, <1>10, <1>11, <1>12, <1>13, <1>14, <1>15, <1>16,
               <1>17, <1>18 DEF Inv

\* The head moves on in the queue.
LEMMA DequeueStep ==
  ASSUME NEW where \in [Element -> Lists], NEW at \in [Element -> Int], Inv(where, at),
         Dequeue
  PROVE  Inv(where, at)'
<1>1. ElementType'
  BY ConstantsAssumption DEF Inv, Dequeue, StartClean, Goto, NoCall, elements, tail, reclaim,
         notes, lists, counts, ElementType, Element, Pointer, ThreadType, Threads, Producers
<1>2. ThreadType'
  BY ConstantsAssumption DEF Inv, Dequeue, StartClean, Goto, NoCall, elements, tail, reclaim,
         notes, lists, counts, ElementType, Element, Pointer, ThreadType, Threads, Producers
<1>3. CallType'
  BY CallSteps DEF Inv
<1>4. ConsumerInv'
  BY ConstantsAssumption DEF Inv, Dequeue, StartClean, Goto, NoCall, elements, tail, reclaim,
         notes, lists, counts, ElementType, Element, Pointer, ThreadType, Threads, Producers,
         ConsumerInv, CleanPlaces, MarkerPlaces, PointerPlaces, LinkedPlaces, HoldPlaces
<1>5. ProducerInv'
  BY ConstantsAssumption DEF Inv, Dequeue, StartClean, Goto, NoCall, elements, tail, reclaim,
         notes, lists, counts, ElementType, Element, Pointer, ThreadType, Threads, Producers,
         ProducerInv, HoldPlaces, LinkedPlaces, PointerPlaces
<1>6. OwnInv'
  BY ConstantsAssumption DEF Inv, Dequeue, StartClean, Goto, NoCall, elements, tail, reclaim,
         notes, lists, counts, ElementType, Element, Pointer, ThreadType, Threads, Producers,
         OwnInv, HoldPlaces, LinkedPlaces
<1>7. CountInv'
  BY ConstantsAssumption, CountSame DEF Inv, Dequeue, StartClean, Goto, NoCall, elements, tail,
         reclaim, notes, lists, counts, ElementType, Element, Pointer, ThreadType, Threads,
         Producers, CountPlaces, PointerPlaces, LinkedPlaces
<1>8. SwitchInv'
  BY ConstantsAssumption DEF Inv, Dequeue, StartClean, Goto, NoCall, elements, tail, reclaim,
         notes, lists, counts, ElementType, Element, Pointer, ThreadType, Threads, Producers,
         SwitchInv, MarkerPlaces, PointerPlaces, LinkedPlaces
<1>9. PlaceInv(where, at)'
  BY ConstantsAssumption DEF Inv, Dequeue, StartClean, Goto, NoCall, elements, tail, reclaim,
         notes, lists, counts, ElementType, Element, Pointer, ThreadType, Threads, Producers,
         PlaceInv, HoldPlaces
<1>10. OrderInv(where, at)'
  BY ConstantsAssumption DEF Inv, Dequeue, StartClean, Goto, NoCall, elements, tail, reclaim,
         notes, lists, counts, IxType, Element, ElementType, Pointer, ListType, ThreadType,
         Threads, Producers, ConsumerInv, CleanPlaces, MarkerPlaces, PointerPlaces,
         LinkedPlaces, HoldPlaces, ProducerInv, OwnInv, QueueInv, IsList, PlaceInv, OrderInv
<1>11. PointerInv(where, at)'
  BY ConstantsAssumption DEF Inv, Dequeue, StartClean, Goto, NoCall, elements, tail, reclaim,
         notes, lists, counts, ElementType, Element, Pointer, ThreadType, Threads, Producers,
         PointerInv, Pointers, Waited
<1>12. MoveInv(at)'
  BY ConstantsAssumption DEF Inv, Dequeue, StartClean, Goto, NoCall, elements, tail, reclaim,
         notes, lists, counts, ElementType, Element, Pointer, ThreadType, Threads, Producers,
         MoveInv
<1>13. IxType' /\ ListType' /\ NoteType'
  BY ConstantsAssumption DEF Inv, IxType, Element, ListType, Pointer, NoteType, Dequeue,
         StartClean, Goto, NoCall, elements, tail, reclaim, notes, lists, counts
<1>14. QueueInv(where, at)' /\ ListInv(where, at)'
  BY DEF Inv, QueueInv, Element, IsList, ListInv, Dequeue, StartClean, Goto, NoCall, elements,
         tail, reclaim, notes, lists, counts
<1> QED BY <1>1, <1>2, <1>3, <1>4, <1>5, <1>6, <1>7, <1>8, <1>9, <1>10, <1>11, <1>12, <1>13,
               <1>14 DEF Inv

\* The consumer wakes up,
LEMMA AuxWorkStep ==
  ASSUME NEW where \in [Element -> Lists], NEW at \in [Element -> Int], Inv(where, at),
         AuxWork
  PROVE  Inv(where, at)'
<1>1. ThreadType'
  BY ConstantsAssumption DEF Inv, AuxWork, Goto, elements, tail, reclaim, lists, locals, counts,
         ElementType, Element, Pointer, ThreadType, Threads, Producers
<1>2. ConsumerInv'
  BY ConstantsAssumption DEF Inv, AuxWork, Goto, elements, tail, reclaim, lists, locals, counts,
         ElementType, Element, Pointer, ThreadType, Threads, Producers, ConsumerInv,
         CleanPlaces, MarkerPlaces, PointerPlaces, LinkedPlaces, HoldPlaces
<1>3. ProducerInv'
  BY ConstantsAssumption DEF Inv, AuxWork, Goto, elements, tail, reclaim, lists, locals, counts,
         ElementType, Element, Pointer, ThreadType, Threads, Producers, ProducerInv, HoldPlaces,
         LinkedPlaces, PointerPlaces
<1>4. OwnInv'
  BY ConstantsAssumption DEF Inv, AuxWork, Goto, elements, tail, reclaim, lists, locals, counts,
         ElementType, Element, Pointer, ThreadType, Threads, Producers, OwnInv, HoldPlaces,
         LinkedPlaces
<1>5. CountInv'
  BY ConstantsAssumption, CountSame DEF Inv, AuxWork, Goto, elements, tail, reclaim, lists,
         locals, counts, ElementType, Element, Pointer, ThreadType, Threads, Producers,
         CountPlaces, PointerPlaces, LinkedPlaces
<1>6. SwitchInv'
  BY ConstantsAssumption DEF Inv, AuxWork, Goto, elements, tail, reclaim, lists, locals, counts,
         ElementType, Element, Pointer, ThreadType, Threads, Producers, SwitchInv, MarkerPlaces,
         PointerPlaces, LinkedPlaces
<1>7. PlaceInv(where, at)'
  BY ConstantsAssumption DEF Inv, AuxWork, Goto, elements, tail, reclaim, lists, locals, counts,
         ElementType, Element, Pointer, ThreadType, Threads, Producers, PlaceInv, HoldPlaces
<1>8. OrderInv(where, at)'
  BY ConstantsAssumption DEF Inv, AuxWork, Goto, elements, tail, reclaim, lists, locals, counts,
         ElementType, Element, Pointer, ThreadType, Threads, Producers, OrderInv, MarkerPlaces,
         PointerPlaces, LinkedPlaces
<1>9. PointerInv(where, at)'
  BY ConstantsAssumption DEF Inv, AuxWork, Goto, elements, tail, reclaim, lists, locals, counts,
         ElementType, Element, Pointer, ThreadType, Threads, Producers, PointerInv, Pointers,
         Waited
<1>10. MoveInv(at)'
  BY ConstantsAssumption DEF Inv, AuxWork, Goto, elements, tail, reclaim, lists, locals, counts,
         ElementType, Element, Pointer, ThreadType, Threads, Producers, MoveInv
<1>11. IxType' /\ ElementType' /\ ListType' /\ CallType' /\ NoteType'
  BY ConstantsAssumption DEF Inv, IxType, Element, ElementType, Pointer, ListType, CallType,
         NoteType, AuxWork, Goto, elements, tail, reclaim, lists, locals, counts
<1>12. QueueInv(where, at)' /\ ListInv(where, at)'
  BY DEF Inv, QueueInv, Element, IsList, ListInv, AuxWork, Goto, elements, tail, reclaim, lists,
         locals, counts
<1> QED BY <1>1, <1>2, <1>3, <1>4, <1>5, <1>6, <1>7, <1>8, <1>9, <1>10, <1>11, <1>12 DEF Inv

\* cleans,
LEMMA AuxWorkThrPrgrStep ==
  ASSUME NEW where \in [Element -> Lists], NEW at \in [Element -> Int], Inv(where, at),
         AuxWorkThrPrgr
  PROVE  Inv(where, at)'
<1>1. ThreadType'
  BY ConstantsAssumption DEF Inv, AuxWorkThrPrgr, StartClean, Goto, NoCall, elements, tail,
         reclaim, lists, counts, ElementType, Element, Pointer, ThreadType, Threads, Producers
<1>2. CallType'
  BY CallSteps DEF Inv
<1>3. ConsumerInv'
  BY ConstantsAssumption DEF Inv, AuxWorkThrPrgr, StartClean, Goto, NoCall, elements, tail,
         reclaim, lists, counts, ElementType, Element, Pointer, ThreadType, Threads, Producers,
         ConsumerInv, CleanPlaces, MarkerPlaces, PointerPlaces, LinkedPlaces, HoldPlaces
<1>4. ProducerInv'
  BY ConstantsAssumption DEF Inv, AuxWorkThrPrgr, StartClean, Goto, NoCall, elements, tail,
         reclaim, lists, counts, ElementType, Element, Pointer, ThreadType, Threads, Producers,
         ProducerInv, HoldPlaces, LinkedPlaces, PointerPlaces
<1>5. OwnInv'
  BY ConstantsAssumption DEF Inv, AuxWorkThrPrgr, StartClean, Goto, NoCall, elements, tail,
         reclaim, lists, counts, ElementType, Element, Pointer, ThreadType, Threads, Producers,
         OwnInv, HoldPlaces, LinkedPlaces
<1>6. CountInv'
  BY ConstantsAssumption, CountSame DEF Inv, AuxWorkThrPrgr, StartClean, Goto, NoCall, elements,
         tail, reclaim, lists, counts, ElementType, Element, Pointer, ThreadType, Threads,
         Producers, CountPlaces, PointerPlaces, LinkedPlaces
<1>7. SwitchInv'
  BY ConstantsAssumption DEF Inv, AuxWorkThrPrgr, StartClean, Goto, NoCall, elements, tail,
         reclaim, lists, counts, ElementType, Element, Pointer, ThreadType, Threads, Producers,
         SwitchInv, MarkerPlaces, PointerPlaces, LinkedPlaces
<1>8. PlaceInv(where, at)'
  BY ConstantsAssumption DEF Inv, AuxWorkThrPrgr, StartClean, Goto, NoCall, elements, tail,
         reclaim, lists, counts, ElementType, Element, Pointer, ThreadType, Threads, Producers,
         PlaceInv, HoldPlaces
<1>9. OrderInv(where, at)'
  BY ConstantsAssumption DEF Inv, AuxWorkThrPrgr, StartClean, Goto, NoCall, elements, tail,
         reclaim, lists, counts, ElementType, Element, Pointer, ThreadType, Threads, Producers,
         OrderInv, MarkerPlaces, PointerPlaces, LinkedPlaces
<1>10. PointerInv(where, at)'
  BY ConstantsAssumption DEF Inv, AuxWorkThrPrgr, StartClean, Goto, NoCall, elements, tail,
         reclaim, lists, counts, ElementType, Element, Pointer, ThreadType, Threads, Producers,
         PointerInv, Pointers, Waited
<1>11. MoveInv(at)'
  BY ConstantsAssumption DEF Inv, AuxWorkThrPrgr, StartClean, Goto, NoCall, elements, tail,
         reclaim, lists, counts, ElementType, Element, Pointer, ThreadType, Threads, Producers,
         MoveInv
<1>12. IxType' /\ ElementType' /\ ListType' /\ NoteType'
  BY ConstantsAssumption DEF Inv, IxType, Element, ElementType, Pointer, ListType, NoteType,
         AuxWorkThrPrgr, StartClean, Goto, NoCall, elements, tail, reclaim, lists, counts
<1>13. QueueInv(where, at)' /\ ListInv(where, at)'
  BY DEF Inv, QueueInv, Element, IsList, ListInv, AuxWorkThrPrgr, StartClean, Goto, NoCall,
         elements, tail, reclaim, lists, counts
<1> QED BY <1>1, <1>2, <1>3, <1>4, <1>5, <1>6, <1>7, <1>8, <1>9, <1>10, <1>11, <1>12, <1>13 DEF
               Inv

\* dequeues,
LEMMA AuxWorkMiscStep ==
  ASSUME NEW where \in [Element -> Lists], NEW at \in [Element -> Int], Inv(where, at),
         AuxWorkMisc
  PROVE  Inv(where, at)'
<1>1. ThreadType'
  BY ConstantsAssumption DEF Inv, AuxWorkMisc, Goto, elements, tail, reclaim, lists, locals,
         counts, ElementType, Element, Pointer, ThreadType, Threads, Producers
<1>2. ConsumerInv'
  BY ConstantsAssumption DEF Inv, AuxWorkMisc, Goto, elements, tail, reclaim, lists, locals,
         counts, ElementType, Element, Pointer, ThreadType, Threads, Producers, ConsumerInv,
         CleanPlaces, MarkerPlaces, PointerPlaces, LinkedPlaces, HoldPlaces
<1>3. ProducerInv'
  BY ConstantsAssumption DEF Inv, AuxWorkMisc, Goto, elements, tail, reclaim, lists, locals,
         counts, ElementType, Element, Pointer, ThreadType, Threads, Producers, ProducerInv,
         HoldPlaces, LinkedPlaces, PointerPlaces
<1>4. OwnInv'
  BY ConstantsAssumption DEF Inv, AuxWorkMisc, Goto, elements, tail, reclaim, lists, locals,
         counts, ElementType, Element, Pointer, ThreadType, Threads, Producers, OwnInv,
         HoldPlaces, LinkedPlaces
<1>5. CountInv'
  BY ConstantsAssumption, CountSame DEF Inv, AuxWorkMisc, Goto, elements, tail, reclaim, lists,
         locals, counts, ElementType, Element, Pointer, ThreadType, Threads, Producers,
         CountPlaces, PointerPlaces, LinkedPlaces
<1>6. SwitchInv'
  BY ConstantsAssumption DEF Inv, AuxWorkMisc, Goto, elements, tail, reclaim, lists, locals,
         counts, ElementType, Element, Pointer, ThreadType, Threads, Producers, SwitchInv,
         MarkerPlaces, PointerPlaces, LinkedPlaces
<1>7. PlaceInv(where, at)'
  BY ConstantsAssumption DEF Inv, AuxWorkMisc, Goto, elements, tail, reclaim, lists, locals,
         counts, ElementType, Element, Pointer, ThreadType, Threads, Producers, PlaceInv,
         HoldPlaces
<1>8. OrderInv(where, at)'
  BY ConstantsAssumption DEF Inv, AuxWorkMisc, Goto, elements, tail, reclaim, lists, locals,
         counts, ElementType, Element, Pointer, ThreadType, Threads, Producers, OrderInv,
         MarkerPlaces, PointerPlaces, LinkedPlaces
<1>9. PointerInv(where, at)'
  BY ConstantsAssumption DEF Inv, AuxWorkMisc, Goto, elements, tail, reclaim, lists, locals,
         counts, ElementType, Element, Pointer, ThreadType, Threads, Producers, PointerInv,
         Pointers, Waited
<1>10. MoveInv(at)'
  BY ConstantsAssumption DEF Inv, AuxWorkMisc, Goto, elements, tail, reclaim, lists, locals,
         counts, ElementType, Element, Pointer, ThreadType, Threads, Producers, MoveInv
<1>11. IxType' /\ ElementType' /\ ListType' /\ CallType' /\ NoteType'
  BY ConstantsAssumption DEF Inv, IxType, Element, ElementType, Pointer, ListType, CallType,
         NoteType, AuxWorkMisc, Goto, elements, tail, reclaim, lists, locals, counts
<1>12. QueueInv(where, at)' /\ ListInv(where, at)'
  BY DEF Inv, QueueInv, Element, IsList, ListInv, AuxWorkMisc, Goto, elements, tail, reclaim,
         lists, locals, counts
<1> QED BY <1>1, <1>2, <1>3, <1>4, <1>5, <1>6, <1>7, <1>8, <1>9, <1>10, <1>11, <1>12 DEF Inv

\* resets its event,
LEMMA AsyncResetStep ==
  ASSUME NEW where \in [Element -> Lists], NEW at \in [Element -> Int], Inv(where, at),
         AsyncReset
  PROVE  Inv(where, at)'
<1>1. ThreadType'
  BY ConstantsAssumption DEF Inv, AsyncReset, Goto, elements, tail, reclaim, lists, locals,
         counts, ElementType, Element, Pointer, ThreadType, Threads, Producers
<1>2. ConsumerInv'
  BY ConstantsAssumption DEF Inv, AsyncReset, Goto, elements, tail, reclaim, lists, locals,
         counts, ElementType, Element, Pointer, ThreadType, Threads, Producers, ConsumerInv,
         CleanPlaces, MarkerPlaces, PointerPlaces, LinkedPlaces, HoldPlaces
<1>3. ProducerInv'
  BY ConstantsAssumption DEF Inv, AsyncReset, Goto, elements, tail, reclaim, lists, locals,
         counts, ElementType, Element, Pointer, ThreadType, Threads, Producers, ProducerInv,
         HoldPlaces, LinkedPlaces, PointerPlaces
<1>4. OwnInv'
  BY ConstantsAssumption DEF Inv, AsyncReset, Goto, elements, tail, reclaim, lists, locals,
         counts, ElementType, Element, Pointer, ThreadType, Threads, Producers, OwnInv,
         HoldPlaces, LinkedPlaces
<1>5. CountInv'
  BY ConstantsAssumption, CountSame DEF Inv, AsyncReset, Goto, elements, tail, reclaim, lists,
         locals, counts, ElementType, Element, Pointer, ThreadType, Threads, Producers,
         CountPlaces, PointerPlaces, LinkedPlaces
<1>6. SwitchInv'
  BY ConstantsAssumption DEF Inv, AsyncReset, Goto, elements, tail, reclaim, lists, locals,
         counts, ElementType, Element, Pointer, ThreadType, Threads, Producers, SwitchInv,
         MarkerPlaces, PointerPlaces, LinkedPlaces
<1>7. PlaceInv(where, at)'
  BY ConstantsAssumption DEF Inv, AsyncReset, Goto, elements, tail, reclaim, lists, locals,
         counts, ElementType, Element, Pointer, ThreadType, Threads, Producers, PlaceInv,
         HoldPlaces
<1>8. OrderInv(where, at)'
  BY ConstantsAssumption DEF Inv, AsyncReset, Goto, elements, tail, reclaim, lists, locals,
         counts, ElementType, Element, Pointer, ThreadType, Threads, Producers, OrderInv,
         MarkerPlaces, PointerPlaces, LinkedPlaces
<1>9. PointerInv(where, at)'
  BY ConstantsAssumption DEF Inv, AsyncReset, Goto, elements, tail, reclaim, lists, locals,
         counts, ElementType, Element, Pointer, ThreadType, Threads, Producers, PointerInv,
         Pointers, Waited
<1>10. MoveInv(at)'
  BY ConstantsAssumption DEF Inv, AsyncReset, Goto, elements, tail, reclaim, lists, locals,
         counts, ElementType, Element, Pointer, ThreadType, Threads, Producers, MoveInv
<1>11. IxType' /\ ElementType' /\ ListType' /\ CallType' /\ NoteType'
  BY ConstantsAssumption DEF Inv, IxType, Element, ElementType, Pointer, ListType, CallType,
         NoteType, AsyncReset, Goto, elements, tail, reclaim, lists, locals, counts
<1>12. QueueInv(where, at)' /\ ListInv(where, at)'
  BY DEF Inv, QueueInv, Element, IsList, ListInv, AsyncReset, Goto, elements, tail, reclaim,
         lists, locals, counts
<1> QED BY <1>1, <1>2, <1>3, <1>4, <1>5, <1>6, <1>7, <1>8, <1>9, <1>10, <1>11, <1>12 DEF Inv

\* moves the head to the marker
LEMMA EnsureEmptyStep ==
  ASSUME NEW where \in [Element -> Lists], NEW at \in [Element -> Int], Inv(where, at),
         EnsureEmpty
  PROVE  Inv(where, at)'
<1>1. ElementType'
  BY ConstantsAssumption DEF Inv, EnsureEmpty, Goto, elements, tail, reclaim, notes, lists,
         locals, counts, ElementType, Element, Pointer, ThreadType, Threads, Producers
<1>2. ThreadType'
  BY ConstantsAssumption DEF Inv, EnsureEmpty, Goto, elements, tail, reclaim, notes, lists,
         locals, counts, ElementType, Element, Pointer, ThreadType, Threads, Producers
<1>3. ConsumerInv'
  BY ConstantsAssumption DEF Inv, EnsureEmpty, Goto, elements, tail, reclaim, notes, lists,
         locals, counts, ElementType, Element, Pointer, ThreadType, Threads, Producers,
         ConsumerInv, CleanPlaces, MarkerPlaces, PointerPlaces, LinkedPlaces, HoldPlaces
<1>4. ProducerInv'
  BY ConstantsAssumption DEF Inv, EnsureEmpty, Goto, elements, tail, reclaim, notes, lists,
         locals, counts, ElementType, Element, Pointer, ThreadType, Threads, Producers,
         ProducerInv, HoldPlaces, LinkedPlaces, PointerPlaces
<1>5. OwnInv'
  BY ConstantsAssumption DEF Inv, EnsureEmpty, Goto, elements, tail, reclaim, notes, lists,
         locals, counts, ElementType, Element, Pointer, ThreadType, Threads, Producers, OwnInv,
         HoldPlaces, LinkedPlaces
<1>6. CountInv'
  BY ConstantsAssumption, CountSame DEF Inv, EnsureEmpty, Goto, elements, tail, reclaim, notes,
         lists, locals, counts, ElementType, Element, Pointer, ThreadType, Threads, Producers,
         CountPlaces, PointerPlaces, LinkedPlaces
<1>7. SwitchInv'
  BY ConstantsAssumption DEF Inv, EnsureEmpty, Goto, elements, tail, reclaim, notes, lists,
         locals, counts, ElementType, Element, Pointer, ThreadType, Threads, Producers,
         SwitchInv, MarkerPlaces, PointerPlaces, LinkedPlaces
<1>8. PlaceInv(where, at)'
  BY ConstantsAssumption DEF Inv, EnsureEmpty, Goto, elements, tail, reclaim, notes, lists,
         locals, counts, ElementType, Element, Pointer, ThreadType, Threads, Producers,
         PlaceInv, HoldPlaces
<1>9. OrderInv(where, at)'
  BY ConstantsAssumption DEF Inv, EnsureEmpty, Goto, elements, tail, reclaim, notes, lists,
         locals, counts, IxType, Element, ElementType, Pointer, ListType, ThreadType, Threads,
         Producers, ConsumerInv, CleanPlaces, MarkerPlaces, PointerPlaces, LinkedPlaces,
         HoldPlaces, ProducerInv, OwnInv, QueueInv, IsList, PlaceInv, OrderInv
<1>10. PointerInv(where, at)'
  BY ConstantsAssumption DEF Inv, EnsureEmpty, Goto, elements, tail, reclaim, notes, lists,
         locals, counts, ElementType, Element, Pointer, ThreadType, Threads, Producers,
         PointerInv, Pointers, Waited
<1>11. MoveInv(at)'
  BY ConstantsAssumption DEF Inv, EnsureEmpty, Goto, elements, tail, reclaim, notes, lists,
         locals, counts, ElementType, Element, Pointer, ThreadType, Threads, Producers, MoveInv
<1>12. IxType' /\ ListType' /\ CallType' /\ NoteType'
  BY ConstantsAssumption DEF Inv, IxType, Element, ListType, Pointer, CallType, NoteType,
         EnsureEmpty, Goto, elements, tail, reclaim, notes, lists, locals, counts
<1>13. QueueInv(where, at)' /\ ListInv(where, at)'
  BY DEF Inv, QueueInv, Element, IsList, ListInv, EnsureEmpty, Goto, elements, tail, reclaim,
         notes, lists, locals, counts
<1> QED BY <1>1, <1>2, <1>3, <1>4, <1>5, <1>6, <1>7, <1>8, <1>9, <1>10, <1>11, <1>12, <1>13 DEF
               Inv

\* or waits.
LEMMA AsyncWaitStep ==
  ASSUME NEW where \in [Element -> Lists], NEW at \in [Element -> Int], Inv(where, at),
         AsyncWait
  PROVE  Inv(where, at)'
<1>1. ThreadType'
  BY ConstantsAssumption DEF Inv, AsyncWait, Goto, elements, tail, reclaim, notes, lists,
         locals, counts, ElementType, Element, Pointer, ThreadType, Threads, Producers
<1>2. ConsumerInv'
  BY ConstantsAssumption DEF Inv, AsyncWait, Goto, elements, tail, reclaim, notes, lists,
         locals, counts, ElementType, Element, Pointer, ThreadType, Threads, Producers,
         ConsumerInv, CleanPlaces, MarkerPlaces, PointerPlaces, LinkedPlaces, HoldPlaces
<1>3. ProducerInv'
  BY ConstantsAssumption DEF Inv, AsyncWait, Goto, elements, tail, reclaim, notes, lists,
         locals, counts, ElementType, Element, Pointer, ThreadType, Threads, Producers,
         ProducerInv, HoldPlaces, LinkedPlaces, PointerPlaces
<1>4. OwnInv'
  BY ConstantsAssumption DEF Inv, AsyncWait, Goto, elements, tail, reclaim, notes, lists,
         locals, counts, ElementType, Element, Pointer, ThreadType, Threads, Producers, OwnInv,
         HoldPlaces, LinkedPlaces
<1>5. CountInv'
  BY ConstantsAssumption, CountSame DEF Inv, AsyncWait, Goto, elements, tail, reclaim, notes,
         lists, locals, counts, ElementType, Element, Pointer, ThreadType, Threads, Producers,
         CountPlaces, PointerPlaces, LinkedPlaces
<1>6. SwitchInv'
  BY ConstantsAssumption DEF Inv, AsyncWait, Goto, elements, tail, reclaim, notes, lists,
         locals, counts, ElementType, Element, Pointer, ThreadType, Threads, Producers,
         SwitchInv, MarkerPlaces, PointerPlaces, LinkedPlaces
<1>7. PlaceInv(where, at)'
  BY ConstantsAssumption DEF Inv, AsyncWait, Goto, elements, tail, reclaim, notes, lists,
         locals, counts, ElementType, Element, Pointer, ThreadType, Threads, Producers,
         PlaceInv, HoldPlaces
<1>8. OrderInv(where, at)'
  BY ConstantsAssumption DEF Inv, AsyncWait, Goto, elements, tail, reclaim, notes, lists,
         locals, counts, ElementType, Element, Pointer, ThreadType, Threads, Producers,
         OrderInv, MarkerPlaces, PointerPlaces, LinkedPlaces
<1>9. PointerInv(where, at)'
  BY ConstantsAssumption DEF Inv, AsyncWait, Goto, elements, tail, reclaim, notes, lists,
         locals, counts, ElementType, Element, Pointer, ThreadType, Threads, Producers,
         PointerInv, Pointers, Waited
<1>10. MoveInv(at)'
  BY ConstantsAssumption DEF Inv, AsyncWait, Goto, elements, tail, reclaim, notes, lists,
         locals, counts, ElementType, Element, Pointer, ThreadType, Threads, Producers, MoveInv
<1>11. IxType' /\ ElementType' /\ ListType' /\ CallType' /\ NoteType'
  BY ConstantsAssumption DEF Inv, IxType, Element, ElementType, Pointer, ListType, CallType,
         NoteType, AsyncWait, Goto, elements, tail, reclaim, notes, lists, locals, counts
<1>12. QueueInv(where, at)' /\ ListInv(where, at)'
  BY DEF Inv, QueueInv, Element, IsList, ListInv, AsyncWait, Goto, elements, tail, reclaim,
         notes, lists, locals, counts
<1> QED BY <1>1, <1>2, <1>3, <1>4, <1>5, <1>6, <1>7, <1>8, <1>9, <1>10, <1>11, <1>12 DEF Inv

\* It is woken when there is thread progress.
LEMMA ThrPrgrWakeupStep ==
  ASSUME NEW where \in [Element -> Lists], NEW at \in [Element -> Int], Inv(where, at),
         ThrPrgrWakeup
  PROVE  Inv(where, at)'
<1>1. NoteType'
  BY ConstantsAssumption DEF Inv, ThrPrgrWakeup, elements, tail, reclaim, lists, locals, counts,
         ElementType, Element, Pointer, ThreadType, Threads, Producers, NoteType
<1>2. IxType' /\ ElementType' /\ ListType' /\ ThreadType' /\ CallType' /\ ConsumerInv' /\
      ProducerInv' /\ OwnInv' /\ CountInv' /\ SwitchInv' /\ PlaceInv(where, at)' /\
      OrderInv(where, at)' /\ PointerInv(where, at)' /\ MoveInv(at)'
  BY ConstantsAssumption DEF Inv, IxType, Element, ElementType, Pointer, ListType, ThreadType,
         Threads, Producers, CallType, ConsumerInv, CleanPlaces, MarkerPlaces, PointerPlaces,
         LinkedPlaces, HoldPlaces, ProducerInv, OwnInv, CountInv, Counted, CountPlaces,
         SwitchInv, PlaceInv, OrderInv, PointerInv, Pointers, Waited, MoveInv, ThrPrgrWakeup,
         elements, tail, reclaim, lists, locals, counts
<1>3. QueueInv(where, at)' /\ ListInv(where, at)'
  BY DEF Inv, QueueInv, Element, IsList, ListInv, ThrPrgrWakeup, elements, tail, reclaim, lists,
         locals, counts
<1> QED BY <1>1, <1>2, <1>3 DEF Inv

-----------------------------------------------------------------------------
(* The steps that move elements.                                           *)

\* A new element goes behind the last one, whose next one is null.
LEMMA EnqLinkStep ==
  ASSUME NEW where \in [Element -> Lists], NEW at \in [Element -> Int], Inv(where, at),
         NEW t \in Threads, EnqLink(t)
  PROVE  IInv'
<1>1. /\ pc[t] = "link" /\ pc' = [pc EXCEPT ![t] = "check"] /\ pc'[t] = "check"
      /\ next[ilast[t]] = Null /\ next' = [next EXCEPT ![ilast[t]] = this[t]]
      /\ \A u \in Threads \ {t} : pc'[u] = pc[u]
      /\ sent' = IF t = Consumer THEN sent ELSE [sent EXCEPT ![t] = @ + 1]
      /\ UNCHANGED <<data, live, tail, head, used_marker, reclaim, notes, lists, locals, got>>
  BY DEF EnqLink, Goto, Inv, ThreadType
<1>2. PICK l \in Element : l = ilast[t]
  BY <1>1 DEF Inv, PointerInv, Pointers
<1>3. where[l] = "queue" /\ at[unref_end] <= at[l] /\ next[l] = Null
  BY <1>1, <1>2 DEF Inv, PointerInv, Pointers
<1>4. PICK x \in Element : x = this[t]
  BY <1>1 DEF Inv, ProducerInv, ConsumerInv, Threads, HoldPlaces, PointerPlaces, Element
<1>5. where[x] = "none" /\ next[x] = Null /\ x # l
  <2>1. CASE t = Consumer
    BY <1>1, <1>3, <1>4, <2>1 DEF Inv, PlaceInv, ConsumerInv, PointerPlaces
  <2>2. CASE t # Consumer
    BY <1>1, <1>3, <1>4, <2>2 DEF Inv, PlaceInv, ProducerInv, HoldPlaces, Threads
  <2> QED BY <2>1, <2>2
<1>6. PICK w \in [Element -> Lists] : w = [where EXCEPT ![x] = "queue"]
  BY DEF Lists
<1>7. PICK a \in [Element -> Int] : a = [at EXCEPT ![x] = at[l] + 1]
  <2>1. at[l] + 1 \in Int
    OBVIOUS
  <2> QED BY <2>1
<1>8. /\ next' = [next EXCEPT ![l] = x] /\ next'[l] = x
      /\ \A e \in Element \ {l} : next'[e] = next[e]
      /\ w[x] = "queue" /\ a[x] = at[l] + 1
      /\ \A e \in Element \ {x} : w[e] = where[e] /\ a[e] = at[e]
      /\ \A e \in Element : at[e] \in Int /\ a[e] \in Int
  BY <1>1, <1>2, <1>4, <1>6, <1>7 DEF Inv, ElementType
<1>9. IsList(next, where, at, "queue", first, l)
  BY <1>3, ConstantsAssumption DEF Inv, QueueInv, IsList, Element
<1>10. UNCHANGED <<data, live, last, um_refc, um_refc_ix, head, used_marker, first, unref_end,
                   clean_reached_head_count, deq_fini, nxt, grace, wakeup, fin_deq, arq_fin_deq, this, ilast,
                   um_ix, call, got>>
  BY <1>1 DEF tail, reclaim, notes, lists, locals
<1>11. first \in Element /\ last \in Element /\ unref_end \in Element /\ nxt.unref_end \in Element
  BY DEF Inv, ElementType, IxType
<1> HIDE <1>6, <1>7
<1>12. QueueInv(w, a)'
  <2>1. IsList(next, w, a, "queue", first, x)'
    <3>1. /\ first' = first /\ first # Null /\ x # Null /\ where[first] = "queue" /\ w[first] = "queue"
          /\ a[first] = at[first]
      BY <1>3, <1>5, <1>8, <1>9, <1>10, <1>11, ConstantsAssumption DEF IsList, Element
    <3>2. ASSUME NEW e \in Element, w[e] = "queue"
          PROVE  /\ a[first] <= a[e] /\ a[e] <= a[x]
                 /\ e # x => next'[e] \in Element /\ w[next'[e]] = "queue" /\ a[next'[e]] = a[e] + 1
      <4>1. CASE e = x
        BY <1>3, <1>8, <1>9, <1>11, <3>1, <4>1 DEF IsList
      <4>2. CASE e = l
        BY <1>3, <1>5, <1>8, <1>9, <1>11, <3>1, <4>2 DEF IsList
      <4>3. CASE e # x /\ e # l
        <5>1. /\ where[e] = "queue" /\ a[e] = at[e] /\ next'[e] = next[e] /\ at[first] <= at[e] /\ at[e] <= at[l]
              /\ next[e] \in Element /\ where[next[e]] = "queue" /\ at[next[e]] = at[e] + 1
          BY <1>8, <1>9, <3>2, <4>3 DEF IsList
        <5> QED BY <1>5, <1>8, <3>1, <5>1
      <4> QED BY <4>1, <4>2, <4>3
    <3> QED BY <1>8, <3>1, <3>2 DEF IsList
  <2> QED BY <1>5, <1>8, <2>1 DEF QueueInv
<1>13. ListInv(w, a)'
  <2>1. ASSUME NEW name, name # "queue", name # "none", NEW s \in Pointer, NEW end \in Pointer, IsList(next, where, at, name, s, end)
        PROVE  IsList(next, w, a, name, s, end)'
    BY <1>3, <1>5, <1>8, <2>1 DEF IsList, Pointer
  <2>2. ASSUME NEW name, name # "queue", name # "none", NEW s \in Pointer, NEW end \in Pointer, IsList(next, where, at, name, s, end), end # Null
        PROVE  next'[end] = next[end] /\ where[end] # "queue" /\ end \in Element
    BY <1>3, <1>8, <2>2 DEF IsList, Pointer
  <2>3. PICK ds, de, fs, fe, as, ae \in Pointer : deq_fini.start = ds /\ deq_fini.end = de /\ fin_deq.start = fs
           /\ fin_deq.end = fe /\ arq_fin_deq.start = as /\ arq_fin_deq.end = ae
    BY DEF Inv, ListType
  <2>4. IsList(next, where, at, "deq", ds, de) /\ IsList(next, where, at, "fin", fs, fe) /\ IsList(next, where, at, "arq", as, ae)
    BY <2>3 DEF Inv, ListInv
  <2>5. IsList(next, w, a, "deq", ds, de)' /\ IsList(next, w, a, "fin", fs, fe)' /\ IsList(next, w, a, "arq", as, ae)'
    BY <2>1, <2>4
  <2>6. /\ de # Null => next'[de] = next[de]
        /\ fe # Null => next'[fe] = next[fe]
        /\ ae # Null => next'[ae] = next[ae]
    BY <2>2, <2>4
  <2>7. w[Marker] # "queue" => where[Marker] # "queue" /\ next'[Marker] = next[Marker]
    BY <1>3, <1>8 DEF Element
  <2>8. /\ deq_fini'.start = ds /\ deq_fini'.end = de /\ fin_deq'.start = fs
        /\ fin_deq'.end = fe /\ arq_fin_deq'.start = as /\ arq_fin_deq'.end = ae /\ first' = first
    BY <1>10, <2>3
  <2>9. /\ fe # Null => next[fe] = Null
        /\ ae # Null => next[ae] = Null
        /\ de # Null => next[de] \in {first, Marker}
        /\ de # Null /\ next[de] = Marker /\ where[Marker] # "queue" => next[Marker] \in {Null, first}
    BY <2>3 DEF Inv, ListInv
  <2> QED BY <2>5, <2>6, <2>7, <2>8, <2>9 DEF ListInv
<1>14. PlaceInv(w, a)'
  <2>1. \A u \in Producers : u # t /\ pc[u] \in HoldPlaces => this[u] # x
    BY <1>1, <1>4 DEF Inv, OwnInv, Threads, HoldPlaces
  <2>2. t = Consumer => x = Marker
    BY <1>1, <1>4 DEF Inv, ConsumerInv, PointerPlaces
  <2>3. t # Consumer => t \in Producers /\ x \in live /\ x # Marker
    BY <1>1, <1>4, ConstantsAssumption DEF Inv, PlaceInv, ProducerInv, HoldPlaces, Threads
  <2>4. ASSUME NEW e \in Element, NEW f \in Element, w[e] = w[f], w[e] # "none", a[e] = a[f], e # f PROVE FALSE
    <3>1. \A g \in Element : where[g] = "queue" => at[g] < a[x]
      BY <1>8, <1>9 DEF IsList
    <3> QED BY <1>8, <2>4, <3>1 DEF Inv, PlaceInv
  <2>5. \A u \in Producers : pc'[u] \in HoldPlaces => pc[u] \in HoldPlaces /\ w[this'[u]] = "none" /\ this'[u] \in live'
    BY <1>1, <1>8, <1>10, <2>1 DEF Inv, PlaceInv, ProducerInv, Threads, HoldPlaces, Element
  <2>6. \A e \in live : w[e] # "none" \/ \E u \in Producers : pc'[u] \in HoldPlaces /\ this'[u] = e
    <3> SUFFICES ASSUME NEW e \in live, e # x PROVE w[e] # "none" \/ \E u \in Producers : pc'[u] \in HoldPlaces /\ this'[u] = e
      BY <1>8
    <3>1. where[e] # "none" => w[e] # "none"
      BY <1>8 DEF Inv, ElementType, Element
    <3>2. ASSUME NEW u \in Producers, pc[u] \in HoldPlaces, this[u] = e PROVE pc'[u] \in HoldPlaces /\ this'[u] = e
      BY <1>1, <1>4, <1>10, <3>2 DEF Threads
    <3> QED BY <3>1, <3>2 DEF Inv, PlaceInv
  <2>7. \A e \in El : w[e] = "none" => next'[e] = Null
    BY <1>3, <1>8 DEF Inv, PlaceInv, Element
  <2>8. \A e \in El : w[e] # "none" => e \in live
    BY <1>8, <2>2, <2>3, ConstantsAssumption DEF Inv, PlaceInv, Element
  <2>9. /\ w[Marker] \in {"queue", "none"}
        /\ used_marker <=> w[Marker] = "queue" \/ pc'[Consumer] = "link"
        /\ pc'[Consumer] = "marker" => ~used_marker
        /\ pc'[Consumer] = "link" => w[Marker] = "none" /\ next'[Marker] = Null
    <3>1. CASE t = Consumer
      BY <1>1, <1>8, <2>2, <3>1 DEF Inv, PlaceInv
    <3>2. CASE t # Consumer
      <4>1. pc'[Consumer] = pc[Consumer] /\ w[Marker] = where[Marker]
        BY <1>1, <1>8, <2>3, <3>2 DEF Threads, Element
      <4>2. where[Marker] = "none" => next'[Marker] = next[Marker]
        BY <1>3, <1>8 DEF Element
      <4> QED BY <4>1, <4>2 DEF Inv, PlaceInv
    <3> QED BY <3>1, <3>2
  <2> QED BY <1>10, <2>4, <2>5, <2>6, <2>7, <2>8, <2>9 DEF PlaceInv
<1>15. OrderInv(w, a)'
  <2>1. pc'[Consumer] = pc[Consumer] \/ (pc'[Consumer] = "check" /\ pc[Consumer] = "link")
    <3>1. CASE t = Consumer
      BY <1>1, <3>1
    <3>2. CASE t # Consumer
      BY <1>1, <3>2 DEF Threads
    <3> QED BY <3>1, <3>2
  <2>2. \A e \in Element : where[e] = "queue" => w[e] = "queue" /\ a[e] = at[e]
    BY <1>5, <1>8
  <2> QED BY <1>10, <1>11, <2>1, <2>2 DEF Inv, OrderInv, ElementType, MarkerPlaces,
             PointerPlaces, LinkedPlaces
<1>16. PointerInv(w, a)'
  <2>1. \A e \in Element : where[e] = "queue" => w[e] = "queue" /\ a[e] = at[e]
    BY <1>5, <1>8
  <2>2. \A u \in Threads : Waited(u) => Waited(u)'
    BY <1>1, <1>10 DEF Waited, Threads
  <2>3. ASSUME NEW u \in Threads, NEW e \in Pointers(u)', e # x PROVE e \in Pointers(u)
    BY <1>1, <1>4, <1>10, <2>3 DEF Pointers
  <2>4. at[unref_end] <= at[l] /\ at[nxt.unref_end] <= at[l]
    BY <1>8, <1>9, <1>11 DEF Inv, OrderInv, IsList
  <2>5. a[unref_end] <= a[x] /\ a[nxt.unref_end] <= a[x]
    BY <1>8, <1>11, <2>1, <2>4 DEF Inv, OrderInv
  <2>6. a[unref_end] = at[unref_end] /\ a[nxt.unref_end] = at[nxt.unref_end]
    BY <1>11, <2>1 DEF Inv, OrderInv
  <2> SUFFICES ASSUME NEW u \in Threads, NEW e \in Pointers(u)'
               PROVE  (/\ e \in Element /\ w[e] = "queue"
                       /\ a[unref_end] <= a[e]
                       /\ a[nxt.unref_end] <= a[e] \/ Waited(u))'
    BY Zenon DEF PointerInv
  <2>7. CASE e = x
    BY <1>8, <1>10, <2>5, <2>7
  <2>8. CASE e # x
    BY <1>10, <2>1, <2>2, <2>3, <2>6, <2>8 DEF Inv, PointerInv
  <2> QED BY <2>7, <2>8
<1>17. MoveInv(a)'
  <2>1. \A e \in Element : where[e] = "queue" => a[e] = at[e]
    BY <1>5, <1>8
  <2>2. ASSUME NEW u \in Threads, pc[u] = "move" PROVE a[ilast[u]] = at[ilast[u]] /\ a[this[u]] = at[this[u]]
    BY <2>1, <2>2 DEF Inv, PointerInv, Pointers
  <2> QED BY <1>1, <1>2, <1>4, <1>5, <1>10, <2>2 DEF Inv, MoveInv
<1>18. ElementType' /\ ListType' /\ IxType' /\ CallType' /\ NoteType'
  <2>1. ElementType'
    BY <1>8, <1>10 DEF Inv, ElementType, Pointer
  <2>2. ListType' /\ IxType'
    BY <1>10 DEF Inv, ListType, IxType
  <2>3. CallType' /\ NoteType'
    BY <1>10 DEF Inv, CallType, NoteType
  <2> QED BY <2>1, <2>2, <2>3
<1>19. ThreadType'
  BY <1>1, <1>10 DEF Inv, ThreadType, Threads
<1>20. ConsumerInv'
  BY <1>1, <1>10 DEF Inv, ConsumerInv, Threads, MarkerPlaces, PointerPlaces, LinkedPlaces,
     HoldPlaces, CleanPlaces
<1>21. ProducerInv'
  <2>1. t # Consumer => \A u \in Producers \ {t} : sent'[u] = sent[u]
    BY <1>1 DEF Inv, ThreadType
  <2>2. t = Consumer => t \notin Producers
    BY ConstantsAssumption DEF Producers
  <2> QED BY <1>1, <1>10, <2>1, <2>2 DEF Inv, ProducerInv, Threads, PointerPlaces, LinkedPlaces,
             HoldPlaces
<1>22. OwnInv'
  BY <1>1, <1>10 DEF Inv, OwnInv, PointerPlaces, LinkedPlaces, HoldPlaces
<1>23. CountInv'
  BY <1>1, <1>10, CountSame DEF Inv, CountPlaces, PointerPlaces, LinkedPlaces, Threads, Producers
<1>24. SwitchInv'
  BY <1>1, <1>10 DEF Inv, SwitchInv, MarkerPlaces, PointerPlaces, LinkedPlaces, Threads, Producers
<1>25. Inv(w, a)'
  BY <1>12, <1>13, <1>14, <1>15, <1>16, <1>17, <1>18, <1>19, <1>20, <1>21, <1>22, <1>23, <1>24
     DEF Inv
<1> QED BY <1>25 DEF IInv

\* The first element is taken from the queue, nobody has a pointer to it.
LEMMA CleanFirstStep ==
  ASSUME NEW where \in [Element -> Lists], NEW at \in [Element -> Int], Inv(where, at), CleanFirst
  PROVE  IInv'
<1>1. PICK f \in Element : f = first
  BY DEF Inv, ElementType
<1>2. PICK ds, de \in Pointer : deq_fini.start = ds /\ deq_fini.end = de
  BY DEF Inv, ListType
<1>3. PICK g \in Pointer : g = next[f]
  BY DEF Inv, ElementType
<1>4. PICK auto \in BOOLEAN : auto = deq_fini.automatic
  BY DEF Inv, ListType
<1>5. /\ pc[Consumer] = "clean" /\ f # head /\ f # unref_end /\ first' = g
      /\ UNCHANGED <<tail, head, unref_end, nxt, grace, clean_reached_head_count, notes,
                     lists, pc, this, ilast, um_ix, counts>>
      /\ \/ /\ f = Marker /\ used_marker' = FALSE
            /\ UNCHANGED <<elements, deq_fini, call>>
         \/ /\ f # Marker /\ auto /\ live' = live \ {f}
            /\ next' = [e \in Element |-> IF e = f THEN Null ELSE next[e]]
            /\ data' = [e \in Element |-> IF e = f THEN Null ELSE data[e]]
            /\ UNCHANGED <<used_marker, deq_fini>> /\ call' = [call EXCEPT !.ops = @ + 1]
         \/ /\ f # Marker /\ ~auto
            /\ deq_fini' = [deq_fini EXCEPT !.start = IF @ = Null THEN f ELSE @, !.end = f]
            /\ next' = IF ds # Null /\ next[de] = Marker THEN [next EXCEPT ![de] = f] ELSE next
            /\ UNCHANGED <<data, live, used_marker>> /\ call' = [call EXCEPT !.ops = @ + 1]
  <2>1. CASE f = Marker
    BY <1>1, <1>3, <2>1 DEF CleanFirst
  <2>2. CASE f # Marker /\ auto
    BY <1>1, <1>3, <1>4, <2>2 DEF CleanFirst, Reclaim, FreeElements
  <2>3. CASE f # Marker /\ ~auto
    BY <1>1, <1>2, <1>3, <1>4, <2>3 DEF CleanFirst, Reclaim
  <2> QED BY <2>1, <2>2, <2>3
<1>6. UNCHANGED <<last, um_refc, um_refc_ix, head, unref_end,
                   clean_reached_head_count, nxt, grace, wakeup, fin_deq, arq_fin_deq, pc, this, ilast,
                   um_ix, sent, got>>
  BY <1>5 DEF tail, notes, lists, counts
<1>7. \A e \in Element : at[e] \in Int /\ where[e] \in Lists
  OBVIOUS
<1>8. /\ Null \notin Element /\ Marker \in Element
      /\ unref_end \in Element /\ where[unref_end] = "queue" /\ head \in Element /\ where[head] = "queue"
      /\ nxt.unref_end \in Element /\ where[nxt.unref_end] = "queue" /\ last \in Element /\ where[last] = "queue"
      /\ at[unref_end] <= at[nxt.unref_end] /\ at[nxt.unref_end] <= at[last]
  BY ConstantsAssumption DEF Inv, OrderInv, ElementType, IxType, Element
<1>9. /\ where[f] = "queue" /\ g \in Element /\ where[g] = "queue" /\ at[g] = at[f] + 1
      /\ \A e \in Element \ {f} : where[e] = "queue" => at[f] < at[e]
      /\ at[f] < at[unref_end]
  <2>1. PICK end \in Element : next[end] = Null /\ IsList(next, where, at, "queue", f, end)
    BY <1>1 DEF Inv, QueueInv
  <2>2. where[f] = "queue" /\ where[end] = "queue"
    BY <1>8, <2>1 DEF IsList
  <2>3. \A e \in Element \ {f} : where[e] = "queue" => at[f] < at[e]
    BY <1>7, <2>1, <2>2 DEF IsList, Inv, PlaceInv
  <2>4. f # end
    BY <1>5, <1>7, <1>8, <2>1, <2>3 DEF IsList
  <2> QED BY <1>3, <1>5, <1>8, <2>1, <2>2, <2>3, <2>4 DEF IsList
<1>10. PICK w \in [Element -> Lists] :
         w = [where EXCEPT ![f] = IF f = Marker \/ auto THEN "none" ELSE "deq"]
  BY DEF Lists
<1>11. PICK a \in [Element -> Int] :
         a = [at EXCEPT ![f] = IF f = Marker \/ auto \/ de = Null THEN @ ELSE at[de] + 1]
  <2>1. at[f] \in Int /\ (de # Null => at[de] + 1 \in Int)
    BY DEF Pointer
  <2> QED BY <2>1
<1>12. /\ \A e \in Element \ {f} : w[e] = where[e] /\ a[e] = at[e]
       /\ w[f] = IF f = Marker \/ auto THEN "none" ELSE "deq"
       /\ a[f] = IF f = Marker \/ auto \/ de = Null THEN at[f] ELSE at[de] + 1
       /\ \A e \in Element : a[e] \in Int
  BY <1>10, <1>11
<1> HIDE <1>10, <1>11
<1>13. IsList(next, where, at, "deq", ds, de) /\ (auto => ds = Null) /\ (de # Null => de \in Element /\ where[de] = "deq")
       /\ (de # Null => next[de] \in {f, Marker}) /\ de # f
  <2>1. IsList(next, where, at, "deq", ds, de) /\ (de # Null => next[de] \in {f, Marker})
    BY <1>1, <1>2 DEF Inv, ListInv
  <2>2. de # Null => de \in Element /\ where[de] = "deq"
    BY <2>1 DEF IsList, Pointer
  <2>3. auto => ds = Null
    BY <1>2, <1>4 DEF Inv, ListType
  <2>4. de # f
    BY <1>8, <1>9, <2>2
  <2> QED BY <2>1, <2>2, <2>3, <2>4
<1>14. /\ \A e \in Element \ {f} : where[e] # "deq" => next'[e] = next[e]
       /\ next' \in [Element -> Pointer]
       /\ \A e \in Element \ {f, de} : next'[e] = next[e]
       /\ DOMAIN data' = Element /\ \A e \in Element \ {f} : data'[e] = data[e]
       /\ live' = IF f # Marker /\ auto THEN live \ {f} ELSE live
       /\ f # Marker /\ auto => next'[f] = Null
       /\ f = Marker \/ ~auto => next'[f] = g
  <2>1. CASE f = Marker
    BY <1>3, <1>5, <2>1 DEF elements, Inv, ElementType
  <2>2. CASE f # Marker /\ auto
    BY <1>5, <2>2 DEF Inv, ElementType, Pointer
  <2>3. CASE f # Marker /\ ~auto
    <3>1. UNCHANGED <<data, live>> /\ next' = IF ds # Null /\ next[de] = Marker THEN [next EXCEPT ![de] = f] ELSE next
      BY <1>5, <2>3
    <3>2. ds # Null => de # Null
      BY <1>13 DEF IsList
    <3> QED BY <1>3, <1>13, <2>3, <3>1, <3>2 DEF Inv, ElementType, Pointer
  <2> QED BY <2>1, <2>2, <2>3
<1>15. QueueInv(w, a)'
  <2>1. PICK end \in Element : next[end] = Null /\ IsList(next, where, at, "queue", f, end)
    BY <1>1 DEF Inv, QueueInv
  <2>2. where[end] = "queue" /\ end # f
    BY <1>3, <1>8, <1>9, <2>1 DEF IsList
  <2>3. next'[end] = Null
    BY <1>14, <2>1, <2>2
  <2>4. ASSUME NEW e \in Element, w[e] = "queue"
        PROVE  /\ a[g] <= a[e] /\ a[e] <= a[end]
               /\ e # end => next'[e] \in Element /\ w[next'[e]] = "queue" /\ a[next'[e]] = a[e] + 1
    <3>1. e # f /\ where[e] = "queue" /\ a[e] = at[e] /\ a[g] = at[g] /\ a[end] = at[end]
      BY <1>9, <1>12, <2>2, <2>4
    <3>2. at[g] <= at[e] /\ at[e] <= at[end]
      BY <1>7, <1>9, <2>1, <3>1 DEF IsList
    <3>3. e # end => next'[e] = next[e] /\ next[e] \in Element /\ where[next[e]] = "queue" /\ at[next[e]] = at[e] + 1
      BY <1>14, <2>1, <3>1 DEF IsList
    <3>4. e # end => next[e] # f
      BY <1>7, <1>9, <3>1, <3>3
    <3> QED BY <1>12, <3>1, <3>2, <3>3, <3>4
  <2>5. w[g] = "queue" /\ w[end] = "queue" /\ g # Null /\ end # Null
    BY <1>8, <1>9, <1>12, <2>2
  <2> QED BY <1>5, <2>3, <2>4, <2>5 DEF QueueInv, IsList
<1>16. ListInv(w, a)'
  <2>1. PICK fs, fe, as, ae \in Pointer : fin_deq.start = fs
           /\ fin_deq.end = fe /\ arq_fin_deq.start = as /\ arq_fin_deq.end = ae
    BY DEF Inv, ListType
  <2>2. /\ fin_deq'.start = fs /\ fin_deq'.end = fe /\ arq_fin_deq'.start = as /\ arq_fin_deq'.end = ae
    BY <1>6, <2>1
  <2>3. /\ IsList(next, where, at, "fin", fs, fe) /\ IsList(next, where, at, "arq", as, ae)
        /\ fe # Null => next[fe] = Null
        /\ ae # Null => next[ae] = Null
    BY <2>1 DEF Inv, ListInv
  <2>4. ASSUME NEW name \in {"fin", "arq"}, NEW s \in Pointer, NEW end \in Pointer, IsList(next, where, at, name, s, end)
        PROVE  IsList(next, w, a, name, s, end)' /\ (end # Null => next'[end] = next[end])
    BY <1>9, <1>12, <1>14, <2>4 DEF IsList, Pointer
  <2>5. IsList(next, w, a, "fin", fs, fe)' /\ IsList(next, w, a, "arq", as, ae)' /\ (fe # Null => next'[fe] = Null) /\ (ae # Null => next'[ae] = Null)
    BY <2>3, <2>4
  <2>6. ASSUME f = Marker \/ auto
        PROVE  /\ IsList(next, w, a, "deq", ds, de)' /\ deq_fini'.start = ds /\ deq_fini'.end = de
               /\ de # Null => next'[de] \in {g, Marker}
               /\ de # Null /\ next'[de] = Marker /\ w[Marker] # "queue" => next'[Marker] \in {Null, g}
    <3>1. CASE auto
      <4>1. ds = Null /\ de = Null /\ \A e \in Element : w[e] # "deq"
        BY <1>9, <1>12, <1>13, <3>1 DEF IsList
      <4>2. deq_fini' = deq_fini
        BY <1>5, <3>1
      <4> QED BY <1>2, <4>1, <4>2 DEF IsList
    <3>2. CASE f = Marker
      <4>1. next' = next
        BY <1>5, <3>2 DEF elements
      <4>2. IsList(next, w, a, "deq", ds, de)'
        <5>1. \A e \in Element : (w[e] = "deq" <=> where[e] = "deq") /\ (w[e] = "deq" => a[e] = at[e])
          BY <1>9, <1>12, <3>2
        <5> QED BY <1>13, <4>1, <5>1 DEF IsList, Pointer
      <4> QED BY <1>2, <1>3, <1>5, <1>13, <3>2, <4>1, <4>2
    <3> QED BY <2>6, <3>1, <3>2
  <2>7. ASSUME f # Marker, ~auto
        PROVE  /\ IsList(next, w, a, "deq", IF ds = Null THEN f ELSE ds, f)'
               /\ deq_fini'.start = (IF ds = Null THEN f ELSE ds) /\ deq_fini'.end = f
               /\ next'[f] = g /\ w[f] = "deq"
    <3>1. deq_fini'.start = (IF ds = Null THEN f ELSE ds) /\ deq_fini'.end = f
      BY <1>2, <1>5, <2>7 DEF Inv, ListType
    <3>2. w[f] = "deq" /\ next'[f] = g
      BY <1>12, <1>14, <2>7
    <3>3. CASE ds = Null
      <4>1. \A e \in Element : w[e] = "deq" => e = f
        BY <1>12, <1>13, <3>3 DEF IsList
      <4> QED BY <1>8, <1>12, <3>1, <3>2, <3>3, <4>1 DEF IsList
    <3>4. CASE ds # Null
      <4>1. /\ ds \in Element /\ de \in Element /\ where[ds] = "deq" /\ where[de] = "deq" /\ ds # f /\ de # f
            /\ a[f] = at[de] + 1 /\ a[ds] = at[ds] /\ a[de] = at[de] /\ at[ds] <= at[de] /\ w[ds] = "deq"
        BY <1>9, <1>12, <1>13, <2>7, <3>4 DEF IsList, Pointer
      <4>2. next'[de] = f
        <5>1. next' = IF next[de] = Marker THEN [next EXCEPT ![de] = f] ELSE next
          BY <1>5, <2>7, <3>4
        <5>2. next[de] \in {f, Marker} /\ de \in Element /\ DOMAIN next = Element
          BY <1>8, <1>13, <4>1 DEF Inv, ElementType
        <5> QED BY <5>1, <5>2
      <4>3. ASSUME NEW e \in Element, w[e] = "deq", e # f
            PROVE  /\ a[ds] <= a[e] /\ a[e] <= a[f]
                   /\ next'[e] \in Element /\ w[next'[e]] = "deq" /\ a[next'[e]] = a[e] + 1
        <5>1. where[e] = "deq" /\ a[e] = at[e] /\ at[ds] <= at[e] /\ at[e] <= at[de]
          BY <1>12, <1>13, <4>3 DEF IsList
        <5>2. CASE e = de
          BY <1>7, <3>2, <4>1, <4>2, <5>1, <5>2
        <5>3. CASE e # de
          <6>1. next'[e] = next[e] /\ next[e] \in Element /\ where[next[e]] = "deq" /\ at[next[e]] = at[e] + 1
            BY <1>13, <1>14, <4>3, <5>1, <5>3 DEF IsList
          <6> QED BY <1>7, <1>9, <1>12, <4>1, <5>1, <6>1
        <5> QED BY <5>2, <5>3
      <4>4. a[ds] <= a[f]
        BY <1>7, <4>1
      <4> QED BY <1>8, <3>1, <3>2, <3>4, <4>1, <4>3, <4>4 DEF IsList
    <3> QED BY <3>3, <3>4
  <2>8. CASE f = Marker \/ auto
    BY <1>5, <2>2, <2>5, <2>6, <2>8 DEF ListInv
  <2>9. CASE f # Marker /\ ~auto
    <3>1. g = Marker => w[Marker] = "queue"
      BY <1>7, <1>9, <1>12
    <3> QED BY <1>5, <2>2, <2>5, <2>7, <2>9, <3>1 DEF ListInv
  <2> QED BY <2>8, <2>9
<1>17. PlaceInv(w, a)'
  <2>1. \A u \in Producers : pc[u] \in HoldPlaces => this[u] # f /\ this[u] \in El
    BY <1>9 DEF Inv, PlaceInv, ProducerInv
  <2>2. f # Marker => f \in El /\ f \in live
    BY <1>9 DEF Inv, PlaceInv, Element
  <2>3. ASSUME NEW e \in Element, NEW h \in Element, w[e] = w[h], w[e] # "none", a[e] = a[h], e # h PROVE FALSE
    <3>1. w[f] = "deq" => \A x \in Element \ {f} : w[x] = "deq" => a[x] < a[f]
      BY <1>7, <1>12, <1>13 DEF IsList
    <3>2. w[f] \in {"none", "deq"}
      BY <1>12
    <3> QED BY <1>7, <1>12, <2>3, <3>1, <3>2 DEF Inv, PlaceInv
  <2>4. \A u \in Producers : pc[u] \in HoldPlaces => w[this[u]] = "none" /\ this[u] \in live'
    BY <1>12, <1>14, <2>1 DEF Inv, PlaceInv, Element
  <2>5. \A e \in El : w[e] = "none" => next'[e] = Null
    <3> SUFFICES ASSUME NEW e \in El, w[e] = "none" PROVE next'[e] = Null
      OBVIOUS
    <3>1. e \in Element /\ e # Marker
      BY ConstantsAssumption DEF Element
    <3>2. CASE e = f
      BY <1>12, <1>14, <3>1, <3>2
    <3>3. CASE e # f
      BY <1>12, <1>14, <3>1, <3>3 DEF Inv, PlaceInv
    <3> QED BY <3>2, <3>3
  <2>6. \A e \in El : w[e] # "none" => e \in live'
    <3> SUFFICES ASSUME NEW e \in El, w[e] # "none" PROVE e \in live'
      OBVIOUS
    <3>1. e \in Element /\ where[e] # "none"
      BY <1>9, <1>12 DEF Element
    <3>2. e \in live
      BY <3>1 DEF Inv, PlaceInv
    <3>3. live' = live \/ (live' = live \ {f} /\ w[f] = "none")
      BY <1>12, <1>14
    <3> QED BY <3>2, <3>3
  <2>7. \A e \in live' : w[e] # "none" \/ \E u \in Producers : pc[u] \in HoldPlaces /\ this[u] = e
    <3> SUFFICES ASSUME NEW e \in live', e # f PROVE w[e] # "none" \/ \E u \in Producers : pc[u] \in HoldPlaces /\ this[u] = e
      BY <1>12, <1>14, ConstantsAssumption DEF Inv, ElementType
    <3>1. e \in live /\ e \in Element
      BY <1>14 DEF Inv, ElementType, Element
    <3> QED BY <1>12, <3>1 DEF Inv, PlaceInv
  <2>8. /\ w[Marker] \in {"queue", "none"}
        /\ used_marker' <=> w[Marker] = "queue" \/ pc[Consumer] = "link"
    <3>1. CASE f = Marker
      BY <1>5, <1>12, <3>1
    <3>2. CASE f # Marker
      <4>1. used_marker' = used_marker /\ w[Marker] = where[Marker]
        BY <1>5, <1>8, <1>12, <3>2
      <4> QED BY <4>1 DEF Inv, PlaceInv
    <3> QED BY <3>1, <3>2
  <2> QED BY <1>5, <1>6, <2>3, <2>4, <2>5, <2>6, <2>7, <2>8 DEF PlaceInv
<1>18. OrderInv(w, a)'
  <2>1. last # f /\ unref_end # f /\ nxt.unref_end # f /\ head # f
    BY <1>5, <1>7, <1>8, <1>9
  <2> QED BY <1>5, <1>6, <1>8, <1>12, <2>1 DEF OrderInv, MarkerPlaces, PointerPlaces, LinkedPlaces
<1>19. PointerInv(w, a)' /\ MoveInv(a)'
  <2>1. ASSUME NEW t \in Threads, NEW e \in Pointers(t)
        PROVE  e \in Element /\ where[e] = "queue" /\ at[unref_end] <= at[e] /\ e # f /\ w[e] = where[e] /\ a[e] = at[e]
    <3>1. e \in Element /\ where[e] = "queue" /\ at[unref_end] <= at[e]
      BY DEF Inv, PointerInv
    <3>2. e # f
      BY <1>7, <1>8, <1>9, <3>1
    <3> QED BY <1>12, <3>1, <3>2
  <2>2. unref_end # f /\ nxt.unref_end # f
    BY <1>5, <1>7, <1>8, <1>9
  <2>3. a[unref_end] = at[unref_end] /\ a[nxt.unref_end] = at[nxt.unref_end]
    BY <1>8, <1>12, <2>2
  <2>4. \A t \in Threads : Pointers(t)' = Pointers(t) /\ (Waited(t) => Waited(t)')
    BY <1>6 DEF Pointers, Waited
  <2>5. PointerInv(w, a)'
    <3> SUFFICES ASSUME NEW u \in Threads, NEW e \in Pointers(u)'
                 PROVE  (/\ e \in Element /\ w[e] = "queue"
                         /\ a[unref_end] <= a[e]
                         /\ a[nxt.unref_end] <= a[e] \/ Waited(u))'
      BY Zenon DEF PointerInv
    <3>1. e \in Pointers(u) /\ (Waited(u) => Waited(u)')
      BY <2>4
    <3> QED BY <1>6, <2>1, <2>3, <3>1 DEF Inv, PointerInv
  <2>6. ASSUME NEW t \in Threads, pc[t] = "move" PROVE a[ilast[t]] = at[ilast[t]] /\ a[this[t]] = at[this[t]]
    BY <2>1, <2>6 DEF Pointers
  <2>7. MoveInv(a)'
    BY <1>6, <2>6 DEF Inv, MoveInv
  <2> QED BY <2>5, <2>7
<1>20. ElementType'
  BY <1>5, <1>6, <1>9, <1>14 DEF Inv, ElementType
<1>21. ListType'
  BY <1>4, <1>5, <1>6 DEF Inv, ListType, Pointer
<1>22. CallType'
  BY <1>5 DEF Inv, CallType
<1>23. ProducerInv'
  <2>1. \A u \in Producers : pc[u] \in HoldPlaces => this[u] # f /\ this[u] \in Element
    BY <1>9 DEF Inv, PlaceInv, ProducerInv, Element
  <2> QED BY <1>6, <1>14, <2>1 DEF Inv, ProducerInv
<1>24. IxType' /\ ThreadType' /\ NoteType' /\ OwnInv' /\ CountInv'
  BY <1>6 DEF Inv, IxType, ThreadType, NoteType, OwnInv, CountInv, Counted
<1>25. ConsumerInv' /\ SwitchInv'
  BY <1>5, <1>6 DEF Inv, ConsumerInv, SwitchInv, MarkerPlaces, PointerPlaces, LinkedPlaces
<1>26. Inv(w, a)'
  BY <1>15, <1>16, <1>17, <1>18, <1>19, <1>20, <1>21, <1>22, <1>23, <1>24, <1>25 DEF Inv
<1> QED BY <1>26 DEF IInv

\* Where the consumer is when it works on lists of elements to be freed.
ListPlaces == {"dequeue", "wait", "job", "chk_fin_deq", "ensure_empty", "inspect"}

\* A step changes nothing but the lists of elements to be freed, and frees F.
ListsOnly(where, at, w, a, F) ==
  /\ next' \in [Element -> Pointer] /\ DOMAIN data' = Element /\ live' = live \ F
  /\ \A e \in Element \ F : data'[e] = data[e]
  /\ \A e \in F : where[e] \notin {"queue", "none"} /\ w[e] = "none" /\ next'[e] = Null
  /\ \A e \in Element : where[e] \in {"queue", "none"} =>
       w[e] = where[e] /\ a[e] = at[e] /\ next'[e] = next[e]
  /\ \A e \in Element \ F : where[e] \notin {"queue", "none"} => w[e] \notin {"queue", "none"}
  /\ \A e, f \in Element : w[e] = w[f] /\ w[e] # "none" /\ a[e] = a[f] => e = f
  /\ wakeup' \in {"none", "asked", "done"}
  /\ pc' = pc \/ \E to \in ListPlaces : pc[Consumer] \in ListPlaces /\ pc' = [pc EXCEPT ![Consumer] = to]
  /\ UNCHANGED <<tail, head, used_marker, first, unref_end, nxt, grace, clean_reached_head_count,
                 locals, counts>>

\* Such a step preserves the invariant when the lists are right after it.
LEMMA ListSteps ==
  ASSUME NEW where \in [Element -> Lists], NEW at \in [Element -> Int], Inv(where, at),
         NEW w \in [Element -> Lists], NEW a \in [Element -> Int], NEW F \in SUBSET Element,
         ListsOnly(where, at, w, a, F), ListInv(w, a)', ListType'
  PROVE  Inv(w, a)'
<1> USE DEF ListsOnly
<1>1. UNCHANGED <<last, um_refc, um_refc_ix, head, used_marker, first, unref_end, nxt, grace,
                  clean_reached_head_count, this, ilast, um_ix, call, sent, got>>
  BY DEF tail, locals, counts
<1>2. /\ DOMAIN pc' = Threads /\ \A t \in Threads \ {Consumer} : pc'[t] = pc[t]
      /\ pc'[Consumer] = pc[Consumer] \/ (pc'[Consumer] \in ListPlaces /\ pc[Consumer] \in ListPlaces)
      /\ Consumer \in Threads
  BY DEF Inv, ThreadType, Threads
<1>3. \A t \in Threads : pc'[t] = pc[t] \/ (pc[t] \in ListPlaces /\ pc'[t] \in ListPlaces /\ t = Consumer)
  BY <1>2
<1>4. \A t \in Producers : t # Consumer /\ t \in Threads /\ pc'[t] = pc[t]
  BY <1>2, ConstantsAssumption DEF Producers, Threads
<1>5. \A e \in Element : where[e] = "queue" <=> w[e] = "queue"
  OBVIOUS
<1>6. IxType' /\ ElementType' /\ ThreadType' /\ CallType' /\ NoteType'
  <2>1. IxType' /\ CallType' /\ NoteType'
    BY <1>1 DEF Inv, IxType, CallType, NoteType
  <2>2. ElementType'
    BY <1>1 DEF Inv, ElementType
  <2>3. ThreadType'
    BY <1>1, <1>2 DEF Inv, ThreadType
  <2> QED BY <2>1, <2>2, <2>3
<1>7. ConsumerInv'
  BY <1>1, <1>2 DEF Inv, ConsumerInv, ListPlaces, MarkerPlaces, PointerPlaces, LinkedPlaces,
     HoldPlaces
<1>8. ProducerInv'
  <2>1. \A t \in Producers : pc[t] \in HoldPlaces => this[t] \in Element \ F
    BY DEF Inv, ProducerInv, PlaceInv, Element
  <2>2. \A t \in Producers : pc[t] \in HoldPlaces => data'[this[t]] = data[this[t]]
    BY <2>1
  <2> QED BY <1>1, <1>4, <2>2 DEF Inv, ProducerInv
<1>9. OwnInv'
  BY <1>1, <1>3 DEF Inv, OwnInv, ListPlaces, LinkedPlaces, HoldPlaces
<1>10. CountInv' /\ SwitchInv'
  <2>1. \A u \in Unmanaged : pc'[u] = pc[u]
    BY <1>4 DEF Producers
  <2>2. CountInv'
    BY <1>1, <2>1, CountSame DEF Inv
  <2>3. SwitchInv'
    BY <1>1, <1>2, <2>1 DEF Inv, SwitchInv, ListPlaces, MarkerPlaces, PointerPlaces, LinkedPlaces
  <2> QED BY <2>2, <2>3
<1>11. QueueInv(w, a)'
  <2>1. PICK end \in Element : next[end] = Null /\ IsList(next, where, at, "queue", first, end)
    BY DEF Inv, QueueInv
  <2>2. /\ first \in Element /\ first # Null /\ end # Null /\ where[first] = "queue" /\ where[end] = "queue"
    BY <2>1, ConstantsAssumption DEF Inv, ElementType, IsList, Element
  <2>3. next'[end] = Null /\ IsList(next, w, a, "queue", first, end)'
    BY <1>1, <1>5, <2>1, <2>2 DEF IsList
  <2> QED BY <2>3 DEF QueueInv
<1>12. PlaceInv(w, a)'
  <2>1. \A u \in Producers : pc'[u] \in HoldPlaces => w[this'[u]] = "none" /\ this'[u] \in live'
    <3> SUFFICES ASSUME NEW u \in Producers, pc[u] \in HoldPlaces PROVE w[this[u]] = "none" /\ this[u] \in live \ F
      BY <1>1, <1>4
    <3>1. this[u] \in Element /\ where[this[u]] = "none" /\ this[u] \in live
      BY DEF Inv, PlaceInv, ProducerInv, Element
    <3> QED BY <3>1
  <2>2. \A e \in El : w[e] = "none" => next'[e] = Null
    BY DEF Inv, PlaceInv, Element
  <2>3. \A e \in El : w[e] # "none" => e \in live'
    <3> SUFFICES ASSUME NEW e \in El, w[e] # "none" PROVE e \in live /\ e \notin F
      OBVIOUS
    <3>1. where[e] # "none"
      BY DEF Element
    <3> QED BY <3>1 DEF Inv, PlaceInv
  <2>4. \A e \in live' : w[e] # "none" \/ \E u \in Producers : pc'[u] \in HoldPlaces /\ this'[u] = e
    <3> SUFFICES ASSUME NEW e \in live, e \notin F PROVE w[e] # "none" \/ \E u \in Producers : pc[u] \in HoldPlaces /\ this[u] = e
      BY <1>1, <1>4
    <3>1. e \in Element
      BY DEF Inv, ElementType, Element
    <3> QED BY <3>1 DEF Inv, PlaceInv
  <2>5. /\ Marker \in Element /\ w[Marker] = where[Marker] /\ next'[Marker] = next[Marker]
    BY DEF Inv, PlaceInv, Element
  <2>6. /\ w[Marker] \in {"queue", "none"}
        /\ used_marker' <=> w[Marker] = "queue" \/ pc'[Consumer] = "link"
        /\ pc'[Consumer] = "marker" => ~used_marker'
        /\ pc'[Consumer] = "link" => w[Marker] = "none" /\ next'[Marker] = Null
    BY <1>1, <1>2, <2>5 DEF Inv, PlaceInv, ListPlaces
  <2> QED BY <2>1, <2>2, <2>3, <2>4, <2>6 DEF PlaceInv
<1>13. OrderInv(w, a)'
  BY <1>1, <1>2 DEF Inv, OrderInv, ElementType, IxType, ListPlaces, MarkerPlaces, PointerPlaces,
     LinkedPlaces
<1>14. PointerInv(w, a)' /\ MoveInv(a)'
  <2>1. \A t \in Threads : Pointers(t)' = Pointers(t)
    BY <1>1, <1>3 DEF Pointers, ListPlaces
  <2>2. \A t \in Threads : Waited(t) => Waited(t)'
    BY <1>1, <1>2 DEF Waited, ListPlaces
  <2>3. /\ unref_end \in Element /\ a[unref_end] = at[unref_end]
        /\ nxt.unref_end \in Element /\ a[nxt.unref_end] = at[nxt.unref_end]
    BY DEF Inv, OrderInv, ElementType, IxType
  <2>4. PointerInv(w, a)'
    <3> SUFFICES ASSUME NEW u \in Threads, NEW e \in Pointers(u)'
                 PROVE  (/\ e \in Element /\ w[e] = "queue"
                         /\ a[unref_end] <= a[e]
                         /\ a[nxt.unref_end] <= a[e] \/ Waited(u))'
      BY Zenon DEF PointerInv
    <3>1. e \in Pointers(u) /\ (Waited(u) => Waited(u)')
      BY <2>1, <2>2
    <3>2. e \in Element /\ where[e] = "queue" /\ at[unref_end] <= at[e] /\ (at[nxt.unref_end] <= at[e] \/ Waited(u))
      BY <3>1 DEF Inv, PointerInv
    <3> QED BY <1>1, <2>3, <3>1, <3>2
  <2>5. ASSUME NEW t \in Threads, pc[t] = "move" PROVE a[ilast[t]] = at[ilast[t]] /\ a[this[t]] = at[this[t]]
    BY <2>5 DEF Inv, PointerInv, Pointers
  <2>6. MoveInv(a)'
    BY <1>1, <1>3, <2>5 DEF Inv, MoveInv, ListPlaces
  <2> QED BY <2>4, <2>6
<1> QED BY <1>6, <1>7, <1>8, <1>9, <1>10, <1>11, <1>12, <1>13, <1>14 DEF Inv

\* Where links are set,
LEMMA RelinkedAt ==
  ASSUME NEW links, NEW e \in Element, NEW x, <<e, x>> \in links, \A l \in links : l[1] = e => l = <<e, x>>
  PROVE  Relinked(links)[e] = x
<1>1. (CHOOSE l \in links : l[1] = e) = <<e, x>>
  <2>1. <<e, x>>[1] = e
    OBVIOUS
  <2> QED BY <2>1
<1>2. \E l \in links : l[1] = e
  <2>1. <<e, x>>[1] = e
    OBVIOUS
  <2> QED BY <2>1
<1> QED BY <1>1, <1>2 DEF Relinked

\* and where they are not.
LEMMA RelinkedElse ==
  ASSUME NEW links, NEW e \in Element, \A l \in links : l[1] # e
  PROVE  Relinked(links)[e] = next[e]
  BY DEF Relinked

\* What has been dequeued joins what is saved.
LEMMA AsyncChkFinDeqStep ==
  ASSUME NEW where \in [Element -> Lists], NEW at \in [Element -> Int], Inv(where, at), AsyncChkFinDeq
  PROVE  IInv'
<1>1. PICK ds, de, fs, fe, as, ae \in Pointer :
        /\ deq_fini.start = ds /\ deq_fini.end = de /\ fin_deq = [start |-> fs, end |-> fe]
        /\ arq_fin_deq.start = as /\ arq_fin_deq.end = ae
  BY DEF Inv, ListType
<1>2. /\ IsList(next, where, at, "deq", ds, de) /\ IsList(next, where, at, "fin", fs, fe)
      /\ IsList(next, where, at, "arq", as, ae)
      /\ fe # Null => next[fe] = Null
      /\ ae # Null => next[ae] = Null
  BY <1>1 DEF Inv, ListInv
<1>3. /\ pc[Consumer] = "chk_fin_deq" /\ pc' = [pc EXCEPT ![Consumer] = "ensure_empty"]
      /\ deq_fini' = [deq_fini EXCEPT !.start = Null, !.end = Null]
      /\ fin_deq' = [start |-> JoinStart(fs, ds), end |-> JoinEnd(fe, ds, de)]
      /\ next' = Relinked(Cut \cup Links(fin_deq, Taken))
      /\ UNCHANGED <<data, live, tail, head, used_marker, first, unref_end, nxt, grace,
                     clean_reached_head_count, notes, arq_fin_deq, locals, counts>>
  <2>1. Taken = [start |-> ds, end |-> de]
    BY <1>1 DEF Taken
  <2>2. fs = Null <=> fe = Null
    BY <1>2 DEF IsList
  <2> QED BY <1>1, <2>1, <2>2 DEF AsyncChkFinDeq, Goto, TakeDeqFini, Joined, JoinStart, JoinEnd
<1>4. next \in [Element -> Pointer] /\ Null \notin Element
  BY ConstantsAssumption DEF Inv, ElementType, Element
<1>5. /\ de # Null => de \in Element /\ where[de] = "deq"
      /\ fe # Null => fe \in Element /\ where[fe] = "fin"
      /\ ae # Null => ae \in Element /\ where[ae] = "arq"
      /\ ds = Null <=> de = Null
      /\ fs = Null <=> fe = Null
  BY <1>2 DEF IsList, Pointer
<1>6. PICK cut \in [Element -> Pointer] : cut = IF de = Null THEN next ELSE [next EXCEPT ![de] = Null]
  BY <1>4 DEF Pointer
<1>7. IsList(cut, where, at, "deq", ds, de) /\ IsList(cut, where, at, "fin", fs, fe)
      /\ IsList(cut, where, at, "arq", as, ae)
  BY <1>2, <1>4, <1>5, <1>6 DEF IsList
<1>8. PICK w \in [Element -> Lists], a \in [Element -> Int] :
        /\ Joins(where, at, w, a, "fin", "deq")
        /\ IsList(JoinLink(cut, fe, ds), w, a, "fin", JoinStart(fs, ds), JoinEnd(fe, ds, de))
  BY <1>7, JoinLists DEF Lists, Inv, PlaceInv
<1>9. next' = JoinLink(cut, fe, ds)
  <2> DEFINE links == Cut \cup Links(fin_deq, Taken)
  <2>1. /\ Cut = IF de = Null THEN {} ELSE {<<de, Null>>}
        /\ Links(fin_deq, Taken) = IF ds # Null /\ fe # Null THEN {<<fe, ds>>} ELSE {}
    BY <1>1 DEF Cut, Links, Taken
  <2>2. ASSUME NEW e \in Element PROVE next'[e] = JoinLink(cut, fe, ds)[e]
    <3> HIDE DEF links
    <3>1. CASE de # Null /\ e = de
      <4>1. <<e, Null>> \in links /\ \A l \in links : l[1] = e => l = <<e, Null>>
        BY <1>5, <2>1, <3>1 DEF links
      <4>2. next'[e] = Null
        BY <1>3, <4>1, RelinkedAt, Zenon DEF links
      <4>3. JoinLink(cut, fe, ds)[e] = Null
        BY <1>4, <1>5, <1>6, <3>1 DEF JoinLink
      <4> QED BY <4>2, <4>3
    <3>2. CASE fe # Null /\ ds # Null /\ e = fe
      <4>1. <<e, ds>> \in links /\ \A l \in links : l[1] = e => l = <<e, ds>>
        BY <1>5, <2>1, <3>2 DEF links
      <4>2. next'[e] = ds
        BY <1>3, <4>1, RelinkedAt, Zenon DEF links
      <4>3. JoinLink(cut, fe, ds)[e] = ds
        BY <1>4, <1>5, <1>6, <3>2 DEF JoinLink
      <4> QED BY <4>2, <4>3
    <3>3. CASE ~(de # Null /\ e = de) /\ ~(fe # Null /\ ds # Null /\ e = fe)
      <4>1. \A l \in links : l[1] # e
        BY <2>1, <3>3 DEF links
      <4>2. next'[e] = next[e]
        BY <1>3, <4>1, RelinkedElse, Zenon DEF links
      <4>3. JoinLink(cut, fe, ds)[e] = next[e]
        BY <1>4, <1>5, <1>6, <3>3 DEF JoinLink
      <4> QED BY <4>2, <4>3
    <3> QED BY <3>1, <3>2, <3>3
  <2>3. next' = [e \in Element |-> next'[e]] /\ JoinLink(cut, fe, ds) = [e \in Element |-> JoinLink(cut, fe, ds)[e]]
    BY <1>3, <1>6 DEF Relinked, JoinLink
  <2> QED BY <2>2, <2>3
<1>10. \A e \in Element : /\ e # de /\ e # fe => next'[e] = next[e]
                          /\ next'[e] \in Pointer
                          /\ e = de /\ ds # Null => next'[e] = Null
                          /\ e = fe /\ ds = Null => next'[e] = next[e]
  BY <1>4, <1>5, <1>6, <1>9 DEF JoinLink
<1>11. next' \in [Element -> Pointer]
  BY <1>6, <1>9 DEF JoinLink
<1>12. /\ \A e \in Element : w[e] = IF where[e] = "deq" THEN "fin" ELSE where[e]
       /\ \A e \in Element : where[e] # "deq" => a[e] = at[e]
       /\ \A e, f \in Element : w[e] = w[f] /\ w[e] # "none" /\ a[e] = a[f] => e = f
  BY <1>8 DEF Joins
<1>13. ListInv(w, a)'
  <2>1. IsList(next', w, a, "arq", as, ae)
    <3>1. \A x \in Element : where[x] = "arq" /\ x # ae => next'[x] = next[x]
      BY <1>4, <1>5, <1>10
    <3>2. Keeps(next, next', where, at, w, a, "arq", ae)
      BY <1>12, <3>1 DEF Keeps
    <3>3. IsList(next, where, at, "arq", as, ae)
      BY <1>2
    <3> QED BY <3>2, <3>3, ListKept
  <2>2. IsList(next', w, a, "deq", Null, Null)
    BY <1>8, JoinGone
  <2>3. ae # Null => next'[ae] = Null
    BY <1>2, <1>5, <1>10
  <2>4. JoinEnd(fe, ds, de) # Null => next'[JoinEnd(fe, ds, de)] = Null
    BY <1>2, <1>5, <1>10 DEF JoinEnd
  <2>5. /\ deq_fini'.start = Null /\ deq_fini'.end = Null /\ arq_fin_deq' = arq_fin_deq
        /\ fin_deq'.start = JoinStart(fs, ds) /\ fin_deq'.end = JoinEnd(fe, ds, de)
    BY <1>3 DEF Inv, ListType
  <2> QED BY <1>1, <1>8, <1>9, <2>1, <2>2, <2>3, <2>4, <2>5 DEF ListInv
<1>14. ListType'
  <2>1. JoinStart(fs, ds) \in Pointer /\ JoinEnd(fe, ds, de) \in Pointer
    BY DEF JoinStart, JoinEnd
  <2> QED BY <1>3, <2>1 DEF Inv, ListType, Pointer
<1>15. Inv(w, a)'
  <2>1. PICK F \in SUBSET Element : F = {}
    OBVIOUS
  <2>2. /\ live' = live \ F /\ DOMAIN data' = Element /\ \A e \in Element \ F : data'[e] = data[e]
        /\ \A e \in F : where[e] \notin {"queue", "none"} /\ w[e] = "none" /\ next'[e] = Null
    BY <1>3, <2>1 DEF Inv, ElementType
  <2>3. \A e \in Element : where[e] \in {"queue", "none"} => w[e] = where[e] /\ a[e] = at[e] /\ next'[e] = next[e]
    BY <1>4, <1>5, <1>10, <1>12
  <2>4. \A e \in Element \ F : where[e] \notin {"queue", "none"} => w[e] \notin {"queue", "none"}
    BY <1>12
  <2>5. pc' = pc \/ \E to \in ListPlaces : pc[Consumer] \in ListPlaces /\ pc' = [pc EXCEPT ![Consumer] = to]
    BY <1>3 DEF ListPlaces
  <2>6. /\ UNCHANGED <<tail, head, used_marker, first, unref_end, nxt, grace, clean_reached_head_count,
                       locals, counts>>
        /\ wakeup' \in {"none", "asked", "done"}
    BY <1>3 DEF Inv, NoteType, notes
  <2>7. \A e, f \in Element : w[e] = w[f] /\ w[e] # "none" /\ a[e] = a[f] => e = f
    BY <1>12
  <2> HIDE <2>1
  <2>8. ListsOnly(where, at, w, a, F)
    BY Zenon, <1>11, <2>2, <2>3, <2>4, <2>5, <2>6, <2>7 DEF ListsOnly
  <2> QED BY <1>13, <1>14, <2>8, ListSteps
<1> QED BY <1>15 DEF IInv

\* The lists of elements to be freed are joined and handed over.
LEMMA AsyncJobStep ==
  ASSUME NEW where \in [Element -> Lists], NEW at \in [Element -> Int], Inv(where, at), AsyncJob
  PROVE  IInv'
<1>1. PICK ds, de, fs, fe, as, ae \in Pointer :
        /\ deq_fini.start = ds /\ deq_fini.end = de /\ fin_deq = [start |-> fs, end |-> fe]
        /\ arq_fin_deq = [start |-> as, end |-> ae]
  BY DEF Inv, ListType
<1>2. /\ IsList(next, where, at, "deq", ds, de) /\ IsList(next, where, at, "fin", fs, fe)
      /\ IsList(next, where, at, "arq", as, ae)
      /\ fe # Null => next[fe] = Null
      /\ ae # Null => next[ae] = Null
  BY <1>1 DEF Inv, ListInv
<1>3. next \in [Element -> Pointer] /\ Null \notin Element
  BY ConstantsAssumption DEF Inv, ElementType, Element
<1>4. /\ de # Null => de \in Element /\ where[de] = "deq"
      /\ fe # Null => fe \in Element /\ where[fe] = "fin"
      /\ ae # Null => ae \in Element /\ where[ae] = "arq"
      /\ ds = Null <=> de = Null
      /\ fs = Null <=> fe = Null
      /\ as = Null <=> ae = Null
  BY <1>2 DEF IsList, Pointer
<1>5. PICK js, je \in Pointer : js = JoinStart(ds, fs) /\ je = JoinEnd(de, fs, fe)
  BY DEF JoinStart, JoinEnd
<1>6. /\ js = Null <=> je = Null
      /\ js = Null <=> ds = Null /\ fs = Null
      /\ je \in {de, fe}
      /\ fs # Null => je = fe
      /\ fs = Null => je = de
  BY <1>4, <1>5 DEF JoinStart, JoinEnd
<1>7. /\ pc[Consumer] = "job" /\ pc' = [pc EXCEPT ![Consumer] = "dequeue"]
      /\ deq_fini' = [deq_fini EXCEPT !.start = Null, !.end = Null]
      /\ fin_deq' = Empty
      /\ arq_fin_deq' = [start |-> JoinStart(as, js), end |-> JoinEnd(ae, js, je)]
      /\ next' = Relinked((IF Links(Taken, fin_deq) = {} THEN Cut ELSE Links(Taken, fin_deq))
                          \cup Links(arq_fin_deq, [start |-> js, end |-> je]))
      /\ UNCHANGED <<data, live, tail, head, used_marker, first, unref_end, nxt, grace,
                     clean_reached_head_count, notes, locals, counts>>
  <2>1. Taken = [start |-> ds, end |-> de]
    BY <1>1 DEF Taken
  <2>2. Joined(Taken, fin_deq) = [start |-> js, end |-> je]
    BY <1>1, <1>4, <1>5, <2>1 DEF Joined, JoinStart, JoinEnd
  <2>3. Joined(arq_fin_deq, [start |-> js, end |-> je]) = [start |-> JoinStart(as, js), end |-> JoinEnd(ae, js, je)]
    BY <1>1, <1>4 DEF Joined, JoinStart, JoinEnd
  <2> QED BY <2>2, <2>3 DEF AsyncJob, Goto, TakeDeqFini
<1>8. PICK cut \in [Element -> Pointer] : cut = IF de = Null THEN next ELSE [next EXCEPT ![de] = Null]
  BY <1>3 DEF Pointer
<1>9. \A e \in Element : (e # de => cut[e] = next[e]) /\ (e = de => cut[e] = Null)
  BY <1>3, <1>4, <1>8
<1>10. IsList(cut, where, at, "deq", ds, de) /\ IsList(cut, where, at, "fin", fs, fe)
      /\ IsList(cut, where, at, "arq", as, ae)
  BY <1>2, <1>3, <1>4, <1>8 DEF IsList
<1>11. PICK w1 \in [Element -> Lists], a1 \in [Element -> Int] :
        /\ Joins(where, at, w1, a1, "deq", "fin")
        /\ IsList(JoinLink(cut, de, fs), w1, a1, "deq", js, je)
  BY <1>5, <1>10, JoinLists DEF Lists, Inv, PlaceInv
<1>12. PICK l1 \in [Element -> Pointer] : l1 = JoinLink(cut, de, fs)
  BY DEF JoinLink
<1>13. \A e \in Element : (e # de => l1[e] = next[e]) /\ (e = de => l1[e] = fs)
  BY <1>3, <1>4, <1>9, <1>12 DEF JoinLink
<1>14. /\ \A e \in Element : w1[e] = IF where[e] = "fin" THEN "deq" ELSE where[e]
       /\ \A e \in Element : where[e] # "fin" => a1[e] = at[e]
       /\ \A e, f \in Element : w1[e] = w1[f] /\ w1[e] # "none" /\ a1[e] = a1[f] => e = f
  BY <1>11 DEF Joins
<1>15. IsList(l1, w1, a1, "arq", as, ae)
  <2>1. \A x \in Element : where[x] = "arq" => x # de
    BY <1>3, <1>4
  <2>2. Keeps(next, l1, where, at, w1, a1, "arq", ae)
    BY <1>13, <1>14, <2>1 DEF Keeps
  <2> QED BY <1>2, <2>2, ListKept
<1>16. PICK w \in [Element -> Lists], a \in [Element -> Int] :
        /\ Joins(w1, a1, w, a, "arq", "deq")
        /\ IsList(JoinLink(l1, ae, js), w, a, "arq", JoinStart(as, js), JoinEnd(ae, js, je))
  <2>1. IsList(l1, w1, a1, "deq", js, je)
    BY <1>11, <1>12
  <2> QED BY <1>14, <1>15, <2>1, JoinLists DEF Lists
<1>17. /\ \A e \in Element : w[e] = IF where[e] \in {"fin", "deq"} THEN "arq" ELSE where[e]
       /\ \A e \in Element : where[e] \notin {"fin", "deq"} => a[e] = at[e]
       /\ \A e, f \in Element : w[e] = w[f] /\ w[e] # "none" /\ a[e] = a[f] => e = f
  BY <1>14, <1>16 DEF Joins
<1>18. next' = JoinLink(l1, ae, js)
  <2> DEFINE links == (IF Links(Taken, fin_deq) = {} THEN Cut ELSE Links(Taken, fin_deq))
                      \cup Links(arq_fin_deq, [start |-> js, end |-> je])
  <2>1. links = (IF de = Null THEN {} ELSE {<<de, fs>>}) \cup (IF js # Null /\ ae # Null THEN {<<ae, js>>} ELSE {})
    <3>1. Links(Taken, fin_deq) = IF fs # Null /\ de # Null THEN {<<de, fs>>} ELSE {}
      BY <1>1 DEF Links, Taken
    <3>2. Links(arq_fin_deq, [start |-> js, end |-> je]) = IF js # Null /\ ae # Null THEN {<<ae, js>>} ELSE {}
      BY <1>1 DEF Links
    <3>3. Cut = IF de = Null THEN {} ELSE {<<de, Null>>}
      BY <1>1 DEF Cut
    <3>4. fs = Null \/ de = Null => Links(Taken, fin_deq) = {}
      BY <3>1
    <3>5. fs # Null /\ de # Null => Links(Taken, fin_deq) = {<<de, fs>>} /\ {<<de, fs>>} # {}
      BY <3>1
    <3> QED BY <3>2, <3>3, <3>4, <3>5
  <2>12. next' = Relinked(links)
    BY <1>7
  <2>4. PICK p, q : p = <<de, fs>> /\ q = <<ae, js>>
    OBVIOUS
  <2>9. p[1] = de /\ q[1] = ae
    BY <2>4
  <2>10. links = (IF de = Null THEN {} ELSE {p}) \cup (IF js # Null /\ ae # Null THEN {q} ELSE {})
    BY <2>1, <2>4, Zenon
  <2>11. \A l : l \in links <=> (de # Null /\ l = p) \/ (js # Null /\ ae # Null /\ l = q)
    <3> HIDE <2>4 DEF links
    <3> QED BY <2>10
  <2>5. de # ae \/ de = Null
    BY <1>4
  <2>2. ASSUME NEW e \in Element PROVE next'[e] = JoinLink(l1, ae, js)[e]
    <3> HIDE <2>4 DEF links
    <3>1. CASE de # Null /\ e = de
      <4>1. <<e, fs>> \in links /\ \A l \in links : l[1] = e => l = <<e, fs>>
        <5>1. p \in links /\ \A l \in links : l[1] = e => l = p
          BY <2>5, <2>9, <2>11, <3>1
        <5>2. p = <<e, fs>>
          BY <2>4, <3>1
        <5> QED BY <5>1, <5>2, Zenon
      <4>2. Relinked(links)[e] = fs
        BY <4>1, RelinkedAt
      <4>3. JoinLink(l1, ae, js)[e] = fs
        BY <1>4, <1>13, <3>1 DEF JoinLink
      <4> QED BY <2>12, <4>2, <4>3
    <3>2. CASE ae # Null /\ js # Null /\ e = ae
      <4>1. <<e, js>> \in links /\ \A l \in links : l[1] = e => l = <<e, js>>
        <5>1. q \in links /\ \A l \in links : l[1] = e => l = q
          BY <2>5, <2>9, <2>11, <3>2
        <5>2. q = <<e, js>>
          BY <2>4, <3>2
        <5> QED BY <5>1, <5>2, Zenon
      <4>2. Relinked(links)[e] = js
        BY <4>1, RelinkedAt
      <4>3. JoinLink(l1, ae, js)[e] = js
        BY <1>4, <3>2 DEF JoinLink
      <4> QED BY <2>12, <4>2, <4>3
    <3>3. CASE ~(de # Null /\ e = de) /\ ~(ae # Null /\ js # Null /\ e = ae)
      <4>1. \A l \in links : l[1] # e
        BY <2>9, <2>11, <3>3
      <4>2. next'[e] = next[e]
        BY <1>7, <4>1, RelinkedElse, Zenon DEF links
      <4>3. e # de
        BY <1>3, <3>3
      <4>4. JoinLink(l1, ae, js)[e] = next[e]
        BY <1>4, <1>13, <3>3, <4>3 DEF JoinLink
      <4> QED BY <4>2, <4>4
    <3> QED BY <3>1, <3>2, <3>3
  <2>3. next' = [e \in Element |-> next'[e]]
    BY <1>7 DEF Relinked
  <2>7. JoinLink(l1, ae, js) = [e \in Element |-> JoinLink(l1, ae, js)[e]]
    BY DEF JoinLink
  <2> QED BY <2>2, <2>3, <2>7
<1>19. \A e \in Element : /\ e # de /\ e # ae => next'[e] = next[e]
                          /\ next'[e] \in Pointer
                          /\ e = de => next'[e] = fs
                          /\ e = ae /\ js = Null => next'[e] = next[e]
  <2>1. \A e \in Element : next'[e] = IF ae # Null /\ js # Null /\ e = ae THEN js ELSE l1[e]
    BY <1>4, <1>18 DEF JoinLink
  <2> QED BY <1>3, <1>4, <1>13, <2>1
<1>20. next' \in [Element -> Pointer]
  BY <1>18 DEF JoinLink
<1>21. ListInv(w, a)'
  <2>1. IsList(next', w, a, "deq", Null, Null) /\ IsList(next', w, a, "fin", Null, Null)
    BY <1>17 DEF IsList
  <2>2. JoinEnd(ae, js, je) # Null => next'[JoinEnd(ae, js, je)] = Null
    BY <1>2, <1>4, <1>6, <1>19 DEF JoinEnd
  <2>3. /\ deq_fini'.start = Null /\ deq_fini'.end = Null /\ fin_deq'.start = Null /\ fin_deq'.end = Null
        /\ arq_fin_deq'.start = JoinStart(as, js) /\ arq_fin_deq'.end = JoinEnd(ae, js, je)
    BY <1>7 DEF Inv, ListType, Empty
  <2>4. IsList(next', w, a, "arq", JoinStart(as, js), JoinEnd(ae, js, je))
    BY <1>16, <1>18
  <2> QED BY <2>1, <2>2, <2>3, <2>4 DEF ListInv
<1>22. ListType'
  <2>1. JoinStart(as, js) \in Pointer /\ JoinEnd(ae, js, je) \in Pointer
    BY DEF JoinStart, JoinEnd
  <2> QED BY <1>7, <2>1 DEF Inv, ListType, Pointer, Empty
<1>23. Inv(w, a)'
  <2>1. PICK F \in SUBSET Element : F = {}
    OBVIOUS
  <2>2. /\ live' = live \ F /\ DOMAIN data' = Element /\ \A e \in Element \ F : data'[e] = data[e]
        /\ \A e \in F : where[e] \notin {"queue", "none"} /\ w[e] = "none" /\ next'[e] = Null
    BY <1>7, <2>1 DEF Inv, ElementType
  <2>3. \A e \in Element : where[e] \in {"queue", "none"} => w[e] = where[e] /\ a[e] = at[e] /\ next'[e] = next[e]
    BY <1>3, <1>4, <1>17, <1>19
  <2>4. \A e \in Element \ F : where[e] \notin {"queue", "none"} => w[e] \notin {"queue", "none"}
    BY <1>17
  <2>5. pc' = pc \/ \E to \in ListPlaces : pc[Consumer] \in ListPlaces /\ pc' = [pc EXCEPT ![Consumer] = to]
    BY <1>7 DEF ListPlaces
  <2>6. /\ UNCHANGED <<tail, head, used_marker, first, unref_end, nxt, grace, clean_reached_head_count,
                       locals, counts>>
        /\ wakeup' \in {"none", "asked", "done"}
    BY <1>7 DEF Inv, NoteType, notes
  <2>7. \A e, f \in Element : w[e] = w[f] /\ w[e] # "none" /\ a[e] = a[f] => e = f
    BY <1>17
  <2> HIDE <2>1
  <2>8. ListsOnly(where, at, w, a, F)
    BY Zenon, <1>20, <2>2, <2>3, <2>4, <2>5, <2>6, <2>7 DEF ListsOnly
  <2> QED BY <1>21, <1>22, <2>8, ListSteps
<1> QED BY <1>23 DEF IInv

\* erts_thr_q_finalize_dequeue() frees F, the first elements of a list, and leaves r .. t.
IsFini(where, at, w, name, l, r, t, F) ==
  /\ FiniElements(l).free = F /\ FiniElements(l).rest = [start |-> r, end |-> t]
  /\ IsList(next, w, at, name, r, t)
  /\ t # Null => next[t] = Null /\ w[t] = name
  /\ \A x \in F : where[x] = name /\ w[x] = "none"
  /\ \A x \in Element \ F : w[x] = where[x]

\* Freeing the first elements of a list leaves a list.
LEMMA FiniList ==
  ASSUME NEW where \in [Element -> Lists], NEW at \in [Element -> Int], Inv(where, at),
         NEW name \in Lists \ {"none"}, NEW s \in Pointer, NEW e \in Pointer,
         IsList(next, where, at, name, s, e), e # Null => next[e] = Null,
         NEW l, l = [start |-> s, end |-> e]
  PROVE  \E w \in [Element -> Lists], r \in Pointer, t \in Pointer, F \in SUBSET Element :
           IsFini(where, at, w, name, l, r, t, F)
<1> USE DEF IsFini
<1> DEFINE c == Chain(s)
           F == {c[i] : i \in (1 .. FiniDeqOps) \cap DOMAIN c}
           rest == IF Len(c) <= FiniDeqOps THEN Empty ELSE [l EXCEPT !.start = c[FiniDeqOps + 1]]
<1>1. FiniElements(l).free = F /\ FiniElements(l).rest = rest
  BY DEF FiniElements
<1>2. /\ Null \notin Element /\ FiniDeqOps \in Nat /\ next \in [Element -> Pointer]
      /\ \A x, y \in Element : where[x] = where[y] /\ where[x] # "none" /\ at[x] = at[y] => x = y
  BY ConstantsAssumption DEF Element, Inv, ElementType, PlaceInv
<1>3. CASE s = Null
  <2>1. c = <<>>
    BY <1>3, FollowNull DEF Chain
  <2> HIDE DEF c
  <2>2. DOMAIN c = {} /\ Len(c) = 0
    BY <2>1
  <2>3. F = {} /\ rest = Empty
    BY <1>2, <2>2
  <2>4. e = Null
    BY <1>3 DEF IsList
  <2> QED BY <1>1, <1>3, <2>3, <2>4 DEF Empty, Pointer
<1>4. CASE s # Null
  <2>1. /\ s \in Element /\ e \in Element /\ e # Null /\ where[s] = name /\ where[e] = name /\ at[s] <= at[e]
        /\ next[e] = Null /\ at[s] \in Int /\ at[e] \in Int /\ s \in Members(where, name)
    BY <1>2, <1>4 DEF IsList, Pointer, Members
  <2>2. /\ c \in Seq(Element) /\ Len(c) = at[e] - at[s] + 1
        /\ \A i \in 1 .. Len(c) : where[c[i]] = name /\ at[c[i]] = at[s] + i - 1
    <3>1. c = Follow(next, s, [y \in Element |-> <<y>>])
      BY DEF Chain
    <3> HIDE DEF c
    <3>2. e # Null => next[e] = Null
      BY <2>1
    <3>3. IsPlaced(Follow(next, s, [y \in Element |-> <<y>>]), where, at, name, s, e)
      BY <2>1, <3>2, ChainPlaces
    <3> QED BY <3>1, <3>3, Zenon DEF IsPlaced
  <2> HIDE DEF c
  <2>3. DOMAIN c = 1 .. Len(c) /\ Len(c) \in Nat /\ \A i \in 1 .. Len(c) : c[i] \in Element
    BY <2>2
  <2>4. \A x \in F : x \in Element /\ where[x] = name /\ at[x] < at[s] + FiniDeqOps
    BY <1>2, <2>1, <2>2, <2>3
  <2>5. PICK w \in [Element -> Lists] : w = [x \in Element |-> IF x \in F THEN "none" ELSE where[x]]
    BY DEF Lists
  <2>6. \A x \in Element : (x \in F => w[x] = "none") /\ (x \notin F => w[x] = where[x])
    BY <2>5
  <2> HIDE <2>5
  <2> DEFINE Rest(r, t) == /\ rest = [start |-> r, end |-> t] /\ IsList(next, w, at, name, r, t)
                           /\ t # Null => next[t] = Null /\ w[t] = name
  <2> SUFFICES ASSUME NEW G \in SUBSET Element, G = F PROVE \E r \in Pointer, t \in Pointer : Rest(r, t)
    <3>1. F \in SUBSET Element
      BY <2>4
    <3>2. PICK r \in Pointer, t \in Pointer : Rest(r, t)
      BY <3>1
    <3> HIDE DEF F, rest
    <3> WITNESS w \in [Element -> Lists], r \in Pointer, t \in Pointer, F \in SUBSET Element
    <3> QED BY <1>1, <2>4, <2>6, <3>2
  <2>7. ASSUME NEW x \in Element, where[x] = name, at[x] < at[s] + FiniDeqOps
        PROVE  x \in F
    <3>1. PICK i \in Int : i = at[x] - at[s] + 1
      BY <2>1
    <3>2. at[s] <= at[x] /\ at[x] <= at[e] /\ at[x] \in Int
      BY <2>7 DEF IsList
    <3>3. i \in 1 .. FiniDeqOps /\ i \in 1 .. Len(c) /\ at[x] = at[s] + i - 1
      BY <1>2, <2>1, <2>2, <2>7, <3>1, <3>2
    <3> HIDE <3>1
    <3>4. c[i] \in Element /\ where[c[i]] = name /\ at[c[i]] = at[x]
      BY <2>2, <2>3, <3>3
    <3>5. c[i] = x
      BY <1>2, <2>7, <3>4
    <3> QED BY <2>3, <3>3, <3>5
  <2>8. \A x \in Element : w[x] = name <=> where[x] = name /\ at[x] >= at[s] + FiniDeqOps
    <3> SUFFICES ASSUME NEW x \in Element PROVE w[x] = name <=> where[x] = name /\ at[x] >= at[s] + FiniDeqOps
      OBVIOUS
    <3>1. at[x] \in Int
      OBVIOUS
    <3> HIDE DEF F
    <3>2. CASE x \in F
      BY <1>2, <2>1, <2>4, <2>6, <3>1, <3>2
    <3>3. CASE x \notin F
      BY <1>2, <2>1, <2>6, <2>7, <3>1, <3>3
    <3> QED BY <3>2, <3>3
  <2> HIDE DEF F
  <2>9. CASE Len(c) <= FiniDeqOps
    <3>1. \A x \in Element : w[x] # name
      <4> SUFFICES ASSUME NEW x \in Element, where[x] = name, at[x] >= at[s] + FiniDeqOps PROVE FALSE
        BY <2>8
      <4>1. at[x] <= at[e] /\ at[x] \in Int
        BY DEF IsList
      <4> QED BY <1>2, <2>1, <2>2, <2>3, <2>9, <4>1
    <3>2. IsList(next, w, at, name, Null, Null)
      BY <3>1 DEF IsList
    <3>3. rest = [start |-> Null, end |-> Null]
      BY <2>9 DEF Empty
    <3> QED BY <3>2, <3>3 DEF Pointer
  <2>10. CASE Len(c) > FiniDeqOps
    <3>1. PICK k \in Int : k = FiniDeqOps + 1
      BY <1>2
    <3>2. k \in 1 .. Len(c)
      BY <1>2, <2>3, <2>10, <3>1
    <3>3. PICK r \in Element : r = c[k]
      BY <2>3, <3>2
    <3>4. where[r] = name /\ at[r] = at[s] + FiniDeqOps
      BY <1>2, <2>1, <2>2, <3>1, <3>2, <3>3
    <3>5. rest = [start |-> r, end |-> e]
      BY <1>2, <2>3, <2>10, <3>1, <3>3
    <3>6. /\ w[r] = name /\ w[e] = name /\ at[r] <= at[e] /\ r # Null
      BY <1>2, <2>1, <2>2, <2>3, <2>8, <2>10, <3>4
    <3>7. ASSUME NEW x \in Element, w[x] = name
          PROVE  /\ at[r] <= at[x] /\ at[x] <= at[e]
                 /\ x # e => next[x] \in Element /\ w[next[x]] = name /\ at[next[x]] = at[x] + 1
      <4>1. where[x] = name /\ at[x] >= at[s] + FiniDeqOps /\ at[x] \in Int
        BY <2>8, <3>7
      <4>2. at[x] <= at[e] /\ (x # e => next[x] \in Element /\ where[next[x]] = name /\ at[next[x]] = at[x] + 1)
        BY <4>1 DEF IsList
      <4>3. x # e => w[next[x]] = name
        BY <1>2, <2>1, <2>8, <4>1, <4>2
      <4> QED BY <1>2, <2>1, <3>4, <4>1, <4>2, <4>3
    <3>8. IsList(next, w, at, name, r, e)
      BY <2>1, <3>6, <3>7 DEF IsList
    <3>9. r \in Pointer /\ Rest(r, e)
      <4>1. r \in Pointer
        BY DEF Pointer
      <4> HIDE DEF rest
      <4>2. next[e] = Null /\ w[e] = name
        BY <2>1, <3>6
      <4> QED BY <3>5, <3>8, <4>1, <4>2, Zenon
    <3> QED BY <3>9
  <2>11. Len(c) <= FiniDeqOps \/ Len(c) > FiniDeqOps
    BY <1>2, <2>3
  <2> QED BY <2>9, <2>10, <2>11, Zenon
<1> QED BY <1>3, <1>4

\* Whoever frees them takes them off the list.
LEMMA FiniSteps ==
  ASSUME NEW where \in [Element -> Lists], NEW at \in [Element -> Int], Inv(where, at),
         NEW name \in {"fin", "arq"}, NEW l, NEW w \in [Element -> Lists], NEW r \in Pointer,
         NEW t \in Pointer, NEW F \in SUBSET Element, IsFini(where, at, w, name, l, r, t, F),
         FreeElements(F),
         fin_deq' = IF name = "fin" THEN [start |-> r, end |-> t] ELSE fin_deq,
         arq_fin_deq' = IF name = "arq" THEN [start |-> r, end |-> t] ELSE arq_fin_deq,
         wakeup' \in {"none", "asked", "done"},
         pc' = pc \/ \E to \in ListPlaces : pc[Consumer] \in ListPlaces /\ pc' = [pc EXCEPT ![Consumer] = to],
         UNCHANGED <<tail, head, used_marker, first, unref_end, nxt, grace, clean_reached_head_count,
                     deq_fini, locals, counts>>
  PROVE  Inv(w, at)'
<1>1. PICK ds, de, fs, fe, as, ae \in Pointer :
        /\ deq_fini.start = ds /\ deq_fini.end = de /\ fin_deq = [start |-> fs, end |-> fe]
        /\ arq_fin_deq = [start |-> as, end |-> ae]
  BY DEF Inv, ListType
<1>2. /\ IsList(next, where, at, "deq", ds, de) /\ IsList(next, where, at, "fin", fs, fe)
      /\ IsList(next, where, at, "arq", as, ae)
      /\ fe # Null => next[fe] = Null
      /\ ae # Null => next[ae] = Null
      /\ de # Null => next[de] \in {first, Marker}
      /\ de # Null /\ next[de] = Marker /\ where[Marker] # "queue" => next[Marker] \in {Null, first}
  BY <1>1 DEF Inv, ListInv
<1>3. next \in [Element -> Pointer] /\ Null \notin Element /\ Marker \in Element /\ where[Marker] \in {"queue", "none"}
  BY ConstantsAssumption DEF Inv, ElementType, Element, PlaceInv
<1>4. /\ de # Null => de \in Element /\ where[de] = "deq"
      /\ fe # Null => fe \in Element /\ where[fe] = "fin"
      /\ ae # Null => ae \in Element /\ where[ae] = "arq"
  BY <1>2 DEF IsList, Pointer
<1>5. /\ \A x \in F : where[x] = name /\ w[x] = "none" /\ next'[x] = Null
      /\ \A x \in Element \ F : w[x] = where[x] /\ next'[x] = next[x] /\ data'[x] = data[x]
      /\ live' = live \ F /\ DOMAIN data' = Element
      /\ next' \in [Element -> Pointer]
      /\ IsList(next, w, at, name, r, t)
      /\ t # Null => next[t] = Null /\ w[t] = name /\ t \in Element
  <2>1. next' \in [Element -> Pointer]
    BY <1>3 DEF FreeElements, Pointer
  <2>2. next' = [e \in Element |-> IF e \in F THEN Null ELSE next[e]]
    BY DEF FreeElements
  <2>3. data' = [e \in Element |-> IF e \in F THEN Null ELSE data[e]] /\ live' = live \ F
    BY DEF FreeElements
  <2> QED BY <2>1, <2>2, <2>3 DEF IsFini, Pointer
<1>6. \A x \in Element : where[x] # name => w[x] = where[x] /\ next'[x] = next[x] /\ x \notin F
  BY <1>5
<1>7. ListInv(w, at)'
  <2>1. IsList(next', w, at, name, r, t)
    <3>1. Keeps(next, next', w, at, w, at, name, t)
      BY <1>5 DEF Keeps
    <3> QED BY <1>5, <3>1, ListKept
  <2>2. IsList(next', w, at, "deq", ds, de)
    <3>1. Keeps(next, next', where, at, w, at, "deq", de)
      BY <1>5 DEF Keeps
    <3> QED BY <1>2, <3>1, ListKept
  <2>3. name # "fin" => IsList(next', w, at, "fin", fs, fe)
    <3>1. name # "fin" => Keeps(next, next', where, at, w, at, "fin", fe)
      BY <1>5 DEF Keeps
    <3> QED BY <1>2, <3>1, ListKept
  <2>4. name # "arq" => IsList(next', w, at, "arq", as, ae)
    <3>1. name # "arq" => Keeps(next, next', where, at, w, at, "arq", ae)
      BY <1>5 DEF Keeps
    <3> QED BY <1>2, <3>1, ListKept
  <2>5. /\ de # Null => next'[de] \in {first, Marker}
        /\ de # Null /\ next'[de] = Marker /\ w[Marker] # "queue" => next'[Marker] \in {Null, first}
        /\ t # Null => next'[t] = Null
        /\ name # "fin" /\ fe # Null => next'[fe] = Null
        /\ name # "arq" /\ ae # Null => next'[ae] = Null
    BY <1>2, <1>3, <1>4, <1>5, <1>6
  <2>6. deq_fini'.start = ds /\ deq_fini'.end = de /\ first' = first
    BY <1>1
  <2>7. CASE name = "fin"
    <3>1. /\ fin_deq'.start = r /\ fin_deq'.end = t /\ arq_fin_deq'.start = as /\ arq_fin_deq'.end = ae
      BY <1>1, <2>7
    <3> QED BY <2>1, <2>2, <2>4, <2>5, <2>6, <2>7, <3>1 DEF ListInv
  <2>8. CASE name = "arq"
    <3>1. /\ arq_fin_deq'.start = r /\ arq_fin_deq'.end = t /\ fin_deq'.start = fs /\ fin_deq'.end = fe
      BY <1>1, <2>8
    <3> QED BY <2>1, <2>2, <2>3, <2>5, <2>6, <2>8, <3>1 DEF ListInv
  <2> QED BY <2>7, <2>8
<1>8. ListType'
  BY <1>1 DEF Inv, ListType
<1>9. ListsOnly(where, at, w, at, F)
  <2>1. /\ \A e \in F : where[e] \notin {"queue", "none"} /\ w[e] = "none" /\ next'[e] = Null
        /\ \A e \in Element : where[e] \in {"queue", "none"} => w[e] = where[e] /\ at[e] = at[e] /\ next'[e] = next[e]
        /\ \A e \in Element \ F : where[e] \notin {"queue", "none"} => w[e] \notin {"queue", "none"}
    BY <1>5, <1>6
  <2>2. \A e, f \in Element : w[e] = w[f] /\ w[e] # "none" /\ at[e] = at[f] => e = f
    <3>1. \A e, f \in Element : where[e] = where[f] /\ where[e] # "none" /\ at[e] = at[f] => e = f
      BY DEF Inv, PlaceInv
    <3>2. \A e \in Element : w[e] # "none" => w[e] = where[e]
      BY <1>5
    <3> QED BY <3>1, <3>2
  <2> QED BY <1>5, <2>1, <2>2, Zenon DEF ListsOnly
<1> QED BY <1>7, <1>8, <1>9, ListSteps

\* and a part of what was handed over.
LEMMA ReadyFinalizeStep ==
  ASSUME NEW where \in [Element -> Lists], NEW at \in [Element -> Int], Inv(where, at), ReadyFinalize
  PROVE  IInv'
<1>1. PICK as, ae \in Pointer : arq_fin_deq = [start |-> as, end |-> ae]
  BY DEF Inv, ListType
<1>2. IsList(next, where, at, "arq", as, ae) /\ (ae # Null => next[ae] = Null)
  BY <1>1 DEF Inv, ListInv
<1>3. PICK w \in [Element -> Lists], r \in Pointer, t \in Pointer, F \in SUBSET Element :
        IsFini(where, at, w, "arq", arq_fin_deq, r, t, F)
  <2>1. "arq" \in Lists \ {"none"}
    BY DEF Lists
  <2> QED BY <1>1, <1>2, <2>1, FiniList
<1>4. FreeElements(F) /\ arq_fin_deq' = [start |-> r, end |-> t]
  BY <1>3 DEF ReadyFinalize, IsFini
<1>5. /\ wakeup' \in {"none", "asked", "done"} /\ pc' = pc /\ fin_deq' = fin_deq
      /\ UNCHANGED <<tail, head, used_marker, first, unref_end, nxt, grace, clean_reached_head_count,
                     deq_fini, locals, counts>>
  BY DEF ReadyFinalize, Inv, NoteType, notes, reclaim
<1>6. Inv(w, at)'
  BY <1>3, <1>4, <1>5, FiniSteps
<1> QED BY <1>6 DEF IInv

\* A part of what is saved is freed,
LEMMA AsyncInspectStep ==
  ASSUME NEW where \in [Element -> Lists], NEW at \in [Element -> Int], Inv(where, at), AsyncInspect
  PROVE  IInv'
<1>1. PICK fs, fe \in Pointer : fin_deq = [start |-> fs, end |-> fe]
  BY DEF Inv, ListType
<1>2. IsList(next, where, at, "fin", fs, fe) /\ (fe # Null => next[fe] = Null)
  BY <1>1 DEF Inv, ListInv
<1>3. UNCHANGED <<tail, head, used_marker, first, unref_end, nxt, grace, clean_reached_head_count,
                  deq_fini, arq_fin_deq, locals, counts>>
  BY DEF AsyncInspect, reclaim
<1>4. \E to \in ListPlaces : pc[Consumer] \in ListPlaces /\ pc' = [pc EXCEPT ![Consumer] = to]
  BY DEF AsyncInspect, Goto, ListPlaces, inspect, NeedThrPrgr
<1>5. wakeup' \in {"none", "asked", "done"}
  BY DEF AsyncInspect, inspect, NeedThrPrgr, Inv, NoteType
<1>6. CASE inspect = "clean"
  <2>1. PICK w \in [Element -> Lists], r \in Pointer, t \in Pointer, F \in SUBSET Element :
          IsFini(where, at, w, "fin", fin_deq, r, t, F)
    <3>1. "fin" \in Lists \ {"none"}
      BY DEF Lists
    <3> QED BY <1>1, <1>2, <3>1, FiniList
  <2>2. FreeElements(F) /\ fin_deq' = [start |-> r, end |-> t]
    BY <1>6, <2>1 DEF AsyncInspect, IsFini
  <2>3. arq_fin_deq' = arq_fin_deq
    BY <1>3
  <2>4. Inv(w, at)'
    BY <1>3, <1>4, <1>5, <2>1, <2>2, <2>3, FiniSteps
  <2> QED BY <2>4 DEF IInv
<1>7. CASE inspect # "clean"
  <2>1. UNCHANGED <<next, data, live, fin_deq>>
    BY <1>7 DEF AsyncInspect, inspect, NeedThrPrgr, elements
  <2>2. ListType' /\ ListInv(where, at)'
    BY <1>3, <2>1 DEF Inv, ListType, ListInv, IsList
  <2>3. PICK F \in SUBSET Element : F = {}
    OBVIOUS
  <2>4. ListsOnly(where, at, where, at, F)
    <3>1. next' \in [Element -> Pointer] /\ DOMAIN data' = Element
      BY <2>1 DEF Inv, ElementType
    <3>2. \A e, f \in Element : where[e] = where[f] /\ where[e] # "none" /\ at[e] = at[f] => e = f
      BY DEF Inv, PlaceInv
    <3>3. live' = live \ F /\ \A e \in F : FALSE
      BY <2>1, <2>3
    <3> HIDE <2>3
    <3>4. /\ \A e \in Element \ F : data'[e] = data[e]
          /\ \A e \in F : where[e] \notin {"queue", "none"} /\ where[e] = "none" /\ next'[e] = Null
          /\ \A e \in Element : where[e] \in {"queue", "none"} =>
               where[e] = where[e] /\ at[e] = at[e] /\ next'[e] = next[e]
          /\ \A e \in Element \ F : where[e] \notin {"queue", "none"} => where[e] \notin {"queue", "none"}
      BY <2>1, <3>3
    <3>5. UNCHANGED <<tail, head, used_marker, first, unref_end, nxt, grace, clean_reached_head_count,
                      locals, counts>>
      BY <1>3
    <3> QED BY <1>4, <1>5, <3>1, <3>2, <3>3, <3>4, <3>5, Zenon DEF ListsOnly
  <2>5. Inv(where, at)'
    BY <2>2, <2>4, ListSteps
  <2> QED BY <2>5 DEF IInv
<1> QED BY <1>6, <1>7

-----------------------------------------------------------------------------
(* The invariant, and what follows from it.                                *)

\* In the beginning the queue is made of the marker.
LEMMA InitInv == ASSUME Init PROVE IInv
<1>1. PICK where \in [Element -> Lists] : where = [e \in Element |-> IF e = Marker THEN "queue" ELSE "none"]
  BY DEF Lists
<1>2. PICK at \in [Element -> Int] : at = [e \in Element |-> 0]
  <2>1. [e \in Element |-> 0] \in [Element -> Int]
    OBVIOUS
  <2> QED BY <2>1
<1>3. /\ where[Marker] = "queue" /\ Marker \in Element /\ Null \notin Element
      /\ \A e \in Element : at[e] = 0 /\ next[e] = Null /\ (e # Marker => where[e] = "none")
      /\ \A e \in El : where[e] = "none" /\ e \in Element
  BY <1>1, <1>2, ConstantsAssumption DEF Element, Init
<1> HIDE <1>1, <1>2
<1>4. PICK b \in BOOLEAN :
        /\ deq_fini = [automatic |-> b, start |-> Null, end |-> Null]
        /\ pc = [t \in Threads |-> IF t # Consumer THEN "idle" ELSE IF b THEN "wait" ELSE "dequeue"]
  BY DEF Init
<1>5. /\ pc[Consumer] \in {"wait", "dequeue"} /\ DOMAIN pc = Threads
      /\ \A t \in Threads : pc[t] \in {"idle", "wait", "dequeue"} /\ (pc[t] # "idle" => t = Consumer)
      /\ \A t \in Producers : pc[t] = "idle"
  BY <1>4, ConstantsAssumption DEF Threads, Producers
<1>6. IxType
  BY <1>3 DEF Init, IxType
<1>7. ElementType /\ ThreadType /\ NoteType
  BY <1>3, <1>5, ConstantsAssumption DEF Init, ElementType, ThreadType, NoteType, Pointer
<1>8. ListType
  BY <1>4 DEF Init, ListType, Empty, Pointer
<1>9. CallType
  BY DEF Init, NoCall, CallType
<1>10. ConsumerInv /\ ProducerInv /\ OwnInv
  BY <1>5, ConstantsAssumption DEF ConsumerInv, ProducerInv, OwnInv, MarkerPlaces,
     PointerPlaces, LinkedPlaces,
     HoldPlaces, Threads, Producers
<1>11. CountInv
  <2>1. ASSUME NEW i \in 0 .. 1 PROVE um_refc[i] = Cardinality(Counted(i))
    <3>1. Counted(i) = {}
      BY <1>5 DEF Counted, CountPlaces, PointerPlaces, LinkedPlaces, Producers
    <3>2. Cardinality(Counted(i)) = 0
      BY <3>1, FS_EmptySet
    <3> QED BY <3>2 DEF Init
  <2> QED BY <2>1 DEF CountInv
<1>12. SwitchInv
  BY <1>5 DEF SwitchInv, MarkerPlaces, PointerPlaces, LinkedPlaces
<1>13. QueueInv(where, at)
  <2>1. next[Marker] = Null /\ IsList(next, where, at, "queue", first, Marker)
    BY <1>3 DEF IsList, Init
  <2> QED BY <1>3, <2>1 DEF QueueInv
<1>14. ListInv(where, at)
  <2>1. \A e \in Element : where[e] \in {"queue", "none"}
    BY <1>3
  <2> QED BY <1>4, <2>1 DEF ListInv, IsList, Init, Empty
<1>15. PlaceInv(where, at)
  BY <1>3, <1>5 DEF PlaceInv, HoldPlaces, Init
<1>16. OrderInv(where, at)
  BY <1>3, <1>5 DEF OrderInv, Init, MarkerPlaces, PointerPlaces, LinkedPlaces
<1>17. PointerInv(where, at) /\ MoveInv(at)
  BY <1>5 DEF PointerInv, MoveInv, Pointers
<1>18. Inv(where, at)
  BY <1>6, <1>7, <1>8, <1>9, <1>10, <1>11, <1>12, <1>13, <1>14, <1>15, <1>16, <1>17 DEF Inv
<1> QED BY <1>18 DEF IInv

\* A step that changes nothing.
LEMMA Stuttering ==
  ASSUME NEW where \in [Element -> Lists], NEW at \in [Element -> Int], Inv(where, at), UNCHANGED vars
  PROVE  Inv(where, at)'
<1>1. UNCHANGED <<next, data, live, last, um_refc, um_refc_ix, head, used_marker, first, unref_end,
                  clean_reached_head_count, deq_fini, nxt, grace, event, misc, misc_prgr, wakeup,
                  fin_deq, arq_fin_deq, pc, this, ilast, um_ix, call, sent, got>>
  BY DEF vars, elements, tail, reclaim, notes, lists, locals, counts
<1>2. IxType' /\ ElementType' /\ ListType' /\ ThreadType' /\ CallType' /\ NoteType'
  BY <1>1 DEF Inv, IxType, ElementType, ListType, ThreadType, CallType, NoteType
<1>3. ConsumerInv' /\ ProducerInv' /\ OwnInv' /\ SwitchInv' /\ MoveInv(at)'
  BY <1>1 DEF Inv, ConsumerInv, ProducerInv, OwnInv, SwitchInv, MoveInv
<1>4. CountInv'
  BY <1>1, CountSame DEF Inv
<1>5. QueueInv(where, at)' /\ ListInv(where, at)'
  BY <1>1 DEF Inv, QueueInv, ListInv, IsList
<1>6. PlaceInv(where, at)' /\ OrderInv(where, at)'
  BY <1>1 DEF Inv, PlaceInv, OrderInv
<1>7. PointerInv(where, at)'
  BY <1>1 DEF Inv, PointerInv, Pointers, Waited
<1> QED BY <1>2, <1>3, <1>4, <1>5, <1>6, <1>7 DEF Inv

\* Every step preserves the invariant.
LEMMA NextInv == ASSUME IInv, [Next]_vars PROVE IInv'
<1>1. PICK where \in [Element -> Lists], at \in [Element -> Int] : Inv(where, at)
  BY DEF IInv
<1>2. Inv(where, at)' => IInv'
  BY DEF IInv
<1>3. ASSUME NEW p \in Producers, EnqStart(p) \/ Enqueue(p) \/ Quiesce(p) PROVE IInv'
  <2>1. p \in Threads
    BY DEF Threads
  <2>2. CASE EnqStart(p) \/ EnqInc(p) \/ EnqRereadIx(p) \/ EnqDec(p) \/ EnqInit(p)
    BY <1>1, <1>2, <2>2, EnqStartStep, EnqIncStep, EnqRereadIxStep, EnqDecStep, EnqInitStep
  <2>3. CASE enqueue_managed(p)
    BY <1>1, <1>2, <2>1, <2>3, EnqLinkStep, EnqFollowStep, EnqCheckStep, EnqRereadStep,
       EnqMoveStep
       DEF enqueue_managed
  <2>4. CASE EnqUnref(p) \/ EnqNotify(p) \/ Quiesce(p)
    BY <1>1, <1>2, <2>4, EnqUnrefStep, EnqNotifyStep, QuiesceStep
  <2> QED BY <1>3, <2>2, <2>3, <2>4 DEF Enqueue
<1>4. CASE clean
  <2>1. Consumer \in Threads
    BY DEF Threads
  <2>2. CASE enqueue_managed(Consumer)
    BY <1>1, <1>2, <2>1, <2>2, EnqLinkStep, EnqFollowStep, EnqCheckStep, EnqRereadStep,
       EnqMoveStep
       DEF enqueue_managed
  <2> QED BY <1>1, <1>2, <1>4, <2>2, CleanFirstStep, CleanReachesHeadStep, CleanReadLastStep,
             CleanMoveUnrefStep,
             CleanSwitchStep, CleanHeadStep, CleanInspectedStep, MarkerStartStep, MarkerDoneStep DEF clean
<1>5. CASE Dequeue \/ AuxWorkThrPrgr \/ AuxWorkMisc \/ AsyncJob \/ AsyncReset \/ AsyncChkFinDeq
           \/ EnsureEmpty \/ AsyncInspect \/ AsyncWait
  BY <1>1, <1>2, <1>5, DequeueStep, AuxWorkThrPrgrStep, AuxWorkMiscStep, AsyncJobStep,
     AsyncResetStep,
     AsyncChkFinDeqStep, EnsureEmptyStep, AsyncInspectStep, AsyncWaitStep
<1>6. CASE AuxWork \/ ReadyFinalize \/ ThrPrgrWakeup
  BY <1>1, <1>2, <1>6, AuxWorkStep, ReadyFinalizeStep, ThrPrgrWakeupStep
<1>7. CASE UNCHANGED vars
  BY <1>1, <1>2, <1>7, Stuttering
<1> QED BY <1>3, <1>4, <1>5, <1>6, <1>7 DEF Next, Consume

\* The invariant is one.
LEMMA Invariance == Spec => []IInv
<1>1. Init => IInv
  BY InitInv
<1>2. IInv /\ [Next]_vars => IInv'
  BY NextInv
<1> QED BY <1>1, <1>2, PTL DEF Spec

\* Types.  A counter counts unmanaged producers, so it is no less than zero and no
\* more than their number.
THEOREM TypeCorrect == Spec => []TypeOK
<1>1. ASSUME IInv PROVE TypeOK
  <2>1. PICK where \in [Element -> Lists], at \in [Element -> Int] : Inv(where, at)
    BY <1>1 DEF IInv
  <2>2. ASSUME NEW i \in 0 .. 1 PROVE um_refc[i] \in 0 .. Cardinality(Unmanaged)
    <3>1. Counted(i) \subseteq Unmanaged /\ IsFiniteSet(Unmanaged)
      BY ConstantsAssumption DEF Counted
    <3>2. Cardinality(Counted(i)) <= Cardinality(Unmanaged) /\ IsFiniteSet(Counted(i))
      BY <3>1, FS_Subset
    <3>3. Cardinality(Counted(i)) \in Nat /\ Cardinality(Unmanaged) \in Nat
      BY <3>1, <3>2, FS_CardinalityType
    <3> QED BY <2>1, <3>2, <3>3 DEF Inv, CountInv
  <2>3. um_refc \in [0 .. 1 -> 0 .. Cardinality(Unmanaged)]
    BY <2>1, <2>2 DEF Inv, IxType
  <2> QED BY <2>1, <2>3 DEF Inv, TypeOK, IxType, ElementType, ThreadType, NoteType
<1> QED BY <1>1, Invariance, PTL

\* A producer links to an element, and looks at its own one, only while they have not
\* been reclaimed: next.unref_end waits for all that may have a pointer.
THEOREM PointersSafe == Spec => []NoUseAfterFree
<1>1. ASSUME IInv PROVE NoUseAfterFree
  <2>1. PICK where \in [Element -> Lists], at \in [Element -> Int] : Inv(where, at)
    BY <1>1 DEF IInv
  <2>2. ASSUME NEW t \in Threads, NEW e \in Pointers(t) PROVE e \in live \/ (e = Marker /\ used_marker)
    <3>1. e \in Element /\ where[e] = "queue"
      BY <2>1, <2>2 DEF Inv, PointerInv
    <3> QED BY <2>1, <3>1 DEF Inv, PlaceInv, Element
  <2>3. ASSUME NEW t \in Threads
        PROVE  /\ pc[t] = "link" => ilast[t] \in Pointers(t)
               /\ pc[t] = "check" => this[t] \in Pointers(t)
    BY DEF Pointers
  <2> QED BY <2>2, <2>3 DEF NoUseAfterFree
<1> QED BY <1>1, Invariance, PTL

\* No two of a list have the same position.
Distinct(where, at, name) == \A x, y \in Members(where, name) : at[x] = at[y] => x = y

\* A list is what is reached from its start.
LEMMA ListReached ==
  ASSUME NEW link, NEW where, NEW at \in [Element -> Int], NEW name, NEW s \in Pointer, NEW e \in Pointer,
         IsList(link, where, at, name, s, e), e # Null => link[e] = Null,
         Distinct(where, at, name)
  PROVE  Ahead(link, s) = Members(where, name)
<1>1. CASE s = Null
  <2>1. Members(where, name) = {}
    BY <1>1 DEF IsList, Members
  <2> QED BY <1>1, <2>1, AheadNull
<1>2. CASE s # Null
  <2>1. s \in Members(where, name)
    BY <1>2 DEF IsList, Members, Pointer
  <2>2. IsForward(link, Members(where, name), at)
    BY ListForward
  <2>3. Ahead(link, s) \subseteq Members(where, name)
    BY <2>1, <2>2, AheadUnfold
  <2>4. ASSUME NEW y \in Members(where, name) PROVE y \in Ahead(link, s)
    <3>1. at[s] <= at[y]
      BY DEF IsList, Members
    <3> QED BY <2>1, <2>2, <3>1, AheadCovers DEF Distinct
  <2> QED BY <2>3, <2>4
<1> QED BY <1>1, <1>2

\* From a list one comes to what is behind its end.
LEMMA AheadPast ==
  ASSUME NEW link, NEW where, NEW at \in [Element -> Int], NEW name, NEW s \in Pointer, NEW e \in Pointer,
         IsList(link, where, at, name, s, e),
         NEW S, NEW m, IsForward(link, S, m), Members(where, name) \subseteq S,
         NEW x \in Members(where, name)
  PROVE  Ahead(link, x) \subseteq Members(where, name) \cup Ahead(link, link[e])
<1> DEFINE M == Members(where, name)
           Bad == {n \in Nat : \E z \in M : n = at[e] - at[z] /\ ~(Ahead(link, z) \subseteq M \cup Ahead(link, link[e]))}
<1>1. \A z \in M : at[z] \in Int /\ z \in S /\ at[z] <= at[e] /\ at[e] \in Int
                   /\ (z # e => link[z] \in M /\ at[link[z]] = at[z] + 1)
  BY DEF Members, IsList, Pointer
<1>2. \A z \in M : Ahead(link, z) = {z} \cup Ahead(link, link[z])
  BY <1>1, AheadUnfold
<1> HIDE DEF M
<1>3. Bad = {}
  <2> SUFFICES ASSUME Bad # {} PROVE FALSE
    OBVIOUS
  <2>1. PICK n \in Bad : \A k \in Bad : n <= k
    BY MinNat
  <2>2. PICK z \in M : n = at[e] - at[z] /\ ~(Ahead(link, z) \subseteq M \cup Ahead(link, link[e]))
    BY <2>1
  <2>3. z # e
    BY <1>2, <2>2
  <2>4. n - 1 = at[e] - at[link[z]] /\ n - 1 \in Nat /\ link[z] \in M
    BY <1>1, <2>2, <2>3
  <2>5. n - 1 \notin Bad
    BY <2>1, <2>4
  <2>6. Ahead(link, link[z]) \subseteq M \cup Ahead(link, link[e])
    BY <2>4, <2>5
  <2> QED BY <1>2, <2>2, <2>6
<1>4. x \in M /\ at[e] - at[x] \in Nat
  BY <1>1 DEF M
<1> QED BY <1>3, <1>4 DEF M

\* Dequeued elements that are not cut off from the queue yet.
LEMMA DeqReached ==
  ASSUME NEW where \in [Element -> Lists], NEW at \in [Element -> Int], Inv(where, at),
         deq_fini.start # Null
  PROVE  {deq_fini.end} \cup (Ahead(next, deq_fini.start) \ Ahead(next, deq_fini.end)) = Members(where, "deq")
<1>1. PICK ds, de \in Pointer : ds = deq_fini.start /\ de = deq_fini.end
  BY DEF Inv, ListType
<1>2. /\ IsList(next, where, at, "deq", ds, de) /\ ds # Null /\ de # Null
      /\ next[de] \in {first, Marker}
      /\ next[de] = Marker /\ where[Marker] # "queue" => next[Marker] \in {Null, first}
  BY <1>1 DEF Inv, ListInv, IsList
<1>3. PICK end \in Element : next[end] = Null /\ IsList(next, where, at, "queue", first, end)
  BY DEF Inv, QueueInv
<1>4. PICK f \in Element : f = first /\ f # Null /\ where[f] = "queue"
  BY <1>3, ConstantsAssumption DEF Inv, ElementType, IsList, Element
<1>5. PICK g \in Element : g = next[de]
  BY <1>2, <1>4 DEF Element
<1>6. ds \in Element /\ de \in Element /\ where[ds] = "deq" /\ where[de] = "deq" /\ Null \notin Element
  BY <1>2, ConstantsAssumption DEF IsList, Pointer, Element
<1>7. where[Marker] \in {"queue", "none"} /\ Marker \in Element
  BY DEF Inv, PlaceInv, Element
<1> DEFINE D == Members(where, "deq")
           Q == Members(where, "queue") \cup {g}
<1>8. PICK m \in [Element -> Int] :
        m = [x \in Element |-> CASE where[x] = "deq" -> at[x] - at[de] - 2
                                 [] where[x] = "queue" -> at[x] - at[f]
                                 [] OTHER -> -1]
  <2> DEFINE n == [x \in Element |-> CASE where[x] = "deq" -> at[x] - at[de] - 2
                                       [] where[x] = "queue" -> at[x] - at[f]
                                       [] OTHER -> -1]
  <2>1. ASSUME NEW x \in Element PROVE (CASE where[x] = "deq" -> at[x] - at[de] - 2
                                       [] where[x] = "queue" -> at[x] - at[f]
                                       [] OTHER -> -1) \in Int
    BY <1>6
  <2>2. n \in [Element -> Int]
    BY <2>1
  <2> HIDE DEF n
  <2>3. \E k \in [Element -> Int] : k = n
    BY <2>2
  <2> QED BY <2>3 DEF n
<1>9. \A x \in Element : /\ where[x] = "deq" => m[x] = at[x] - at[de] - 2
                         /\ where[x] = "queue" => m[x] = at[x] - at[f]
                         /\ where[x] = "none" => m[x] = -1
  BY <1>8
<1> HIDE <1>8
<1>10. \A x \in Element : where[x] = "queue" =>
         /\ at[f] <= at[x] /\ m[x] >= 0
         /\ next[x] = Null \/ (next[x] \in Element /\ where[next[x]] = "queue" /\ m[x] < m[next[x]])
  <2> SUFFICES ASSUME NEW x \in Element, where[x] = "queue"
               PROVE  /\ at[f] <= at[x] /\ m[x] >= 0
                      /\ next[x] = Null \/ (next[x] \in Element /\ where[next[x]] = "queue" /\ m[x] < m[next[x]])
    OBVIOUS
  <2>1. at[f] <= at[x] /\ (x # end => next[x] \in Element /\ where[next[x]] = "queue" /\ at[next[x]] = at[x] + 1)
    BY <1>3, <1>4 DEF IsList
  <2> QED BY <1>3, <1>4, <1>9, <2>1
<1>11. g \in {f, Marker} /\ m[g] >= -1
       /\ (where[g] = "queue" \/ (where[g] = "none" /\ (next[g] = Null \/ (next[g] = f /\ m[g] < m[f]))))
  <2>1. m[f] = 0
    BY <1>4, <1>9
  <2> QED BY <1>2, <1>4, <1>5, <1>7, <1>9, <1>10, <2>1
<1>12. IsForward(next, Q, m)
  <2>1. Q \subseteq Element /\ \A x \in Q : x = g \/ (x \in Element /\ where[x] = "queue")
    BY DEF Members
  <2>2. \A x \in Element : where[x] = "queue" => x \in Q
    BY DEF Members
  <2> HIDE DEF Q
  <2>3. \A x \in Q : next[x] = Null \/ (next[x] \in Q /\ m[x] < m[next[x]])
    BY <1>4, <1>10, <1>11, <2>1, <2>2
  <2> QED BY <2>1, <2>3 DEF IsForward
<1>13. IsForward(next, D \cup Q, m)
  <2>1. D \subseteq Element /\ \A x \in D : where[x] = "deq"
    BY DEF Members
  <2>2. \A x \in D : x = de \/ (next[x] \in D /\ at[next[x]] = at[x] + 1)
    BY <1>2 DEF IsList, Members
  <2>3. g \in Q
    OBVIOUS
  <2> HIDE DEF Q, D
  <2>4. \A x \in D : next[x] \in D \cup Q /\ m[x] < m[next[x]]
    <3> SUFFICES ASSUME NEW x \in D PROVE next[x] \in D \cup Q /\ m[x] < m[next[x]]
      OBVIOUS
    <3>1. CASE x = de
      BY <1>5, <1>6, <1>9, <1>11, <2>3, <3>1
    <3>2. CASE x # de
      <4>1. next[x] \in D /\ at[next[x]] = at[x] + 1 /\ x \in Element /\ next[x] \in Element
        BY <2>1, <2>2, <3>2
      <4>2. m[x] = at[x] - at[de] - 2 /\ m[next[x]] = at[next[x]] - at[de] - 2
        BY <1>9, <2>1, <4>1
      <4> QED BY <1>6, <4>1, <4>2
    <3> QED BY <3>1, <3>2
  <2> QED BY <1>12, <2>1, <2>4 DEF IsForward
<1>14. Ahead(next, g) \subseteq Q /\ Q \cap D = {}
  <2>1. g \in Q /\ Q \cap D = {}
    BY <1>11 DEF Members
  <2> HIDE DEF Q
  <2> QED BY <1>12, <2>1, AheadUnfold
<1>15. ds \in D /\ de \in D /\ D \subseteq D \cup Q /\ \A y \in D : at[ds] <= at[y]
  BY <1>2, <1>6 DEF IsList, Members
<1>16. Ahead(next, de) = {de} \cup Ahead(next, g)
  <2> HIDE DEF Q, D
  <2> QED BY <1>5, <1>13, <1>15, AheadUnfold
<1>17. Ahead(next, ds) \subseteq D \cup Ahead(next, g)
  <2> HIDE DEF Q
  <2> QED BY <1>2, <1>5, <1>13, <1>15, AheadPast
<1>18. D \subseteq Ahead(next, ds)
  <2>1. \A x, y \in D : at[x] = at[y] => x = y
    BY DEF Inv, PlaceInv, Members
  <2> HIDE DEF Q
  <2> QED BY <1>2, <1>13, <1>15, <2>1, AheadCovers
<1> HIDE DEF D, Q
<1> QED BY <1>1, <1>14, <1>15, <1>16, <1>17, <1>18 DEF D

\* What is allocated is in one of the lists or held by a producer, in one place.
THEOREM NoLeak == Spec => []NothingLeaks
<1>1. ASSUME IInv PROVE NothingLeaks
  <2>1. PICK where \in [Element -> Lists], at \in [Element -> Int] : Inv(where, at)
    BY <1>1 DEF IInv
  <2>2. \A x : InChain(x) = Ahead(next, x)
    BY DEF InChain, Chain, Ahead
  <2>3. PICK end \in Element : next[end] = Null /\ IsList(next, where, at, "queue", first, end)
    BY <2>1 DEF Inv, QueueInv
  <2>4. PICK fs, fe, rs, re \in Pointer :
          /\ fin_deq = [start |-> fs, end |-> fe] /\ arq_fin_deq = [start |-> rs, end |-> re]
    BY <2>1 DEF Inv, ListType
  <2>5. /\ IsList(next, where, at, "fin", fs, fe) /\ (fe # Null => next[fe] = Null)
        /\ IsList(next, where, at, "arq", rs, re) /\ (re # Null => next[re] = Null)
        /\ IsList(next, where, at, "deq", deq_fini.start, deq_fini.end)
    BY <2>1, <2>4 DEF Inv, ListInv
  <2>6. Distinct(where, at, "queue") /\ Distinct(where, at, "fin") /\ Distinct(where, at, "arq")
    BY <2>1 DEF Inv, PlaceInv, Distinct, Members
  <2>7. /\ InChain(first) = Members(where, "queue")
        /\ InChain(fin_deq.start) = Members(where, "fin")
        /\ InChain(arq_fin_deq.start) = Members(where, "arq")
    <3>1. first \in Pointer /\ end \in Pointer
      BY <2>1 DEF Inv, ElementType, Pointer
    <3>2. Ahead(next, first) = Members(where, "queue")
      BY <2>3, <2>6, <3>1, ListReached
    <3>3. Ahead(next, fs) = Members(where, "fin")
      BY <2>5, <2>6, ListReached
    <3>4. Ahead(next, rs) = Members(where, "arq")
      BY <2>5, <2>6, ListReached
    <3> QED BY <2>2, <2>4, <3>2, <3>3, <3>4
  <2>8. (IF deq_fini.start = Null THEN {} ELSE
              {deq_fini.end} \cup (InChain(deq_fini.start) \ InChain(deq_fini.end))) = Members(where, "deq")
    <3>1. CASE deq_fini.start = Null
      BY <2>5, <3>1 DEF IsList, Members
    <3>2. CASE deq_fini.start # Null
      BY <2>1, <2>2, <3>2, DeqReached
    <3> QED BY <3>1, <3>2
  <2>9. PICK held : held = {this[p] : p \in {q \in Producers : pc[q] \in {"inc", "reread_ix",
                                "dec", "init", "link"}}}
    OBVIOUS
  <2>10. \A e : e \in held <=> \E p \in Producers : pc[p] \in HoldPlaces /\ e = this[p]
    BY <2>9 DEF HoldPlaces
  <2>11. \A e \in held : where[e] = "none" /\ e \in live
    BY <2>1, <2>10 DEF Inv, PlaceInv
  <2>12. \A e \in live : e \in El /\ e \in Element /\ e # Marker /\ (where[e] # "none" \/ e \in held)
    BY <2>1, <2>10, ConstantsAssumption DEF Inv, PlaceInv, ElementType, Element
  <2>13. \A e \in Element : e # Marker /\ where[e] # "none" => e \in live
    BY <2>1 DEF Inv, PlaceInv, Element
  <2>14. \A e \in Element : where[e] \in {"none", "queue", "deq", "fin", "arq"}
    BY DEF Lists
  <2>15. live = (Members(where, "queue") \cup held \cup Members(where, "deq") \cup Members(where, "fin")
                 \cup Members(where, "arq")) \ {Marker}
    <3>1. \A e \in live : (e \in Element /\ where[e] \in {"queue", "deq", "fin", "arq"}) \/ e \in held
      BY <2>12, <2>14
    <3>2. \A e \in live : e # Marker
      BY <2>12
    <3> QED BY <2>11, <2>13, <3>1, <3>2 DEF Members
  <2>16. Members(where, "queue") \cap (held \cup Members(where, "deq") \cup Members(where, "fin")
                 \cup Members(where, "arq")) = {}
    BY <2>11 DEF Members
  <2> QED BY <2>7, <2>8, <2>9, <2>15, <2>16, Zenon DEF NothingLeaks
<1> QED BY <1>1, Invariance, PTL

-----------------------------------------------------------------------------
(* The queue is a FifoQueue: the contents are what is ahead of the head.    *)

\* What an element contributes: the marker nothing.
Part(d) == [x \in Element |-> IF x = Marker THEN <<>> ELSE <<d[x]>>]

\* The contents are what those ahead of the head contribute,
LEMMA ContentsAhead == Contents = Follow(next, next[head], Part(data))
  BY Zenon DEF Contents, Part

\* which are sequences over some set.
LEMMA PartSeq ==
  ASSUME NEW d
  PROVE  \E T : \A x \in Element : d[x] \in T /\ Part(d)[x] \in Seq(T)
<1>1. PICK T : T = {d[y] : y \in Element}
  OBVIOUS
<1>2. ASSUME NEW x \in Element PROVE d[x] \in T /\ Part(d)[x] \in Seq(T)
  <2>1. d[x] \in T
    BY <1>1
  <2>2. Part(d)[x] = IF x = Marker THEN <<>> ELSE <<d[x]>>
    BY DEF Part
  <2> HIDE <1>1
  <2>3. <<d[x]>> \in Seq(T) /\ <<>> \in Seq(T)
    BY <2>1
  <2> QED BY <2>1, <2>2, <2>3
<1> QED BY <1>2

\* Concatenation is associative.
LEMMA SeqAssoc ==
  ASSUME NEW T, NEW p \in Seq(T), NEW q \in Seq(T), NEW r \in Seq(T)
  PROVE  (p \o q) \o r = p \o (q \o r)
  BY ConcatAssociative

\* One more at the end.
IsAppended(link, l, where, at, s, end, S, m, e) ==
  /\ IsList(link, where, at, "queue", s, end) /\ S = Members(where, "queue")
  /\ IsForward(link, S, at) /\ IsForward(l, S \cup {e}, m)
  /\ end \in S /\ link[end] = Null /\ l[end] = e /\ l[e] = Null
  /\ \A x \in S : x # end => l[x] = link[x]

PartsIn(part, T) == \A x \in Element : part[x] \in Seq(T)

Appends(link, l, part, S, e) ==
  \A x \in S : Follow(l, x, part) = Follow(link, x, part) \o part[e]

\* What is linked at the end comes last.
LEMMA FollowAppend ==
  ASSUME NEW link, NEW l, NEW part, NEW T, NEW where, NEW at \in [Element -> Int], NEW s, NEW end,
         NEW S, NEW m, NEW e \in Element, IsAppended(link, l, where, at, s, end, S, m, e),
         PartsIn(part, T)
  PROVE  Appends(link, l, part, S, e)
<1>0. /\ IsList(link, where, at, "queue", s, end) /\ S = Members(where, "queue")
      /\ IsForward(link, S, at) /\ IsForward(l, S \cup {e}, m)
      /\ end \in S /\ link[end] = Null /\ l[end] = e /\ l[e] = Null
      /\ \A x \in S : x # end => l[x] = link[x]
  BY DEF IsAppended
<1> DEFINE Good(x) == Follow(l, x, part) = Follow(link, x, part) \o part[e]
           Bad == {n \in Nat : \E x \in S : n = at[end] - at[x] /\ ~Good(x)}
<1>1. \A x \in S : /\ x \in Element /\ at[x] \in Int /\ at[x] <= at[end] /\ at[end] \in Int
                   /\ x # end => link[x] \in S /\ at[link[x]] = at[x] + 1
  BY <1>0 DEF Members, IsList
<1>2. \A x \in S : /\ Follow(link, x, part) = part[x] \o Follow(link, link[x], part)
                   /\ Follow(l, x, part) = part[x] \o Follow(l, l[x], part)
  <2>1. ASSUME NEW x \in S PROVE Follow(link, x, part) = part[x] \o Follow(link, link[x], part)
    BY <1>0, FollowUnfold
  <2>2. ASSUME NEW x \in S PROVE Follow(l, x, part) = part[x] \o Follow(l, l[x], part)
    <3>1. x \in S \cup {e}
      OBVIOUS
    <3> QED BY <1>0, <3>1, FollowUnfold
  <2> QED BY <2>1, <2>2
<1>3. Follow(l, e, part) = part[e] \o <<>>
  <2>1. Follow(l, e, part) = part[e] \o Follow(l, l[e], part)
    <3>1. e \in S \cup {e}
      OBVIOUS
    <3> QED BY <1>0, <3>1, FollowUnfold
  <2> QED BY <1>0, <2>1, FollowNull
<1>4. part[e] \in Seq(T) /\ <<>> \in Seq(T) /\ \A x \in S : part[x] \in Seq(T)
  <2>1. \A x \in S : x \in Element
    BY <1>1
  <2> QED BY <2>1 DEF PartsIn
<1>5. \A x \in S : Follow(link, x, part) \in Seq(T)
  <2>1. \A y \in S : (link[y] = Null \/ link[y] \in S) /\ part[y] \in Seq(T) /\ S \in SUBSET Element
    BY <1>0, <1>4 DEF IsForward
  <2> QED BY <2>1, FollowSeq
<1>8. ASSUME NEW x \in S, link[x] \in S
      PROVE  (part[x] \o Follow(link, link[x], part)) \o part[e] = part[x] \o (Follow(link, link[x], part) \o part[e])
  <2>1. PICK p \in Seq(T), q \in Seq(T), r \in Seq(T) :
          p = part[x] /\ q = Follow(link, link[x], part) /\ r = part[e]
    BY <1>4, <1>5, <1>8
  <2>2. (p \o q) \o r = p \o (q \o r)
    BY SeqAssoc
  <2> QED BY <2>1, <2>2
<1> HIDE DEF Good
<1>6. Bad = {}
  <2> SUFFICES ASSUME Bad # {} PROVE FALSE
    OBVIOUS
  <2>1. PICK n \in Bad : \A k \in Bad : n <= k
    BY MinNat
  <2>2. PICK x \in S : n = at[end] - at[x] /\ ~Good(x)
    BY <2>1
  <2>3. CASE x = end
    <3>1. Follow(link, x, part) = part[x] \o <<>>
      <4>1. Follow(link, link[x], part) = <<>>
        BY <1>0, <2>3, FollowNull
      <4> QED BY <1>2, <4>1
    <3>2. Follow(l, x, part) = part[x] \o (part[e] \o <<>>)
      BY <1>0, <1>2, <1>3, <2>3
    <3>3. part[x] \o <<>> = part[x] /\ part[e] \o <<>> = part[e]
      BY <1>4, ConcatEmptySeq
    <3> QED BY <2>2, <3>1, <3>2, <3>3 DEF Good
  <2>4. CASE x # end
    <3>1. link[x] \in S /\ at[link[x]] = at[x] + 1 /\ l[x] = link[x]
      BY <1>0, <1>1, <2>4
    <3>2. n - 1 = at[end] - at[link[x]] /\ n - 1 \in Nat
      BY <1>1, <2>2, <3>1
    <3>3. n - 1 \notin Bad
      BY <2>1, <3>2
    <3>4. Good(link[x])
      BY <3>1, <3>2, <3>3
    <3>5. Follow(l, x, part) = part[x] \o (Follow(link, link[x], part) \o part[e])
      BY <1>2, <3>1, <3>4 DEF Good
    <3>6. (part[x] \o Follow(link, link[x], part)) \o part[e] = part[x] \o (Follow(link, link[x], part) \o part[e])
      BY <1>8, <3>1
    <3> QED BY <1>2, <2>2, <3>5, <3>6 DEF Good
  <2> QED BY <2>3, <2>4
<1>7. \A x \in S : at[end] - at[x] \in Nat
  BY <1>1
<1> QED BY <1>6, <1>7 DEF Good, Appends

\* What a step leaves alone that does not change the contents.
Untouched(where, at) ==
  /\ head' = head
  /\ \A x \in Element : where[x] = "queue" /\ at[head] <= at[x] => next'[x] = next[x] /\ data'[x] = data[x]

\* The queue ahead of the head.
LEMMA QueueAhead ==
  ASSUME NEW where \in [Element -> Lists], NEW at \in [Element -> Int], Inv(where, at),
         NEW S, S = {x \in Element : where[x] = "queue" /\ at[head] <= at[x]}
  PROVE  /\ IsForward(next, S, at) /\ head \in S
         /\ next[head] = Null \/ (next[head] \in S /\ next[head] # head)
         /\ \A x \in S : next[x] # x
<1>1. PICK end \in Element : next[end] = Null /\ IsList(next, where, at, "queue", first, end)
  BY DEF Inv, QueueInv
<1>2. head \in Element /\ where[head] = "queue" /\ head \in S /\ at[head] \in Int
  BY DEF Inv, ElementType, OrderInv
<1>3. \A x \in S : next[x] = Null \/ (next[x] \in S /\ at[x] < at[next[x]])
  <2> SUFFICES ASSUME NEW x \in S, x # end PROVE next[x] \in S /\ at[x] < at[next[x]]
    BY <1>1
  <2>1. next[x] \in Element /\ where[next[x]] = "queue" /\ at[next[x]] = at[x] + 1 /\ at[x] \in Int
    BY <1>1 DEF IsList
  <2> QED BY <1>2, <2>1
<1>4. IsForward(next, S, at)
  BY <1>3 DEF IsForward
<1>5. \A x \in S : at[x] \in Int /\ x # Null
  BY ConstantsAssumption DEF Element
<1> QED BY <1>2, <1>3, <1>4, <1>5

\* Steps elsewhere do not change the contents.
LEMMA ContentsSame ==
  ASSUME NEW where \in [Element -> Lists], NEW at \in [Element -> Int], Inv(where, at), Untouched(where, at)
  PROVE  Contents' = Contents
<1>1. PICK S : S = {x \in Element : where[x] = "queue" /\ at[head] <= at[x]}
  OBVIOUS
<1>2. IsForward(next, S, at) /\ head \in S /\ next[head] \in S \cup {Null}
  BY <1>1, QueueAhead
<1>3. \A x \in S : x \in Element /\ next'[x] = next[x] /\ data'[x] = data[x]
  BY <1>1 DEF Untouched
<1> HIDE <1>1
<1>4. \A x \in S : /\ next[x] = Null \/ next[x] \in S
                   /\ next'[x] = next[x] /\ Part(data')[x] = Part(data)[x]
  BY <1>2, <1>3 DEF IsForward, Part
<1>5. S \in SUBSET Element
  BY <1>3
<1>6. Follow(next', next[head], Part(data')) = Follow(next, next[head], Part(data))
  BY <1>2, <1>4, <1>5, FollowSame
<1>7. next'[head'] = next[head]
  BY <1>2, <1>3 DEF Untouched
<1>8. Contents' = Follow(next', next'[head'], Part(data'))
  BY Zenon DEF Contents, Part
<1> QED BY <1>6, <1>7, <1>8, ContentsAhead

\* The marker does not count.
LEMMA ContentsOver ==
  ASSUME NEW where \in [Element -> Lists], NEW at \in [Element -> Int], Inv(where, at),
         NEW h, h = IF next[head] = Marker THEN Marker ELSE head
  PROVE  /\ Contents = Follow(next, next[h], Part(data))
         /\ next[h] # Null => /\ next[h] \in El
                              /\ Contents = <<data[next[h]]>> \o Follow(next, next[next[h]], Part(data))
         /\ next[h] = Null => Contents = <<>>
         /\ next[h] # Null => \E T : Follow(next, next[next[h]], Part(data)) \in Seq(T) /\ data[next[h]] \in T
<1>1. PICK S : S = {x \in Element : where[x] = "queue" /\ at[head] <= at[x]}
  OBVIOUS
<1>2. /\ IsForward(next, S, at) /\ head \in S /\ next[head] \in S \cup {Null} /\ S \subseteq Element
      /\ \A x \in S : next[x] # x
  BY <1>1, QueueAhead
<1> HIDE <1>1
<1>3. \A x \in S : /\ next[x] = Null \/ next[x] \in S
                   /\ Follow(next, x, Part(data)) = Part(data)[x] \o Follow(next, next[x], Part(data))
  BY <1>2, FollowUnfold DEF IsForward
<1>4. Null \notin Element /\ Marker \notin El /\ Marker \in Element
  BY ConstantsAssumption DEF Element
<1>5. h \in S /\ next[h] # Marker
  BY <1>2, <1>4
<1>6. PICK T : \A x \in Element : data[x] \in T /\ Part(data)[x] \in Seq(T)
  BY PartSeq
<1>7. \A x \in S : Part(data)[x] \in Seq(T) /\ data[x] \in T
  BY <1>2, <1>6
<1>8. \A x \in S \cup {Null} : Follow(next, x, Part(data)) \in Seq(T)
  <2>1. \A x \in S : (next[x] = Null \/ next[x] \in S) /\ Part(data)[x] \in Seq(T)
    BY <1>3, <1>7
  <2>2. S \in SUBSET Element
    BY <1>2
  <2> QED BY <2>1, <2>2, FollowSeq
<1>9. Contents = Follow(next, next[h], Part(data))
  <2>1. CASE next[head] = Marker
    <3>1. Marker \in S /\ h = Marker /\ Part(data)[Marker] = <<>>
      BY <1>2, <1>4, <2>1 DEF Part
    <3>2. Contents = <<>> \o Follow(next, next[Marker], Part(data))
      BY <1>3, <2>1, <3>1, ContentsAhead
    <3>3. Follow(next, next[Marker], Part(data)) \in Seq(T)
      BY <1>3, <1>8, <3>1
    <3> QED BY <3>1, <3>2, <3>3, ConcatEmptySeq
  <2>2. CASE next[head] # Marker
    BY <2>2, ContentsAhead
  <2> QED BY <2>1, <2>2
<1>10. next[h] = Null => Contents = <<>>
  BY <1>9, FollowNull
<1>11. CASE next[h] # Null
  <2>1. PICK e \in S : e = next[h] /\ e # Marker
    BY <1>3, <1>5, <1>11
  <2>2. e \in El /\ Part(data)[e] = <<data[e]>>
    BY <1>2, <2>1 DEF Element, Part
  <2>3. Contents = <<data[e]>> \o Follow(next, next[e], Part(data))
    BY <1>3, <1>9, <2>1, <2>2
  <2>4. Follow(next, next[e], Part(data)) \in Seq(T) /\ data[e] \in T
    BY <1>3, <1>7, <1>8
  <2> QED BY <1>9, <1>11, <2>1, <2>2, <2>3, <2>4
<1>12. CASE next[h] = Null
  BY <1>9, <1>10, <1>12
<1> QED BY <1>11, <1>12

\* The compare and exchange that links an element is where it is enqueued; a marker
\* that is linked does not count.
LEMMA EnqLinkContents ==
  ASSUME NEW where \in [Element -> Lists], NEW at \in [Element -> Int], Inv(where, at),
         NEW t \in Threads, EnqLink(t)
  PROVE  Contents' = IF t = Consumer THEN Contents ELSE Append(Contents, <<t, sent[t] + 1>>)
<1>1. /\ pc[t] = "link" /\ next[ilast[t]] = Null /\ next' = [next EXCEPT ![ilast[t]] = this[t]]
      /\ data' = data /\ head' = head
  BY DEF EnqLink, Goto
<1>2. PICK l \in Element : l = ilast[t]
  BY <1>1 DEF Inv, PointerInv, Pointers
<1>3. where[l] = "queue" /\ next[l] = Null
  BY <1>1, <1>2 DEF Inv, PointerInv, Pointers
<1>4. PICK x \in Element : x = this[t]
  BY <1>1 DEF Inv, ProducerInv, ConsumerInv, Threads, HoldPlaces, PointerPlaces, Element
<1>5. where[x] = "none" /\ next[x] = Null /\ x # l
  <2>1. CASE t = Consumer
    BY <1>1, <1>3, <1>4, <2>1 DEF Inv, PlaceInv, ConsumerInv, PointerPlaces
  <2>2. CASE t # Consumer
    BY <1>1, <1>3, <1>4, <2>2 DEF Inv, PlaceInv, ProducerInv, HoldPlaces, Threads
  <2> QED BY <2>1, <2>2
<1>6. Part(data)[x] = IF t = Consumer THEN <<>> ELSE <<<<t, sent[t] + 1>>>>
  <2>1. CASE t = Consumer
    <3>1. x = Marker
      BY <1>1, <1>4, <2>1 DEF Inv, ConsumerInv, PointerPlaces
    <3> QED BY <2>1, <3>1 DEF Part
  <2>2. CASE t # Consumer
    <3>1. x \in El /\ data[x] = <<t, sent[t] + 1>> /\ x # Marker
      BY <1>1, <1>4, <2>2, ConstantsAssumption DEF Inv, ProducerInv, HoldPlaces, Threads
    <3> QED BY <2>2, <3>1 DEF Part
  <2> QED BY <2>1, <2>2
<1>7. IsList(next, where, at, "queue", first, l)
  BY <1>3, ConstantsAssumption DEF Inv, QueueInv, IsList, Element
<1>8. PICK m \in [Element -> Int] : m = [at EXCEPT ![x] = at[l] + 1]
  <2>1. at[l] + 1 \in Int
    OBVIOUS
  <2> QED BY <2>1
<1>9. PICK S : S = Members(where, "queue")
  OBVIOUS
<1>10. /\ next' \in [Element -> Pointer] /\ next'[l] = x /\ next'[x] = Null
       /\ \A y \in Element : y # l => next'[y] = next[y]
  BY <1>1, <1>2, <1>4, <1>5 DEF Inv, ElementType, Pointer
<1>11. /\ S \subseteq Element /\ l \in S /\ x \notin S /\ head \in S
       /\ \A y \in S : y # l => next[y] \in S /\ at[next[y]] = at[y] + 1
       /\ \A y \in S : at[y] \in Int /\ at[y] <= at[l]
  BY <1>3, <1>5, <1>7, <1>9 DEF Members, IsList, Inv, OrderInv, ElementType
<1>12. m[x] = at[l] + 1 /\ \A y \in S : m[y] = at[y]
  BY <1>8, <1>11
<1> HIDE <1>8, <1>9
<1>13. IsForward(next, S, at)
  BY <1>3, <1>11 DEF IsForward
<1>14. IsForward(next', S \cup {x}, m)
  <2>1. \A y \in S \cup {x} : next'[y] = Null \/ (next'[y] \in S \cup {x} /\ m[y] < m[next'[y]])
    <3>1. ASSUME NEW y \in S, y # l PROVE next'[y] \in S /\ m[y] < m[next'[y]]
      BY <1>10, <1>11, <1>12, <3>1
    <3>2. next'[l] = x /\ m[l] < m[x]
      BY <1>10, <1>11, <1>12
    <3> QED BY <1>10, <3>1, <3>2
  <2> QED BY <1>11, <2>1 DEF IsForward
<1>15. IsAppended(next, next', where, at, first, l, S, m, x)
  <2>1. \A y \in S : y # l => next'[y] = next[y]
    BY <1>10, <1>11
  <2> QED BY <1>3, <1>7, <1>9, <1>10, <1>11, <1>13, <1>14, <2>1, Zenon DEF IsAppended
<1>16. PICK T : \A y \in Element : data[y] \in T /\ Part(data)[y] \in Seq(T)
  BY PartSeq
<1>17. \A y \in S : Follow(next', y, Part(data)) = Follow(next, y, Part(data)) \o Part(data)[x]
  <2>1. PartsIn(Part(data), T)
    BY <1>16 DEF PartsIn
  <2>2. Appends(next, next', Part(data), S, x)
    BY <1>15, <2>1, FollowAppend
  <2> QED BY <2>2 DEF Appends
<1>18. Contents' = Follow(next', next'[head], Part(data))
  BY <1>1, Zenon DEF Contents, Part
<1>19. Contents' = Contents \o Part(data)[x] /\ Contents \in Seq(T)
  <2>1. CASE head = l
    <3>1. Contents = <<>>
      BY <1>3, <2>1, ContentsAhead, FollowNull
    <3>2. Contents' = Part(data)[x] \o Follow(next', next'[x], Part(data))
      <4>1. x \in S \cup {x}
        OBVIOUS
      <4>2. Follow(next', x, Part(data)) = Part(data)[x] \o Follow(next', next'[x], Part(data))
        BY <1>14, <4>1, FollowUnfold
      <4> QED BY <1>10, <1>18, <2>1, <4>2
    <3>3. Follow(next', next'[x], Part(data)) = <<>>
      BY <1>10, FollowNull
    <3>4. PICK p \in Seq(T) : p = Part(data)[x]
      BY <1>16
    <3>5. p \o <<>> = p /\ <<>> \o p = p /\ <<>> \in Seq(T)
      OBVIOUS
    <3> QED BY <3>1, <3>2, <3>3, <3>4, <3>5
  <2>2. CASE head # l
    <3>1. next[head] \in S /\ next'[head] = next[head]
      BY <1>10, <1>11, <2>2
    <3>2. Contents' = Contents \o Part(data)[x]
      BY <1>17, <1>18, <3>1, ContentsAhead
    <3>3. Follow(next, next[head], Part(data)) \in Seq(T)
      <4>1. \A y \in S : (next[y] = Null \/ next[y] \in S) /\ Part(data)[y] \in Seq(T)
        BY <1>3, <1>11, <1>16
      <4>2. S \in SUBSET Element
        BY <1>11
      <4> QED BY <3>1, <4>1, <4>2, FollowSeq
    <3> QED BY <3>2, <3>3, ContentsAhead
  <2> QED BY <2>1, <2>2
<1>20. PICK c \in Seq(T) : c = Contents
  BY <1>19
<1>21. CASE t = Consumer
  <2>1. c \o <<>> = c
    OBVIOUS
  <2> QED BY <1>6, <1>19, <1>20, <1>21, <2>1
<1>22. CASE t # Consumer
  <2>1. PICK v \in T : v = <<t, sent[t] + 1>>
    <3>1. x \in El /\ data[x] = <<t, sent[t] + 1>>
      BY <1>1, <1>4, <1>22 DEF Inv, ProducerInv, HoldPlaces, Threads
    <3> QED BY <1>16, <3>1 DEF Element
  <2>2. Append(c, v) = c \o <<v>>
    OBVIOUS
  <2> QED BY <1>6, <1>19, <1>20, <1>22, <2>1, <2>2
<1> QED BY <1>21, <1>22

\* A step that moves the head to the marker at most.
LEMMA HeadOver ==
  ASSUME NEW where \in [Element -> Lists], NEW at \in [Element -> Int], Inv(where, at),
         head' = IF next[head] = Marker THEN Marker ELSE head, UNCHANGED <<next, data>>
  PROVE  Contents' = Contents
<1>1. Contents = Follow(next, next[head'], Part(data))
  BY ContentsOver
<1>2. Contents' = Follow(next', next'[head'], Part(data'))
  BY Zenon DEF Contents, Part
<1> QED BY <1>1, <1>2

\* The first item is delivered, or there is none.
LEMMA DequeueContents ==
  ASSUME NEW where \in [Element -> Lists], NEW at \in [Element -> Int], Inv(where, at), Dequeue
  PROVE  \/ Contents' = Contents /\ got' = got
         \/ Contents # <<>> /\ Contents' = Tail(Contents) /\ got' = got + 1
<1>1. PICK h : h = IF next[head] = Marker THEN Marker ELSE head
  OBVIOUS
<1>2. next' = next /\ data' = data
  BY DEF Dequeue, elements
<1>3. Contents' = Follow(next, next[head'], Part(data))
  BY <1>2, Zenon DEF Contents, Part
<1>4. CASE next[h] = Null
  <2>1. head' = h /\ got' = got
    BY <1>1, <1>4 DEF Dequeue, counts
  <2>2. Contents = Follow(next, next[h], Part(data))
    BY <1>1, ContentsOver
  <2> QED BY <1>3, <2>1, <2>2
<1>5. CASE next[h] # Null
  <2>1. head' = next[h] /\ got' = got + 1
    BY <1>1, <1>5 DEF Dequeue
  <2>2. Contents = <<data[next[h]]>> \o Follow(next, next[next[h]], Part(data))
    BY <1>1, <1>5, ContentsOver
  <2>3. PICK T : Follow(next, next[next[h]], Part(data)) \in Seq(T) /\ data[next[h]] \in T
    BY <1>1, <1>5, ContentsOver
  <2>4. PICK v \in T, s \in Seq(T) : v = data[next[h]] /\ s = Follow(next, next[next[h]], Part(data))
    BY <2>3
  <2>5. Tail(<<v>> \o s) = s /\ <<v>> \o s # <<>>
    OBVIOUS
  <2>6. Contents = <<v>> \o s /\ Contents' = s
    BY <1>3, <2>1, <2>2, <2>4
  <2> QED BY <2>1, <2>5, <2>6
<1> QED BY <1>4, <1>5

\* A step of which the users of the queue see nothing.
ContentsKept == Contents' = Contents /\ UNCHANGED counts

\* Steps that change other elements only: those that are allocated but not linked,
LEMMA StartKeeps ==
  ASSUME NEW where \in [Element -> Lists], NEW at \in [Element -> Int], Inv(where, at),
         \/ \E p \in Producers : EnqStart(p) \/ EnqInit(p)
         \/ MarkerStart
  PROVE  ContentsKept
<1>1. PICK x \in Element :
        /\ where[x] = "none" /\ head' = head /\ UNCHANGED counts
        /\ \A y \in Element : y # x => next'[y] = next[y] /\ data'[y] = data[y]
  <2>1. next \in [Element -> Pointer] /\ DOMAIN data = Element
    BY DEF Inv, ElementType
  <2>2. ASSUME NEW p \in Producers, EnqStart(p)
        PROVE  \E x \in Element : /\ where[x] = "none" /\ head' = head /\ UNCHANGED counts
                                  /\ \A y \in Element : y # x => next'[y] = next[y] /\ data'[y] = data[y]
    <3>1. PICK x \in El : x = Min(Free) /\ x \notin live
      <4>1. Min(Free) \in Free
        BY <2>2, MinFree DEF EnqStart
      <4> QED BY <4>1 DEF Free
    <3>2. where[x] = "none" /\ x \in Element
      BY <3>1 DEF Inv, PlaceInv, Element
    <3>3. /\ head' = head /\ UNCHANGED counts /\ data' = [data EXCEPT ![x] = <<p, sent[p] + 1>>]
          /\ next' = next \/ next' = [next EXCEPT ![x] = Null]
      BY <2>2, <3>1 DEF EnqStart, ReadLast
    <3> QED BY <2>1, <3>2, <3>3
  <2>3. ASSUME NEW p \in Producers, EnqInit(p)
        PROVE  \E x \in Element : /\ where[x] = "none" /\ head' = head /\ UNCHANGED counts
                                  /\ \A y \in Element : y # x => next'[y] = next[y] /\ data'[y] = data[y]
    <3>1. PICK x \in El : x = this[p] /\ where[x] = "none"
      BY <2>3 DEF EnqInit, Goto, HoldPlaces, Inv, ProducerInv, PlaceInv
    <3>2. head' = head /\ UNCHANGED counts /\ data' = data /\ next' = [next EXCEPT ![x] = Null]
      BY <2>3, <3>1 DEF EnqInit, ReadLast
    <3> QED BY <2>1, <3>1, <3>2 DEF Element
  <2>4. CASE MarkerStart
    <3>1. where[Marker] = "none" /\ Marker \in Element
      BY <2>4 DEF MarkerStart, Goto, Inv, PlaceInv, Element
    <3>2. head' = head /\ UNCHANGED counts /\ data' = data /\ next' = [next EXCEPT ![Marker] = Null]
      BY <2>4 DEF MarkerStart, ReadLast
    <3> QED BY <2>1, <3>1, <3>2
  <2> QED BY <2>2, <2>3, <2>4
<1>2. Untouched(where, at)
  BY <1>1 DEF Untouched
<1> QED BY <1>1, <1>2, ContentsSame DEF ContentsKept

\* the first one, which is not the head,
LEMMA CleanFirstKeeps ==
  ASSUME NEW where \in [Element -> Lists], NEW at \in [Element -> Int], Inv(where, at), CleanFirst
  PROVE  ContentsKept
<1>1. PICK f \in Element : f = first
  BY DEF Inv, ElementType
<1>2. PICK d \in Pointer : d = deq_fini.end
  BY DEF Inv, ListType
<1>3. PICK end \in Element : IsList(next, where, at, "queue", f, end)
  BY <1>1 DEF Inv, QueueInv
<1>4. f # head /\ head' = head /\ UNCHANGED counts
  BY <1>1 DEF CleanFirst
<1>5. \A y \in Element : y # f /\ y # d => next'[y] = next[y] /\ data'[y] = data[y]
  BY <1>1, <1>2 DEF CleanFirst, Reclaim, FreeElements, elements, Inv, ElementType
<1>6. where[f] = "queue" /\ at[f] < at[head]
  <2>1. head \in Element /\ where[head] = "queue"
    BY DEF Inv, ElementType, OrderInv
  <2>2. where[f] = "queue" /\ at[f] <= at[head]
    BY <1>3, <2>1 DEF IsList
  <2>3. at[f] # at[head]
    BY <1>4, <2>1, <2>2 DEF Inv, PlaceInv
  <2> QED BY <2>1, <2>2, <2>3
<1>7. d \in Element => where[d] = "deq"
  BY <1>2, ConstantsAssumption DEF Inv, ListInv, IsList, Element
<1>8. Untouched(where, at)
  <2>1. ASSUME NEW y \in Element, where[y] = "queue", at[head] <= at[y]
        PROVE  next'[y] = next[y] /\ data'[y] = data[y]
    <3>1. head \in Element
      BY DEF Inv, ElementType
    <3>2. y # f
      BY <1>6, <2>1, <3>1
    <3>3. y # d
      BY <1>7, <2>1
    <3> QED BY <1>5, <3>2, <3>3
  <2> QED BY <1>4, <2>1 DEF Untouched
<1> QED BY <1>4, <1>8, ContentsSame DEF ContentsKept

\* the ends of lists of elements to be freed,
LEMMA JoinKeeps ==
  ASSUME NEW where \in [Element -> Lists], NEW at \in [Element -> Int], Inv(where, at),
         AsyncChkFinDeq \/ AsyncJob
  PROVE  ContentsKept
<1>1. PICK d, f, a \in Pointer : d = deq_fini.end /\ f = fin_deq.end /\ a = arq_fin_deq.end
  BY DEF Inv, ListType
<1>2. head' = head /\ UNCHANGED counts /\ data' = data
  BY DEF AsyncChkFinDeq, AsyncJob
<1>3. PICK links : next' = Relinked(links) /\ \A l \in links : l[1] \in {d, f, a}
  <2>1. \A l \in Cut : l[1] = d
    BY <1>1 DEF Cut
  <2>2. \A l \in Links(fin_deq, Taken) : l[1] = f
    BY <1>1 DEF Links
  <2>3. \A l \in Links(Taken, fin_deq) : l[1] = d
    BY <1>1 DEF Links, Taken
  <2>4. \A l \in Links(arq_fin_deq, Joined(Taken, fin_deq)) : l[1] = a
    BY <1>1 DEF Links
  <2>5. CASE AsyncChkFinDeq
    BY <2>1, <2>2, <2>5 DEF AsyncChkFinDeq
  <2>6. CASE AsyncJob
    BY <2>1, <2>3, <2>4, <2>6 DEF AsyncJob
  <2> QED BY <2>5, <2>6
<1>4. \A x \in {d, f, a} : x \in Element => where[x] # "queue"
  BY <1>1, ConstantsAssumption DEF Inv, ListInv, IsList, Element
<1>5. ASSUME NEW y \in Element, where[y] = "queue" PROVE next'[y] = next[y]
  <2>1. \A l \in links : l[1] # y
    BY <1>3, <1>4, <1>5
  <2> QED BY <1>3, <2>1, RelinkedElse
<1>6. Untouched(where, at)
  BY <1>2, <1>5 DEF Untouched
<1> QED BY <1>2, <1>6, ContentsSame DEF ContentsKept

\* or those that are freed.
LEMMA FiniKeeps ==
  ASSUME NEW where \in [Element -> Lists], NEW at \in [Element -> Int], Inv(where, at),
         AsyncInspect \/ ReadyFinalize
  PROVE  ContentsKept
<1>1. PICK fs, fe, as, ae \in Pointer : fin_deq = [start |-> fs, end |-> fe] /\ arq_fin_deq = [start |-> as, end |-> ae]
  BY DEF Inv, ListType
<1>2. /\ IsList(next, where, at, "fin", fs, fe) /\ (fe # Null => next[fe] = Null)
      /\ IsList(next, where, at, "arq", as, ae) /\ (ae # Null => next[ae] = Null)
  BY <1>1 DEF Inv, ListInv
<1>3. head' = head /\ UNCHANGED counts
  BY DEF AsyncInspect, ReadyFinalize
<1>4. ASSUME NEW name \in Lists \ {"none", "queue"}, NEW s \in Pointer, NEW e \in Pointer,
             IsList(next, where, at, name, s, e), e # Null => next[e] = Null,
             NEW l, l = [start |-> s, end |-> e], FreeElements(FiniElements(l).free)
      PROVE  ContentsKept
  <2>1. PICK w \in [Element -> Lists], r \in Pointer, t \in Pointer, F \in SUBSET Element :
          IsFini(where, at, w, name, l, r, t, F)
    BY <1>4, FiniList
  <2>2. FreeElements(F) /\ \A x \in F : where[x] = name
    BY <1>4, <2>1 DEF IsFini
  <2>3. \A y \in Element : y \notin F => next'[y] = next[y] /\ data'[y] = data[y]
    BY <2>2 DEF FreeElements
  <2>4. Untouched(where, at)
    BY <1>3, <1>4, <2>2, <2>3 DEF Untouched
  <2> QED BY <1>3, <2>4, ContentsSame DEF ContentsKept
<1>5. CASE ReadyFinalize
  <2>1. FreeElements(FiniElements(arq_fin_deq).free) /\ "arq" \in Lists \ {"none", "queue"}
    BY <1>5 DEF ReadyFinalize, Lists
  <2> QED BY <1>1, <1>2, <1>4, <2>1
<1>6. CASE AsyncInspect /\ inspect = "clean"
  <2>1. FreeElements(FiniElements(fin_deq).free) /\ "fin" \in Lists \ {"none", "queue"}
    BY <1>6 DEF AsyncInspect, Lists
  <2> QED BY <1>1, <1>2, <1>4, <2>1
<1>7. CASE AsyncInspect /\ inspect # "clean"
  <2>1. next' = next /\ data' = data
    BY <1>7 DEF AsyncInspect, inspect, NeedThrPrgr, elements
  <2>2. Untouched(where, at)
    BY <1>3, <2>1 DEF Untouched
  <2> QED BY <1>3, <2>2, ContentsSame DEF ContentsKept
<1> QED BY <1>5, <1>6, <1>7

\* All other steps change neither links, items nor the head.
LEMMA OtherKeeps ==
  ASSUME UNCHANGED <<next, data, head, sent, got>>
  PROVE  ContentsKept
<1>1. Contents' = Contents
  BY DEF Contents, Part
<1> QED BY <1>1 DEF ContentsKept, counts

\* Initially the queue is empty.
LEMMA InitRefines == Init => Abstract!Init
<1> SUFFICES ASSUME Init PROVE Abstract!Init
  OBVIOUS
<1>1. next[head] = Null
  BY DEF Init, Element
<1>2. Contents = <<>>
  BY <1>1, ContentsAhead, FollowNull
<1> QED BY <1>2 DEF Init, Abstract!Init

\* Linking an item enqueues it, moving the head beyond one dequeues it, and no other
\* step changes the contents.
LEMMA NextRefines == IInv /\ [Next]_vars => [Abstract!Next]_<<sent, Contents, got>>
<1> SUFFICES ASSUME IInv, [Next]_vars PROVE ContentsKept \/ Abstract!Next
  BY DEF ContentsKept, counts
<1>1. PICK where \in [Element -> Lists], at \in [Element -> Int] : Inv(where, at)
  BY DEF IInv
<1>2. ASSUME NEW p \in Producers, EnqLink(p) PROVE Abstract!Next
  <2>1. p # Consumer /\ p \in Threads
    BY ConstantsAssumption DEF Producers, Threads
  <2>2. Contents' = Append(Contents, <<p, sent[p] + 1>>)
    BY <1>1, <1>2, <2>1, EnqLinkContents
  <2>3. sent' = [sent EXCEPT ![p] = @ + 1] /\ got' = got
    BY <1>2, <2>1 DEF EnqLink
  <2>4. sent'[p] = sent[p] + 1
    BY <1>1, <2>3 DEF Inv, ThreadType
  <2>5. Abstract!Enqueue(p)
    BY <2>2, <2>3, <2>4 DEF Abstract!Enqueue
  <2> QED BY <2>5 DEF Abstract!Next
<1>3. CASE EnqLink(Consumer)
  <2>1. Contents' = Contents
    BY <1>1, <1>3, EnqLinkContents DEF Threads
  <2> QED BY <1>3, <2>1 DEF EnqLink, ContentsKept, counts
<1>4. CASE Dequeue
  <2>1. sent' = sent
    BY <1>4 DEF Dequeue, counts
  <2> QED BY <1>1, <1>4, <2>1, DequeueContents DEF ContentsKept, counts, Abstract!Next,
             Abstract!Dequeue
<1>5. CASE MarkerDone \/ EnsureEmpty
  <2>1. /\ head' = IF next[head] = Marker THEN Marker ELSE head
        /\ next' = next /\ data' = data /\ UNCHANGED counts
    BY <1>5 DEF MarkerDone, EnsureEmpty, elements
  <2> QED BY <1>1, <2>1, HeadOver DEF ContentsKept
<1>6. ASSUME NEW t \in Threads, EnqFollow(t) \/ EnqCheck(t) \/ EnqReread(t) \/ EnqMove(t) PROVE ContentsKept
  BY <1>6, OtherKeeps DEF EnqFollow, EnqCheck, EnqReread, EnqMove, elements, counts
<1>7. ASSUME NEW p \in Producers, EnqStart(p) \/ Enqueue(p) \/ Quiesce(p) PROVE ContentsKept \/ Abstract!Next
  <2>1. CASE EnqStart(p) \/ EnqInit(p)
    BY <1>1, <2>1, StartKeeps
  <2>2. CASE enqueue_managed(p)
    BY <1>2, <1>6, <2>2 DEF enqueue_managed, Threads
  <2>3. CASE EnqInc(p) \/ EnqRereadIx(p) \/ EnqDec(p) \/ EnqUnref(p)
    BY <2>3, OtherKeeps DEF EnqInc, EnqRereadIx, EnqDec, EnqUnref, elements, counts
  <2>4. CASE EnqNotify(p) \/ Quiesce(p)
    BY <2>4, OtherKeeps DEF EnqNotify, Quiesce, elements, counts
  <2> QED BY <1>7, <2>1, <2>2, <2>3, <2>4 DEF Enqueue
<1>8. CASE clean
  <2>1. CASE enqueue_managed(Consumer)
    BY <1>3, <1>6, <2>1 DEF enqueue_managed, Threads
  <2>2. CASE CleanFirst \/ MarkerStart \/ MarkerDone
    BY <1>1, <1>5, <2>2, CleanFirstKeeps, StartKeeps
  <2>3. CASE CleanReachesHead \/ CleanReadLast \/ CleanMoveUnref
    BY <2>3, OtherKeeps DEF CleanReachesHead, CleanReadLast, CleanMoveUnref, elements, counts
  <2>4. CASE CleanSwitch \/ CleanHead \/ CleanInspected
    BY <2>4, OtherKeeps DEF CleanSwitch, CleanHead, CleanInspected, elements, counts
  <2> QED BY <1>8, <2>1, <2>2, <2>3, <2>4 DEF clean
<1>9. CASE AsyncChkFinDeq \/ AsyncJob \/ AsyncInspect \/ ReadyFinalize
  BY <1>1, <1>9, JoinKeeps, FiniKeeps
<1>10. CASE AuxWork \/ AuxWorkThrPrgr \/ AuxWorkMisc \/ AsyncReset \/ AsyncWait \/ ThrPrgrWakeup
  BY <1>10, OtherKeeps DEF AuxWork, AuxWorkThrPrgr, AuxWorkMisc, AsyncReset, AsyncWait,
     ThrPrgrWakeup,
     elements, counts
<1>11. CASE UNCHANGED vars
  BY <1>11, OtherKeeps DEF vars, elements, counts
<1> QED BY <1>4, <1>5, <1>7, <1>8, <1>9, <1>10, <1>11 DEF Next, Consume

\* The queue is a queue: whatever the producers and the consumer do at the same time,
\* and whenever elements are reclaimed and used again, each item that is linked is
\* delivered at most once, in the order of the linking, and none is passed over.
THEOREM Refinement == Spec => ImplementsFifo
<1> DEFINE C == Follow(next, next[head], [x \in Element |-> IF x = Marker THEN <<>> ELSE <<data[x]>>])
<1>1. IInv /\ [Next]_vars => [Abstract!Next]_<<sent, C, got>>
  BY NextRefines DEF Contents
<1> QED BY <1>1, InitRefines, Invariance, PTL DEF Spec, ImplementsFifo, Abstract!Spec, Contents
=============================================================================

-------------------------- MODULE TimerWheelProofs ---------------------------
(***************************************************************************)
(* The timing wheel counts every timer down exactly: for any size of the   *)
(* wheel, any number of timers and of schedulers, and however many ticks   *)
(* it is bumped by at once.                                                *)
(***************************************************************************)
EXTENDS TimerWheel, FiniteSetTheorems, TLAPS

-----------------------------------------------------------------------------
(* Division.                                                               *)

\* What \div and % mean, for a positive divisor.
LEMMA DivMod ==
  ASSUME NEW n \in Nat \ {0}, NEW a \in Int
  PROVE  a % n \in 0 .. n - 1 /\ a \div n \in Int /\ a = ((a \div n) * n) + (a % n)
OBVIOUS

\* Multiplication by a positive number.
LEMMA TimesPositive ==
  ASSUME NEW n \in Nat \ {0}, NEW d \in Int
  PROVE  d * n \in Int /\ (d >= 1 => d * n >= n) /\ (d <= -1 => d * n <= -n)
<1>1. d * n \in Int
  OBVIOUS
<1>2. ASSUME d >= 1 PROVE d * n >= n
  BY <1>2
<1>3. ASSUME d <= -1 PROVE d * n <= -n
  BY <1>3
<1> QED BY <1>1, <1>2, <1>3

\* Multiplication distributes over differences and sums.
LEMMA TimesDistributes ==
  ASSUME NEW n \in Int, NEW d \in Int, NEW e \in Int
  PROVE  (d - e) * n = (d * n) - (e * n) /\ (d + e) * n = (d * n) + (e * n)
OBVIOUS

\* Quotient and remainder are the only ones.
LEMMA DivModUnique ==
  ASSUME NEW n \in Nat \ {0}, NEW a \in Int, NEW q \in Int, NEW r \in 0 .. n - 1,
         a = (q * n) + r
  PROVE  a % n = r /\ a \div n = q
<1> DEFINE p == a \div n
           s == a % n
<1>1. p \in Int /\ s \in 0 .. n - 1 /\ a = (p * n) + s
  BY DivMod
<1> HIDE DEF p, s
<1>2. (p - q) * n = r - s
  BY <1>1, TimesDistributes
<1>3. ~ (p - q >= 1)
  BY <1>1, <1>2, TimesPositive
<1>4. ~ (p - q <= -1)
  BY <1>1, <1>2, TimesPositive
<1>5. p = q
  BY <1>1, <1>3, <1>4
<1> QED BY <1>1, <1>2, <1>5 DEF p, s

-----------------------------------------------------------------------------
(* Positions in the wheel.                                                 *)

Positions == 0 .. TIW_SIZE - 1

\* How many slots it is from one position to another.
LEMMA DistanceIs ==
  ASSUME NEW i \in Positions, NEW pos \in Positions
  PROVE  /\ (i - pos) % TIW_SIZE = IF i < pos THEN i - pos + TIW_SIZE ELSE i - pos
         /\ (i - pos) % TIW_SIZE \in Positions
<1>1. TIW_SIZE \in Nat \ {0}
  BY SizeAssumption
<1>2. CASE i < pos
  <2>1. i - pos = ((-1) * TIW_SIZE) + (i - pos + TIW_SIZE)
    BY <1>1 DEF Positions
  <2> QED BY <1>1, <1>2, <2>1, DivModUnique DEF Positions
<1>3. CASE ~ (i < pos)
  <2>1. i - pos = (0 * TIW_SIZE) + (i - pos)
    BY <1>1 DEF Positions
  <2> QED BY <1>1, <1>3, <2>1, DivModUnique DEF Positions
<1> QED BY <1>2, <1>3

\* Where ticks lead to from a position: as far as their remainder.
LEMMA MovesBy ==
  ASSUME NEW pos \in Positions, NEW t \in Nat
  PROVE  LET r == t % TIW_SIZE
         IN  /\ r \in Positions /\ (pos + t) % TIW_SIZE \in Positions
             /\ (pos + t) % TIW_SIZE = IF pos + r < TIW_SIZE THEN pos + r ELSE pos + r - TIW_SIZE
<1> DEFINE r == t % TIW_SIZE
           q == t \div TIW_SIZE
<1>1. TIW_SIZE \in Nat \ {0}
  BY SizeAssumption
<1>2. r \in Positions /\ q \in Int /\ t = (q * TIW_SIZE) + r
  BY <1>1, DivMod DEF Positions
<1> HIDE DEF r, q
<1>3. CASE pos + r < TIW_SIZE
  <2>1. pos + t = (q * TIW_SIZE) + (pos + r)
    BY <1>1, <1>2, TimesPositive DEF Positions
  <2>2. pos + r \in 0 .. TIW_SIZE - 1 /\ pos + t \in Int
    BY <1>1, <1>2, <1>3 DEF Positions
  <2>3. (pos + t) % TIW_SIZE = pos + r
    BY <1>1, <1>2, <2>1, <2>2, DivModUnique
  <2> QED BY <1>2, <1>3, <2>2, <2>3 DEF Positions, r
<1>4. CASE ~ (pos + r < TIW_SIZE)
  <2>1. (q + 1) * TIW_SIZE = (q * TIW_SIZE) + TIW_SIZE
    BY <1>1, <1>2
  <2>2. pos + t = ((q + 1) * TIW_SIZE) + (pos + r - TIW_SIZE)
    BY <1>1, <1>2, <2>1, TimesPositive DEF Positions
  <2>3. pos + r - TIW_SIZE \in 0 .. TIW_SIZE - 1 /\ q + 1 \in Int /\ pos + t \in Int
    BY <1>1, <1>2, <1>4 DEF Positions
  <2>4. (pos + t) % TIW_SIZE = pos + r - TIW_SIZE
    BY <1>1, <2>2, <2>3, DivModUnique
  <2> QED BY <1>2, <1>4, <2>3, <2>4 DEF Positions, r
<1> QED BY <1>3, <1>4

\* A timer that is inserted for some ticks is that far away.
LEMMA InsertLeft ==
  ASSUME NEW pos \in Positions, NEW t \in Nat
  PROVE  LET i == (t + pos) % TIW_SIZE
             c == t \div TIW_SIZE
         IN  i \in Positions /\ c \in Nat /\ ((i - pos) % TIW_SIZE) + (c * TIW_SIZE) = t
<1> DEFINE i == (t + pos) % TIW_SIZE
           c == t \div TIW_SIZE
           r == t % TIW_SIZE
<1>1. TIW_SIZE \in Nat \ {0}
  BY SizeAssumption
<1>2. c \in Int /\ t = (c * TIW_SIZE) + r
  BY <1>1, DivMod
<1>3. i = (pos + t) % TIW_SIZE
  BY DEF Positions
<1>4. /\ r \in Positions /\ i \in Positions
      /\ i = IF pos + r < TIW_SIZE THEN pos + r ELSE pos + r - TIW_SIZE
  BY <1>3, MovesBy
<1> HIDE DEF i, c, r
<1>5. c \in Nat
  <2>1. ~ (c <= -1)
    BY <1>1, <1>2, <1>4, TimesPositive DEF Positions
  <2> QED BY <1>2, <2>1
<1>6. (i - pos) % TIW_SIZE = r
  <2>1. (i - pos) % TIW_SIZE = IF i < pos THEN i - pos + TIW_SIZE ELSE i - pos
    BY <1>4, DistanceIs
  <2> QED BY <1>1, <1>4, <2>1 DEF Positions
<1>7. r + (c * TIW_SIZE) = t
  BY <1>1, <1>2, <1>4, TimesPositive DEF Positions
<1> QED BY <1>4, <1>5, <1>6, <1>7 DEF i, c

\* The wheel has moved: a slot that it has not passed is nearer, one that it has
\* passed is the remainder nearer or a round further.
LEMMA NewDistance ==
  ASSUME NEW i \in Positions, NEW pos \in Positions, NEW t \in Nat
  PROVE  LET d == (i - pos) % TIW_SIZE
             r == t % TIW_SIZE
         IN  (i - ((pos + t) % TIW_SIZE)) % TIW_SIZE = IF d < r THEN d - r + TIW_SIZE ELSE d - r
<1> DEFINE d == (i - pos) % TIW_SIZE
           r == t % TIW_SIZE
           n == (pos + t) % TIW_SIZE
<1>1. TIW_SIZE \in Nat \ {0}
  BY SizeAssumption
<1>2. d \in Positions /\ d = IF i < pos THEN i - pos + TIW_SIZE ELSE i - pos
  BY DistanceIs
<1>3. /\ r \in Positions /\ n \in Positions
      /\ n = IF pos + r < TIW_SIZE THEN pos + r ELSE pos + r - TIW_SIZE
  BY MovesBy
<1> HIDE DEF d, r, n
<1>4. (i - n) % TIW_SIZE = IF i < n THEN i - n + TIW_SIZE ELSE i - n
  BY <1>3, DistanceIs
<1>5. (i - n) % TIW_SIZE = IF d < r THEN d - r + TIW_SIZE ELSE d - r
  BY <1>1, <1>2, <1>3, <1>4 DEF Positions
<1> QED BY <1>5 DEF d, r, n

\* A slot at distance d, passed or not, and the rounds that bump_timer_internal()
\* takes off the counts of its timers.
LEMMA RoundsAre ==
  ASSUME NEW d \in Positions, NEW t \in Nat \ {0}
  PROVE  LET q == t \div TIW_SIZE
             r == t % TIW_SIZE
         IN  /\ q \in Nat /\ r \in Positions /\ t = (q * TIW_SIZE) + r
             /\ d >= t => q = 0 /\ r = t
             /\ d < t => Rounds(t, d) = IF d < r THEN q + 1 ELSE q
             /\ d < t /\ ~ (d < r) => q >= 1
<1> DEFINE q == t \div TIW_SIZE
           r == t % TIW_SIZE
<1>1. TIW_SIZE \in Nat \ {0}
  BY SizeAssumption
<1>2. q \in Int /\ t = (q * TIW_SIZE) + r /\ r \in Positions
  BY <1>1, DivMod DEF Positions
<1>3. Rounds(t, d) = IF r < (IF t > TIW_SIZE THEN TIW_SIZE ELSE t) /\ d >= r THEN q ELSE q + 1
  BY DEF Rounds
<1> HIDE DEF q, r
<1>4. q \in Nat
  <2>1. ~ (q <= -1)
    BY <1>1, <1>2, TimesPositive DEF Positions
  <2> QED BY <1>2, <2>1
<1>5. q >= 1 => t >= TIW_SIZE
  BY <1>1, <1>2, <1>4, TimesPositive DEF Positions
<1>6. q = 0 => t = r
  BY <1>1, <1>2 DEF Positions
<1>7. d >= t => q = 0
  BY <1>1, <1>4, <1>5 DEF Positions
<1>8. d < t /\ ~ (d < r) => q >= 1
  BY <1>1, <1>2, <1>4, <1>6 DEF Positions
<1>9. d < t => Rounds(t, d) = IF d < r THEN q + 1 ELSE q
  BY <1>1, <1>2, <1>3, <1>4, <1>5, <1>6, <1>8 DEF Positions
<1> QED BY <1>2, <1>4, <1>6, <1>7, <1>8, <1>9 DEF q, r

\* A timer in a slot that is passed expires if and only if it has fewer ticks left
\* than pass, and otherwise has so many fewer left.
LEMMA BumpLeft ==
  ASSUME NEW i \in Positions, NEW pos \in Positions, NEW c \in Nat, NEW t \in Nat \ {0}
  PROVE  LET d == (i - pos) % TIW_SIZE
             e == (i - ((pos + t) % TIW_SIZE)) % TIW_SIZE
             left == d + (c * TIW_SIZE)
         IN  /\ ~ (d < t) => left >= t /\ e + (c * TIW_SIZE) = left - t
             /\ d < t /\ c < Rounds(t, d) => left < t
             /\ d < t /\ ~ (c < Rounds(t, d)) =>
                  /\ left >= t /\ c - Rounds(t, d) \in Nat
                  /\ e + ((c - Rounds(t, d)) * TIW_SIZE) = left - t
<1> DEFINE d == (i - pos) % TIW_SIZE
           e == (i - ((pos + t) % TIW_SIZE)) % TIW_SIZE
           q == t \div TIW_SIZE
           r == t % TIW_SIZE
           R == Rounds(t, d)
<1>1. TIW_SIZE \in Nat \ {0}
  BY SizeAssumption
<1>2. d \in Positions
  BY DistanceIs
<1>3. e = IF d < r THEN d - r + TIW_SIZE ELSE d - r
  BY NewDistance
<1>4. /\ q \in Nat /\ r \in Positions /\ t = (q * TIW_SIZE) + r
      /\ d >= t => q = 0 /\ r = t
      /\ d < t => R = IF d < r THEN q + 1 ELSE q
      /\ d < t /\ ~ (d < r) => q >= 1
  BY <1>2, RoundsAre
<1> HIDE DEF d, e, q, r, R
<1>5. c * TIW_SIZE \in Nat /\ q * TIW_SIZE \in Int
  BY <1>1, <1>4
<1>6. ASSUME ~ (d < t) PROVE d + (c * TIW_SIZE) >= t /\ e + (c * TIW_SIZE) = (d + (c * TIW_SIZE)) - t
  BY <1>1, <1>2, <1>3, <1>4, <1>5, <1>6 DEF Positions
<1>7. ASSUME d < t, c < R PROVE d + (c * TIW_SIZE) < t
  <2>1. CASE d < r
    <3>1. c <= q
      BY <1>4, <1>7, <2>1
    <3>2. c * TIW_SIZE <= q * TIW_SIZE
      <4>1. CASE c = q
        BY <1>1, <1>4, <1>5, <4>1
      <4>2. CASE q - c >= 1
        <5>1. (q - c) * TIW_SIZE >= TIW_SIZE
          BY <1>1, <1>4, <4>2, TimesPositive
        <5> QED BY <1>1, <1>4, <1>5, <5>1, TimesDistributes
      <4> QED BY <1>4, <3>1, <4>1, <4>2
    <3> QED BY <1>1, <1>2, <1>4, <1>5, <2>1, <3>2 DEF Positions
  <2>2. CASE ~ (d < r)
    <3>1. q - c >= 1 /\ q - c \in Int
      BY <1>4, <1>7, <2>2
    <3>2. (q - c) * TIW_SIZE >= TIW_SIZE
      BY <1>1, <3>1, TimesPositive
    <3>3. (c * TIW_SIZE) + TIW_SIZE <= q * TIW_SIZE
      BY <1>1, <1>4, <1>5, <3>2, TimesDistributes
    <3> QED BY <1>1, <1>2, <1>4, <1>5, <3>3 DEF Positions
  <2> QED BY <2>1, <2>2
<1>8. ASSUME d < t, ~ (c < R)
      PROVE  /\ d + (c * TIW_SIZE) >= t /\ c - R \in Nat
             /\ e + ((c - R) * TIW_SIZE) = (d + (c * TIW_SIZE)) - t
  <2>1. R \in Nat /\ c - R \in Nat /\ R = IF d < r THEN q + 1 ELSE q
    BY <1>4, <1>8
  <2>2. (c - R) * TIW_SIZE = (c * TIW_SIZE) - (R * TIW_SIZE) /\ (c - R) * TIW_SIZE \in Nat
    BY <1>1, <2>1, TimesDistributes
  <2>3. R * TIW_SIZE = IF d < r THEN (q * TIW_SIZE) + TIW_SIZE ELSE q * TIW_SIZE
    BY <1>1, <1>4, <2>1
  <2>4. e + ((c - R) * TIW_SIZE) = (d + (c * TIW_SIZE)) - t
    BY <1>1, <1>2, <1>3, <1>4, <1>5, <2>2, <2>3 DEF Positions
  <2>5. e \in Nat
    BY <1>1, <1>2, <1>3, <1>4 DEF Positions
  <2>6. d + (c * TIW_SIZE) >= t
    BY <1>1, <1>2, <1>5, <2>2, <2>4, <2>5 DEF Positions
  <2> QED BY <2>1, <2>4, <2>6
<1> DEFINE left == d + (c * TIW_SIZE)
<1>9. /\ ~ (d < t) => left >= t /\ e + (c * TIW_SIZE) = left - t
      /\ d < t /\ c < R => left < t
      /\ d < t /\ ~ (c < R) => /\ left >= t /\ c - R \in Nat
                              /\ e + ((c - R) * TIW_SIZE) = left - t
  BY <1>6, <1>7, <1>8, Zenon
<1> QED BY <1>9, Zenon DEF d, e, R

-----------------------------------------------------------------------------
(* The inductive invariant.                                                *)

\* A timer whose callback is to be called has left the wheel.
OutInv == \A s \in Schedulers : timedout[s] \cap active = {}

IInv == TypeOK /\ MinIsExact /\ OutInv

\* erts_time_left() and the walk of next_time_internal() agree.
LEMMA LeftIs ==
  ASSUME TypeOK, NEW p \in Timers
  PROVE  TimeLeft(p) = WalkTicks(p) /\ WalkTicks(p) \in Nat
<1> DEFINE i == slot[p]
           c == count[p]
           d == (i - tiw_pos) % TIW_SIZE
<1>1. TIW_SIZE \in Nat \ {0}
  BY SizeAssumption
<1>2. i \in Positions /\ tiw_pos \in Positions /\ c \in Nat
  BY DEF TypeOK, Positions
<1>3. d \in Positions /\ d = IF i < tiw_pos THEN i - tiw_pos + TIW_SIZE ELSE i - tiw_pos
  BY <1>2, DistanceIs
<1>4. TimeLeft(p) = IF i < tiw_pos THEN (c + 1) * TIW_SIZE + i - tiw_pos
                    ELSE c * TIW_SIZE + i - tiw_pos
  BY DEF TimeLeft
<1>5. WalkTicks(p) = d + (c * TIW_SIZE)
  BY DEF WalkTicks, Distance
<1> HIDE DEF i, c, d
<1>6. c * TIW_SIZE \in Nat /\ (c + 1) * TIW_SIZE = (c * TIW_SIZE) + TIW_SIZE
  BY <1>1, <1>2
<1> QED BY <1>1, <1>2, <1>3, <1>4, <1>5, <1>6 DEF Positions

\* ... and agree after a step.
LEMMA LeftIsNext == TypeOK' => \A p \in Timers : TimeLeft(p)' = WalkTicks(p)' /\ WalkTicks(p)' \in Nat
<1> DEFINE Agree == \A p \in Timers : TimeLeft(p) = WalkTicks(p) /\ WalkTicks(p) \in Nat
<1>1. TypeOK => Agree
  BY LeftIs
<1> HIDE DEF Agree
<1>2. TypeOK' => Agree'
  BY <1>1, PTL
<1> QED BY <1>2 DEF Agree

\* The wheel is the same for the timers that a step does not touch.
LEMMA LeftSame ==
  ASSUME NEW p, slot'[p] = slot[p], count'[p] = count[p], tiw_pos' = tiw_pos
  PROVE  WalkTicks(p)' = WalkTicks(p) /\ TimeLeft(p)' = TimeLeft(p)
BY DEF WalkTicks, Distance, TimeLeft

\* Sets of timers are finite.
LEMMA FiniteTimers ==
  ASSUME NEW S \in SUBSET Timers
  PROVE  IsFiniteSet(S) /\ Cardinality(S) \in 0 .. Cardinality(Timers)
BY TimerAssumption, FS_Subset, FS_CardinalityType

\* With no timeouts the wheel is empty.
LEMMA NoneActive ==
  ASSUME IInv, tiw_nto = 0
  PROVE  active = {} /\ tiw_min_ptr = NoTimer
<1>1. active \in SUBSET Timers
  BY DEF IInv, TypeOK
<1>2. active = {}
  BY <1>1, FiniteTimers, FS_EmptySet DEF IInv, MinIsExact
<1> QED BY <1>2 DEF IInv, MinIsExact

\* erts_bump_timer(): exactly the timers with fewer ticks left than pass expire, and
\* the others have so many fewer left.
LEMMA BumpFacts ==
  ASSUME IInv, NEW s \in Schedulers, erts_bump_timer(s), NEW p \in active
  PROVE  /\ p \in Expired(dt[s]) <=> WalkTicks(p) < dt[s]
         /\ p \in active' => /\ WalkTicks(p)' = WalkTicks(p) - dt[s]
                             /\ WalkTicks(p) >= dt[s]
         /\ p \in active' => count'[p] \in Nat
<1> DEFINE i == slot[p]
           c == count[p]
           t == dt[s]
           d == (i - tiw_pos) % TIW_SIZE
           e == (i - ((tiw_pos + t) % TIW_SIZE)) % TIW_SIZE
           R == Rounds(t, d)
           left == d + (c * TIW_SIZE)
<1>1. i \in Positions /\ tiw_pos \in Positions /\ c \in Nat /\ t \in Nat \ {0} /\ p \in Timers
  BY DEF IInv, TypeOK, Positions, erts_bump_timer
<1>2. /\ ~ (d < t) => left >= t /\ e + (c * TIW_SIZE) = left - t
      /\ d < t /\ c < R => left < t
      /\ d < t /\ ~ (c < R) => /\ left >= t /\ c - R \in Nat
                              /\ e + ((c - R) * TIW_SIZE) = left - t
  BY <1>1, BumpLeft
<1>3. tiw_nto # 0
  BY NoneActive
<1>4. /\ slot'[p] = i /\ tiw_pos' = (tiw_pos + t) % TIW_SIZE /\ active' = active \ Expired(t)
      /\ count'[p] = IF p \in Passed(t) \ Expired(t) THEN c - Rounds(t, Distance(p)) ELSE c
  BY <1>1, <1>3 DEF erts_bump_timer
<1>5. Distance(p) = d /\ WalkTicks(p) = left
  BY DEF Distance, WalkTicks
<1>6. (p \in Passed(t) <=> d < t) /\ (p \in Expired(t) <=> d < t /\ c < R)
  BY <1>5 DEF Passed, Expired
<1>7. WalkTicks(p)' = e + (count'[p] * TIW_SIZE)
  BY <1>4 DEF Distance, WalkTicks
<1>8. left \in Int /\ t \in Int
  <2>1. d \in Positions /\ TIW_SIZE \in Nat
    BY <1>1, DistanceIs, SizeAssumption
  <2> HIDE DEF d
  <2> QED BY <1>1, <2>1 DEF Positions
<1> HIDE DEF i, c, t, d, e, R, left
<1>9. p \in Expired(t) <=> left < t
  BY <1>2, <1>6, <1>8
<1>10. count'[p] = IF d < t /\ ~ (c < R) THEN c - R ELSE c
  BY <1>4, <1>5, <1>6 DEF R
<1>11. ASSUME p \in active'
       PROVE  WalkTicks(p)' = left - t /\ left >= t /\ count'[p] \in Nat
  <2>1. ~ (d < t /\ c < R)
    BY <1>4, <1>6, <1>11
  <2>2. CASE d < t
    BY <1>1, <1>2, <1>7, <1>10, <2>1, <2>2
  <2>3. CASE ~ (d < t)
    BY <1>1, <1>2, <1>7, <1>10, <2>3
  <2> QED BY <2>2, <2>3
<1> QED BY <1>5, <1>9, <1>11 DEF t

-----------------------------------------------------------------------------
(* Every step preserves the invariant.                                     *)

\* The invariant holds initially.
LEMMA InitInv == Init => IInv
<1> SUFFICES ASSUME Init PROVE IInv
  OBVIOUS
<1>1. Cardinality(active) = 0 /\ Cardinality(Timers) \in Nat
  BY FS_EmptySet, TimerAssumption, FS_CardinalityType DEF Init
<1>2. TypeOK
  BY <1>1, SizeAssumption DEF Init, TypeOK
<1>3. MinIsExact
  BY <1>1 DEF Init, MinIsExact
<1>4. OutInv
  BY DEF Init, OutInv
<1> QED BY <1>2, <1>3, <1>4 DEF IInv

\* Steps that leave the wheel alone leave the minimum exact.
LEMMA WheelUnchanged ==
  ASSUME IInv, UNCHANGED <<timer, tiw_pos, tiw_nto, min>>
  PROVE  MinIsExact' /\ \A p : WalkTicks(p)' = WalkTicks(p) /\ TimeLeft(p)' = TimeLeft(p)
<1>1. UNCHANGED <<active, slot, count, tiw_pos, tiw_nto, tiw_min, tiw_min_ptr>>
  BY DEF timer, min
<1>2. \A p : WalkTicks(p)' = WalkTicks(p) /\ TimeLeft(p)' = TimeLeft(p)
  BY <1>1, LeftSame
<1> QED BY <1>1, <1>2 DEF IInv, MinIsExact

\* Ticks are delivered.
LEMMA DeliverStep ==
  ASSUME IInv, erts_deliver_time
  PROVE  IInv'
<1>1. PICK elapsed \in 1 .. MaxBacklog - do_time :
        /\ do_time' = do_time + elapsed
        /\ owed' = [p \in Timers |-> IF owed[p] > elapsed THEN owed[p] - elapsed ELSE 0]
        /\ UNCHANGED <<timer, tiw_pos, tiw_nto, min, dt, timedout>>
  BY DEF erts_deliver_time
<1>2. do_time' \in 0 .. MaxBacklog
  BY <1>1, SizeAssumption DEF IInv, TypeOK
<1>3. owed' \in [Timers -> Nat]
  BY <1>1 DEF IInv, TypeOK
<1>4. TypeOK'
  BY <1>1, <1>2, <1>3 DEF IInv, TypeOK, timer, min
<1>5. OutInv'
  BY <1>1 DEF IInv, OutInv, timer
<1> QED BY <1>1, <1>4, <1>5, WheelUnchanged DEF IInv

\* A scheduler takes the ticks.
LEMMA ReadStep ==
  ASSUME IInv, NEW s \in Schedulers, read_and_reset(s)
  PROVE  IInv'
<1>1. TypeOK'
  BY SizeAssumption DEF IInv, TypeOK, read_and_reset, timer, min
<1>2. OutInv'
  BY DEF IInv, OutInv, read_and_reset, timer
<1> QED BY <1>1, <1>2, WheelUnchanged DEF IInv, read_and_reset

\* A callback is called, for a timer that is not in the wheel.
LEMMA CallbackStep ==
  ASSUME IInv, NEW s \in Schedulers, Callback(s)
  PROVE  IInv' /\ UNCHANGED active /\ \A p \in active : TimeLeft(p)' = TimeLeft(p)
<1>1. PICK o \in timedout[s] :
        /\ timedout' = [timedout EXCEPT ![s] = @ \ {o}]
        /\ slot' = [slot EXCEPT ![o] = 0] /\ count' = [count EXCEPT ![o] = 0]
        /\ owed' = [owed EXCEPT ![o] = 0]
        /\ UNCHANGED <<active, tiw_pos, tiw_nto, tiw_min, tiw_min_ptr, do_time, dt>>
  BY DEF Callback, min
<1>2. o \in Timers /\ o \notin active
  BY DEF IInv, TypeOK, OutInv
<1>3. TypeOK'
  BY <1>1, <1>2, SizeAssumption DEF IInv, TypeOK
<1>4. OutInv'
  BY <1>1 DEF IInv, TypeOK, OutInv
<1>5. \A p \in active : WalkTicks(p)' = WalkTicks(p) /\ TimeLeft(p)' = TimeLeft(p)
  BY <1>1, <1>2, LeftSame DEF IInv, TypeOK
<1>6. MinIsExact'
  BY <1>1, <1>5 DEF IInv, MinIsExact
<1> QED BY <1>1, <1>3, <1>4, <1>5, <1>6 DEF IInv

\* The wheel is bumped.
LEMMA BumpStep ==
  ASSUME IInv, NEW s \in Schedulers, erts_bump_timer(s)
  PROVE  IInv'
<1> DEFINE out == Expired(dt[s])
           t == dt[s]
<1>1. /\ active' = active \ out /\ out \subseteq active /\ t \in Nat
      /\ timedout' = [timedout EXCEPT ![s] = out]
      /\ tiw_nto' = tiw_nto - Cardinality(out)
      /\ UNCHANGED <<slot, do_time, owed>>
  BY DEF erts_bump_timer, Expired, Passed, IInv, TypeOK
<1>2. /\ active \in SUBSET Timers /\ out \in SUBSET Timers /\ active' \in SUBSET Timers
  BY <1>1 DEF IInv, TypeOK
<1>3. tiw_nto' = Cardinality(active')
  <2>1. Cardinality(active \ out) = Cardinality(active) - Cardinality(active \cap out)
    BY <1>2, FiniteTimers, FS_Difference
  <2>2. active \cap out = out
    BY <1>1
  <2> QED BY <1>1, <2>1, <2>2 DEF IInv, MinIsExact
<1>4. \A p \in active : /\ p \in out <=> WalkTicks(p) < t
                        /\ p \in active' => /\ WalkTicks(p)' = WalkTicks(p) - t
                                            /\ WalkTicks(p) >= t /\ count'[p] \in Nat
  BY BumpFacts
<1> HIDE DEF out, t
<1>5. count' \in [Timers -> Nat]
  <2>1. count' = [p \in Timers |-> count'[p]]
    BY DEF erts_bump_timer
  <2>2. ASSUME NEW p \in Timers PROVE count'[p] \in Nat
    <3>1. CASE p \in active'
      BY <1>1, <1>4, <3>1
    <3>2. CASE p \notin active'
      <4>1. p \notin Passed(t) \ out
        BY <1>1, <3>2 DEF Passed
      <4> QED BY <4>1 DEF erts_bump_timer, out, t, IInv, TypeOK
    <3> QED BY <3>1, <3>2
  <2> QED BY <2>1, <2>2
<1>6. tiw_pos' \in 0 .. TIW_SIZE - 1
  <2>1. tiw_pos \in Positions
    BY DEF IInv, TypeOK, Positions
  <2>2. (tiw_pos + t) % TIW_SIZE \in Positions
    BY <1>1, <2>1, MovesBy
  <2> QED BY <2>1, <2>2 DEF erts_bump_timer, t, Positions
<1>7. dt' \in [Schedulers -> 0 .. MaxBacklog] /\ timedout' \in [Schedulers -> SUBSET Timers]
  BY <1>1, <1>2, SizeAssumption DEF erts_bump_timer, IInv, TypeOK
<1>8. /\ tiw_min_ptr' \in Timers \cup {NoTimer} /\ tiw_min' \in Nat
      /\ tiw_min_ptr' # NoTimer =>
           /\ tiw_min_ptr' \in active' /\ tiw_min' = WalkTicks(tiw_min_ptr)'
           /\ \A p \in active' : tiw_min' <= WalkTicks(p)'
  <2>1. CASE tiw_min_ptr \in out
    BY <2>1 DEF erts_bump_timer, out
  <2>2. CASE tiw_min_ptr \notin out /\ tiw_min_ptr = NoTimer
    BY <2>2 DEF erts_bump_timer, out, IInv, TypeOK
  <2>3. CASE tiw_min_ptr \notin out /\ tiw_min_ptr # NoTimer
    <3>1. PICK m \in active : m = tiw_min_ptr
      BY <2>3 DEF IInv, MinIsExact
    <3>2. tiw_min = WalkTicks(m) /\ \A p \in active : tiw_min <= WalkTicks(p) /\ WalkTicks(p) \in Nat
      BY <1>2, <2>3, <3>1, LeftIs DEF IInv, MinIsExact
    <3>3. tiw_min_ptr' = m /\ tiw_min' = tiw_min - t /\ m \in active' /\ m \in Timers
      BY <1>1, <1>2, <2>3, <3>1 DEF erts_bump_timer, out, t
    <3>4. WalkTicks(m)' = WalkTicks(m) - t /\ WalkTicks(m) >= t /\ m \in active'
      BY <1>4, <3>3
    <3>5. tiw_min' \in Nat /\ tiw_min' = WalkTicks(m)'
      BY <1>1, <3>2, <3>3, <3>4
    <3>6. ASSUME NEW p \in active' PROVE tiw_min' <= WalkTicks(p)'
      BY <1>1, <1>4, <3>2, <3>3, <3>6
    <3>7. WalkTicks(tiw_min_ptr)' = WalkTicks(m)'
      BY <3>3 DEF WalkTicks, Distance
    <3> QED BY <3>3, <3>5, <3>6, <3>7
  <2> QED BY <2>1, <2>2, <2>3
<1>9. TypeOK'
  BY <1>1, <1>2, <1>3, <1>5, <1>6, <1>7, <1>8, FiniteTimers DEF IInv, TypeOK
<1>10. MinIsExact'
  <2>1. \A p \in Timers : TimeLeft(p)' = WalkTicks(p)'
    BY <1>9, LeftIsNext
  <2>2. CASE tiw_min_ptr' = NoTimer
    BY <1>3, <2>2 DEF MinIsExact
  <2>3. CASE tiw_min_ptr' # NoTimer
    <3>1. PICK m \in active' : m = tiw_min_ptr'
      BY <1>8, <2>3
    <3>2. WalkTicks(tiw_min_ptr)' = WalkTicks(m)' /\ TimeLeft(tiw_min_ptr)' = TimeLeft(m)'
      BY <3>1 DEF WalkTicks, Distance, TimeLeft
    <3>3. \A p \in active' : tiw_min' <= TimeLeft(p)'
      BY <1>2, <1>8, <2>1, <2>3
    <3>4. tiw_min' = TimeLeft(tiw_min_ptr)'
      <4>1. m \in Timers
        BY <1>2, <3>1
      <4>2. TimeLeft(m)' = WalkTicks(m)'
        BY <2>1, <4>1
      <4> QED BY <1>8, <2>3, <3>2, <4>2
    <3> QED BY <1>3, <1>8, <2>3, <3>3, <3>4 DEF MinIsExact
  <2> QED BY <2>2, <2>3
<1>11. OutInv'
  BY <1>1 DEF IInv, TypeOK, OutInv
<1> QED BY <1>9, <1>10, <1>11 DEF IInv

\* A timer is set: it has as many ticks left as its timeout and the ticks that are
\* delivered and not taken, and the others what they had.
LEMMA SetStep ==
  ASSUME IInv, NEW p \in Timers, erts_set_timer(p)
  PROVE  /\ IInv' /\ active' = active \cup {p} /\ p \notin active
         /\ \A o \in active : TimeLeft(o)' = TimeLeft(o)
         /\ \E t \in Timeouts : TimeLeft(p)' = t + do_time /\ owed' = [owed EXCEPT ![p] = t]
<1>1. PICK t \in Timeouts : insert_timer(p, t) /\ owed' = [owed EXCEPT ![p] = t]
  BY DEF erts_set_timer
<1> DEFINE ticks == t + do_time
<1>2. t \in Nat /\ do_time \in Nat /\ ticks \in Nat
  BY <1>1, TimerAssumption, SizeAssumption DEF IInv, TypeOK
<1>3. /\ slot' = [slot EXCEPT ![p] = (ticks + tiw_pos) % TIW_SIZE]
      /\ count' = [count EXCEPT ![p] = ticks \div TIW_SIZE]
      /\ tiw_nto' = tiw_nto + 1
      /\ IF tiw_nto = 0 \/ (tiw_min_ptr # NoTimer /\ ticks < tiw_min)
         THEN tiw_min' = ticks /\ tiw_min_ptr' = p
         ELSE tiw_min' = tiw_min /\ tiw_min_ptr' = tiw_min_ptr
  BY <1>1 DEF insert_timer, min
<1>4. /\ active' = active \cup {p} /\ p \notin active
      /\ UNCHANGED <<tiw_pos, do_time, dt, timedout>>
      /\ \A s \in Schedulers : p \notin timedout[s]
  BY DEF erts_set_timer
<1>5. tiw_pos \in Positions
  BY DEF IInv, TypeOK, Positions
<1> HIDE DEF ticks
<1>6. LET i == (ticks + tiw_pos) % TIW_SIZE
          c == ticks \div TIW_SIZE
      IN  i \in Positions /\ c \in Nat /\ ((i - tiw_pos) % TIW_SIZE) + (c * TIW_SIZE) = ticks
  BY <1>2, <1>5, InsertLeft
<1>7. slot' \in [Timers -> Positions] /\ count' \in [Timers -> Nat]
  BY <1>3, <1>6 DEF IInv, TypeOK, Positions
<1>8. slot'[p] = (ticks + tiw_pos) % TIW_SIZE /\ count'[p] = ticks \div TIW_SIZE
  BY <1>3 DEF IInv, TypeOK
<1>9. WalkTicks(p)' = ticks
  <2>1. WalkTicks(p)' = ((slot'[p] - tiw_pos') % TIW_SIZE) + (count'[p] * TIW_SIZE)
    BY DEF WalkTicks, Distance
  <2> QED BY <1>4, <1>6, <1>8, <2>1
<1>10. \A o \in active : WalkTicks(o)' = WalkTicks(o) /\ TimeLeft(o)' = TimeLeft(o)
  BY <1>3, <1>4, LeftSame DEF IInv, TypeOK
<1>11. active \in SUBSET Timers /\ active' \in SUBSET Timers
  BY <1>4 DEF IInv, TypeOK
<1>12. tiw_nto' = Cardinality(active')
  BY <1>3, <1>4, <1>11, FiniteTimers, FS_AddElement DEF IInv, MinIsExact
<1>13. tiw_min' \in Nat /\ tiw_min_ptr' \in Timers \cup {NoTimer}
  BY <1>2, <1>3 DEF IInv, TypeOK, ticks
<1>14. TypeOK'
  <2>1. owed' \in [Timers -> Nat]
    BY <1>1, <1>2 DEF IInv, TypeOK
  <2>2. tiw_nto' \in 0 .. Cardinality(Timers)
    BY <1>11, <1>12, FiniteTimers
  <2> QED BY <1>4, <1>7, <1>11, <1>13, <2>1, <2>2 DEF IInv, TypeOK, Positions
<1>15. \A o \in Timers : TimeLeft(o)' = WalkTicks(o)' /\ WalkTicks(o)' \in Nat
  BY <1>14, LeftIsNext
<1>16. TimeLeft(p)' = ticks
  BY <1>9, <1>15
<1>17. ticks \in Nat /\ \A o \in active : TimeLeft(o) \in Nat
  BY <1>2, <1>11, LeftIs DEF IInv, ticks
<1>18. MinIsExact'
  <2>1. CASE tiw_nto = 0
    <3>1. active = {} /\ tiw_min' = ticks /\ tiw_min_ptr' = p
      BY <1>3, <2>1, NoneActive
    <3>2. TimeLeft(tiw_min_ptr)' = TimeLeft(p)'
      BY <3>1 DEF TimeLeft
    <3> QED BY <1>4, <1>12, <1>16, <1>17, <3>1, <3>2 DEF MinIsExact
  <2>2. CASE tiw_nto # 0 /\ tiw_min_ptr = NoTimer
    BY <1>3, <1>12, <2>2 DEF MinIsExact
  <2>3. CASE tiw_nto # 0 /\ tiw_min_ptr # NoTimer
    <3>1. PICK m \in active : m = tiw_min_ptr
      BY <2>3 DEF IInv, MinIsExact
    <3>2. tiw_min = TimeLeft(m) /\ (\A o \in active : tiw_min <= TimeLeft(o)) /\ tiw_min \in Nat
      BY <2>3, <3>1 DEF IInv, MinIsExact, TypeOK
    <3>3. CASE ticks < tiw_min
      <4>1. tiw_min' = ticks /\ tiw_min_ptr' = p
        BY <1>3, <2>3, <3>3
      <4>2. TimeLeft(tiw_min_ptr)' = TimeLeft(p)'
        BY <4>1 DEF TimeLeft
      <4>3. ASSUME NEW o \in active' PROVE tiw_min' <= TimeLeft(o)'
        <5>1. CASE o = p
          BY <1>16, <1>17, <4>1, <5>1
        <5>2. CASE o # p
          BY <1>4, <1>10, <1>17, <3>2, <3>3, <4>1, <5>2
        <5> QED BY <5>1, <5>2
      <4> QED BY <1>4, <1>12, <1>16, <4>1, <4>2, <4>3 DEF MinIsExact
    <3>4. CASE ~ (ticks < tiw_min)
      <4>1. tiw_min' = tiw_min /\ tiw_min_ptr' = m
        BY <1>3, <2>3, <3>1, <3>4
      <4>2. TimeLeft(tiw_min_ptr)' = TimeLeft(m)'
        BY <4>1 DEF TimeLeft
      <4>3. ASSUME NEW o \in active' PROVE tiw_min' <= TimeLeft(o)'
        <5>1. CASE o = p
          BY <1>16, <1>17, <3>2, <3>4, <4>1, <5>1
        <5>2. CASE o # p
          BY <1>4, <1>10, <3>2, <4>1, <5>2
        <5> QED BY <5>1, <5>2
      <4>4. tiw_min' = TimeLeft(m)' /\ m \in active'
        BY <1>4, <1>10, <3>2, <4>1
      <4> QED BY <1>12, <4>1, <4>2, <4>3, <4>4 DEF MinIsExact
    <3> QED BY <3>3, <3>4
  <2> QED BY <2>1, <2>2, <2>3
<1>19. OutInv'
  BY <1>4 DEF IInv, OutInv
<1> QED BY <1>1, <1>4, <1>10, <1>14, <1>16, <1>18, <1>19 DEF IInv, ticks

\* A timer is cancelled; when it was the first to be due the minimum is forgotten.
LEMMA CancelStep ==
  ASSUME IInv, NEW p \in Timers, erts_cancel_timer(p)
  PROVE  /\ IInv' /\ active' = active \ {p}
         /\ \A o \in active' : TimeLeft(o)' = TimeLeft(o)
<1>1. /\ p \in active /\ active' = active \ {p} /\ tiw_nto' = tiw_nto - 1
      /\ IF p = tiw_min_ptr THEN tiw_min_ptr' = NoTimer /\ tiw_min' = 0
                            ELSE tiw_min' = tiw_min /\ tiw_min_ptr' = tiw_min_ptr
      /\ slot' = [slot EXCEPT ![p] = 0] /\ count' = [count EXCEPT ![p] = 0]
      /\ owed' = [owed EXCEPT ![p] = 0]
      /\ UNCHANGED <<tiw_pos, do_time, dt, timedout>>
  BY DEF erts_cancel_timer, min
<1>2. active \in SUBSET Timers /\ active' \in SUBSET Timers
  BY <1>1 DEF IInv, TypeOK
<1>3. tiw_nto' = Cardinality(active')
  BY <1>1, <1>2, FiniteTimers, FS_RemoveElement DEF IInv, MinIsExact
<1>4. tiw_nto' \in 0 .. Cardinality(Timers)
  BY <1>2, <1>3, FiniteTimers
<1>5. TypeOK'
  BY <1>1, <1>2, <1>4, SizeAssumption DEF IInv, TypeOK
<1>6. \A o \in active' : TimeLeft(o)' = TimeLeft(o)
  BY <1>1, LeftSame DEF IInv, TypeOK
<1>7. MinIsExact'
  <2>1. CASE tiw_min_ptr' = NoTimer
    BY <1>3, <2>1 DEF MinIsExact
  <2>2. CASE tiw_min_ptr' # NoTimer
    <3>1. PICK m \in active : m = tiw_min_ptr
      BY <1>1, <2>2 DEF IInv, MinIsExact
    <3>2. tiw_min_ptr' = m /\ tiw_min' = tiw_min /\ m \in active' /\ tiw_min_ptr # NoTimer
      BY <1>1, <2>2, <3>1
    <3>3. TimeLeft(tiw_min_ptr)' = TimeLeft(m)'
      BY <3>2 DEF TimeLeft
    <3>4. tiw_min = TimeLeft(m) /\ \A o \in active : tiw_min <= TimeLeft(o)
      BY <3>1, <3>2 DEF IInv, MinIsExact
    <3>5. \A o \in active' : tiw_min' <= TimeLeft(o)'
      BY <1>1, <1>6, <3>2, <3>4
    <3>6. tiw_min' = TimeLeft(m)'
      BY <1>6, <3>2, <3>4
    <3> QED BY <1>3, <3>2, <3>3, <3>5, <3>6 DEF MinIsExact
  <2> QED BY <2>1, <2>2
<1>8. OutInv'
  BY <1>1 DEF IInv, OutInv
<1> QED BY <1>1, <1>5, <1>6, <1>7, <1>8 DEF IInv

\* The walk finds the timer that is due first.
LEMMA NextTimeStep ==
  ASSUME IInv, erts_next_time
  PROVE  /\ IInv' /\ UNCHANGED active /\ \A p \in active : TimeLeft(p)' = TimeLeft(p)
<1>1. PICK m \in active : /\ \A o \in active : WalkTicks(m) <= WalkTicks(o)
                          /\ tiw_min_ptr' = m /\ tiw_min' = WalkTicks(m)
  BY DEF erts_next_time
<1>2. UNCHANGED <<active, slot, count, tiw_pos, tiw_nto, do_time, dt, timedout, owed>>
  BY DEF erts_next_time, timer
<1>3. active \in SUBSET Timers /\ \A p \in active : TimeLeft(p) = WalkTicks(p) /\ WalkTicks(p) \in Nat
  BY LeftIs DEF IInv, TypeOK
<1>4. \A p \in active : TimeLeft(p)' = TimeLeft(p)
  BY <1>2, LeftSame
<1>5. TypeOK'
  BY <1>1, <1>2, <1>3 DEF IInv, TypeOK
<1>6. TimeLeft(tiw_min_ptr)' = TimeLeft(m)'
  BY <1>1 DEF TimeLeft
<1>7. MinIsExact'
  BY <1>1, <1>2, <1>3, <1>4, <1>6 DEF IInv, MinIsExact
<1>8. OutInv'
  BY <1>2 DEF IInv, OutInv
<1> QED BY <1>2, <1>4, <1>5, <1>7, <1>8 DEF IInv

\* Every step preserves the invariant.
LEMMA NextInv == IInv /\ [Next]_vars => IInv'
<1> SUFFICES ASSUME IInv, [Next]_vars PROVE IInv'
  OBVIOUS
<1>1. CASE erts_deliver_time
  BY <1>1, DeliverStep
<1>2. CASE erts_next_time
  BY <1>2, NextTimeStep
<1>3. ASSUME NEW s \in Schedulers, Bump(s) PROVE IInv'
  BY <1>3, ReadStep, BumpStep, CallbackStep DEF Bump
<1>4. ASSUME NEW p \in Timers, erts_set_timer(p) \/ erts_cancel_timer(p) PROVE IInv'
  BY <1>4, SetStep, CancelStep
<1>5. CASE UNCHANGED vars
  BY <1>5, LeftSame DEF IInv, TypeOK, MinIsExact, OutInv, vars, timer, min, TimeLeft
<1> QED BY <1>1, <1>2, <1>3, <1>4, <1>5 DEF Next

-----------------------------------------------------------------------------
(* Theorems.                                                               *)

\* The invariant of the timing wheel, behind the theorems below.
THEOREM Invariance == Spec => []IInv
BY InitInv, NextInv, PTL DEF Spec

\* The timers, the wheel and the ticks have their types: counts never become
\* negative, and the wheel is never moved out of its slots.
THEOREM TypeCorrect == Spec => []TypeOK
<1>1. IInv => TypeOK
  BY DEF IInv
<1> QED BY <1>1, Invariance, PTL

\* A thread that waits for erts_next_time() does not sleep past a timeout: the cached
\* minimum of the wheel is that of the timer that is due first.
THEOREM MinExact == Spec => []MinIsExact
<1>1. IInv => MinIsExact
  BY DEF IInv
<1> QED BY <1>1, Invariance, PTL

-----------------------------------------------------------------------------
(* No timer is late.                                                       *)

\* The ticks that one scheduler has taken, when there are n.
LEMMA TakenBy ==
  ASSUME NEW s \in Schedulers, NEW n \in Nat
  PROVE  IsFiniteSet({s} \X (1 .. n)) /\ Cardinality({s} \X (1 .. n)) = n
<1>1. IsFiniteSet({s}) /\ Cardinality({s}) = 1
  BY FS_Singleton
<1>2. IsFiniteSet(1 .. n) /\ Cardinality(1 .. n) = n
  BY FS_Interval
<1>3. /\ IsFiniteSet({s} \X (1 .. n))
      /\ Cardinality({s} \X (1 .. n)) = Cardinality({s}) * Cardinality(1 .. n)
  BY <1>1, <1>2, FS_Product
<1>4. 1 * n = n
  OBVIOUS
<1> QED BY <1>1, <1>2, <1>3, <1>4

\* There are finitely many.
LEMMA TakenFinite ==
  ASSUME NEW S \in SUBSET (Schedulers \X (1 .. MaxBacklog))
  PROVE  IsFiniteSet(S) /\ Cardinality(S) \in Nat
<1>1. IsFiniteSet(1 .. MaxBacklog)
  BY SizeAssumption, FS_Interval
<1>2. IsFiniteSet(Schedulers \X (1 .. MaxBacklog))
  BY <1>1, SchedulerAssumption, FS_Product
<1> QED BY <1>2, FS_Subset, FS_CardinalityType

\* A scheduler without ticks takes some: there are as many more.
LEMMA TakeMore ==
  ASSUME NEW old \in [Schedulers -> 0 .. MaxBacklog], NEW s \in Schedulers, old[s] = 0,
         NEW n \in 0 .. MaxBacklog, NEW new, new = [old EXCEPT ![s] = n],
         NEW A, A = {x \in Schedulers \X (1 .. MaxBacklog) : x[2] <= old[x[1]]},
         NEW B, B = {x \in Schedulers \X (1 .. MaxBacklog) : x[2] <= new[x[1]]}
  PROVE  Cardinality(B) = Cardinality(A) + n
<1>1. MaxBacklog \in Nat /\ n \in Nat
  BY SizeAssumption
<1>2. PICK C : C = {s} \X (1 .. n)
  OBVIOUS
<1>3. B = A \cup C /\ A \cap C = {}
  <2>1. ASSUME NEW u \in Schedulers, NEW k \in 1 .. MaxBacklog
        PROVE  /\ <<u, k>> \in A <=> k <= old[u]
               /\ <<u, k>> \in B <=> k <= new[u]
               /\ <<u, k>> \in C <=> u = s /\ k <= n
    BY <1>1, <1>2
  <2>2. ASSUME NEW u \in Schedulers PROVE new[u] = IF u = s THEN n ELSE old[u]
    OBVIOUS
  <2>3. ASSUME NEW u \in Schedulers, NEW k \in 1 .. MaxBacklog
        PROVE  /\ <<u, k>> \in B <=> <<u, k>> \in A \/ <<u, k>> \in C
               /\ ~(<<u, k>> \in A /\ <<u, k>> \in C)
    BY <1>1, <2>1, <2>2
  <2>4. /\ A \subseteq Schedulers \X (1 .. MaxBacklog) /\ B \subseteq Schedulers \X (1 .. MaxBacklog)
        /\ C \subseteq Schedulers \X (1 .. MaxBacklog)
    BY <1>1, <1>2
  <2>5. \A x \in Schedulers \X (1 .. MaxBacklog) :
          \E u \in Schedulers, k \in 1 .. MaxBacklog : x = <<u, k>>
    OBVIOUS
  <2> QED BY <2>3, <2>4, <2>5
<1>4. IsFiniteSet(A) /\ Cardinality(A) \in Nat
  BY TakenFinite
<1>5. IsFiniteSet(C) /\ Cardinality(C) = n
  BY <1>1, <1>2, TakenBy
<1>6. Cardinality(A \cup C) = Cardinality(A) + Cardinality(C) - Cardinality(A \cap C)
  BY <1>4, <1>5, FS_Union
<1>7. Cardinality(A \cap C) = 0
  BY <1>3, FS_EmptySet
<1>8. PICK a \in Nat : a = Cardinality(A)
  BY <1>4
<1>9. Cardinality(A \cup C) = a + n - 0
  BY <1>5, <1>6, <1>7, <1>8
<1>10. a + n - 0 = a + n
  BY <1>1
<1> QED BY <1>3, <1>8, <1>9, <1>10, Zenon

\* Taking ticks leaves the backlog, and bumping the wheel by them reduces it.
LEMMA BacklogSteps ==
  ASSUME IInv, NEW s \in Schedulers
  PROVE  /\ read_and_reset(s) => Backlog' = Backlog
         /\ erts_bump_timer(s) => Backlog' = Backlog - dt[s]
<1>1. dt \in [Schedulers -> 0 .. MaxBacklog] /\ do_time \in 0 .. MaxBacklog
  BY DEF IInv, TypeOK
<1>2. Cardinality(Taken) \in Nat
  BY TakenFinite DEF Taken
<1>3. PICK A : A = Taken
  OBVIOUS
<1>4. PICK B : B = Taken'
  OBVIOUS
<1>5. /\ A = {x \in Schedulers \X (1 .. MaxBacklog) : x[2] <= dt[x[1]]}
      /\ B = {x \in Schedulers \X (1 .. MaxBacklog) : x[2] <= dt'[x[1]]}
  BY <1>3, <1>4 DEF Taken
<1>6. ASSUME read_and_reset(s) PROVE Backlog' = Backlog
  <2>1. dt[s] = 0 /\ dt' = [dt EXCEPT ![s] = do_time] /\ do_time' = 0
    BY <1>6 DEF read_and_reset
  <2>2. Cardinality(B) = Cardinality(A) + do_time
    BY <1>1, <1>5, <2>1, TakeMore
  <2> QED BY <1>1, <1>2, <1>3, <1>4, <2>1, <2>2 DEF Backlog
<1>7. ASSUME erts_bump_timer(s) PROVE Backlog' = Backlog - dt[s]
  <2>1. dt' = [dt EXCEPT ![s] = 0] /\ do_time' = do_time
    BY <1>7 DEF erts_bump_timer
  <2>2. PICK n \in 0 .. MaxBacklog : n = dt[s]
    BY <1>1
  <2>3. dt' \in [Schedulers -> 0 .. MaxBacklog] /\ dt'[s] = 0 /\ dt = [dt' EXCEPT ![s] = n]
    <3>1. dt' \in [Schedulers -> 0 .. MaxBacklog] /\ dt'[s] = 0
      BY <1>1, <2>1, SizeAssumption
    <3>2. \A u \in Schedulers : dt[u] = IF u = s THEN n ELSE dt'[u]
      BY <1>1, <2>1, <2>2
    <3> QED BY <1>1, <3>1, <3>2
  <2>4. Cardinality(A) = Cardinality(B) + n
    BY <1>5, <2>3, TakeMore
  <2>5. Cardinality(B) \in Nat
    BY <1>5, TakenFinite
  <2> QED BY <1>1, <1>2, <1>3, <1>4, <2>1, <2>2, <2>4, <2>5 DEF Backlog
<1> QED BY <1>6, <1>7

\* No step makes a timer late: ticks that are delivered are owed or in the backlog.
LEMMA LateStep == IInv /\ IInv' /\ NeverLate /\ [Next]_vars => NeverLate'
<1> SUFFICES ASSUME IInv, IInv', NeverLate, [Next]_vars PROVE NeverLate'
  OBVIOUS
<1>1. /\ owed \in [Timers -> Nat] /\ active \subseteq Timers /\ do_time \in Nat
      /\ \A p \in active : TimeLeft(p) \in Nat /\ TimeLeft(p) <= owed[p] + Backlog
  BY LeftIs, SizeAssumption DEF IInv, TypeOK, NeverLate
<1>2. Cardinality(Taken) \in Nat /\ Backlog \in Nat
  BY <1>1, TakenFinite DEF Backlog, Taken
<1>3. ASSUME dt' = dt PROVE Taken' = Taken
  BY <1>3 DEF Taken
<1>4. CASE erts_deliver_time
  <2>1. PICK elapsed \in Nat :
          /\ do_time' = do_time + elapsed
          /\ owed' = [p \in Timers |-> IF owed[p] > elapsed THEN owed[p] - elapsed ELSE 0]
          /\ UNCHANGED <<timer, tiw_pos, tiw_nto, min, dt, timedout>>
    BY <1>4, <1>1, SizeAssumption DEF erts_deliver_time, IInv, TypeOK
  <2>2. active' = active /\ \A p \in active : TimeLeft(p)' = TimeLeft(p)
    BY <2>1, WheelUnchanged DEF timer
  <2>3. Backlog' = Backlog + elapsed
    BY <1>1, <1>2, <1>3, <2>1 DEF Backlog
  <2>4. ASSUME NEW p \in active PROVE owed'[p] + Backlog' >= owed[p] + Backlog
    BY <1>1, <1>2, <2>1, <2>3
  <2>5. ASSUME NEW p \in active PROVE owed'[p] \in Nat /\ Backlog' \in Nat
    BY <1>1, <1>2, <2>1, <2>3
  <2> QED BY <1>1, <1>2, <2>2, <2>4, <2>5 DEF NeverLate
<1>5. CASE erts_next_time
  <2>1. owed' = owed /\ Backlog' = Backlog
    BY <1>3, <1>5 DEF erts_next_time, Backlog
  <2> QED BY <1>1, <1>5, <2>1, NextTimeStep DEF NeverLate
<1>6. ASSUME NEW s \in Schedulers, read_and_reset(s) PROVE NeverLate'
  <2>1. owed' = owed /\ Backlog' = Backlog /\ active' = active /\ \A p \in active : TimeLeft(p)' = TimeLeft(p)
    BY <1>6, BacklogSteps, WheelUnchanged DEF read_and_reset, timer
  <2> QED BY <1>1, <2>1 DEF NeverLate
<1>7. ASSUME NEW s \in Schedulers, erts_bump_timer(s) PROVE NeverLate'
  <2>1. owed' = owed /\ Backlog' = Backlog - dt[s] /\ active' \subseteq active
    BY <1>7, BacklogSteps DEF erts_bump_timer
  <2>2. ASSUME NEW p \in active' PROVE TimeLeft(p)' = TimeLeft(p) - dt[s]
    BY <1>1, <1>7, <2>1, BumpFacts, LeftIs, LeftIsNext DEF IInv
  <2>3. dt[s] \in Nat
    BY SizeAssumption DEF IInv, TypeOK
  <2> QED BY <1>1, <1>2, <2>1, <2>2, <2>3 DEF NeverLate
<1>8. ASSUME NEW s \in Schedulers, Callback(s) PROVE NeverLate'
  <2>1. active' = active /\ \A p \in active : TimeLeft(p)' = TimeLeft(p)
    BY <1>8, CallbackStep
  <2>2. Backlog' = Backlog
    BY <1>3, <1>8 DEF Callback, Backlog
  <2>3. \A p \in active : owed'[p] = owed[p]
    BY <1>1, <1>8 DEF Callback, IInv, OutInv
  <2> QED BY <1>1, <2>1, <2>2, <2>3 DEF NeverLate
<1>9. ASSUME NEW o \in Timers, erts_set_timer(o) PROVE NeverLate'
  <2>1. PICK t \in Timeouts : TimeLeft(o)' = t + do_time /\ owed' = [owed EXCEPT ![o] = t]
    BY <1>9, SetStep
  <2>2. Backlog' = Backlog /\ Backlog >= do_time
    BY <1>1, <1>2, <1>3, <1>9 DEF erts_set_timer, Backlog
  <2>3. /\ active' = active \cup {o} /\ o \notin active
        /\ \A p \in active : TimeLeft(p)' = TimeLeft(p)
    BY <1>9, SetStep
  <2>4. t \in Nat
    BY TimerAssumption
  <2> QED BY <1>1, <1>2, <2>1, <2>2, <2>3, <2>4 DEF NeverLate
<1>10. ASSUME NEW o \in Timers, erts_cancel_timer(o) PROVE NeverLate'
  <2>1. active' = active \ {o} /\ \A p \in active' : TimeLeft(p)' = TimeLeft(p)
    BY <1>10, CancelStep
  <2>2. Backlog' = Backlog
    BY <1>3, <1>10 DEF erts_cancel_timer, Backlog
  <2>3. \A p \in active' : owed'[p] = owed[p]
    BY <1>1, <1>10, <2>1 DEF erts_cancel_timer
  <2> QED BY <1>1, <2>1, <2>2, <2>3 DEF NeverLate
<1>11. CASE UNCHANGED vars
  <2>1. owed' = owed /\ Backlog' = Backlog /\ active' = active /\ \A p \in active : TimeLeft(p)' = TimeLeft(p)
    BY <1>3, <1>11, WheelUnchanged DEF vars, timer, min, Backlog
  <2> QED BY <1>1, <2>1 DEF NeverLate
<1> QED BY <1>4, <1>5, <1>6, <1>7, <1>8, <1>9, <1>10, <1>11 DEF Next, Bump

\* No timer is late: for as many ticks as have been delivered since it was set, it has
\* been counted down, or will be when schedulers bump the wheel by what they took.
THEOREM InTime == Spec => []NeverLate
<1>1. Init => NeverLate
  BY DEF Init, NeverLate
<1> QED BY <1>1, LateStep, Invariance, PTL DEF Spec

-----------------------------------------------------------------------------
(* The wheel implements the countdown.                                     *)

\* The countdown that a state of the wheel stands for.
Left == [p \in Timers |-> IF p \in active THEN TimeLeft(p) ELSE -1]

\* The largest timeout exists, so that the ticks of the countdown are what they seem.
LEMMA MaxTimeout ==
  /\ Max(Timeouts) \in Nat
  /\ \A t \in Timeouts : t <= Max(Timeouts)
<1> DEFINE P(m) == m \in Timeouts /\ \A t \in Timeouts : m >= t
<1>1. PICK m : P(m)
  BY TimerAssumption
<1>2. Max(Timeouts) = CHOOSE x \in Timeouts : \A y \in Timeouts : x >= y
  BY DEF Max
<1>3. (CHOOSE x \in Timeouts : \A y \in Timeouts : x >= y) \in Timeouts /\
      \A y \in Timeouts : (CHOOSE x \in Timeouts : \A y1 \in Timeouts : x >= y1) >= y
  BY <1>1
<1> QED BY <1>2, <1>3, TimerAssumption

\* Initially no timer is set.
LEMMA InitRefines == Init => Abstract!Init
BY DEF Init, Abstract!Init

\* The value of the countdown for each timer.
LEMMA LeftFacts ==
  ASSUME IInv
  PROVE  \A p \in Timers : /\ p \in active => Left[p] = WalkTicks(p) /\ Left[p] \in Nat
                           /\ p \notin active => Left[p] = -1
BY LeftIs DEF Left, IInv, TypeOK

\* Steps that change the ticks left of no timer are none of the countdown.
LEMMA SameLeft ==
  ASSUME UNCHANGED active, \A p \in active : TimeLeft(p)' = TimeLeft(p)
  PROVE  Left' = Left
BY DEF Left

\* Every step of the wheel is one of the countdown, or changes nothing in it.
LEMMA NextRefines == IInv /\ IInv' /\ [Next]_vars => [Abstract!Next]_Left
<1> SUFFICES ASSUME IInv, IInv', [Next]_vars PROVE [Abstract!Next]_Left
  OBVIOUS
<1> DEFINE ticks == 0 .. Max(Timeouts) + MaxBacklog
<1>1. CASE erts_deliver_time
  BY <1>1, WheelUnchanged, SameLeft DEF erts_deliver_time, timer
<1>2. CASE erts_next_time
  BY <1>2, NextTimeStep, SameLeft
<1>3. ASSUME NEW s \in Schedulers, read_and_reset(s) PROVE Left' = Left
  BY <1>3, WheelUnchanged, SameLeft DEF read_and_reset, timer
<1>4. ASSUME NEW s \in Schedulers, Callback(s) PROVE Left' = Left
  BY <1>4, CallbackStep, SameLeft
<1>5. ASSUME NEW s \in Schedulers, erts_bump_timer(s) PROVE Abstract!Next
  <2>1. dt[s] \in ticks /\ dt[s] \in Nat
    BY MaxTimeout, SizeAssumption DEF IInv, TypeOK
  <2>2. active' \subseteq active /\ active \subseteq Timers
    BY <1>5 DEF erts_bump_timer, IInv, TypeOK
  <2>3. ASSUME NEW p \in Timers
        PROVE  Left'[p] = IF Left[p] < dt[s] THEN -1 ELSE Left[p] - dt[s]
    <3>1. CASE p \notin active
      BY <2>1, <2>2, <3>1 DEF Left
    <3>2. CASE p \in active /\ p \notin active'
      <4>1. WalkTicks(p) < dt[s]
        BY <1>5, <3>2, BumpFacts DEF erts_bump_timer
      <4> QED BY <2>1, <3>2, <4>1, LeftFacts DEF Left
    <3>3. CASE p \in active /\ p \in active'
      <4>1. WalkTicks(p)' = WalkTicks(p) - dt[s] /\ WalkTicks(p) >= dt[s]
        BY <1>5, <3>3, BumpFacts
      <4>2. TimeLeft(p)' = WalkTicks(p)'
        BY LeftIsNext DEF IInv
      <4>3. Left[p] = WalkTicks(p) /\ WalkTicks(p) \in Nat
        BY <3>3, LeftFacts
      <4>4. Left'[p] = TimeLeft(p)'
        BY <3>3 DEF Left
      <4> QED BY <2>1, <4>1, <4>2, <4>3, <4>4
    <3> QED BY <3>1, <3>2, <3>3
  <2>4. Left' = [p \in Timers |-> IF Left[p] < dt[s] THEN -1 ELSE Left[p] - dt[s]]
    BY <2>3 DEF Left
  <2>5. PICK k \in ticks : k = dt[s]
    BY <2>1
  <2>6. Abstract!Pass(k)
    BY <2>4, <2>5 DEF Abstract!Pass, Left
  <2> QED BY <2>6 DEF Abstract!Next
<1>6. ASSUME NEW p \in Timers, erts_set_timer(p) PROVE Abstract!Next
  <2>1. /\ active' = active \cup {p} /\ p \notin active
        /\ \A o \in active : TimeLeft(o)' = TimeLeft(o)
    BY <1>6, SetStep
  <2>2. PICK t \in Timeouts : TimeLeft(p)' = t + do_time
    BY <1>6, SetStep
  <2>3. t + do_time \in ticks
    BY MaxTimeout, TimerAssumption, SizeAssumption DEF IInv, TypeOK
  <2>4. Left[p] = -1 /\ Left' = [Left EXCEPT ![p] = t + do_time]
    BY <2>1, <2>2 DEF Left
  <2>5. PICK k \in ticks : k = t + do_time
    BY <2>3
  <2>6. Abstract!Set(p, k)
    BY <2>4, <2>5 DEF Abstract!Set, Left
  <2> QED BY <2>6 DEF Abstract!Next
<1>7. ASSUME NEW p \in Timers, erts_cancel_timer(p) PROVE Abstract!Next
  <2>1. active' = active \ {p} /\ \A o \in active' : TimeLeft(o)' = TimeLeft(o)
    BY <1>7, CancelStep
  <2>2. Left' = [Left EXCEPT ![p] = -1]
    BY <2>1 DEF Left
  <2>3. Abstract!Cancel(p)
    BY <2>2 DEF Abstract!Cancel, Left
  <2>4. 0 \in ticks
    BY MaxTimeout, SizeAssumption
  <2> QED BY <2>3, <2>4 DEF Abstract!Next
<1>8. CASE UNCHANGED vars
  BY <1>8, WheelUnchanged, SameLeft DEF vars, timer, min
<1> QED BY <1>1, <1>2, <1>3, <1>4, <1>5, <1>6, <1>7, <1>8 DEF Next, Bump

\* The wheel counts every timer down exactly, however far it is bumped at once and
\* however often it goes round: erts_bump_timer() is the passing of as many ticks as
\* the scheduler took, and no other operation moves a timer that is not its own.
THEOREM Refinement == Spec => ImplementsCountdown
<1>1. [Abstract!Next]_Left => [Abstract!Next]_([p \in Timers |-> IF p \in active THEN TimeLeft(p) ELSE -1])
  BY DEF Left
<1>2. IInv /\ IInv' /\ [Next]_vars => [Abstract!Next]_([p \in Timers |-> IF p \in active THEN TimeLeft(p) ELSE -1])
  BY <1>1, NextRefines
<1> QED BY <1>2, InitRefines, Invariance, PTL DEF Spec, ImplementsCountdown, Abstract!Spec
=============================================================================

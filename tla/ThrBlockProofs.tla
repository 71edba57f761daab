--------------------------- MODULE ThrBlockProofs ---------------------------
(***************************************************************************)
(* Proofs about ThrBlock: for any number of managed threads, blocks and    *)
(* nesting, the count is exact and a block is exclusive.                   *)
(***************************************************************************)
EXTENDS ThrBlock, FiniteSetTheorems, TLAPS

-----------------------------------------------------------------------------
(* The inductive invariant.                                                *)

\* TypeOK, without the bounds of the count, which follow from CountIsExact.
Types ==
  /\ block \in BOOLEAN /\ not_blocking \in BOOLEAN
  /\ block_count \in Int
  /\ event \in {"null", "reset", "set"}
  /\ thr_waiting \in [Managed -> BOOLEAN] /\ sleeping \in [Managed -> BOOLEAN]
  /\ is_blocking \in [Managed -> 0 .. MaxNesting]
  /\ pc \in [Managed -> Places]
  /\ back \in [Managed -> {"run", "update", "try"}]
  /\ id \in [Managed -> Managed]
  /\ blocks \in 0 .. MaxBlocks

HolderPlaces == {"event", "own_dec", "clear", "await", "recount", "blocking",
                 "un_event", "un_count", "un_flag"}
RunningPlaces == {"run", "update", "sleep_dec", "try", "un_wake"}

\* The block flag has one holder, and it is set while there is one.  From the
\* moment the holder has cleared NOT_BLOCKING until it sets it again, a thread
\* that enters the count sees that it must leave.
HolderInv ==
  /\ \A t, u \in Managed :
       pc[t] \in HolderPlaces /\ pc[u] \in HolderPlaces => t = u
  /\ \A t \in Managed : pc[t] \in HolderPlaces => block
  /\ \A t \in Managed :
       pc[t] \in {"await", "recount", "blocking", "un_event", "un_count"}
         => ~not_blocking

\* While one thread blocks, no thread runs.
StoppedInv ==
  \A t, u \in Managed : pc[t] = "blocking" => pc[u] \notin RunningPlaces

IInv == Types /\ CountIsExact /\ HolderInv /\ StoppedInv

-----------------------------------------------------------------------------
(* Counting.                                                               *)

\* The counted threads are a finite set: at most all managed threads.
LEMMA CountedFinite ==
  /\ IsFiniteSet(Counted)
  /\ Cardinality(Counted) \in 0 .. NoManaged
<1>1. NoManaged \in Nat /\ NoManaged > 0
  BY NoManagedAssumption
<1>2. IsFiniteSet(Managed) /\ Cardinality(Managed) = NoManaged
  BY <1>1, FS_Interval DEF Managed
<1>3. Counted \subseteq Managed
  BY DEF Counted
<1>4. IsFiniteSet(Counted) /\ Cardinality(Counted) <= Cardinality(Managed)
  BY <1>2, <1>3, FS_Subset
<1>5. Cardinality(Counted) \in Nat
  BY <1>4, FS_CardinalityType
<1>6. QED
  BY <1>1, <1>2, <1>4, <1>5

\* One thread moving changes the cardinality by what that thread counts.
LEMMA CountMoves ==
  ASSUME NEW t \in Managed, NEW p, Types, pc' = [pc EXCEPT ![t] = p]
  PROVE  Cardinality(Counted') =
           Cardinality(Counted)
             + (IF p \in CountedPlaces THEN 1 ELSE 0)
             - (IF pc[t] \in CountedPlaces THEN 1 ELSE 0)
<1>1. IsFiniteSet(Counted) /\ Cardinality(Counted) \in Nat
  BY CountedFinite, FS_CardinalityType
<1>2. \A u \in Managed : pc'[u] = IF u = t THEN p ELSE pc[u]
  BY DEF Types
<1>3. CASE p \in CountedPlaces /\ pc[t] \in CountedPlaces
  <2>1. Counted' = Counted
    BY <1>2, <1>3 DEF Counted
  <2>2. QED
    BY <1>1, <1>3, <2>1
<1>4. CASE p \in CountedPlaces /\ pc[t] \notin CountedPlaces
  <2>1. Counted' = Counted \union {t} /\ t \notin Counted
    BY <1>2, <1>4 DEF Counted
  <2>2. Cardinality(Counted \union {t}) = Cardinality(Counted) + 1
    BY <1>1, <2>1, FS_AddElement
  <2>3. QED
    BY <1>1, <1>4, <2>1, <2>2
<1>5. CASE p \notin CountedPlaces /\ pc[t] \in CountedPlaces
  <2>1. Counted' = Counted \ {t} /\ t \in Counted
    BY <1>2, <1>5 DEF Counted
  <2>2. Cardinality(Counted \ {t}) = Cardinality(Counted) - 1
    BY <1>1, <2>1, FS_RemoveElement
  <2>3. QED
    BY <1>1, <1>5, <2>1, <2>2
<1>6. CASE p \notin CountedPlaces /\ pc[t] \notin CountedPlaces
  <2>1. Counted' = Counted
    BY <1>2, <1>6 DEF Counted
  <2>2. QED
    BY <1>1, <1>6, <2>1
<1>7. QED
  BY <1>3, <1>4, <1>5, <1>6

\* When the count is zero, no thread is counted.
LEMMA NobodyCounted ==
  ASSUME CountIsExact, block_count = 0
  PROVE  \A u \in Managed : pc[u] \notin CountedPlaces
<1>1. Counted = {}
  BY CountedFinite, FS_EmptySet DEF CountIsExact
<1>2. QED
  BY <1>1 DEF Counted

-----------------------------------------------------------------------------
(* Every step preserves every part.                                        *)

LEMMA TypesStep ==
  ASSUME Types, [Next]_vars
  PROVE  Types'
<1>1. ASSUME NEW t \in Managed, BlockDec(t) PROVE Types'
  BY <1>1 DEF BlockDec, block_count_dec, Goto, count, Types, Places
<1>2. ASSUME NEW t \in Managed, BlockSignal(t) PROVE Types'
  BY <1>2 DEF BlockSignal, SetEvent, Goto, count, Types, Places
<1>3. ASSUME NEW t \in Managed, BlockPrepare(t) PROVE Types'
  BY <1>3 DEF BlockPrepare, Goto, count, Types, Places
<1>4. ASSUME NEW t \in Managed, BlockReadFlag(t) PROVE Types'
  BY <1>4 DEF BlockReadFlag, Goto, count, Types, Places
<1>5. ASSUME NEW t \in Managed, BlockWoken(t) PROVE Types'
  BY <1>5 DEF BlockWoken, Goto, count, Types, Places
<1>6. ASSUME NEW t \in Managed, BlockInc(t) PROVE Types'
  <2>1. pc' \in [Managed -> Places]
    BY <1>6 DEF BlockInc, Goto, Types, Places
  <2>2. sleeping' \in [Managed -> BOOLEAN]
    <3>1. sleeping' = sleeping \/ sleeping' = [sleeping EXCEPT ![t] = FALSE]
      BY <1>6 DEF BlockInc
    <3>2. QED
      BY <3>1 DEF Types
  <2>3. QED
    BY <1>6, <2>1, <2>2 DEF BlockInc, Types
<1>7. ASSUME NEW t \in Managed, UpdateBlocks(t) PROVE Types'
  BY <1>7 DEF UpdateBlocks, Goto, count, Types, Places
<1>8. ASSUME NEW t \in Managed, UpdatePasses(t) PROVE Types'
  BY <1>8 DEF UpdatePasses, Goto, count, Types, Places
<1>9. ASSUME NEW t \in Managed, PrepareWaitDec(t) PROVE Types'
  BY <1>9 DEF PrepareWaitDec, block_count_dec, Goto, count, Types, Places
<1>10. ASSUME NEW t \in Managed, PrepareWaitSignal(t) PROVE Types'
  BY <1>10 DEF PrepareWaitSignal, SetEvent, Goto, count, Types, Places
<1>11. ASSUME NEW t \in Managed, PrepareWaitSet(t) PROVE Types'
  BY <1>11 DEF PrepareWaitSet, Goto, count, Types, Places
<1>12. ASSUME NEW t \in Managed, FinalizeWaitSet(t) PROVE Types'
  BY <1>12 DEF FinalizeWaitSet, Goto, count, Types, Places
<1>13. ASSUME NEW t \in Managed, FinalizeWaitInc(t) PROVE Types'
  BY <1>13 DEF FinalizeWaitInc, Goto, count, Types, Places
<1>14. ASSUME NEW t \in Managed, TryBlock(t) PROVE Types'
  BY <1>14 DEF TryBlock, Goto, count, Types, Places
<1>15. ASSUME NEW t \in Managed, BlockEvent(t) PROVE Types'
  BY <1>15 DEF BlockEvent, Goto, count, Types, Places
<1>16. ASSUME NEW t \in Managed, BlockOwnDec(t) PROVE Types'
  BY <1>16 DEF BlockOwnDec, Goto, count, Types, Places
<1>17. ASSUME NEW t \in Managed, BlockClearFlag(t) PROVE Types'
  BY <1>17 DEF BlockClearFlag, Goto, count, Types, Places
<1>18. ASSUME NEW t \in Managed, BlockEventSet(t) PROVE Types'
  BY <1>18 DEF BlockEventSet, Goto, count, Types, Places
<1>19. ASSUME NEW t \in Managed, BlockRecount(t) PROVE Types'
  BY <1>19 DEF BlockRecount, Goto, count, Types, Places
<1>20. ASSUME NEW t \in Managed, Unnest(t) PROVE Types'
  BY <1>20, BoundsAssumption DEF Unnest, count, Types, Places
<1>21. ASSUME NEW t \in Managed, UnblockInc(t) PROVE Types'
  <2>1. \A i \in Managed : NextId(i) \in Managed
    BY NoManagedAssumption DEF NextId, Managed
  <2>2. QED
    BY <1>21, <2>1, BoundsAssumption DEF UnblockInc, Goto, count, Types, Places
<1>22. ASSUME NEW t \in Managed, UnblockEvent(t) PROVE Types'
  BY <1>22 DEF UnblockEvent, Goto, count, Types, Places
<1>23. ASSUME NEW t \in Managed, UnblockSetFlag(t) PROVE Types'
  BY <1>23 DEF UnblockSetFlag, Goto, count, Types, Places
<1>24. ASSUME NEW t \in Managed, UnblockClearFlag(t) PROVE Types'
  BY <1>24 DEF UnblockClearFlag, Goto, count, Types, Places
<1>25. ASSUME NEW t \in Managed, UnblockWake(t) PROVE Types'
  <2>1. \A i \in Managed : NextId(i) \in Managed
    BY NoManagedAssumption DEF NextId, Managed
  <2>2. QED
    BY <1>25, <2>1, BoundsAssumption DEF UnblockWake, Goto, count, Types, Places
<1>26. ASSUME NEW t \in Managed, FallAsleep(t) PROVE Types'
  BY <1>26 DEF FallAsleep, Goto, count, Types, Places
<1>27. ASSUME NEW t \in Managed, Poke(t) PROVE Types'
  BY <1>27 DEF Poke, count, Types, Places
<1>28. ASSUME NEW t \in Managed, StartBlock(t) PROVE Types'
  BY <1>28, BoundsAssumption DEF StartBlock, Goto, count, Types, Places
<1>29. ASSUME NEW t \in Managed, NestBlock(t) PROVE Types'
  BY <1>29, BoundsAssumption DEF NestBlock, count, Types, Places
<1>30. CASE UNCHANGED vars
  BY <1>30 DEF vars, Types
<1>31. QED
  BY <1>1, <1>2, <1>3, <1>4, <1>5, <1>6, <1>7, <1>8, <1>9, <1>10, <1>11,
     <1>12, <1>13, <1>14, <1>15, <1>16, <1>17, <1>18, <1>19, <1>20, <1>21,
     <1>22, <1>23, <1>24, <1>25, <1>26, <1>27, <1>28, <1>29, <1>30
     DEF Next, Step, block_thread, thr_progress_block, erts_thr_progress_unblock

LEMMA CountStep ==
  ASSUME Types, CountIsExact, [Next]_vars
  PROVE  CountIsExact'
<1> Cardinality(Counted) \in Int /\ block_count \in Int
  BY CountedFinite DEF Types
<1>1. ASSUME NEW t \in Managed, BlockDec(t) PROVE CountIsExact'
  <2>1. PICK p : pc' = [pc EXCEPT ![t] = p]
    BY <1>1 DEF BlockDec, block_count_dec, Goto
  <2>2. pc'[t] = p
    BY <2>1 DEF Types
  <2>3. block_count' = block_count + (IF p \in CountedPlaces THEN 1 ELSE 0)
                        - (IF pc[t] \in CountedPlaces THEN 1 ELSE 0)
    BY <1>1, <2>1, <2>2 DEF BlockDec, block_count_dec, Goto, count, Types, CountedPlaces
  <2>4. QED
    BY <2>1, <2>3, CountMoves DEF CountIsExact
<1>2. ASSUME NEW t \in Managed, BlockSignal(t) PROVE CountIsExact'
  <2>1. PICK p : pc' = [pc EXCEPT ![t] = p]
    BY <1>2 DEF BlockSignal, SetEvent, Goto
  <2>2. pc'[t] = p
    BY <2>1 DEF Types
  <2>3. block_count' = block_count + (IF p \in CountedPlaces THEN 1 ELSE 0)
                        - (IF pc[t] \in CountedPlaces THEN 1 ELSE 0)
    BY <1>2, <2>1, <2>2 DEF BlockSignal, SetEvent, Goto, count, Types, CountedPlaces
  <2>4. QED
    BY <2>1, <2>3, CountMoves DEF CountIsExact
<1>3. ASSUME NEW t \in Managed, BlockPrepare(t) PROVE CountIsExact'
  <2>1. PICK p : pc' = [pc EXCEPT ![t] = p]
    BY <1>3 DEF BlockPrepare, Goto
  <2>2. pc'[t] = p
    BY <2>1 DEF Types
  <2>3. block_count' = block_count + (IF p \in CountedPlaces THEN 1 ELSE 0)
                        - (IF pc[t] \in CountedPlaces THEN 1 ELSE 0)
    BY <1>3, <2>1, <2>2 DEF BlockPrepare, Goto, count, Types, CountedPlaces
  <2>4. QED
    BY <2>1, <2>3, CountMoves DEF CountIsExact
<1>4. ASSUME NEW t \in Managed, BlockReadFlag(t) PROVE CountIsExact'
  <2>1. PICK p : pc' = [pc EXCEPT ![t] = p]
    BY <1>4 DEF BlockReadFlag, Goto
  <2>2. pc'[t] = p
    BY <2>1 DEF Types
  <2>3. block_count' = block_count + (IF p \in CountedPlaces THEN 1 ELSE 0)
                        - (IF pc[t] \in CountedPlaces THEN 1 ELSE 0)
    BY <1>4, <2>1, <2>2 DEF BlockReadFlag, Goto, count, Types, CountedPlaces
  <2>4. QED
    BY <2>1, <2>3, CountMoves DEF CountIsExact
<1>5. ASSUME NEW t \in Managed, BlockWoken(t) PROVE CountIsExact'
  <2>1. PICK p : pc' = [pc EXCEPT ![t] = p]
    BY <1>5 DEF BlockWoken, Goto
  <2>2. pc'[t] = p
    BY <2>1 DEF Types
  <2>3. block_count' = block_count + (IF p \in CountedPlaces THEN 1 ELSE 0)
                        - (IF pc[t] \in CountedPlaces THEN 1 ELSE 0)
    BY <1>5, <2>1, <2>2 DEF BlockWoken, Goto, count, Types, CountedPlaces
  <2>4. QED
    BY <2>1, <2>3, CountMoves DEF CountIsExact
<1>6. ASSUME NEW t \in Managed, BlockInc(t) PROVE CountIsExact'
  <2>1. PICK p : pc' = [pc EXCEPT ![t] = p]
    BY <1>6 DEF BlockInc, Goto
  <2>2. pc'[t] = p
    BY <2>1 DEF Types
  <2>3. block_count' = block_count + (IF p \in CountedPlaces THEN 1 ELSE 0)
                        - (IF pc[t] \in CountedPlaces THEN 1 ELSE 0)
    BY <1>6, <2>1, <2>2 DEF BlockInc, Goto, count, Types, CountedPlaces
  <2>4. QED
    BY <2>1, <2>3, CountMoves DEF CountIsExact
<1>7. ASSUME NEW t \in Managed, UpdateBlocks(t) PROVE CountIsExact'
  <2>1. PICK p : pc' = [pc EXCEPT ![t] = p]
    BY <1>7 DEF UpdateBlocks, Goto
  <2>2. pc'[t] = p
    BY <2>1 DEF Types
  <2>3. block_count' = block_count + (IF p \in CountedPlaces THEN 1 ELSE 0)
                        - (IF pc[t] \in CountedPlaces THEN 1 ELSE 0)
    BY <1>7, <2>1, <2>2 DEF UpdateBlocks, Goto, count, Types, CountedPlaces
  <2>4. QED
    BY <2>1, <2>3, CountMoves DEF CountIsExact
<1>8. ASSUME NEW t \in Managed, UpdatePasses(t) PROVE CountIsExact'
  <2>1. PICK p : pc' = [pc EXCEPT ![t] = p]
    BY <1>8 DEF UpdatePasses, Goto
  <2>2. pc'[t] = p
    BY <2>1 DEF Types
  <2>3. block_count' = block_count + (IF p \in CountedPlaces THEN 1 ELSE 0)
                        - (IF pc[t] \in CountedPlaces THEN 1 ELSE 0)
    BY <1>8, <2>1, <2>2 DEF UpdatePasses, Goto, count, Types, CountedPlaces
  <2>4. QED
    BY <2>1, <2>3, CountMoves DEF CountIsExact
<1>9. ASSUME NEW t \in Managed, PrepareWaitDec(t) PROVE CountIsExact'
  <2>1. PICK p : pc' = [pc EXCEPT ![t] = p]
    BY <1>9 DEF PrepareWaitDec, block_count_dec, Goto
  <2>2. pc'[t] = p
    BY <2>1 DEF Types
  <2>3. block_count' = block_count + (IF p \in CountedPlaces THEN 1 ELSE 0)
                        - (IF pc[t] \in CountedPlaces THEN 1 ELSE 0)
    BY <1>9, <2>1, <2>2 DEF PrepareWaitDec, block_count_dec, Goto, count, Types, CountedPlaces
  <2>4. QED
    BY <2>1, <2>3, CountMoves DEF CountIsExact
<1>10. ASSUME NEW t \in Managed, PrepareWaitSignal(t) PROVE CountIsExact'
  <2>1. PICK p : pc' = [pc EXCEPT ![t] = p]
    BY <1>10 DEF PrepareWaitSignal, SetEvent, Goto
  <2>2. pc'[t] = p
    BY <2>1 DEF Types
  <2>3. block_count' = block_count + (IF p \in CountedPlaces THEN 1 ELSE 0)
                        - (IF pc[t] \in CountedPlaces THEN 1 ELSE 0)
    BY <1>10, <2>1, <2>2 DEF PrepareWaitSignal, SetEvent, Goto, count, Types, CountedPlaces
  <2>4. QED
    BY <2>1, <2>3, CountMoves DEF CountIsExact
<1>11. ASSUME NEW t \in Managed, PrepareWaitSet(t) PROVE CountIsExact'
  <2>1. PICK p : pc' = [pc EXCEPT ![t] = p]
    BY <1>11 DEF PrepareWaitSet, Goto
  <2>2. pc'[t] = p
    BY <2>1 DEF Types
  <2>3. block_count' = block_count + (IF p \in CountedPlaces THEN 1 ELSE 0)
                        - (IF pc[t] \in CountedPlaces THEN 1 ELSE 0)
    BY <1>11, <2>1, <2>2 DEF PrepareWaitSet, Goto, count, Types, CountedPlaces
  <2>4. QED
    BY <2>1, <2>3, CountMoves DEF CountIsExact
<1>12. ASSUME NEW t \in Managed, FinalizeWaitSet(t) PROVE CountIsExact'
  <2>1. PICK p : pc' = [pc EXCEPT ![t] = p]
    BY <1>12 DEF FinalizeWaitSet, Goto
  <2>2. pc'[t] = p
    BY <2>1 DEF Types
  <2>3. block_count' = block_count + (IF p \in CountedPlaces THEN 1 ELSE 0)
                        - (IF pc[t] \in CountedPlaces THEN 1 ELSE 0)
    BY <1>12, <2>1, <2>2 DEF FinalizeWaitSet, Goto, count, Types, CountedPlaces
  <2>4. QED
    BY <2>1, <2>3, CountMoves DEF CountIsExact
<1>13. ASSUME NEW t \in Managed, FinalizeWaitInc(t) PROVE CountIsExact'
  <2>1. PICK p : pc' = [pc EXCEPT ![t] = p]
    BY <1>13 DEF FinalizeWaitInc, Goto
  <2>2. pc'[t] = p
    BY <2>1 DEF Types
  <2>3. block_count' = block_count + (IF p \in CountedPlaces THEN 1 ELSE 0)
                        - (IF pc[t] \in CountedPlaces THEN 1 ELSE 0)
    BY <1>13, <2>1, <2>2 DEF FinalizeWaitInc, Goto, count, Types, CountedPlaces
  <2>4. QED
    BY <2>1, <2>3, CountMoves DEF CountIsExact
<1>14. ASSUME NEW t \in Managed, TryBlock(t) PROVE CountIsExact'
  <2>1. PICK p : pc' = [pc EXCEPT ![t] = p]
    BY <1>14 DEF TryBlock, Goto
  <2>2. pc'[t] = p
    BY <2>1 DEF Types
  <2>3. block_count' = block_count + (IF p \in CountedPlaces THEN 1 ELSE 0)
                        - (IF pc[t] \in CountedPlaces THEN 1 ELSE 0)
    BY <1>14, <2>1, <2>2 DEF TryBlock, Goto, count, Types, CountedPlaces
  <2>4. QED
    BY <2>1, <2>3, CountMoves DEF CountIsExact
<1>15. ASSUME NEW t \in Managed, BlockEvent(t) PROVE CountIsExact'
  <2>1. PICK p : pc' = [pc EXCEPT ![t] = p]
    BY <1>15 DEF BlockEvent, Goto
  <2>2. pc'[t] = p
    BY <2>1 DEF Types
  <2>3. block_count' = block_count + (IF p \in CountedPlaces THEN 1 ELSE 0)
                        - (IF pc[t] \in CountedPlaces THEN 1 ELSE 0)
    BY <1>15, <2>1, <2>2 DEF BlockEvent, Goto, count, Types, CountedPlaces
  <2>4. QED
    BY <2>1, <2>3, CountMoves DEF CountIsExact
<1>16. ASSUME NEW t \in Managed, BlockOwnDec(t) PROVE CountIsExact'
  <2>1. PICK p : pc' = [pc EXCEPT ![t] = p]
    BY <1>16 DEF BlockOwnDec, Goto
  <2>2. pc'[t] = p
    BY <2>1 DEF Types
  <2>3. block_count' = block_count + (IF p \in CountedPlaces THEN 1 ELSE 0)
                        - (IF pc[t] \in CountedPlaces THEN 1 ELSE 0)
    BY <1>16, <2>1, <2>2 DEF BlockOwnDec, Goto, count, Types, CountedPlaces
  <2>4. QED
    BY <2>1, <2>3, CountMoves DEF CountIsExact
<1>17. ASSUME NEW t \in Managed, BlockClearFlag(t) PROVE CountIsExact'
  <2>1. PICK p : pc' = [pc EXCEPT ![t] = p]
    BY <1>17 DEF BlockClearFlag, Goto
  <2>2. pc'[t] = p
    BY <2>1 DEF Types
  <2>3. block_count' = block_count + (IF p \in CountedPlaces THEN 1 ELSE 0)
                        - (IF pc[t] \in CountedPlaces THEN 1 ELSE 0)
    BY <1>17, <2>1, <2>2 DEF BlockClearFlag, Goto, count, Types, CountedPlaces
  <2>4. QED
    BY <2>1, <2>3, CountMoves DEF CountIsExact
<1>18. ASSUME NEW t \in Managed, BlockEventSet(t) PROVE CountIsExact'
  <2>1. PICK p : pc' = [pc EXCEPT ![t] = p]
    BY <1>18 DEF BlockEventSet, Goto
  <2>2. pc'[t] = p
    BY <2>1 DEF Types
  <2>3. block_count' = block_count + (IF p \in CountedPlaces THEN 1 ELSE 0)
                        - (IF pc[t] \in CountedPlaces THEN 1 ELSE 0)
    BY <1>18, <2>1, <2>2 DEF BlockEventSet, Goto, count, Types, CountedPlaces
  <2>4. QED
    BY <2>1, <2>3, CountMoves DEF CountIsExact
<1>19. ASSUME NEW t \in Managed, BlockRecount(t) PROVE CountIsExact'
  <2>1. PICK p : pc' = [pc EXCEPT ![t] = p]
    BY <1>19 DEF BlockRecount, Goto
  <2>2. pc'[t] = p
    BY <2>1 DEF Types
  <2>3. block_count' = block_count + (IF p \in CountedPlaces THEN 1 ELSE 0)
                        - (IF pc[t] \in CountedPlaces THEN 1 ELSE 0)
    BY <1>19, <2>1, <2>2 DEF BlockRecount, Goto, count, Types, CountedPlaces
  <2>4. QED
    BY <2>1, <2>3, CountMoves DEF CountIsExact
<1>20. ASSUME NEW t \in Managed, Unnest(t) PROVE CountIsExact'
  BY <1>20 DEF Unnest, count, CountIsExact, Counted
<1>21. ASSUME NEW t \in Managed, UnblockInc(t) PROVE CountIsExact'
  <2>1. PICK p : pc' = [pc EXCEPT ![t] = p]
    BY <1>21 DEF UnblockInc, Goto
  <2>2. pc'[t] = p
    BY <2>1 DEF Types
  <2>3. block_count' = block_count + (IF p \in CountedPlaces THEN 1 ELSE 0)
                        - (IF pc[t] \in CountedPlaces THEN 1 ELSE 0)
    BY <1>21, <2>1, <2>2 DEF UnblockInc, Goto, count, Types, CountedPlaces
  <2>4. QED
    BY <2>1, <2>3, CountMoves DEF CountIsExact
<1>22. ASSUME NEW t \in Managed, UnblockEvent(t) PROVE CountIsExact'
  <2>1. PICK p : pc' = [pc EXCEPT ![t] = p]
    BY <1>22 DEF UnblockEvent, Goto
  <2>2. pc'[t] = p
    BY <2>1 DEF Types
  <2>3. block_count' = block_count + (IF p \in CountedPlaces THEN 1 ELSE 0)
                        - (IF pc[t] \in CountedPlaces THEN 1 ELSE 0)
    BY <1>22, <2>1, <2>2 DEF UnblockEvent, Goto, count, Types, CountedPlaces
  <2>4. QED
    BY <2>1, <2>3, CountMoves DEF CountIsExact
<1>23. ASSUME NEW t \in Managed, UnblockSetFlag(t) PROVE CountIsExact'
  <2>1. PICK p : pc' = [pc EXCEPT ![t] = p]
    BY <1>23 DEF UnblockSetFlag, Goto
  <2>2. pc'[t] = p
    BY <2>1 DEF Types
  <2>3. block_count' = block_count + (IF p \in CountedPlaces THEN 1 ELSE 0)
                        - (IF pc[t] \in CountedPlaces THEN 1 ELSE 0)
    BY <1>23, <2>1, <2>2 DEF UnblockSetFlag, Goto, count, Types, CountedPlaces
  <2>4. QED
    BY <2>1, <2>3, CountMoves DEF CountIsExact
<1>24. ASSUME NEW t \in Managed, UnblockClearFlag(t) PROVE CountIsExact'
  <2>1. PICK p : pc' = [pc EXCEPT ![t] = p]
    BY <1>24 DEF UnblockClearFlag, Goto
  <2>2. pc'[t] = p
    BY <2>1 DEF Types
  <2>3. block_count' = block_count + (IF p \in CountedPlaces THEN 1 ELSE 0)
                        - (IF pc[t] \in CountedPlaces THEN 1 ELSE 0)
    BY <1>24, <2>1, <2>2 DEF UnblockClearFlag, Goto, count, Types, CountedPlaces
  <2>4. QED
    BY <2>1, <2>3, CountMoves DEF CountIsExact
<1>25. ASSUME NEW t \in Managed, UnblockWake(t) PROVE CountIsExact'
  <2>1. PICK p : pc' = [pc EXCEPT ![t] = p]
    BY <1>25 DEF UnblockWake, Goto
  <2>2. pc'[t] = p
    BY <2>1 DEF Types
  <2>3. block_count' = block_count + (IF p \in CountedPlaces THEN 1 ELSE 0)
                        - (IF pc[t] \in CountedPlaces THEN 1 ELSE 0)
    BY <1>25, <2>1, <2>2 DEF UnblockWake, Goto, count, Types, CountedPlaces
  <2>4. QED
    BY <2>1, <2>3, CountMoves DEF CountIsExact
<1>26. ASSUME NEW t \in Managed, FallAsleep(t) PROVE CountIsExact'
  <2>1. PICK p : pc' = [pc EXCEPT ![t] = p]
    BY <1>26 DEF FallAsleep, Goto
  <2>2. pc'[t] = p
    BY <2>1 DEF Types
  <2>3. block_count' = block_count + (IF p \in CountedPlaces THEN 1 ELSE 0)
                        - (IF pc[t] \in CountedPlaces THEN 1 ELSE 0)
    BY <1>26, <2>1, <2>2 DEF FallAsleep, Goto, count, Types, CountedPlaces
  <2>4. QED
    BY <2>1, <2>3, CountMoves DEF CountIsExact
<1>27. ASSUME NEW t \in Managed, Poke(t) PROVE CountIsExact'
  BY <1>27 DEF Poke, count, CountIsExact, Counted
<1>28. ASSUME NEW t \in Managed, StartBlock(t) PROVE CountIsExact'
  <2>1. PICK p : pc' = [pc EXCEPT ![t] = p]
    BY <1>28 DEF StartBlock, Goto
  <2>2. pc'[t] = p
    BY <2>1 DEF Types
  <2>3. block_count' = block_count + (IF p \in CountedPlaces THEN 1 ELSE 0)
                        - (IF pc[t] \in CountedPlaces THEN 1 ELSE 0)
    BY <1>28, <2>1, <2>2 DEF StartBlock, Goto, count, Types, CountedPlaces
  <2>4. QED
    BY <2>1, <2>3, CountMoves DEF CountIsExact
<1>29. ASSUME NEW t \in Managed, NestBlock(t) PROVE CountIsExact'
  BY <1>29 DEF NestBlock, count, CountIsExact, Counted
<1>30. CASE UNCHANGED vars
  BY <1>30 DEF vars, CountIsExact, Counted
<1>31. QED
  BY <1>1, <1>2, <1>3, <1>4, <1>5, <1>6, <1>7, <1>8, <1>9, <1>10, <1>11,
     <1>12, <1>13, <1>14, <1>15, <1>16, <1>17, <1>18, <1>19, <1>20, <1>21,
     <1>22, <1>23, <1>24, <1>25, <1>26, <1>27, <1>28, <1>29, <1>30
     DEF Next, Step, block_thread, thr_progress_block, erts_thr_progress_unblock

LEMMA HolderStep ==
  ASSUME Types, HolderInv, [Next]_vars
  PROVE  HolderInv'
<1>1. ASSUME NEW t \in Managed, BlockDec(t) PROVE HolderInv'
  BY <1>1 DEF BlockDec, block_count_dec, Goto, count, Types, HolderInv, HolderPlaces
<1>2. ASSUME NEW t \in Managed, BlockSignal(t) PROVE HolderInv'
  BY <1>2 DEF BlockSignal, SetEvent, Goto, count, Types, HolderInv, HolderPlaces
<1>3. ASSUME NEW t \in Managed, BlockPrepare(t) PROVE HolderInv'
  BY <1>3 DEF BlockPrepare, Goto, count, Types, HolderInv, HolderPlaces
<1>4. ASSUME NEW t \in Managed, BlockReadFlag(t) PROVE HolderInv'
  BY <1>4 DEF BlockReadFlag, Goto, count, Types, HolderInv, HolderPlaces
<1>5. ASSUME NEW t \in Managed, BlockWoken(t) PROVE HolderInv'
  BY <1>5 DEF BlockWoken, Goto, count, Types, HolderInv, HolderPlaces
<1>6. ASSUME NEW t \in Managed, BlockInc(t) PROVE HolderInv'
  BY <1>6 DEF BlockInc, Goto, count, Types, HolderInv, HolderPlaces
<1>7. ASSUME NEW t \in Managed, UpdateBlocks(t) PROVE HolderInv'
  BY <1>7 DEF UpdateBlocks, Goto, count, Types, HolderInv, HolderPlaces
<1>8. ASSUME NEW t \in Managed, UpdatePasses(t) PROVE HolderInv'
  BY <1>8 DEF UpdatePasses, Goto, count, Types, HolderInv, HolderPlaces
<1>9. ASSUME NEW t \in Managed, PrepareWaitDec(t) PROVE HolderInv'
  BY <1>9 DEF PrepareWaitDec, block_count_dec, Goto, count, Types, HolderInv, HolderPlaces
<1>10. ASSUME NEW t \in Managed, PrepareWaitSignal(t) PROVE HolderInv'
  BY <1>10 DEF PrepareWaitSignal, SetEvent, Goto, count, Types, HolderInv, HolderPlaces
<1>11. ASSUME NEW t \in Managed, PrepareWaitSet(t) PROVE HolderInv'
  BY <1>11 DEF PrepareWaitSet, Goto, count, Types, HolderInv, HolderPlaces
<1>12. ASSUME NEW t \in Managed, FinalizeWaitSet(t) PROVE HolderInv'
  BY <1>12 DEF FinalizeWaitSet, Goto, count, Types, HolderInv, HolderPlaces
<1>13. ASSUME NEW t \in Managed, FinalizeWaitInc(t) PROVE HolderInv'
  BY <1>13 DEF FinalizeWaitInc, Goto, count, Types, HolderInv, HolderPlaces
<1>14. ASSUME NEW t \in Managed, TryBlock(t) PROVE HolderInv'
  BY <1>14 DEF TryBlock, Goto, count, Types, HolderInv, HolderPlaces
<1>15. ASSUME NEW t \in Managed, BlockEvent(t) PROVE HolderInv'
  BY <1>15 DEF BlockEvent, Goto, count, Types, HolderInv, HolderPlaces
<1>16. ASSUME NEW t \in Managed, BlockOwnDec(t) PROVE HolderInv'
  BY <1>16 DEF BlockOwnDec, Goto, count, Types, HolderInv, HolderPlaces
<1>17. ASSUME NEW t \in Managed, BlockClearFlag(t) PROVE HolderInv'
  BY <1>17 DEF BlockClearFlag, Goto, count, Types, HolderInv, HolderPlaces
<1>18. ASSUME NEW t \in Managed, BlockEventSet(t) PROVE HolderInv'
  BY <1>18 DEF BlockEventSet, Goto, count, Types, HolderInv, HolderPlaces
<1>19. ASSUME NEW t \in Managed, BlockRecount(t) PROVE HolderInv'
  BY <1>19 DEF BlockRecount, Goto, count, Types, HolderInv, HolderPlaces
<1>20. ASSUME NEW t \in Managed, Unnest(t) PROVE HolderInv'
  BY <1>20 DEF Unnest, count, Types, HolderInv, HolderPlaces
<1>21. ASSUME NEW t \in Managed, UnblockInc(t) PROVE HolderInv'
  BY <1>21 DEF UnblockInc, Goto, count, Types, HolderInv, HolderPlaces
<1>22. ASSUME NEW t \in Managed, UnblockEvent(t) PROVE HolderInv'
  BY <1>22 DEF UnblockEvent, Goto, count, Types, HolderInv, HolderPlaces
<1>23. ASSUME NEW t \in Managed, UnblockSetFlag(t) PROVE HolderInv'
  BY <1>23 DEF UnblockSetFlag, Goto, count, Types, HolderInv, HolderPlaces
<1>24. ASSUME NEW t \in Managed, UnblockClearFlag(t) PROVE HolderInv'
  BY <1>24 DEF UnblockClearFlag, Goto, count, Types, HolderInv, HolderPlaces
<1>25. ASSUME NEW t \in Managed, UnblockWake(t) PROVE HolderInv'
  BY <1>25 DEF UnblockWake, Goto, count, Types, HolderInv, HolderPlaces
<1>26. ASSUME NEW t \in Managed, FallAsleep(t) PROVE HolderInv'
  BY <1>26 DEF FallAsleep, Goto, count, Types, HolderInv, HolderPlaces
<1>27. ASSUME NEW t \in Managed, Poke(t) PROVE HolderInv'
  BY <1>27 DEF Poke, count, Types, HolderInv, HolderPlaces
<1>28. ASSUME NEW t \in Managed, StartBlock(t) PROVE HolderInv'
  BY <1>28 DEF StartBlock, Goto, count, Types, HolderInv, HolderPlaces
<1>29. ASSUME NEW t \in Managed, NestBlock(t) PROVE HolderInv'
  BY <1>29 DEF NestBlock, count, Types, HolderInv, HolderPlaces
<1>30. CASE UNCHANGED vars
  BY <1>30 DEF vars, HolderInv
<1>31. QED
  BY <1>1, <1>2, <1>3, <1>4, <1>5, <1>6, <1>7, <1>8, <1>9, <1>10, <1>11,
     <1>12, <1>13, <1>14, <1>15, <1>16, <1>17, <1>18, <1>19, <1>20, <1>21,
     <1>22, <1>23, <1>24, <1>25, <1>26, <1>27, <1>28, <1>29, <1>30
     DEF Next, Step, block_thread, thr_progress_block, erts_thr_progress_unblock

\* A thread starts to block when nobody is counted, and then every thread that
\* enters the count sees NOT_BLOCKING cleared and leaves again.
LEMMA StoppedStep ==
  ASSUME Types, CountIsExact, HolderInv, StoppedInv, [Next]_vars
  PROVE  StoppedInv'
<1>1. ASSUME NEW t \in Managed, BlockDec(t) PROVE StoppedInv'
  BY <1>1 DEF BlockDec, block_count_dec, Goto, count, Types, HolderInv, HolderPlaces, StoppedInv, RunningPlaces
<1>2. ASSUME NEW t \in Managed, BlockSignal(t) PROVE StoppedInv'
  BY <1>2 DEF BlockSignal, SetEvent, Goto, count, Types, HolderInv, HolderPlaces, StoppedInv, RunningPlaces
<1>3. ASSUME NEW t \in Managed, BlockPrepare(t) PROVE StoppedInv'
  BY <1>3 DEF BlockPrepare, Goto, count, Types, HolderInv, HolderPlaces, StoppedInv, RunningPlaces
<1>4. ASSUME NEW t \in Managed, BlockReadFlag(t) PROVE StoppedInv'
  BY <1>4 DEF BlockReadFlag, Goto, count, Types, HolderInv, HolderPlaces, StoppedInv, RunningPlaces
<1>5. ASSUME NEW t \in Managed, BlockWoken(t) PROVE StoppedInv'
  BY <1>5 DEF BlockWoken, Goto, count, Types, HolderInv, HolderPlaces, StoppedInv, RunningPlaces
<1>6. ASSUME NEW t \in Managed, BlockInc(t) PROVE StoppedInv'
  BY <1>6 DEF BlockInc, Goto, count, Types, HolderInv, HolderPlaces, StoppedInv, RunningPlaces
<1>7. ASSUME NEW t \in Managed, UpdateBlocks(t) PROVE StoppedInv'
  BY <1>7 DEF UpdateBlocks, Goto, count, Types, HolderInv, HolderPlaces, StoppedInv, RunningPlaces
<1>8. ASSUME NEW t \in Managed, UpdatePasses(t) PROVE StoppedInv'
  BY <1>8 DEF UpdatePasses, Goto, count, Types, HolderInv, HolderPlaces, StoppedInv, RunningPlaces
<1>9. ASSUME NEW t \in Managed, PrepareWaitDec(t) PROVE StoppedInv'
  BY <1>9 DEF PrepareWaitDec, block_count_dec, Goto, count, Types, HolderInv, HolderPlaces, StoppedInv, RunningPlaces
<1>10. ASSUME NEW t \in Managed, PrepareWaitSignal(t) PROVE StoppedInv'
  BY <1>10 DEF PrepareWaitSignal, SetEvent, Goto, count, Types, HolderInv, HolderPlaces, StoppedInv, RunningPlaces
<1>11. ASSUME NEW t \in Managed, PrepareWaitSet(t) PROVE StoppedInv'
  BY <1>11 DEF PrepareWaitSet, Goto, count, Types, HolderInv, HolderPlaces, StoppedInv, RunningPlaces
<1>12. ASSUME NEW t \in Managed, FinalizeWaitSet(t) PROVE StoppedInv'
  BY <1>12 DEF FinalizeWaitSet, Goto, count, Types, HolderInv, HolderPlaces, StoppedInv, RunningPlaces
<1>13. ASSUME NEW t \in Managed, FinalizeWaitInc(t) PROVE StoppedInv'
  BY <1>13 DEF FinalizeWaitInc, Goto, count, Types, HolderInv, HolderPlaces, StoppedInv, RunningPlaces
<1>14. ASSUME NEW t \in Managed, TryBlock(t) PROVE StoppedInv'
  BY <1>14 DEF TryBlock, Goto, count, Types, HolderInv, HolderPlaces, StoppedInv, RunningPlaces
<1>15. ASSUME NEW t \in Managed, BlockEvent(t) PROVE StoppedInv'
  BY <1>15 DEF BlockEvent, Goto, count, Types, HolderInv, HolderPlaces, StoppedInv, RunningPlaces
<1>16. ASSUME NEW t \in Managed, BlockOwnDec(t) PROVE StoppedInv'
  BY <1>16 DEF BlockOwnDec, Goto, count, Types, HolderInv, HolderPlaces, StoppedInv, RunningPlaces
<1>17. ASSUME NEW t \in Managed, BlockClearFlag(t) PROVE StoppedInv'
  BY <1>17, NobodyCounted DEF BlockClearFlag, Goto, count, Types, HolderInv, HolderPlaces, StoppedInv, RunningPlaces, CountedPlaces
<1>18. ASSUME NEW t \in Managed, BlockEventSet(t) PROVE StoppedInv'
  BY <1>18 DEF BlockEventSet, Goto, count, Types, HolderInv, HolderPlaces, StoppedInv, RunningPlaces
<1>19. ASSUME NEW t \in Managed, BlockRecount(t) PROVE StoppedInv'
  BY <1>19, NobodyCounted DEF BlockRecount, Goto, count, Types, HolderInv, HolderPlaces, StoppedInv, RunningPlaces, CountedPlaces
<1>20. ASSUME NEW t \in Managed, Unnest(t) PROVE StoppedInv'
  BY <1>20 DEF Unnest, count, Types, HolderInv, HolderPlaces, StoppedInv, RunningPlaces
<1>21. ASSUME NEW t \in Managed, UnblockInc(t) PROVE StoppedInv'
  BY <1>21 DEF UnblockInc, Goto, count, Types, HolderInv, HolderPlaces, StoppedInv, RunningPlaces
<1>22. ASSUME NEW t \in Managed, UnblockEvent(t) PROVE StoppedInv'
  BY <1>22 DEF UnblockEvent, Goto, count, Types, HolderInv, HolderPlaces, StoppedInv, RunningPlaces
<1>23. ASSUME NEW t \in Managed, UnblockSetFlag(t) PROVE StoppedInv'
  BY <1>23 DEF UnblockSetFlag, Goto, count, Types, HolderInv, HolderPlaces, StoppedInv, RunningPlaces
<1>24. ASSUME NEW t \in Managed, UnblockClearFlag(t) PROVE StoppedInv'
  BY <1>24 DEF UnblockClearFlag, Goto, count, Types, HolderInv, HolderPlaces, StoppedInv, RunningPlaces
<1>25. ASSUME NEW t \in Managed, UnblockWake(t) PROVE StoppedInv'
  BY <1>25 DEF UnblockWake, Goto, count, Types, HolderInv, HolderPlaces, StoppedInv, RunningPlaces
<1>26. ASSUME NEW t \in Managed, FallAsleep(t) PROVE StoppedInv'
  BY <1>26 DEF FallAsleep, Goto, count, Types, HolderInv, HolderPlaces, StoppedInv, RunningPlaces
<1>27. ASSUME NEW t \in Managed, Poke(t) PROVE StoppedInv'
  BY <1>27 DEF Poke, count, Types, HolderInv, HolderPlaces, StoppedInv, RunningPlaces
<1>28. ASSUME NEW t \in Managed, StartBlock(t) PROVE StoppedInv'
  BY <1>28 DEF StartBlock, Goto, count, Types, HolderInv, HolderPlaces, StoppedInv, RunningPlaces
<1>29. ASSUME NEW t \in Managed, NestBlock(t) PROVE StoppedInv'
  BY <1>29 DEF NestBlock, count, Types, HolderInv, HolderPlaces, StoppedInv, RunningPlaces
<1>30. CASE UNCHANGED vars
  BY <1>30 DEF vars, StoppedInv
<1>31. QED
  BY <1>1, <1>2, <1>3, <1>4, <1>5, <1>6, <1>7, <1>8, <1>9, <1>10, <1>11,
     <1>12, <1>13, <1>14, <1>15, <1>16, <1>17, <1>18, <1>19, <1>20, <1>21,
     <1>22, <1>23, <1>24, <1>25, <1>26, <1>27, <1>28, <1>29, <1>30
     DEF Next, Step, block_thread, thr_progress_block, erts_thr_progress_unblock

LEMMA InitIInv ==
  ASSUME Init
  PROVE  IInv
<1>1. NoManaged \in Nat /\ NoManaged > 0 /\ 0 \in Managed
  BY NoManagedAssumption DEF Managed
<1>2. Types
  <2>1. block \in BOOLEAN /\ not_blocking \in BOOLEAN
    BY DEF Init
  <2>2. thr_waiting \in [Managed -> BOOLEAN] /\ sleeping \in [Managed -> BOOLEAN]
    BY DEF Init
  <2>3. is_blocking \in [Managed -> 0 .. MaxNesting] /\ blocks \in 0 .. MaxBlocks
    BY BoundsAssumption DEF Init
  <2>4. pc \in [Managed -> Places] /\ back \in [Managed -> {"run", "update", "try"}]
    BY DEF Init, Places
  <2>5. block_count \in Int /\ event \in {"null", "reset", "set"}
          /\ id \in [Managed -> Managed]
    BY <1>1 DEF Init
  <2>6. QED
    BY <2>1, <2>2, <2>3, <2>4, <2>5 DEF Types
<1>3. CountIsExact
  <2>1. Counted = Managed
    BY DEF Init, Counted, CountedPlaces
  <2>2. Cardinality(Managed) = NoManaged
    BY <1>1, FS_Interval DEF Managed
  <2>3. QED
    BY <2>1, <2>2 DEF Init, CountIsExact
<1>4. HolderInv /\ StoppedInv
  BY DEF Init, HolderInv, HolderPlaces, StoppedInv
<1>5. QED
  BY <1>2, <1>3, <1>4 DEF IInv

-----------------------------------------------------------------------------
(* The theorems.                                                           *)

\* The invariant is inductive.
THEOREM Invariance == Spec => []IInv
<1>1. Init => IInv
  BY InitIInv
<1>2. IInv /\ [Next]_vars => IInv'
  BY TypesStep, CountStep, HolderStep, StoppedStep DEF IInv
<1>3. QED
  BY <1>1, <1>2, PTL DEF Spec

\* The variables keep their types; block_count never leaves 0 .. NoManaged,
\* although two pieces of code leave and enter it on their own.
THEOREM TypeCorrect == Spec => []TypeOK
<1>1. IInv => TypeOK
  BY CountedFinite DEF IInv, Types, TypeOK, CountIsExact
<1>2. QED
  BY <1>1, Invariance, PTL

\* block_count is the number of threads that are neither stopped nor asleep,
\* nor the blocker.
THEOREM CountExact == Spec => []CountIsExact
<1>1. IInv => CountIsExact
  BY DEF IInv
<1>2. QED
  BY <1>1, Invariance, PTL

\* While erts_thr_progress_block() is in effect no other managed thread runs,
\* whatever threads were asleep, waking up or also trying to block.
THEOREM BlockExclusive == Spec => []BlockIsExclusive
<1>1. IInv => BlockIsExclusive
  BY DEF IInv, HolderInv, HolderPlaces, StoppedInv, RunningPlaces,
         BlockIsExclusive, Running, Holders
<1>2. QED
  BY <1>1, Invariance, PTL
=============================================================================

---------------------------- MODULE CodeIxProofs ----------------------------
(***************************************************************************)
(* Proofs that the safety properties of CodeIx hold for every set of       *)
(* processes and every bound on the number of changes.                     *)
(***************************************************************************)
EXTENDS CodeIx, TLAPS

\* The staging index follows the active one.
IndexInv == the_staging_code_index = NextIx(the_active_code_index)

\* Who holds the permission, and where the process is for which a commit is
\* pending or being done.
PermInv ==
  /\ PermissionIsExclusive
  /\ later_op => /\ stager \in Procs
                 /\ pc[stager] \in {"yielding", "susp_commit", "dead"}
  /\ commiter # "none" => /\ commiter_p \in Procs
                          /\ pc[commiter_p] \in {"susp_commit", "dead"}
  /\ later_op /\ commiter # "none" => /\ stager # commiter_p
                                      /\ commiter_p \in grace
  /\ \A p \in Procs : pc[p] = "yielding" => later_op /\ stager = p
  /\ is_staging => /\ code_writing_process \in Procs
                   /\ pc[code_writing_process] \in {"staging", "changed"}

\* References to process structures: the table's, the queue's, the commiter's.
Pending(p) == \/ later_op /\ stager = p /\ pc[p] # "yielding"
              \/ commiter # "none" /\ commiter_p = p

RefcInv ==
  \A p \in Procs :
    refc[p] = (IF pc[p] = "dead" THEN 0 ELSE 1)
              + (IF p \in code_write_queue THEN 1 ELSE 0)
              + (IF Pending(p) THEN 1 ELSE 0)

\* Only waiters are queued, and only while somebody holds the permission.
QueueInv ==
  /\ \A p \in code_write_queue : pc[p] \in {"susp_perm", "dead"}
  /\ code_write_queue # {} => code_writing_process # NoProc

\* A thread that is blocked runs nothing.
BlockInv ==
  /\ blocker # NoProc =>
       pc[blocker] \in {"seized", "staging", "changed",
                        "committed", "aborted", "refused"}
  /\ blocker \notin blocked
  /\ blocked # {} => blocker # NoProc
  /\ \A t \in blocked :
       /\ pc[t] \in {"out", "susp_perm", "susp_commit", "dead"}
       /\ commiter # "none" => commiter_p # t

\* What readers and the other threads have seen.
ReadInv ==
  /\ \A p \in Procs : rix[p] # NoIx => pc[p] = "bif"
  /\ ReadIndexIsNeverStaged
  /\ ReadTablesAreComplete
  /\ \A p \in Procs : p \notin blocked => the_active_code_index \in synced[p]
  /\ \A p \in Procs : pc[p] \in {"staging", "changed"} =>
                         the_staging_code_index \in synced[p]
  /\ later_op => \A p \in Procs \ grace :
                    /\ rix[p] \in {NoIx, the_active_code_index}
                    /\ the_staging_code_index \in synced[p]

ContentInv ==
  /\ NoChangeIsLost
  /\ \A p \in Procs :
       /\ pc[p] = "staging" => content[the_staging_code_index] = done
       /\ pc[p] = "changed" => content[the_staging_code_index] = done + 1
  /\ later_op => content[the_staging_code_index] = done + 1

\* The inductive invariant.
IInv == TypeOK /\ IndexInv /\ PermInv /\ QueueInv /\ RefcInv /\ BlockInv
        /\ ReadInv /\ ContentInv /\ NoLostWakeup

-----------------------------------------------------------------------------
USE DEF indexVars, permVars, tableVars, commiterVars, blockVars, procVars

\* Three indices in a row are different.
LEMMA IxCycle ==
  /\ \A i \in Ix : /\ NextIx(i) \in Ix
                   /\ NextIx(i) # i
                   /\ NextIx(NextIx(i)) # i
  /\ NoIx \notin Ix
BY SMT DEF Ix, ERTS_NUM_CODE_IX, NoIx, NextIx

\* Every step keeps the types.
LEMMA TypeStep ==
  ASSUME TypeOK, [Next]_vars
  PROVE  TypeOK'
<1> USE DEF TypeOK, Locations
<1>1. ASSUME NEW p \in Procs, NEW o \in Ops, TrySeize(p, o)  PROVE TypeOK'
  BY <1>1 DEF TrySeize, TrySeizeSucceeds, TrySeizeFails
<1>2. ASSUME NEW p \in Procs, ThrProgressBlock(p)  PROVE TypeOK'
  BY <1>2 DEF ThrProgressBlock
<1>3. ASSUME NEW p \in Procs, ThrProgressUnblock(p)  PROVE TypeOK'
  BY <1>3 DEF ThrProgressUnblock
<1>4. ASSUME NEW p \in Procs, StartStaging(p)  PROVE TypeOK'
  BY <1>4 DEF StartStaging
<1>5. ASSUME NEW p \in Procs, ChangeStaging(p)  PROVE TypeOK'
  BY <1>5 DEF ChangeStaging
<1>6. ASSUME NEW p \in Procs, AbortStaging(p)  PROVE TypeOK'
  BY <1>6 DEF AbortStaging
<1>7. ASSUME NEW p \in Procs, RejectArgument(p)  PROVE TypeOK'
  BY <1>7 DEF RejectArgument
<1>8. ASSUME NEW p \in Procs, EndAndCommit(p)  PROVE TypeOK'
  <2>1. the_active_code_index' \in Ix /\ the_staging_code_index' \in Ix
    BY <1>8, IxCycle DEF EndAndCommit, CommitStagingCodeIx
  <2>2. done' \in Nat
    BY <1>8 DEF EndAndCommit, CommitStagingCodeIx
  <2>3. QED
    BY <1>8, <2>1, <2>2 DEF EndAndCommit
<1>9. ASSUME NEW p \in Procs, EndAndSchedule(p)  PROVE TypeOK'
  BY <1>9 DEF EndAndSchedule
<1>10. ASSUME NEW p \in Procs, Suspend(p)  PROVE TypeOK'
  BY <1>10 DEF Suspend
<1>11. ASSUME NEW p \in Procs, ChangeActive(p)  PROVE TypeOK'
  BY <1>11 DEF ChangeActive
<1>12. ASSUME NEW p \in Procs, Refuse(p)  PROVE TypeOK'
  BY <1>12 DEF Refuse
<1>13. ASSUME NEW p \in Procs, Release(p)  PROVE TypeOK'
  BY <1>13 DEF Release, ReleasePermission, Resume
<1>14. ASSUME NEW p \in Procs, EnterBif(p)  PROVE TypeOK'
  BY <1>14 DEF EnterBif
<1>15. ASSUME NEW p \in Procs, ReadActiveIx(p)  PROVE TypeOK'
  BY <1>15 DEF ReadActiveIx
<1>16. ASSUME NEW p \in Procs, LeaveBif(p)  PROVE TypeOK'
  BY <1>16 DEF LeaveBif
<1>17. ASSUME NEW p \in Procs, ThrProgressUpdate(p)  PROVE TypeOK'
  BY <1>17 DEF ThrProgressUpdate, StableIx
<1>18. ASSUME NEW p \in Procs, Kill(p)  PROVE TypeOK'
  BY <1>18 DEF Kill
<1>19. ASSUME NEW p \in Procs, Terminate(p)  PROVE TypeOK'
  BY <1>19 DEF Terminate
<1>20. ASSUME NEW p \in Procs, Spawn(p)  PROVE TypeOK'
  BY <1>20 DEF Spawn
<1>21. CASE CommiterCommit
  <2>1. the_active_code_index' \in Ix /\ the_staging_code_index' \in Ix
    BY <1>21, IxCycle DEF CommiterCommit, CommitStagingCodeIx
  <2>2. done' \in Nat
    BY <1>21 DEF CommiterCommit, CommitStagingCodeIx
  <2>3. QED
    BY <1>21, <2>1, <2>2 DEF CommiterCommit
<1>22. CASE CommiterRelease
  BY <1>22 DEF CommiterRelease, ReleasePermission, Resume
<1>23. CASE CommiterResume
  <2>1. pc' \in [Procs -> Locations]
    BY <1>23 DEF CommiterResume, Resume
  <2>2. refc' \in [Procs -> Int]
    <3>1. CASE commiter_p \in Procs
      BY <1>23, <3>1 DEF CommiterResume
    <3>2. CASE commiter_p \notin Procs
      BY <1>23, <3>2 DEF CommiterResume
    <3>3. QED
      BY <3>1, <3>2
  <2>3. QED
    BY <1>23, <2>1, <2>2 DEF CommiterResume
<1>24. CASE UNCHANGED vars
  BY <1>24 DEF vars
<1>25. QED
  BY <1>1, <1>2, <1>3, <1>4, <1>5, <1>6, <1>7, <1>8, <1>9, <1>10, <1>11,
     <1>12, <1>13, <1>14, <1>15, <1>16, <1>17, <1>18, <1>19, <1>20, <1>21,
     <1>22, <1>23, <1>24
  DEF Next, Write, Read, Commiter

\* Only a commit moves the indices.
LEMMA IndexStep ==
  ASSUME TypeOK, IndexInv, [Next]_vars
  PROVE  IndexInv'
<1> USE IxCycle DEF TypeOK, IndexInv
<1>1. CASE \E p \in Procs : EndAndCommit(p)
  BY <1>1 DEF EndAndCommit, CommitStagingCodeIx
<1>2. CASE CommiterCommit
  BY <1>2 DEF CommiterCommit, CommitStagingCodeIx
<1>3. CASE UNCHANGED indexVars
  BY <1>3
<1>4. QED
  BY <1>1, <1>2, <1>3 DEF Next, vars, Write, Read, Commiter, TrySeize,
     ThrProgressBlock, ThrProgressUnblock, StartStaging, ChangeStaging,
     AbortStaging, RejectArgument, EndAndSchedule, Suspend, ChangeActive,
     Refuse, Release, EnterBif, ReadActiveIx, LeaveBif, ThrProgressUpdate,
     Kill, Terminate, Spawn, CommiterRelease, CommiterResume

\* Whoever changes code holds the permission.  A resumed waiter is neither the
\* stager nor the process a commit is being done for, because those are not
\* queued; a process that replaces a dead one is neither, because of the
\* references they hold.
LEMMA PermStep ==
  ASSUME TypeOK, PermInv, QueueInv, RefcInv, [Next]_vars
  PROVE  PermInv'
<1> USE NoProcAssumption DEF TypeOK, PermInv, PermissionIsExclusive,
          WriteLocations
<1>1. ASSUME NEW p \in Procs, NEW o \in Ops, TrySeize(p, o)  PROVE PermInv'
  BY <1>1 DEF TrySeize, TrySeizeSucceeds, TrySeizeFails
<1>2. ASSUME NEW p \in Procs, ThrProgressBlock(p)  PROVE PermInv'
  BY <1>2 DEF ThrProgressBlock
<1>3. ASSUME NEW p \in Procs, ThrProgressUnblock(p)  PROVE PermInv'
  BY <1>3 DEF ThrProgressUnblock
<1>4. ASSUME NEW p \in Procs, StartStaging(p)  PROVE PermInv'
  BY <1>4 DEF StartStaging
<1>5. ASSUME NEW p \in Procs, ChangeStaging(p)  PROVE PermInv'
  BY <1>5 DEF ChangeStaging
<1>6. ASSUME NEW p \in Procs, AbortStaging(p)  PROVE PermInv'
  BY <1>6 DEF AbortStaging
<1>7. ASSUME NEW p \in Procs, RejectArgument(p)  PROVE PermInv'
  BY <1>7 DEF RejectArgument
<1>8. ASSUME NEW p \in Procs, EndAndCommit(p)  PROVE PermInv'
  BY <1>8 DEF EndAndCommit
<1>9. ASSUME NEW p \in Procs, EndAndSchedule(p)  PROVE PermInv'
  BY <1>9 DEF EndAndSchedule
<1>10. ASSUME NEW p \in Procs, Suspend(p)  PROVE PermInv'
  BY <1>10 DEF Suspend
<1>11. ASSUME NEW p \in Procs, ChangeActive(p)  PROVE PermInv'
  BY <1>11 DEF ChangeActive
<1>12. ASSUME NEW p \in Procs, Refuse(p)  PROVE PermInv'
  BY <1>12 DEF Refuse
<1>13. ASSUME NEW p \in Procs, Release(p)  PROVE PermInv'
  BY <1>13 DEF Release, ReleasePermission, Resume, QueueInv
<1>14. ASSUME NEW p \in Procs, EnterBif(p)  PROVE PermInv'
  BY <1>14 DEF EnterBif
<1>15. ASSUME NEW p \in Procs, ReadActiveIx(p)  PROVE PermInv'
  BY <1>15 DEF ReadActiveIx
<1>16. ASSUME NEW p \in Procs, LeaveBif(p)  PROVE PermInv'
  BY <1>16 DEF LeaveBif
<1>17. ASSUME NEW p \in Procs, ThrProgressUpdate(p)  PROVE PermInv'
  BY <1>17 DEF ThrProgressUpdate, Quiescent, Runs
<1>18. ASSUME NEW p \in Procs, Kill(p)  PROVE PermInv'
  BY <1>18 DEF Kill
<1>19. ASSUME NEW p \in Procs, Terminate(p)  PROVE PermInv'
  BY <1>19 DEF Terminate
<1>20. ASSUME NEW p \in Procs, Spawn(p)  PROVE PermInv'
  BY <1>20 DEF Spawn, RefcInv, Pending
<1>21. CASE CommiterCommit
  BY <1>21 DEF CommiterCommit, Quiescent, Runs
<1>22. CASE CommiterRelease
  BY <1>22 DEF CommiterRelease, ReleasePermission, Resume, QueueInv
<1>23. CASE CommiterResume
  BY <1>23 DEF CommiterResume, Resume
<1>24. CASE UNCHANGED vars
  BY <1>24 DEF vars
<1>25. QED
  BY <1>1, <1>2, <1>3, <1>4, <1>5, <1>6, <1>7, <1>8, <1>9, <1>10, <1>11,
     <1>12, <1>13, <1>14, <1>15, <1>16, <1>17, <1>18, <1>19, <1>20, <1>21,
     <1>22, <1>23, <1>24
  DEF Next, Write, Read, Commiter

\* The queue holds waiters only.
LEMMA QueueStep ==
  ASSUME TypeOK, PermInv, QueueInv, RefcInv, [Next]_vars
  PROVE  QueueInv'
<1> USE NoProcAssumption DEF TypeOK, QueueInv
<1>1. ASSUME NEW p \in Procs, NEW o \in Ops, TrySeize(p, o)  PROVE QueueInv'
  BY <1>1 DEF TrySeize, TrySeizeSucceeds, TrySeizeFails
<1>2. ASSUME NEW p \in Procs, ThrProgressBlock(p)  PROVE QueueInv'
  BY <1>2 DEF ThrProgressBlock
<1>3. ASSUME NEW p \in Procs, ThrProgressUnblock(p)  PROVE QueueInv'
  BY <1>3 DEF ThrProgressUnblock
<1>4. ASSUME NEW p \in Procs, StartStaging(p)  PROVE QueueInv'
  BY <1>4 DEF StartStaging
<1>5. ASSUME NEW p \in Procs, ChangeStaging(p)  PROVE QueueInv'
  BY <1>5 DEF ChangeStaging
<1>6. ASSUME NEW p \in Procs, AbortStaging(p)  PROVE QueueInv'
  BY <1>6 DEF AbortStaging
<1>7. ASSUME NEW p \in Procs, RejectArgument(p)  PROVE QueueInv'
  BY <1>7 DEF RejectArgument
<1>8. ASSUME NEW p \in Procs, EndAndCommit(p)  PROVE QueueInv'
  BY <1>8 DEF EndAndCommit
<1>9. ASSUME NEW p \in Procs, EndAndSchedule(p)  PROVE QueueInv'
  BY <1>9 DEF EndAndSchedule
<1>10. ASSUME NEW p \in Procs, Suspend(p)  PROVE QueueInv'
  BY <1>10 DEF Suspend
<1>11. ASSUME NEW p \in Procs, ChangeActive(p)  PROVE QueueInv'
  BY <1>11 DEF ChangeActive
<1>12. ASSUME NEW p \in Procs, Refuse(p)  PROVE QueueInv'
  BY <1>12 DEF Refuse
<1>13. ASSUME NEW p \in Procs, Release(p)  PROVE QueueInv'
  BY <1>13 DEF Release, ReleasePermission, Resume
<1>14. ASSUME NEW p \in Procs, EnterBif(p)  PROVE QueueInv'
  BY <1>14 DEF EnterBif
<1>15. ASSUME NEW p \in Procs, ReadActiveIx(p)  PROVE QueueInv'
  BY <1>15 DEF ReadActiveIx
<1>16. ASSUME NEW p \in Procs, LeaveBif(p)  PROVE QueueInv'
  BY <1>16 DEF LeaveBif
<1>17. ASSUME NEW p \in Procs, ThrProgressUpdate(p)  PROVE QueueInv'
  BY <1>17 DEF ThrProgressUpdate, StableIx
<1>18. ASSUME NEW p \in Procs, Kill(p)  PROVE QueueInv'
  BY <1>18 DEF Kill
<1>19. ASSUME NEW p \in Procs, Terminate(p)  PROVE QueueInv'
  BY <1>19 DEF Terminate
<1>20. ASSUME NEW p \in Procs, Spawn(p)  PROVE QueueInv'
  BY <1>20 DEF Spawn, RefcInv, Pending
<1>21. CASE CommiterCommit
  BY <1>21 DEF CommiterCommit
<1>22. CASE CommiterRelease
  BY <1>22 DEF CommiterRelease, ReleasePermission, Resume
<1>23. CASE CommiterResume
  BY <1>23 DEF CommiterResume, Resume, PermInv
<1>24. CASE UNCHANGED vars
  BY <1>24 DEF vars
<1>25. QED
  BY <1>1, <1>2, <1>3, <1>4, <1>5, <1>6, <1>7, <1>8, <1>9, <1>10, <1>11,
     <1>12, <1>13, <1>14, <1>15, <1>16, <1>17, <1>18, <1>19, <1>20, <1>21,
     <1>22, <1>23, <1>24
  DEF Next, Write, Read, Commiter

\* References to processes are counted.
LEMMA RefcStep ==
  ASSUME TypeOK, PermInv, QueueInv, RefcInv, [Next]_vars
  PROVE  RefcInv'
<1> USE NoProcAssumption DEF TypeOK, PermInv, PermissionIsExclusive,
          WriteLocations, QueueInv, RefcInv, Pending
<1>1. ASSUME NEW p \in Procs, NEW o \in Ops, TrySeize(p, o)  PROVE RefcInv'
  BY <1>1 DEF TrySeize, TrySeizeSucceeds, TrySeizeFails
<1>2. ASSUME NEW p \in Procs, ThrProgressBlock(p)  PROVE RefcInv'
  BY <1>2 DEF ThrProgressBlock
<1>3. ASSUME NEW p \in Procs, ThrProgressUnblock(p)  PROVE RefcInv'
  BY <1>3 DEF ThrProgressUnblock
<1>4. ASSUME NEW p \in Procs, StartStaging(p)  PROVE RefcInv'
  BY <1>4 DEF StartStaging
<1>5. ASSUME NEW p \in Procs, ChangeStaging(p)  PROVE RefcInv'
  BY <1>5 DEF ChangeStaging
<1>6. ASSUME NEW p \in Procs, AbortStaging(p)  PROVE RefcInv'
  BY <1>6 DEF AbortStaging
<1>7. ASSUME NEW p \in Procs, RejectArgument(p)  PROVE RefcInv'
  BY <1>7 DEF RejectArgument
<1>8. ASSUME NEW p \in Procs, EndAndCommit(p)  PROVE RefcInv'
  BY <1>8 DEF EndAndCommit
<1>9. ASSUME NEW p \in Procs, EndAndSchedule(p)  PROVE RefcInv'
  BY <1>9 DEF EndAndSchedule
<1>10. ASSUME NEW p \in Procs, Suspend(p)  PROVE RefcInv'
  BY <1>10 DEF Suspend
<1>11. ASSUME NEW p \in Procs, ChangeActive(p)  PROVE RefcInv'
  BY <1>11 DEF ChangeActive
<1>12. ASSUME NEW p \in Procs, Refuse(p)  PROVE RefcInv'
  BY <1>12 DEF Refuse
<1>13. ASSUME NEW p \in Procs, Release(p)  PROVE RefcInv'
  BY <1>13 DEF Release, ReleasePermission, Resume
<1>14. ASSUME NEW p \in Procs, EnterBif(p)  PROVE RefcInv'
  BY <1>14 DEF EnterBif
<1>15. ASSUME NEW p \in Procs, ReadActiveIx(p)  PROVE RefcInv'
  BY <1>15 DEF ReadActiveIx
<1>16. ASSUME NEW p \in Procs, LeaveBif(p)  PROVE RefcInv'
  BY <1>16 DEF LeaveBif
<1>17. ASSUME NEW p \in Procs, ThrProgressUpdate(p)  PROVE RefcInv'
  BY <1>17 DEF ThrProgressUpdate, StableIx
<1>18. ASSUME NEW p \in Procs, Kill(p)  PROVE RefcInv'
  BY <1>18 DEF Kill
<1>19. ASSUME NEW p \in Procs, Terminate(p)  PROVE RefcInv'
  BY <1>19 DEF Terminate
<1>20. ASSUME NEW p \in Procs, Spawn(p)  PROVE RefcInv'
  BY <1>20 DEF Spawn
<1>21. CASE CommiterCommit
  BY <1>21 DEF CommiterCommit, Quiescent, Runs
<1>22. CASE CommiterRelease
  BY <1>22 DEF CommiterRelease, ReleasePermission, Resume
<1>23. CASE CommiterResume
  BY <1>23 DEF CommiterResume, Resume
<1>24. CASE UNCHANGED vars
  BY <1>24 DEF vars
<1>25. QED
  BY <1>1, <1>2, <1>3, <1>4, <1>5, <1>6, <1>7, <1>8, <1>9, <1>10, <1>11,
     <1>12, <1>13, <1>14, <1>15, <1>16, <1>17, <1>18, <1>19, <1>20, <1>21,
     <1>22, <1>23, <1>24
  DEF Next, Write, Read, Commiter

\* A thread that has been blocked stays where it is until the block ends.
LEMMA BlockStep ==
  ASSUME TypeOK, PermInv, BlockInv, [Next]_vars
  PROVE  BlockInv'
<1> USE NoProcAssumption DEF TypeOK, PermInv, PermissionIsExclusive,
          WriteLocations, BlockInv
<1>1. ASSUME NEW p \in Procs, NEW o \in Ops, TrySeize(p, o)  PROVE BlockInv'
  BY <1>1 DEF TrySeize, TrySeizeSucceeds, TrySeizeFails
<1>2. ASSUME NEW p \in Procs, ThrProgressBlock(p)  PROVE BlockInv'
  BY <1>2 DEF ThrProgressBlock
<1>3. ASSUME NEW p \in Procs, ThrProgressUnblock(p)  PROVE BlockInv'
  BY <1>3 DEF ThrProgressUnblock
<1>4. ASSUME NEW p \in Procs, StartStaging(p)  PROVE BlockInv'
  BY <1>4 DEF StartStaging
<1>5. ASSUME NEW p \in Procs, ChangeStaging(p)  PROVE BlockInv'
  BY <1>5 DEF ChangeStaging
<1>6. ASSUME NEW p \in Procs, AbortStaging(p)  PROVE BlockInv'
  BY <1>6 DEF AbortStaging
<1>7. ASSUME NEW p \in Procs, RejectArgument(p)  PROVE BlockInv'
  BY <1>7 DEF RejectArgument
<1>8. ASSUME NEW p \in Procs, EndAndCommit(p)  PROVE BlockInv'
  BY <1>8 DEF EndAndCommit
<1>9. ASSUME NEW p \in Procs, EndAndSchedule(p)  PROVE BlockInv'
  BY <1>9 DEF EndAndSchedule
<1>10. ASSUME NEW p \in Procs, Suspend(p)  PROVE BlockInv'
  BY <1>10 DEF Suspend
<1>11. ASSUME NEW p \in Procs, ChangeActive(p)  PROVE BlockInv'
  BY <1>11 DEF ChangeActive
<1>12. ASSUME NEW p \in Procs, Refuse(p)  PROVE BlockInv'
  BY <1>12 DEF Refuse
<1>13. ASSUME NEW p \in Procs, Release(p)  PROVE BlockInv'
  BY <1>13 DEF Release, ReleasePermission, Resume
<1>14. ASSUME NEW p \in Procs, EnterBif(p)  PROVE BlockInv'
  BY <1>14 DEF EnterBif, Runs
<1>15. ASSUME NEW p \in Procs, ReadActiveIx(p)  PROVE BlockInv'
  BY <1>15 DEF ReadActiveIx
<1>16. ASSUME NEW p \in Procs, LeaveBif(p)  PROVE BlockInv'
  BY <1>16 DEF LeaveBif
<1>17. ASSUME NEW p \in Procs, ThrProgressUpdate(p)  PROVE BlockInv'
  BY <1>17 DEF ThrProgressUpdate, Quiescent, Runs
<1>18. ASSUME NEW p \in Procs, Kill(p)  PROVE BlockInv'
  BY <1>18 DEF Kill
<1>19. ASSUME NEW p \in Procs, Terminate(p)  PROVE BlockInv'
  BY <1>19 DEF Terminate
<1>20. ASSUME NEW p \in Procs, Spawn(p)  PROVE BlockInv'
  BY <1>20 DEF Spawn
<1>21. CASE CommiterCommit
  BY <1>21 DEF CommiterCommit, Quiescent, Runs
<1>22. CASE CommiterRelease
  BY <1>22 DEF CommiterRelease, ReleasePermission, Resume
<1>23. CASE CommiterResume
  BY <1>23 DEF CommiterResume, Resume
<1>24. CASE UNCHANGED vars
  BY <1>24 DEF vars
<1>25. QED
  BY <1>1, <1>2, <1>3, <1>4, <1>5, <1>6, <1>7, <1>8, <1>9, <1>10, <1>11,
     <1>12, <1>13, <1>14, <1>15, <1>16, <1>17, <1>18, <1>19, <1>20, <1>21,
     <1>22, <1>23, <1>24
  DEF Next, Write, Read, Commiter

\* Readers see complete tables of an index that is not staged to.  A commit
\* finds every thread past the end of the staging, or blocked.
LEMMA ReadStep ==
  ASSUME TypeOK, IndexInv, PermInv, BlockInv, ReadInv, [Next]_vars
  PROVE  ReadInv'
<1> USE NoProcAssumption, IxCycle DEF TypeOK, IndexInv, PermInv,
          PermissionIsExclusive, WriteLocations, BlockInv, ReadInv,
          ReadIndexIsNeverStaged, ReadTablesAreComplete
<1>1. ASSUME NEW p \in Procs, NEW o \in Ops, TrySeize(p, o)  PROVE ReadInv'
  BY <1>1 DEF TrySeize, TrySeizeSucceeds, TrySeizeFails
<1>2. ASSUME NEW p \in Procs, ThrProgressBlock(p)  PROVE ReadInv'
  BY <1>2 DEF ThrProgressBlock
<1>3. ASSUME NEW p \in Procs, ThrProgressUnblock(p)  PROVE ReadInv'
  BY <1>3 DEF ThrProgressUnblock
<1>4. ASSUME NEW p \in Procs, StartStaging(p)  PROVE ReadInv'
  BY <1>4 DEF StartStaging
<1>5. ASSUME NEW p \in Procs, ChangeStaging(p)  PROVE ReadInv'
  BY <1>5 DEF ChangeStaging
<1>6. ASSUME NEW p \in Procs, AbortStaging(p)  PROVE ReadInv'
  BY <1>6 DEF AbortStaging
<1>7. ASSUME NEW p \in Procs, RejectArgument(p)  PROVE ReadInv'
  BY <1>7 DEF RejectArgument
<1>8. ASSUME NEW p \in Procs, EndAndCommit(p)  PROVE ReadInv'
  BY <1>8 DEF EndAndCommit, CommitStagingCodeIx, IsBlocking
<1>9. ASSUME NEW p \in Procs, EndAndSchedule(p)  PROVE ReadInv'
  BY <1>9 DEF EndAndSchedule
<1>10. ASSUME NEW p \in Procs, Suspend(p)  PROVE ReadInv'
  BY <1>10 DEF Suspend
<1>11. ASSUME NEW p \in Procs, ChangeActive(p)  PROVE ReadInv'
  BY <1>11 DEF ChangeActive
<1>12. ASSUME NEW p \in Procs, Refuse(p)  PROVE ReadInv'
  BY <1>12 DEF Refuse
<1>13. ASSUME NEW p \in Procs, Release(p)  PROVE ReadInv'
  BY <1>13 DEF Release, ReleasePermission, Resume
<1>14. ASSUME NEW p \in Procs, EnterBif(p)  PROVE ReadInv'
  BY <1>14 DEF EnterBif, Runs
<1>15. ASSUME NEW p \in Procs, ReadActiveIx(p)  PROVE ReadInv'
  BY <1>15 DEF ReadActiveIx
<1>16. ASSUME NEW p \in Procs, LeaveBif(p)  PROVE ReadInv'
  BY <1>16 DEF LeaveBif
<1>17. ASSUME NEW p \in Procs, ThrProgressUpdate(p)  PROVE ReadInv'
  BY <1>17 DEF ThrProgressUpdate, Quiescent, Runs, StableIx
<1>18. ASSUME NEW p \in Procs, Kill(p)  PROVE ReadInv'
  BY <1>18 DEF Kill
<1>19. ASSUME NEW p \in Procs, Terminate(p)  PROVE ReadInv'
  BY <1>19 DEF Terminate
<1>20. ASSUME NEW p \in Procs, Spawn(p)  PROVE ReadInv'
  BY <1>20 DEF Spawn
<1>21. CASE CommiterCommit
  BY <1>21 DEF CommiterCommit, CommitStagingCodeIx
<1>22. CASE CommiterRelease
  BY <1>22 DEF CommiterRelease, ReleasePermission, Resume
<1>23. CASE CommiterResume
  BY <1>23 DEF CommiterResume, Resume
<1>24. CASE UNCHANGED vars
  BY <1>24 DEF vars
<1>25. QED
  BY <1>1, <1>2, <1>3, <1>4, <1>5, <1>6, <1>7, <1>8, <1>9, <1>10, <1>11,
     <1>12, <1>13, <1>14, <1>15, <1>16, <1>17, <1>18, <1>19, <1>20, <1>21,
     <1>22, <1>23, <1>24
  DEF Next, Write, Read, Commiter

\* The staging tables are the active ones, plus one change once it is made.
LEMMA ContentStep ==
  ASSUME TypeOK, IndexInv, PermInv, ContentInv, [Next]_vars
  PROVE  ContentInv'
<1> USE NoProcAssumption, IxCycle DEF TypeOK, IndexInv, PermInv,
          PermissionIsExclusive, WriteLocations, ContentInv, NoChangeIsLost
<1>1. ASSUME NEW p \in Procs, NEW o \in Ops, TrySeize(p, o)  PROVE ContentInv'
  BY <1>1 DEF TrySeize, TrySeizeSucceeds, TrySeizeFails
<1>2. ASSUME NEW p \in Procs, ThrProgressBlock(p)  PROVE ContentInv'
  BY <1>2 DEF ThrProgressBlock
<1>3. ASSUME NEW p \in Procs, ThrProgressUnblock(p)  PROVE ContentInv'
  BY <1>3 DEF ThrProgressUnblock
<1>4. ASSUME NEW p \in Procs, StartStaging(p)  PROVE ContentInv'
  BY <1>4 DEF StartStaging
<1>5. ASSUME NEW p \in Procs, ChangeStaging(p)  PROVE ContentInv'
  BY <1>5 DEF ChangeStaging
<1>6. ASSUME NEW p \in Procs, AbortStaging(p)  PROVE ContentInv'
  BY <1>6 DEF AbortStaging
<1>7. ASSUME NEW p \in Procs, RejectArgument(p)  PROVE ContentInv'
  BY <1>7 DEF RejectArgument
<1>8. ASSUME NEW p \in Procs, EndAndCommit(p)  PROVE ContentInv'
  BY <1>8 DEF EndAndCommit, CommitStagingCodeIx
<1>9. ASSUME NEW p \in Procs, EndAndSchedule(p)  PROVE ContentInv'
  BY <1>9 DEF EndAndSchedule
<1>10. ASSUME NEW p \in Procs, Suspend(p)  PROVE ContentInv'
  BY <1>10 DEF Suspend
<1>11. ASSUME NEW p \in Procs, ChangeActive(p)  PROVE ContentInv'
  BY <1>11 DEF ChangeActive
<1>12. ASSUME NEW p \in Procs, Refuse(p)  PROVE ContentInv'
  BY <1>12 DEF Refuse
<1>13. ASSUME NEW p \in Procs, Release(p)  PROVE ContentInv'
  BY <1>13 DEF Release, ReleasePermission, Resume
<1>14. ASSUME NEW p \in Procs, EnterBif(p)  PROVE ContentInv'
  BY <1>14 DEF EnterBif
<1>15. ASSUME NEW p \in Procs, ReadActiveIx(p)  PROVE ContentInv'
  BY <1>15 DEF ReadActiveIx
<1>16. ASSUME NEW p \in Procs, LeaveBif(p)  PROVE ContentInv'
  BY <1>16 DEF LeaveBif
<1>17. ASSUME NEW p \in Procs, ThrProgressUpdate(p)  PROVE ContentInv'
  BY <1>17 DEF ThrProgressUpdate
<1>18. ASSUME NEW p \in Procs, Kill(p)  PROVE ContentInv'
  BY <1>18 DEF Kill
<1>19. ASSUME NEW p \in Procs, Terminate(p)  PROVE ContentInv'
  BY <1>19 DEF Terminate
<1>20. ASSUME NEW p \in Procs, Spawn(p)  PROVE ContentInv'
  BY <1>20 DEF Spawn
<1>21. CASE CommiterCommit
  BY <1>21 DEF CommiterCommit, CommitStagingCodeIx
<1>22. CASE CommiterRelease
  BY <1>22 DEF CommiterRelease, ReleasePermission, Resume
<1>23. CASE CommiterResume
  BY <1>23 DEF CommiterResume, Resume
<1>24. CASE UNCHANGED vars
  BY <1>24 DEF vars
<1>25. QED
  BY <1>1, <1>2, <1>3, <1>4, <1>5, <1>6, <1>7, <1>8, <1>9, <1>10, <1>11,
     <1>12, <1>13, <1>14, <1>15, <1>16, <1>17, <1>18, <1>19, <1>20, <1>21,
     <1>22, <1>23, <1>24
  DEF Next, Write, Read, Commiter

\* A suspended process keeps someone to resume it.
LEMMA WakeupStep ==
  ASSUME TypeOK, PermInv, QueueInv, NoLostWakeup, [Next]_vars
  PROVE  NoLostWakeup'
<1> USE NoProcAssumption DEF TypeOK, PermInv, PermissionIsExclusive,
          WriteLocations, QueueInv, NoLostWakeup
<1>1. ASSUME NEW p \in Procs, NEW o \in Ops, TrySeize(p, o)  PROVE NoLostWakeup'
  BY <1>1 DEF TrySeize, TrySeizeSucceeds, TrySeizeFails
<1>2. ASSUME NEW p \in Procs, ThrProgressBlock(p)  PROVE NoLostWakeup'
  BY <1>2 DEF ThrProgressBlock
<1>3. ASSUME NEW p \in Procs, ThrProgressUnblock(p)  PROVE NoLostWakeup'
  BY <1>3 DEF ThrProgressUnblock
<1>4. ASSUME NEW p \in Procs, StartStaging(p)  PROVE NoLostWakeup'
  BY <1>4 DEF StartStaging
<1>5. ASSUME NEW p \in Procs, ChangeStaging(p)  PROVE NoLostWakeup'
  BY <1>5 DEF ChangeStaging
<1>6. ASSUME NEW p \in Procs, AbortStaging(p)  PROVE NoLostWakeup'
  BY <1>6 DEF AbortStaging
<1>7. ASSUME NEW p \in Procs, RejectArgument(p)  PROVE NoLostWakeup'
  BY <1>7 DEF RejectArgument
<1>8. ASSUME NEW p \in Procs, EndAndCommit(p)  PROVE NoLostWakeup'
  BY <1>8 DEF EndAndCommit
<1>9. ASSUME NEW p \in Procs, EndAndSchedule(p)  PROVE NoLostWakeup'
  BY <1>9 DEF EndAndSchedule
<1>10. ASSUME NEW p \in Procs, Suspend(p)  PROVE NoLostWakeup'
  BY <1>10 DEF Suspend
<1>11. ASSUME NEW p \in Procs, ChangeActive(p)  PROVE NoLostWakeup'
  BY <1>11 DEF ChangeActive
<1>12. ASSUME NEW p \in Procs, Refuse(p)  PROVE NoLostWakeup'
  BY <1>12 DEF Refuse
<1>13. ASSUME NEW p \in Procs, Release(p)  PROVE NoLostWakeup'
  BY <1>13 DEF Release, ReleasePermission, Resume
<1>14. ASSUME NEW p \in Procs, EnterBif(p)  PROVE NoLostWakeup'
  BY <1>14 DEF EnterBif
<1>15. ASSUME NEW p \in Procs, ReadActiveIx(p)  PROVE NoLostWakeup'
  BY <1>15 DEF ReadActiveIx
<1>16. ASSUME NEW p \in Procs, LeaveBif(p)  PROVE NoLostWakeup'
  BY <1>16 DEF LeaveBif
<1>17. ASSUME NEW p \in Procs, ThrProgressUpdate(p)  PROVE NoLostWakeup'
  BY <1>17 DEF ThrProgressUpdate, StableIx
<1>18. ASSUME NEW p \in Procs, Kill(p)  PROVE NoLostWakeup'
  BY <1>18 DEF Kill
<1>19. ASSUME NEW p \in Procs, Terminate(p)  PROVE NoLostWakeup'
  BY <1>19 DEF Terminate
<1>20. ASSUME NEW p \in Procs, Spawn(p)  PROVE NoLostWakeup'
  BY <1>20 DEF Spawn
<1>21. CASE CommiterCommit
  BY <1>21 DEF CommiterCommit
<1>22. CASE CommiterRelease
  BY <1>22 DEF CommiterRelease, ReleasePermission, Resume
<1>23. CASE CommiterResume
  BY <1>23 DEF CommiterResume, Resume
<1>24. CASE UNCHANGED vars
  BY <1>24 DEF vars
<1>25. QED
  BY <1>1, <1>2, <1>3, <1>4, <1>5, <1>6, <1>7, <1>8, <1>9, <1>10, <1>11,
     <1>12, <1>13, <1>14, <1>15, <1>16, <1>17, <1>18, <1>19, <1>20, <1>21,
     <1>22, <1>23, <1>24
  DEF Next, Write, Read, Commiter

\* The state after preloading satisfies the inductive invariant.
LEMMA IInvInit == Init => IInv
<1> SUFFICES ASSUME Init  PROVE IInv
  OBVIOUS
<1> USE NoProcAssumption DEF Init
<1>1. 0 \in Ix /\ 1 \in Ix /\ NextIx(0) = 1 /\ NoIx # 1
  BY DEF Ix, ERTS_NUM_CODE_IX, NextIx, NoIx
<1>2. TypeOK
  <2>1. synced \in [Procs -> SUBSET Ix]
    OBVIOUS
  <2>2. content \in [Ix -> Nat]
    OBVIOUS
  <2>3. exiting \in [Procs -> BOOLEAN]
    OBVIOUS
  <2>4. pc \in [Procs -> Locations] /\ op \in [Procs -> Ops \cup {NoOp}]
    BY DEF Locations
  <2>5. rix \in [Procs -> Ix \cup {NoIx}] /\ refc \in [Procs -> Int]
    OBVIOUS
  <2>6. QED
    BY <1>1, <2>1, <2>2, <2>3, <2>4, <2>5 DEF TypeOK
<1>3. IndexInv /\ QueueInv /\ BlockInv /\ ContentInv /\ NoLostWakeup
  BY <1>1 DEF IndexInv, QueueInv, BlockInv, ContentInv, NoChangeIsLost,
              NoLostWakeup
<1>4. PermInv
  BY DEF PermInv, PermissionIsExclusive, WriteLocations
<1>5. RefcInv
  BY DEF RefcInv, Pending
<1>6. ReadInv
  BY <1>1 DEF ReadInv, ReadIndexIsNeverStaged, ReadTablesAreComplete
<1>7. QED
  BY <1>2, <1>3, <1>4, <1>5, <1>6 DEF IInv

\* Every step of a process or of the commiter keeps it.
LEMMA IInvStep == IInv /\ [Next]_vars => IInv'
BY TypeStep, IndexStep, PermStep, QueueStep, RefcStep, BlockStep, ReadStep,
   ContentStep, WakeupStep
   DEF IInv

\* The inductive invariant holds in every reachable state.
THEOREM Invariance == Spec => []IInv
BY IInvInit, IInvStep, PTL DEF Spec

\* Every variable of code_ix.c and beam_bif_load.c keeps its type.
THEOREM TypeCorrect == Spec => []TypeOK
BY Invariance, PTL DEF IInv

\* At most one code change is under way, from erts_try_seize to the release by
\* the BIF or by smp_code_ix_commiter.
THEOREM PermissionExclusive == Spec => []PermissionIsExclusive
<1>1. IInv => PermissionIsExclusive
  BY DEF IInv, PermInv
<1>2. QED
  BY Invariance, <1>1, PTL

\* The index a BIF got from erts_active_code_ix stays valid until it returns.
THEOREM ReadIndexValid == Spec => []ReadIndexIsNeverStaged
<1>1. IInv => ReadIndexIsNeverStaged
  BY DEF IInv, ReadInv
<1>2. QED
  BY Invariance, <1>1, PTL

\* A BIF that executes no memory barrier still reads complete tables.
THEOREM ReadTablesComplete == Spec => []ReadTablesAreComplete
<1>1. IInv => ReadTablesAreComplete
  BY DEF IInv, ReadInv
<1>2. QED
  BY Invariance, <1>1, PTL

\* The active tables hold every change made so far.
THEOREM NoLostChange == Spec => []NoChangeIsLost
<1>1. IInv => NoChangeIsLost
  BY DEF IInv, ContentInv
<1>2. QED
  BY Invariance, <1>1, PTL

\* Releasing the permission and resuming the stager touch no freed process.
THEOREM ReferencesHeld == Spec => []NoUseAfterFree
<1>1. IInv => NoUseAfterFree
  BY DEF IInv, TypeOK, PermInv, RefcInv, Pending, NoUseAfterFree
<1>2. QED
  BY Invariance, <1>1, PTL

\* A suspended process has someone who will resume it.
THEOREM WakeupKept == Spec => []NoLostWakeup
BY Invariance, PTL DEF IInv

\* A commit finds no BIF that started before the previous one.
THEOREM OneCommitPerBif == Spec => NoBifSpansTwoCommits
<1> DEFINE Overtakes ==
      the_active_code_index' # the_active_code_index =>
        \A p \in Procs : rix[p] \in {NoIx, the_active_code_index}
<1>1. IInv /\ [Next]_vars => [Overtakes]_vars
  <2> SUFFICES ASSUME IInv, Next  PROVE Overtakes
    BY DEF vars
  <2> USE DEF IInv, TypeOK, ReadInv, PermInv, BlockInv
  <2>1. CASE \E p \in Procs : EndAndCommit(p)
    BY <2>1, NoProcAssumption DEF EndAndCommit, IsBlocking
  <2>2. CASE CommiterCommit
    BY <2>2 DEF CommiterCommit
  <2>3. CASE UNCHANGED the_active_code_index
    BY <2>3
  <2>4. QED
    BY <2>1, <2>2, <2>3 DEF Next, Write, Read, Commiter, TrySeize,
       ThrProgressBlock, ThrProgressUnblock, StartStaging, ChangeStaging,
       AbortStaging, RejectArgument, EndAndSchedule, Suspend, ChangeActive,
       Refuse, Release, EnterBif, ReadActiveIx, LeaveBif, ThrProgressUpdate,
       Kill, Terminate, Spawn, CommiterRelease, CommiterResume
<1>2. QED
  BY Invariance, <1>1, PTL DEF Spec, NoBifSpansTwoCommits
=============================================================================

------------------------------- MODULE CodeIx -------------------------------
(***************************************************************************)
(* The code index of the emulator: code_ix.c, and the BIFs of              *)
(* beam_bif_load.c that change code through it.                            *)
(*                                                                         *)
(* All loaded code hangs off tables (modules, exports, catches, ranges)    *)
(* that exist in ERTS_NUM_CODE_IX copies.  BIFs and the interpreter read   *)
(* the copy of the active index without any lock or memory barrier.  A     *)
(* process that changes code seizes the code write permission, copies the  *)
(* active tables to the staging index, changes that copy and commits it,   *)
(* either at once, with every other scheduler blocked, or from a "later"   *)
(* operation that runs when every scheduler has passed a thread progress   *)
(* point.  Purging and finishing an on_load edit the active tables in      *)
(* place.                                                                  *)
(*                                                                         *)
(* Every process has a scheduler thread of its own here, so that as many   *)
(* of them run at once as there are processes; a process and its thread    *)
(* share a name.  The thread outlives its process.                         *)
(***************************************************************************)
EXTENDS Integers, FiniteSets

CONSTANTS Procs,      \* processes, each with its scheduler thread
          NoProc,     \* NULL
          MaxChanges  \* bound: no code change starts after so many

ASSUME NoProcAssumption == NoProc \notin Procs
ASSUME MaxChangesAssumption == MaxChanges \in Nat

\* Mutant: two copies of the tables only.
NumCodeIxTwo == 2

ERTS_NUM_CODE_IX == 3

Ix == 0 .. ERTS_NUM_CODE_IX - 1

NoIx == -1

\* The index to stage to after i has become active.
NextIx(i) == (i + 1) % ERTS_NUM_CODE_IX

\* The BIFs that seize the permission.
Ops == {"finish_loading", "delete_module", "make_stub",
        "finish_after_on_load", "purge_module"}

NoOp == "no_op"

\* Where a process is.
\*   out          between two BIFs that concern code; its scheduler may switch
\*   bif          in a BIF that looks code up
\*   seized       holds the permission and has changed nothing yet
\*   staging      after erts_start_staging_code_ix
\*   changed      the staging tables hold the new code
\*   yielding     has scheduled the commit, not suspended itself yet
\*   committed    code changed; permission, and perhaps a block, still held
\*   aborted      the same after erts_abort_staging_code_ix
\*   refused      an error return that called neither
\*   susp_perm    suspended in code_write_queue
\*   susp_commit  suspended until smp_code_ix_commiter resumes it
\*   dead         erts_continue_exit_process is done
Locations == {"out", "bif", "seized", "staging", "changed", "yielding",
              "committed", "aborted", "refused", "susp_perm", "susp_commit",
              "dead"}

VARIABLES
  the_active_code_index,
  the_staging_code_index,
  code_writing_process,   \* holder of the write permission, or NoProc
  code_write_queue,       \* processes suspended by a failed try_seize
  is_staging,             \* between start and end or abort of a staging
  content,                \* content[i]: number of changes the tables of i hold
  done,                   \* number of code changes made active so far
  pc, op,                 \* location of a process and the BIF it runs
  rix,                    \* the code index a BIF has read, or NoIx
  synced,                 \* synced[t]: indices whose tables t sees complete
  exiting,                \* ERTS_PROC_IS_EXITING
  refc,                   \* references to the process structure
  stager,                 \* commiter_state.stager
  later_op,               \* commiter_state.lop is in the list of its thread
  grace,                  \* threads yet to pass the progress point of the lop
  commiter,               \* where smp_code_ix_commiter is
  commiter_p,             \* its local variable p
  blocker,                \* thread that asked for a thread progress block
  blocked                 \* threads stopped by that block

indexVars    == <<the_active_code_index, the_staging_code_index>>
permVars     == <<code_writing_process, code_write_queue>>
tableVars    == <<is_staging, content, done>>
commiterVars == <<stager, later_op, grace, commiter, commiter_p>>
blockVars    == <<blocker, blocked>>
procVars     == <<pc, op, rix, synced, exiting, refc>>

vars == <<indexVars, permVars, tableVars, commiterVars, blockVars, procVars>>

TypeOK ==
  /\ the_active_code_index \in Ix
  /\ the_staging_code_index \in Ix
  /\ code_writing_process \in Procs \cup {NoProc}
  /\ code_write_queue \subseteq Procs
  /\ is_staging \in BOOLEAN
  /\ content \in [Ix -> Nat]
  /\ done \in Nat
  /\ pc \in [Procs -> Locations]
  /\ op \in [Procs -> Ops \cup {NoOp}]
  /\ rix \in [Procs -> Ix \cup {NoIx}]
  /\ synced \in [Procs -> SUBSET Ix]
  /\ exiting \in [Procs -> BOOLEAN]
  /\ refc \in [Procs -> Int]
  /\ stager \in Procs \cup {NoProc}
  /\ later_op \in BOOLEAN
  /\ grace \subseteq Procs
  /\ commiter \in {"none", "committed", "released"}
  /\ commiter_p \in Procs \cup {NoProc}
  /\ blocker \in Procs \cup {NoProc}
  /\ blocked \subseteq Procs

\* The state erl_start leaves: preloading, done single threaded with both
\* indices 0, has been committed.
Init ==
  /\ the_active_code_index = 0
  /\ the_staging_code_index = 1
  /\ code_writing_process = NoProc
  /\ code_write_queue = {}
  /\ is_staging = FALSE
  /\ content = [i \in Ix |-> 0]
  /\ done = 0
  /\ pc = [p \in Procs |-> "out"]
  /\ op = [p \in Procs |-> NoOp]
  /\ rix = [p \in Procs |-> NoIx]
  /\ synced = [p \in Procs |-> Ix]
  /\ exiting = [p \in Procs |-> FALSE]
  /\ refc = [p \in Procs |-> 1]
  /\ stager = NoProc
  /\ later_op = FALSE
  /\ grace = {}
  /\ commiter = "none"
  /\ commiter_p = NoProc
  /\ blocker = NoProc
  /\ blocked = {}

-----------------------------------------------------------------------------
(* Thread progress, as this code uses it.                                  *)

\* p's thread runs Erlang code: neither stopped by a block nor in a commiter.
Runs(p) == /\ p \notin blocked
           /\ ~(commiter # "none" /\ commiter_p = p)

\* p's thread is between two processes, where it calls
\* erts_thr_progress_update.
Quiescent(p) == /\ pc[p] \in {"out", "susp_perm", "susp_commit", "dead"}
                /\ Runs(p)

\* p has all other schedulers blocked.
IsBlocking(p) == blocker = p /\ blocked = Procs \ {p}

\* p asked for a block and waits for the others to stop.
WaitsForBlock(p) == blocker = p /\ blocked # Procs \ {p}

\* The tables no thread is in the middle of changing.
StableIx == Ix \ (IF is_staging THEN {the_staging_code_index} ELSE {})

\* A managed thread reports that it has passed a quiescent point: a full
\* memory barrier, after which it counts as passed for the later op, and
\* stops if some thread wants to be alone.
ThrProgressUpdate(p) ==
  /\ Quiescent(p)
  /\ p \in grace \/ blocker # NoProc
  /\ grace' = grace \ {p}
  /\ synced' = [synced EXCEPT ![p] = StableIx]
  /\ blocked' = IF blocker = NoProc THEN blocked ELSE blocked \cup {p}
  /\ UNCHANGED <<indexVars, permVars, tableVars, stager, later_op, commiter,
                 commiter_p, blocker, pc, op, rix, exiting, refc>>

\* erts_smp_thr_progress_block: the BIFs that block before they look at the
\* tables, and the two that do so when the module turns out to be traced.
ThrProgressBlock(p) ==
  /\ \/ pc[p] = "seized"
        /\ op[p] \in {"make_stub", "finish_after_on_load", "purge_module"}
     \/ pc[p] = "staging" /\ op[p] \in {"finish_loading", "delete_module"}
  /\ blocker = NoProc
  /\ blocker' = p
  /\ blocked' = {}
  /\ UNCHANGED <<indexVars, permVars, tableVars, commiterVars, procVars>>

\* erts_smp_thr_progress_unblock: a full barrier for the threads it lets go.
ThrProgressUnblock(p) ==
  /\ pc[p] \in {"committed", "aborted", "refused"}
  /\ IsBlocking(p)
  /\ blocker' = NoProc
  /\ blocked' = {}
  /\ synced' = [t \in Procs |-> Ix]
  /\ UNCHANGED <<indexVars, permVars, tableVars, commiterVars,
                 pc, op, rix, exiting, refc>>

-----------------------------------------------------------------------------
(* The write permission.                                                   *)

\* erts_resume, called with the status lock held: no effect on a process that
\* is exiting, and none on one that has not suspended itself.
Resume(S) ==
  [p \in Procs |-> IF /\ p \in S
                      /\ ~exiting[p]
                      /\ pc[p] \in {"susp_perm", "susp_commit"}
                   THEN "out" ELSE pc[p]]

\* Mutant: the holder is not checked.
SeizeUnchecked(p, o) ==
  /\ code_writing_process' = p
  /\ pc' = [pc EXCEPT ![p] = "seized"]
  /\ op' = [op EXCEPT ![p] = o]
  /\ UNCHANGED <<code_write_queue, refc>>

TrySeizeSucceeds(p, o) ==
  /\ code_writing_process = NoProc
  /\ code_writing_process' = p
  /\ pc' = [pc EXCEPT ![p] = "seized"]
  /\ op' = [op EXCEPT ![p] = o]
  /\ UNCHANGED <<code_write_queue, refc>>

\* Mutant: the queue takes no reference to the waiter.
QueueWithoutReference(p) ==
  /\ code_writing_process # NoProc
  /\ code_write_queue' = code_write_queue \cup {p}
  /\ pc' = [pc EXCEPT ![p] = "susp_perm"]
  /\ UNCHANGED <<code_writing_process, op, refc>>

TrySeizeFails(p) ==
  /\ code_writing_process # NoProc
  /\ code_write_queue' = code_write_queue \cup {p}
  /\ refc' = [refc EXCEPT ![p] = @ + 1]
  /\ pc' = [pc EXCEPT ![p] = "susp_perm"]
  /\ UNCHANGED <<code_writing_process, op>>

\* A code changing BIF begins: erts_try_seize_code_write_permission, atomic
\* under its mutex.  A caller that fails is suspended and calls the BIF again
\* when resumed.
TrySeize(p, o) ==
  /\ pc[p] = "out"
  /\ Runs(p)
  /\ done < MaxChanges
  /\ TrySeizeSucceeds(p, o) \/ TrySeizeFails(p)
  /\ UNCHANGED <<indexVars, tableVars, commiterVars, blockVars,
                 rix, synced, exiting>>

\* erts_release_code_write_permission forgets every waiter; its callers add
\* the effect of resuming them.
ReleasePermission ==
  /\ code_writing_process' = NoProc
  /\ code_write_queue' = {}
  /\ refc' = [p \in Procs |->
                IF p \in code_write_queue THEN refc[p] - 1 ELSE refc[p]]

\* The last thing a BIF that commits or aborts by itself does.
Release(p) ==
  /\ pc[p] \in {"committed", "aborted", "refused"}
  /\ blocker # p
  /\ ReleasePermission
  /\ pc' = [Resume(code_write_queue) EXCEPT ![p] = "out"]
  /\ op' = [op EXCEPT ![p] = NoOp]
  /\ UNCHANGED <<indexVars, tableVars, commiterVars, blockVars,
                 rix, synced, exiting>>

-----------------------------------------------------------------------------
(* Staging.                                                                *)

\* Mutant: the tables of the staging index are used as they were left.
StageWithoutCopy(p) ==
  /\ pc[p] = "seized"
  /\ \/ op[p] \in {"finish_loading", "delete_module"}
     \/ op[p] = "make_stub" /\ IsBlocking(p)
  /\ is_staging' = TRUE
  /\ pc' = [pc EXCEPT ![p] = "staging"]
  /\ UNCHANGED <<indexVars, permVars, content, done, commiterVars, blockVars,
                 op, rix, synced, exiting, refc>>

\* erts_start_staging_code_ix: the staging tables become a copy of the active.
StartStaging(p) ==
  /\ pc[p] = "seized"
  /\ \/ op[p] \in {"finish_loading", "delete_module"}
     \/ op[p] = "make_stub" /\ IsBlocking(p)
  /\ is_staging' = TRUE
  /\ content' = [content EXCEPT ![the_staging_code_index] =
                                  content[the_active_code_index]]
  /\ synced' = [t \in Procs |->
                  IF t = p THEN synced[t] \cup {the_staging_code_index}
                  ELSE synced[t] \ {the_staging_code_index}]
  /\ pc' = [pc EXCEPT ![p] = "staging"]
  /\ UNCHANGED <<indexVars, permVars, done, commiterVars, blockVars,
                 op, rix, exiting, refc>>

\* erts_finish_loading, delete_code or erts_make_stub_module change the
\* staging tables.
ChangeStaging(p) ==
  /\ pc[p] = "staging"
  /\ ~WaitsForBlock(p)
  /\ content' = [content EXCEPT ![the_staging_code_index] = @ + 1]
  /\ pc' = [pc EXCEPT ![p] = "changed"]
  /\ UNCHANGED <<indexVars, permVars, is_staging, done, commiterVars,
                 blockVars, op, rix, synced, exiting, refc>>

\* A module that has old code, is unknown or has a malformed stub:
\* erts_abort_staging_code_ix.
AbortStaging(p) ==
  /\ pc[p] = "staging"
  /\ ~WaitsForBlock(p)
  /\ is_staging' = FALSE
  /\ pc' = [pc EXCEPT ![p] = "aborted"]
  /\ UNCHANGED <<indexVars, permVars, content, done, commiterVars,
                 blockVars, op, rix, synced, exiting, refc>>

\* finish_loading_1 rejects its argument before it has started to stage; it
\* leaves through staging_epilogue all the same, which calls abort.
RejectArgument(p) ==
  /\ pc[p] = "seized"
  /\ op[p] = "finish_loading"
  /\ is_staging' = FALSE
  /\ pc' = [pc EXCEPT ![p] = "aborted"]
  /\ UNCHANGED <<indexVars, permVars, content, done, commiterVars,
                 blockVars, op, rix, synced, exiting, refc>>

\* Mutant: the staging index does not wrap.
CommitWithoutWrap ==
  /\ the_active_code_index' = the_staging_code_index
  /\ the_staging_code_index' = the_staging_code_index + 1
  /\ done' = done + 1

\* erts_commit_staging_code_ix.  The two stores are one step: the staging index
\* is read by the holder of the permission, or under the export staging lock,
\* which the commit holds.
CommitStagingCodeIx ==
  /\ the_active_code_index' = the_staging_code_index
  /\ the_staging_code_index' = NextIx(the_staging_code_index)
  /\ done' = done + 1

\* staging_epilogue, and make_stub, with the other schedulers blocked.
EndAndCommit(p) ==
  /\ pc[p] = "changed"
  /\ IsBlocking(p)
  /\ is_staging' = FALSE
  /\ CommitStagingCodeIx
  /\ pc' = [pc EXCEPT ![p] = "committed"]
  /\ UNCHANGED <<permVars, content, commiterVars, blockVars,
                 op, rix, synced, exiting, refc>>

\* Mutant: the commit waits for nobody.
ScheduleWithoutGrace(p) ==
  /\ pc[p] = "changed"
  /\ blocker # p
  /\ is_staging' = FALSE
  /\ stager' = p
  /\ later_op' = TRUE
  /\ grace' = {}
  /\ pc' = [pc EXCEPT ![p] = "yielding"]
  /\ UNCHANGED <<indexVars, permVars, content, done, commiter, commiter_p,
                 blockVars, op, rix, synced, exiting, refc>>

\* Mutant: the commit waits for the stager's own thread only.
ScheduleOwnThread(p) ==
  /\ pc[p] = "changed"
  /\ blocker # p
  /\ is_staging' = FALSE
  /\ stager' = p
  /\ later_op' = TRUE
  /\ grace' = {p}
  /\ pc' = [pc EXCEPT ![p] = "yielding"]
  /\ UNCHANGED <<indexVars, permVars, content, done, commiter, commiter_p,
                 blockVars, op, rix, synced, exiting, refc>>

\* staging_epilogue otherwise: the commit is left to smp_code_ix_commiter.
\* The later op waits for every managed thread, this one included.
EndAndSchedule(p) ==
  /\ pc[p] = "changed"
  /\ blocker # p
  /\ is_staging' = FALSE
  /\ stager' = p
  /\ later_op' = TRUE
  /\ grace' = Procs
  /\ pc' = [pc EXCEPT ![p] = "yielding"]
  /\ UNCHANGED <<indexVars, permVars, content, done, commiter, commiter_p,
                 blockVars, op, rix, synced, exiting, refc>>

\* The rest of staging_epilogue: the stager is suspended and its BIF yields.
Suspend(p) ==
  /\ pc[p] = "yielding"
  /\ refc' = [refc EXCEPT ![p] = @ + 1]
  /\ pc' = [pc EXCEPT ![p] = "susp_commit"]
  /\ op' = [op EXCEPT ![p] = NoOp]
  /\ UNCHANGED <<indexVars, permVars, tableVars, commiterVars, blockVars,
                 rix, synced, exiting>>

-----------------------------------------------------------------------------
(* smp_code_ix_commiter, called by the thread that scheduled it.           *)

\* Mutant: nothing is committed for a stager that is exiting.
CommitOnlyIfAlive ==
  /\ later_op
  /\ grace = {}
  /\ Quiescent(stager)
  /\ later_op' = FALSE
  /\ commiter_p' = stager
  /\ commiter' = "committed"
  /\ IF exiting[stager] THEN UNCHANGED <<indexVars, done>>
     ELSE /\ the_active_code_index' = the_staging_code_index
          /\ the_staging_code_index' = NextIx(the_staging_code_index)
          /\ done' = done + 1
  /\ UNCHANGED <<permVars, is_staging, content, stager, grace, blockVars,
                 procVars>>

CommiterCommit ==
  /\ later_op
  /\ grace = {}
  /\ Quiescent(stager)
  /\ later_op' = FALSE
  /\ commiter_p' = stager
  /\ commiter' = "committed"
  /\ CommitStagingCodeIx
  /\ UNCHANGED <<permVars, is_staging, content, stager, grace, blockVars,
                 procVars>>

\* Mutant: the waiters are forgotten, not resumed.
ReleaseWithoutResume ==
  /\ commiter = "committed"
  /\ commiter' = "released"
  /\ ReleasePermission
  /\ UNCHANGED <<indexVars, tableVars, stager, later_op, grace, commiter_p,
                 blockVars, pc, op, rix, synced, exiting>>

CommiterRelease ==
  /\ commiter = "committed"
  /\ commiter' = "released"
  /\ ReleasePermission
  /\ pc' = Resume(code_write_queue)
  /\ UNCHANGED <<indexVars, tableVars, stager, later_op, grace, commiter_p,
                 blockVars, op, rix, synced, exiting>>

CommiterResume ==
  /\ commiter = "released"
  /\ commiter' = "none"
  /\ commiter_p' = NoProc
  /\ pc' = Resume({commiter_p})
  /\ refc' = [refc EXCEPT ![commiter_p] = @ - 1]
  /\ UNCHANGED <<indexVars, permVars, tableVars, stager, later_op, grace,
                 blockVars, op, rix, synced, exiting>>

-----------------------------------------------------------------------------
(* The BIFs that edit the active tables in place.                          *)

\* finish_after_on_load_2 does so with the other schedulers blocked,
\* purge_module_1 too when the old code has a NIF library; the other edits of
\* purge_module_1 are covered by the old code lock and change no memory order.
ChangeActive(p) ==
  /\ pc[p] = "seized"
  /\ \/ op[p] = "finish_after_on_load" /\ IsBlocking(p)
     \/ op[p] = "purge_module" /\ ~WaitsForBlock(p)
  /\ content' = [content EXCEPT ![the_active_code_index] = @ + 1]
  /\ done' = done + 1
  /\ pc' = [pc EXCEPT ![p] = "committed"]
  /\ UNCHANGED <<indexVars, permVars, is_staging, commiterVars, blockVars,
                 op, rix, synced, exiting, refc>>

\* Their error returns.  A purge blocks only once it has found code to purge.
Refuse(p) ==
  /\ pc[p] = "seized"
  /\ \/ op[p] = "finish_after_on_load" /\ IsBlocking(p)
     \/ op[p] = "purge_module" /\ blocker # p
  /\ pc' = [pc EXCEPT ![p] = "refused"]
  /\ UNCHANGED <<indexVars, permVars, tableVars, commiterVars, blockVars,
                 op, rix, synced, exiting, refc>>

-----------------------------------------------------------------------------
(* The BIFs that look code up: check_old_code_1, module_loaded_1, loaded_0 *)
(* and the like.                                                           *)

EnterBif(p) ==
  /\ pc[p] = "out"
  /\ Runs(p)
  /\ pc' = [pc EXCEPT ![p] = "bif"]
  /\ UNCHANGED <<indexVars, permVars, tableVars, commiterVars, blockVars,
                 op, rix, synced, exiting, refc>>

\* erts_active_code_ix
ReadActiveIx(p) ==
  /\ pc[p] = "bif"
  /\ rix[p] = NoIx
  /\ rix' = [rix EXCEPT ![p] = the_active_code_index]
  /\ UNCHANGED <<indexVars, permVars, tableVars, commiterVars, blockVars,
                 pc, op, synced, exiting, refc>>

LeaveBif(p) ==
  /\ pc[p] = "bif"
  /\ rix[p] # NoIx
  /\ rix' = [rix EXCEPT ![p] = NoIx]
  /\ pc' = [pc EXCEPT ![p] = "out"]
  /\ UNCHANGED <<indexVars, permVars, tableVars, commiterVars, blockVars,
                 op, synced, exiting, refc>>

-----------------------------------------------------------------------------
(* Processes end.                                                          *)

\* An exit signal from elsewhere marks the process at any time.
Kill(p) ==
  /\ pc[p] # "dead"
  /\ ~exiting[p]
  /\ exiting' = [exiting EXCEPT ![p] = TRUE]
  /\ UNCHANGED <<indexVars, permVars, tableVars, commiterVars, blockVars,
                 pc, op, rix, synced, refc>>

\* Some scheduler is free to run a process that is not running.
SomeSchedulerFree == \E t \in Procs : Quiescent(t)

\* An exiting process is scheduled, even if suspended, and gives up the
\* reference its table entry held.
Terminate(p) ==
  /\ exiting[p]
  /\ pc[p] \in {"out", "susp_perm", "susp_commit"}
  /\ SomeSchedulerFree
  /\ pc' = [pc EXCEPT ![p] = "dead"]
  /\ refc' = [refc EXCEPT ![p] = @ - 1]
  /\ UNCHANGED <<indexVars, permVars, tableVars, commiterVars, blockVars,
                 op, rix, synced, exiting>>

\* A new process takes the place of one whose structure has been freed.
Spawn(p) ==
  /\ pc[p] = "dead"
  /\ refc[p] = 0
  /\ SomeSchedulerFree
  /\ pc' = [pc EXCEPT ![p] = "out"]
  /\ refc' = [refc EXCEPT ![p] = 1]
  /\ exiting' = [exiting EXCEPT ![p] = FALSE]
  /\ UNCHANGED <<indexVars, permVars, tableVars, commiterVars, blockVars,
                 op, rix, synced>>

-----------------------------------------------------------------------------
Write(p) ==
  \/ ThrProgressBlock(p) \/ ThrProgressUnblock(p)
  \/ StartStaging(p) \/ ChangeStaging(p) \/ AbortStaging(p)
  \/ RejectArgument(p) \/ EndAndCommit(p) \/ EndAndSchedule(p) \/ Suspend(p)
  \/ ChangeActive(p) \/ Refuse(p) \/ Release(p)

Read(p) == ReadActiveIx(p) \/ LeaveBif(p)

Commiter == CommiterCommit \/ CommiterRelease \/ CommiterResume

Next ==
  \/ \E p \in Procs, o \in Ops : TrySeize(p, o)
  \/ \E p \in Procs : \/ Write(p)
                      \/ EnterBif(p)
                      \/ Read(p)
                      \/ ThrProgressUpdate(p)
                      \/ Kill(p)
                      \/ Terminate(p)
                      \/ Spawn(p)
  \/ Commiter

\* A BIF runs to its end once called, and a scheduler does the aux work that
\* has become due.  Reporting progress is strongly fair: a process may call
\* BIF after BIF, but its reductions run out and the scheduler returns to its
\* main loop.  Nothing makes a process call a BIF or be killed.
Fairness ==
  /\ \A p \in Procs : /\ WF_vars(Write(p))
                      /\ WF_vars(Read(p))
                      /\ SF_vars(ThrProgressUpdate(p))
  /\ WF_vars(Commiter)

Spec == Init /\ [][Next]_vars

FairSpec == Spec /\ Fairness
-----------------------------------------------------------------------------
(* Properties.                                                             *)

\* Locations from which a process changes code or hands the change on.
WriteLocations == {"seized", "staging", "changed", "yielding",
                   "committed", "aborted", "refused"}

\* The code write permission is exclusive although it changes hands: whoever
\* is in a code changing BIF holds it, and from the moment the stager leaves
\* the commit to smp_code_ix_commiter until that has committed, it is held on
\* behalf of the stager, which may have been killed meanwhile.
PermissionIsExclusive ==
  /\ \A p \in Procs : pc[p] \in WriteLocations => code_writing_process = p
  /\ later_op => code_writing_process = stager
  /\ commiter = "committed" => code_writing_process = commiter_p

\* The index erts_active_code_ix returns "is guaranteed to be valid until the
\* calling BIF returns": it never becomes the index that is staged to.
ReadIndexIsNeverStaged ==
  \A p \in Procs : rix[p] # the_staging_code_index

\* A BIF reads the tables of its index complete, although it executes no
\* memory barrier: its thread passed one after the last change to them.
ReadTablesAreComplete ==
  \A p \in Procs : rix[p] # NoIx => rix[p] \in synced[p]

\* No BIF is overtaken by two commits; erts_export_get_or_make_stub relies on
\* it to retry once only.
NoBifSpansTwoCommits ==
  [][the_active_code_index' # the_active_code_index =>
       \A p \in Procs : rix[p] \in {NoIx, the_active_code_index}]_vars

\* No code change is lost: what is active holds every change made so far,
\* the ones made in place and the ones of the commits since included.
NoChangeIsLost == content[the_active_code_index] = done

\* erts_release_code_write_permission and smp_code_ix_commiter touch no process
\* structure that has been freed, although a waiter or the stager may have
\* exited in the meantime.
NoUseAfterFree ==
  /\ \A p \in code_write_queue : refc[p] > 0
  /\ commiter # "none" => refc[commiter_p] > 0

\* A suspended process always has someone who will resume it.
NoLostWakeup ==
  \A p \in Procs :
    /\ pc[p] = "susp_perm" => \/ exiting[p]
                              \/ p \in code_write_queue
                                 /\ code_writing_process # NoProc
    /\ pc[p] = "susp_commit" => \/ exiting[p]
                                \/ later_op /\ stager = p
                                \/ commiter # "none" /\ commiter_p = p

\* A process waiting for the permission is resumed, whichever way the holder
\* leaves, unless it is killed.
WaiterIsResumed ==
  \A p \in Procs :
    pc[p] = "susp_perm" ~> (pc[p] # "susp_perm" \/ exiting[p])

\* A change that is staged becomes active, even if the stager is killed.
StagedChangeCommits ==
  \A p \in Procs, n \in 1 .. MaxChanges :
    (pc[p] = "changed" /\ content[the_staging_code_index] = n)
      ~> (done >= n /\ content[the_active_code_index] >= n)
=============================================================================

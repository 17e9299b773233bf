----------------------------- MODULE AgentRuns -----------------------------
(***************************************************************************)
(* Agent runs of one project: Manager.StartRun and Manager.supervise of    *)
(* internal/agent/agent.go, the concurrency semaphore, the rows of table   *)
(* agent_runs, and the lineage locks of internal/lock (table               *)
(* lineage_locks) that runs share with human editors and with the reaper.  *)
(*                                                                         *)
(* Each run is one goroutine that executes StartRun and then supervise;    *)
(* one step is one semaphore operation, one critical section of the lock   *)
(* manager, or one write of a row or of an artifact's status.  The locks,  *)
(* the rows and the statuses outlive the process; all else is memory.      *)
(***************************************************************************)
EXTENDS Integers, FiniteSets

CONSTANTS
  Runs,         \* run ids; randomHex(8) draws a fresh one for each StartRun
  Targets,      \* artifacts a run can be started on
  Tests,        \* those of type test
  Lineages,
  LineageOf,    \* the lineage of each target
  Editors,      \* users who lock lineages to edit, or unlock them
  NoHolder,     \* "not locked"
  Slots,        \* max_concurrent_agents, the capacity of m.sem
  MaxRestarts   \* bound on the number of process restarts

ASSUME RunAssumption ==
  /\ Tests \subseteq Targets
  /\ LineageOf \in [Targets -> Lineages]
  /\ Runs \cap Editors = {}
  /\ NoHolder \notin Runs \cup Editors
  /\ IsFiniteSet(Runs)
  /\ Slots \in Nat \ {0}
  /\ MaxRestarts \in Nat

\* Where a run is.
\*   read, checked, slot, locked, inserted, marked    inside StartRun
\*   undoLock, undoSlot, leaky                        error returns of StartRun
\*   live                                             the process runs
\*   ended, settled, unlocked                         inside supervise
\*   precheck                                         inside killAndFail
\*   recorded                                         before the last Broadcast
\*   refused, stranded, finished, lost                over
Starting  == {"read", "checked", "slot", "locked", "inserted", "marked",
              "undoLock", "undoSlot", "leaky"}
Closing   == {"ended", "settled", "unlocked", "precheck", "recorded"}
Over      == {"refused", "stranded", "finished", "lost"}
Pc        == {"new", "live"} \cup Starting \cup Closing \cup Over

\* Between the moves of a run that take and give back each resource.
HasSlot == {"slot", "locked", "inserted", "marked", "undoLock", "undoSlot",
            "leaky", "live"}
HasLock == {"locked", "leaky", "inserted", "marked", "undoLock", "live",
            "ended", "settled", "precheck"}

\* "failed" stands for killed and killed-timeout too.
Outcomes == {"done", "failed"}

VARIABLES
  pc,        \* of each run
  target,    \* of each run
  prev,      \* prevStatus: the target's status as StartRun first read it
  verdict,   \* status, as supervise computes it
  slots,     \* tokens in m.sem
  active,    \* keys of m.active
  row,       \* agent_runs.status of each run
  lock,      \* lineage_locks.holder
  stale,     \* last_heartbeat is older than five minutes
  status,    \* artifact status: "approved", "active" (the agent's active_status,
             \* for a test in-qa) or "done", which stands for all others
  up,        \* the server process runs
  restarts,  \* history: how many times it came back
  taken,     \* history: somebody else deleted the lock the run held
  marked,    \* history: the run wrote the active status of its target
  moved      \* history: a user moved the test since a run last did so

runVars    == <<pc, target, prev, verdict>>
lockVars   == <<lock, stale, taken>>
statusVars == <<status, marked, moved>>
procVars   == <<up, restarts>>
vars       == <<runVars, slots, active, row, lockVars, statusVars, procVars>>

Lin(r) == LineageOf[target[r]]

TypeOK ==
  /\ pc \in [Runs -> Pc]
  /\ target \in [Runs -> Targets]
  /\ prev \in [Runs -> {"approved", "active", "done"}]
  /\ verdict \in [Runs -> Outcomes]
  /\ slots \in Nat
  /\ active \subseteq Runs
  /\ row \in [Runs -> {"absent", "running"} \cup Outcomes]
  /\ lock \in [Lineages -> Runs \cup Editors \cup {NoHolder}]
  /\ stale \in [Lineages -> BOOLEAN]
  /\ status \in [Targets -> {"approved", "active", "done"}]
  /\ up \in BOOLEAN
  /\ restarts \in Nat
  /\ taken \in [Runs -> BOOLEAN]
  /\ marked \in [Runs -> BOOLEAN]
  /\ moved \in [Tests -> BOOLEAN]

Init ==
  /\ pc = [r \in Runs |-> "new"]
  /\ target \in [Runs -> Targets]
  /\ prev = [r \in Runs |-> "approved"]
  /\ verdict = [r \in Runs |-> "failed"]
  /\ slots = 0
  /\ active = {}
  /\ row = [r \in Runs |-> "absent"]
  /\ lock = [l \in Lineages |-> NoHolder]
  /\ stale = [l \in Lineages |-> FALSE]
  /\ status \in [Targets -> {"approved", "done"}]
  /\ \A t \in Targets \ Tests : status[t] = "approved"
  /\ up = TRUE
  /\ restarts = 0
  /\ taken = [r \in Runs |-> FALSE]
  /\ marked = [r \in Runs |-> FALSE]
  /\ moved = [t \in Tests |-> FALSE]

Goto(r, from, to) ==
  /\ up
  /\ pc[r] = from
  /\ pc' = [pc EXCEPT ![r] = to]

---------------------------------------------------------------------------
(* Lock manager.                                                           *)

\* DELETE FROM lineage_locks for the lineages of L, which a Release does by
\* lineage alone: by, if it is a run, may delete another's lock.
DeleteLocks(L, by) ==
  /\ lock' = [l \in Lineages |-> IF l \in L THEN NoHolder ELSE lock[l]]
  /\ stale' = [l \in Lineages |-> stale[l] /\ l \notin L]
  /\ taken' = [r \in Runs |-> taken[r] \/ (r # by /\ \E l \in L : lock[l] = r)]

---------------------------------------------------------------------------
(* StartRun.                                                               *)

\* The target's index row; a test in in-qa is refused.
ReadTarget(r) ==
  /\ LET t == target[r]
     IN IF t \in Tests /\ status[t] = "active"
        THEN Goto(r, "new", "refused")
        ELSE Goto(r, "new", "read")
  /\ prev' = [prev EXCEPT ![r] = status[target[r]]]
  /\ UNCHANGED <<target, verdict, slots, active, row, lockVars,
                 statusVars, procVars>>

\* locks.Get.
CheckLock(r) ==
  /\ IF lock[Lin(r)] # NoHolder
     THEN Goto(r, "read", "refused")
     ELSE Goto(r, "read", "checked")
  /\ UNCHANGED <<target, prev, verdict, slots, active, row,
                 lockVars, statusVars, procVars>>

(* Operators named ...Bug are plausible slips in the code they stand next to; *)
(* each shows that a property below depends on how that code is written.     *)

\* The slot is given back but was never taken.
TakeSlotBug(r) ==
  /\ Goto(r, "checked", "slot")
  /\ UNCHANGED <<target, prev, verdict, slots, active, row, lockVars,
                 statusVars, procVars>>

\* The semaphore, without waiting: ErrBusy when it is full.
TakeSlot(r) ==
  /\ IF slots = Slots
     THEN Goto(r, "checked", "refused") /\ UNCHANGED slots
     ELSE Goto(r, "checked", "slot") /\ slots' = slots + 1
  /\ UNCHANGED <<target, prev, verdict, active, row, lockVars,
                 statusVars, procVars>>

\* The error return for a lost race keeps the slot.
AcquireLockLeaksBug(r) ==
  /\ IF lock[Lin(r)] = NoHolder
     THEN /\ Goto(r, "slot", "locked")
          /\ lock' = [lock EXCEPT ![Lin(r)] = r]
          /\ stale' = [stale EXCEPT ![Lin(r)] = FALSE]
     ELSE /\ Goto(r, "slot", "refused")
          /\ UNCHANGED <<lock, stale>>
  /\ UNCHANGED <<target, prev, verdict, slots, active, row, taken,
                 statusVars, procVars>>

\* The lock row is replaced instead of inserted: locks.Get was asked before.
AcquireLockReplacesBug(r) ==
  /\ Goto(r, "slot", "locked")
  /\ lock' = [lock EXCEPT ![Lin(r)] = r]
  /\ stale' = [stale EXCEPT ![Lin(r)] = FALSE]
  /\ UNCHANGED <<target, prev, verdict, slots, active, row, taken,
                 statusVars, procVars>>

\* locks.Acquire: INSERT under a UNIQUE constraint, which may fail otherwise
\* too, then the row is read back.  When the read fails Acquire returns an error
\* and the row is there: StartRun gives back the slot only.
AcquireLock(r) ==
  /\ \/ /\ lock[Lin(r)] = NoHolder
        /\ Goto(r, "slot", "locked") \/ Goto(r, "slot", "leaky")
        /\ lock' = [lock EXCEPT ![Lin(r)] = r]
        /\ stale' = [stale EXCEPT ![Lin(r)] = FALSE]
     \/ /\ Goto(r, "slot", "undoSlot")
        /\ UNCHANGED <<lock, stale>>
  /\ UNCHANGED <<target, prev, verdict, slots, active, row, taken,
                 statusVars, procVars>>

\* InsertAgentRun, or its error return.
InsertRow(r) ==
  /\ \/ Goto(r, "locked", "inserted") /\ row' = [row EXCEPT ![r] = "running"]
     \/ Goto(r, "locked", "undoLock") /\ UNCHANGED row
  /\ UNCHANGED <<target, prev, verdict, slots, active, lockVars,
                 statusVars, procVars>>

\* The active status.  A test must come from approved, by the status read
\* before the lock was held; a write that fails is only logged.
MarkActive(r) ==
  /\ IF target[r] \in Tests /\ prev[r] # "approved"
     THEN Goto(r, "inserted", "undoLock") /\ UNCHANGED statusVars
     ELSE /\ Goto(r, "inserted", "marked")
          /\ \/ /\ status' = [status EXCEPT ![target[r]] = "active"]
                /\ marked' = [marked EXCEPT ![r] = TRUE]
                /\ moved' = [moved EXCEPT ![target[r]] = FALSE]
             \/ UNCHANGED statusVars
  /\ UNCHANGED <<target, prev, verdict, slots, active, row,
                 lockVars, procVars>>

\* drv.Start, and m.active when it succeeds.
StartDriver(r) ==
  /\ \/ Goto(r, "marked", "live") /\ active' = active \cup {r}
     \/ Goto(r, "marked", "undoLock") /\ UNCHANGED active
  /\ UNCHANGED <<target, prev, verdict, slots, row, lockVars,
                 statusVars, procVars>>

\* Error returns: release the lock, then the slot, then close the row; but the
\* error return of a leaky Acquire knows of no lock.
UndoLock(r) ==
  /\ Goto(r, "undoLock", "undoSlot")
  /\ DeleteLocks({Lin(r)}, r)
  /\ UNCHANGED <<target, prev, verdict, slots, active, row,
                 statusVars, procVars>>

UndoSlot(r) ==
  /\ \/ Goto(r, "undoSlot", "refused")
     \/ Goto(r, "leaky", "stranded")
  /\ slots' = slots - 1
  /\ row' = [row EXCEPT ![r] = IF @ = "running" THEN "failed" ELSE @]
  /\ UNCHANGED <<target, prev, verdict, active, lockVars,
                 statusVars, procVars>>

---------------------------------------------------------------------------
(* supervise and killAndFail.                                              *)

\* The process is gone: out of m.active, and the slot back before the lock.
\* (Kill, timeouts and the authentication kill act on the process only, so any
\* outcome may follow.)
ProcessEnds(r) ==
  /\ Goto(r, "live", "ended")
  /\ \E o \in Outcomes : verdict' = [verdict EXCEPT ![r] = o]
  /\ active' = active \ {r}
  /\ slots' = slots - 1
  /\ UNCHANGED <<target, prev, row, lockVars, statusVars, procVars>>

\* killAndFail, up to the row, which it closes before it releases the lock.
PrecheckFails(r) ==
  /\ Goto(r, "live", "precheck")
  /\ active' = active \ {r}
  /\ slots' = slots - 1
  /\ row' = [row EXCEPT ![r] = "failed"]
  /\ UNCHANGED <<target, prev, verdict, lockVars, statusVars,
                 procVars>>

\* On success a test goes back to approved, another artifact may become done;
\* a failed write is only logged.
Settle(r) ==
  /\ Goto(r, "ended", "settled")
  /\ \/ UNCHANGED status
     \/ /\ verdict[r] = "done"
        /\ status' = [status EXCEPT ![target[r]] =
                        IF target[r] \in Tests THEN "approved" ELSE "done"]
  /\ UNCHANGED <<target, prev, verdict, slots, active, row,
                 lockVars, marked, moved, procVars>>

\* killAndFail forgets the lock.
ReleaseLockBug(r) ==
  /\ \/ Goto(r, "settled", "unlocked") /\ DeleteLocks({Lin(r)}, r)
     \/ Goto(r, "precheck", "recorded") /\ UNCHANGED lockVars
  /\ UNCHANGED <<target, prev, verdict, slots, active, row, statusVars,
                 procVars>>

ReleaseLock(r) ==
  /\ \/ Goto(r, "settled", "unlocked")
     \/ Goto(r, "precheck", "recorded")
  /\ DeleteLocks({Lin(r)}, r)
  /\ UNCHANGED <<target, prev, verdict, slots, active, row,
                 statusVars, procVars>>

\* UpdateAgentRun.
RecordRow(r) ==
  /\ Goto(r, "unlocked", "recorded")
  /\ row' = [row EXCEPT ![r] = verdict[r]]
  /\ UNCHANGED <<target, prev, verdict, slots, active, lockVars,
                 statusVars, procVars>>

\* agent.finished or agent.failed.
Announce(r) ==
  /\ Goto(r, "recorded", "finished")
  /\ UNCHANGED <<target, prev, verdict, slots, active, row,
                 lockVars, statusVars, procVars>>

---------------------------------------------------------------------------
(* Others who touch the locks, and the server process.                     *)

\* POST /locks.
EditorAcquires(e, l) ==
  /\ up
  /\ lock[l] = NoHolder
  /\ lock' = [lock EXCEPT ![l] = e]
  /\ stale' = [stale EXCEPT ![l] = FALSE]
  /\ UNCHANGED <<runVars, slots, active, row, taken, statusVars, procVars>>

\* DELETE /locks/:lineage, by any user e and whoever holds the lock.
UserReleases(e, l) ==
  /\ up
  /\ lock[l] # NoHolder
  /\ DeleteLocks({l}, NoHolder)
  /\ UNCHANGED <<runVars, slots, active, row, statusVars, procVars>>

\* POST /locks/:lineage/heartbeat, for any lineage and whoever holds the lock.
\* Runs send none.
Heartbeat(l) ==
  /\ up
  /\ lock[l] # NoHolder
  /\ stale' = [stale EXCEPT ![l] = FALSE]
  /\ UNCHANGED <<runVars, slots, active, row, lock, taken, statusVars,
                 procVars>>

\* POST /artifacts/:path/transition by a product owner, who may move an
\* artifact anywhere and is not asked for the lineage lock.  Only the status
\* of a test decides anything here.
UserMoves(t) ==
  /\ up
  /\ \E s \in {"approved", "active", "done"} \ {status[t]} :
       status' = [status EXCEPT ![t] = s]
  /\ moved' = [moved EXCEPT ![t] = TRUE]
  /\ UNCHANGED <<runVars, slots, active, row, lockVars, marked, procVars>>

\* Five minutes pass without a heartbeat.
Age(l) ==
  /\ lock[l] # NoHolder
  /\ ~stale[l]
  /\ stale' = [stale EXCEPT ![l] = TRUE]
  /\ UNCHANGED <<runVars, slots, active, row, lock, taken, statusVars,
                 procVars>>

\* The reaper spares the locks of runs.
ReapBug ==
  /\ up
  /\ \E l \in Lineages : stale[l] /\ lock[l] \notin Runs
  /\ DeleteLocks({l \in Lineages : stale[l] /\ lock[l] \notin Runs}, NoHolder)
  /\ UNCHANGED <<runVars, slots, active, row, statusVars, procVars>>

\* The reaper's tick.
Reap ==
  /\ up
  /\ \E l \in Lineages : stale[l]
  /\ DeleteLocks({l \in Lineages : stale[l]}, NoHolder)
  /\ UNCHANGED <<runVars, slots, active, row, statusVars, procVars>>

\* The process ends with whatever its goroutines were in the middle of.
Crash ==
  /\ up
  /\ restarts < MaxRestarts
  /\ up' = FALSE
  /\ pc' = [r \in Runs |->
              IF pc[r] \in {"new"} \cup Over THEN pc[r] ELSE "lost"]
  /\ slots' = 0
  /\ active' = {}
  /\ UNCHANGED <<target, prev, verdict, row, lockVars, statusVars,
                 restarts>>

\* Running rows are not recovered.
RestartBug ==
  /\ ~up
  /\ up' = TRUE
  /\ restarts' = restarts + 1
  /\ status' = [t \in Targets |->
                  IF t \in Tests /\ status[t] = "active"
                  THEN "approved" ELSE status[t]]
  /\ UNCHANGED <<runVars, slots, active, row, lockVars, marked, moved>>

\* agent.New: RecoverRunningRuns, then recoverOrphanedTests.  Locks stay.
Restart ==
  /\ ~up
  /\ up' = TRUE
  /\ restarts' = restarts + 1
  /\ row' = [r \in Runs |-> IF row[r] = "running" THEN "failed" ELSE row[r]]
  /\ status' = [t \in Targets |->
                  IF t \in Tests /\ status[t] = "active"
                  THEN "approved" ELSE status[t]]
  /\ UNCHANGED <<runVars, slots, active, lockVars, marked, moved>>

---------------------------------------------------------------------------

StartRun(r) ==
  \/ ReadTarget(r) \/ CheckLock(r) \/ TakeSlot(r) \/ AcquireLock(r)
  \/ InsertRow(r) \/ MarkActive(r) \/ StartDriver(r)
  \/ UndoLock(r) \/ UndoSlot(r)

Supervise(r) ==
  \/ ProcessEnds(r) \/ PrecheckFails(r) \/ Settle(r)
  \/ ReleaseLock(r) \/ RecordRow(r) \/ Announce(r)

LockTraffic(l) ==
  \/ \E e \in Editors : EditorAcquires(e, l) \/ UserReleases(e, l)
  \/ Heartbeat(l) \/ Age(l)

Next ==
  \/ \E r \in Runs : StartRun(r) \/ Supervise(r)
  \/ \E l \in Lineages : LockTraffic(l)
  \/ \E t \in Tests : UserMoves(t)
  \/ Reap \/ Crash \/ Restart

Spec == Init /\ [][Next]_vars

(***************************************************************************)
(* Fairness.  A goroutine that can move does; a process ends some time (a  *)
(* run has a timeout unless it is configured away); time passes and the    *)
(* reaper ticks; a stopped server is started again.  Nobody has to start a *)
(* run, and editors owe nothing.                                           *)
(***************************************************************************)
Fairness ==
  /\ \A r \in Runs : WF_vars((StartRun(r) /\ pc[r] # "new") \/ Supervise(r))
  /\ \A l \in Lineages : WF_vars(Age(l))
  /\ WF_vars(Reap)
  /\ WF_vars(Restart)

FairSpec == Spec /\ Fairness

---------------------------------------------------------------------------
(* Properties.                                                             *)

\* m.sem holds one token for each run between taking and giving back a slot,
\* on every error path of StartRun too, so no slot is ever leaked or freed
\* twice and max_concurrent_agents is kept.
SlotsExact ==
  /\ slots = Cardinality({r \in Runs : pc[r] \in HasSlot})
  /\ slots <= Slots

\* From locks.Acquire to its own Release a run holds the lock of its lineage,
\* unless somebody else deleted the lock: the reaper, a user, or a run whose
\* own lock had been deleted before.
LockKept ==
  \A r \in Runs : pc[r] \in HasLock /\ ~taken[r] => lock[Lin(r)] = r

\* A live server has no row marked running that no goroutine answers for,
\* after failed starts, crashes and recovery.
RowsAccounted ==
  up => \A r \in Runs : row[r] = "running" =>
          pc[r] \in Starting \cup {"live"} \cup Closing

\* When agent.finished or agent.failed is broadcast, or StartRun has returned
\* an error, the run has a final row or none and cannot be killed any more; and
\* it holds no lock, unless its Acquire failed after the INSERT, so that a job
\* the queue starts next finds the lineage free of it.
AnnouncedLast ==
  \A r \in Runs : pc[r] \in Over \ {"lost"} =>
    /\ row[r] # "running"
    /\ r \notin active
    /\ \A l \in Lineages : lock[l] = r => pc[r] = "stranded"

\* While the run of a test is live the test is in in-qa, so that nobody else
\* sees it as ready to run, as long as no user moved it and no lock of the
\* lineage was deleted under its holder.
RunningTestIsInQa ==
  \A r \in Runs :
    (/\ pc[r] = "live" /\ target[r] \in Tests /\ marked[r] /\ ~moved[target[r]]
     /\ \A q \in Runs : Lin(q) = Lin(r) => ~taken[q])
    => status[target[r]] = "active"

\* No lock stays with a run for ever, unless somebody keeps refreshing it:
\* supervise releases it, and what a crash or a failed Acquire left behind the
\* reaper finds.
LocksComeFree ==
  \A l \in Lineages :
    <>[][~Heartbeat(l)]_vars => \A r \in Runs : lock[l] = r ~> lock[l] # r

---------------------------------------------------------------------------
(* The inductive invariant behind the safety properties above.             *)

\* A lock held by a run is that of its lineage, and the run still has to
\* release it, went down with the server or never knew that it had it.
LockOwner ==
  \A l \in Lineages : \A r \in Runs :
    lock[l] = r => l = Lin(r) /\ pc[r] \in HasLock \cup {"lost", "stranded"}

\* A row is running between its insertion and its update, and after a crash
\* until the next start.
RowOwner ==
  \A r \in Runs : row[r] = "running" =>
    \/ pc[r] \in {"inserted", "marked", "undoLock", "undoSlot", "live",
                  "ended", "settled", "unlocked"}
    \/ pc[r] = "lost" /\ ~up

ActiveLive == active \subseteq {r \in Runs : pc[r] = "live"}

\* No goroutine survives the process.
NothingRunsDown == ~up => \A r \in Runs : pc[r] \in {"new"} \cup Over

Inv ==
  /\ TypeOK
  /\ LockOwner
  /\ LockKept
  /\ RowOwner
  /\ ActiveLive
  /\ NothingRunsDown
  /\ SlotsExact

---------------------------------------------------------------------------
(* Statements of the documentation that the code does not keep.            *)

\* agent-orchestration.md: "Every run acquires an exclusive lock on the
\* target's lineage; concurrent runs on the same lineage are rejected."
LineageExclusive ==
  \A r, q \in Runs :
    pc[r] = "live" /\ pc[q] = "live" /\ Lin(r) = Lin(q) => r = q

\* test-artifact-status-lifecycle-2.md, FR-6: "If a test artifact is already in
\* `in-qa` status, a second QA agent run against the same artifact MUST be
\* rejected by the agent runner".  (It is not, even if no user moved the test and
\* no lock was ever deleted under its holder.)
SecondQaRunRejected ==
  [][\A r \in Runs :
       (/\ target[r] \in Tests /\ status[target[r]] = "active"
        /\ ~moved[target[r]] /\ \A q \in Runs : ~taken[q])
         => ~(pc[r] = "inserted" /\ pc'[r] = "marked")]_vars
===========================================================================

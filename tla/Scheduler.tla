----------------------------- MODULE Scheduler -----------------------------
(***************************************************************************)
(* The job scheduler: the tables scheduler_jobs and scheduler_runs of      *)
(* internal/scheduler/store.go, the dispatch loop, worker goroutines and   *)
(* executions of scheduler.go with its priority queue (queue.go), the fire *)
(* times of schedule.go and the handlers of internal/http/scheduler.go.    *)
(*                                                                         *)
(* One step is one SQL statement, one critical section of Scheduler.mu or  *)
(* one channel operation.  workerSem is the counter `slots'; the unbuffered*)
(* workCh is a hand-over to a worker that waits at its select.             *)
(***************************************************************************)
EXTENDS Integers, Sequences, FiniteSets

CONSTANTS
  NJobs,       \* jobs are named 1..NJobs (ListJobs orders them by name)
  NCallers,    \* concurrent POST /trigger requests
  MaxWorkers,  \* New: size of workerSem, and number of worker goroutines
  MaxExecs,    \* bound on the executions started over all process lives
  MaxTime,     \* bound on the clock
  MaxChanges,  \* bound on edits of the job table and exits of the process
  Retention,   \* PruneOldRuns: runs that started longer ago are deleted
  Kind,        \* Kind[j]: "interval", "cron" or "one_off"
  Period,      \* Interval of an interval job; spacing of a cron job's instants
  At,          \* instant of the one-off jobs
  Priority,    \* Priority[j], 1..10
  After        \* After[j]: job of j's after_job precondition; j itself if none

Jobs    == 1..NJobs
NoJob   == 0

\* Goroutines: <<role, number>>.
Callers == {"caller"} \X (1..NCallers)
Workers == {"worker"} \X (1..MaxWorkers)
Execs   == {"exec"} \X (1..MaxExecs)
Loop    == <<"loop", 1>>
Threads == {Loop} \cup Callers \cup Workers \cup Execs

ASSUME SchedulerAssumption ==
  /\ NJobs \in Nat \ {0}
  /\ NCallers \in Nat
  /\ MaxWorkers \in Nat \ {0}
  /\ MaxExecs \in Nat
  /\ MaxTime \in Nat \ {0}
  /\ MaxChanges \in Nat
  /\ Retention \in Nat \ {0}
  /\ Period \in Nat \ {0}
  /\ At \in Nat
  /\ Kind \in [Jobs -> {"interval", "cron", "one_off"}]
  /\ Priority \in [Jobs -> 1..10]
  /\ After \in [Jobs -> Jobs]

\* "failure" stands for timeout too: no reader of the column tells them apart.
Statuses == {"running", "success", "failure", "skipped"}

\* Where a goroutine stands.  check, decide, push, send belong to tick and
\* TriggerNow; try, pop, back to tryDispatch; insert, run, clear, free to execute.
Pcs == {"idle", "check", "decide", "push", "send", "try", "pop", "back",
        "insert", "run", "clear", "free", "exited"}
\* The places at which a goroutine holds a token of workerSem.
Holding == {"pop", "back", "insert", "run", "clear", "free"}

VARIABLES
  \* SQLite
  jobs,     \* job -> "none", "paused" or "enabled": the row and its flag
  rows,     \* scheduler_runs: execution -> [job, start, end, status] or NoRow
  skips,    \* the rows of status skipped: jobs that markMissedOneOffSkipped hit
  cascade,  \* PRAGMA foreign_keys is on for this connection
  abandoned,\* history: executions of this life that ended without writing the end
            \* of their row
  \* the process
  up,       \* it runs
  stopped,  \* stopCh is closed
  queue,    \* jobQueue, best item first: [job, by] (by: history, who pushed it)
  running,  \* Scheduler.running
  slots,    \* tokens in workerSem
  pc, item, \* goroutine -> where it is, the job it works for
  listed,   \* tick: jobs of ListJobs still to be looked at
  clock,
  changes   \* edits and exits so far

storeVars == <<jobs, rows, skips, cascade, abandoned>>
procVars  == <<up, stopped>>
time      == <<clock, changes>>
schVars   == <<storeVars, procVars, queue, running, slots, pc, item, listed,
              clock, changes>>

NoRow == [job |-> NoJob, start |-> 0, end |-> 0, status |-> "skipped"]

SchTypeOK ==
  /\ jobs \in [Jobs -> {"none", "paused", "enabled"}]
  /\ rows \in [Execs -> [job : Jobs \cup {NoJob}, start : 0..MaxTime,
                         end : 0..MaxTime, status : Statuses]]
  /\ skips \subseteq Jobs
  /\ abandoned \subseteq Execs
  /\ cascade \in BOOLEAN /\ up \in BOOLEAN /\ stopped \in BOOLEAN
  /\ queue \in Seq([job : Jobs, by : {"tick", "trigger"}])
  /\ running \subseteq Jobs
  /\ slots \in 0..MaxWorkers
  /\ pc \in [Threads -> Pcs]
  /\ item \in [Threads -> Jobs \cup {NoJob}]
  /\ listed \subseteq Jobs
  /\ clock \in 1..MaxTime
  /\ changes \in 0..MaxChanges

At0(t, place) == up /\ pc[t] = place
Goto(t, place) == pc' = [pc EXCEPT ![t] = place]
\* The same, and the goroutine's local job is forgotten.
Done(t, place) == Goto(t, place) /\ item' = [item EXCEPT ![t] = NoJob]

---------------------------------------------------------------------------
(* Runs and fire times. *)

RowsOf(j) == {e \in Execs : rows[e].job = j}

\* ORDER BY start_time DESC LIMIT 1: any of the rows that started last.
LastRuns(j) == {e \in RowsOf(j) : \A f \in RowsOf(j) : rows[f].start <= rows[e].start}

\* lastRunTime: the EndTime of the last run, or zero.
LastRunTimes(j) ==
  IF RowsOf(j) = {} THEN {0} ELSE {rows[e].end : e \in LastRuns(j)}

\* NextFireTime; 0 is the zero time.  A cron job's instants are the multiples
\* of Period; Next returns the first one strictly after now.
NextFireTime(j, lastRun) ==
  CASE Kind[j] = "cron"     -> (clock \div Period + 1) * Period
    [] Kind[j] = "interval" -> IF lastRun = 0 THEN clock ELSE lastRun + Period
    [] Kind[j] = "one_off"  -> IF At > clock THEN At ELSE 0

IsDue(j, lastRun) ==
  LET next == NextFireTime(j, lastRun) IN next # 0 /\ next <= clock

\* EvaluatePreconditions: after_job looks at the last run; the other kinds
\* (file, http, shell) ask the outside world, whose answer the step chooses.
PreconditionsMet(j) ==
  \/ After[j] = j
  \/ \E e \in LastRuns(After[j]) : rows[e].status = "success"

---------------------------------------------------------------------------
(* The priority queue and tryDispatch. *)

\* Push: behind every item of at least the same priority.
Insert(it) ==
  LET ahead == {i \in DOMAIN queue : Priority[queue[i].job] >= Priority[it.job]}
      n     == Cardinality(ahead)
  IN  SubSeq(queue, 1, n) \o <<it>> \o SubSeq(queue, n + 1, Len(queue))

isQueued(j) == \E i \in DOMAIN queue : queue[i].job = j

\* Where a goroutine goes on when its tryDispatch returns.
AfterDispatch(t) ==
  CASE t \in Execs -> "exited"
    [] t = Loop    -> IF listed = {} THEN "idle" ELSE "check"
    [] OTHER       -> "idle"

\* Mutant: the send on workerSem is not guarded by its capacity.
AcquireSlotBug(t) ==
  /\ At0(t, "try")
  /\ slots' = slots + 1 /\ Goto(t, "pop")
  /\ UNCHANGED <<storeVars, procVars, queue, running, item, listed, time>>

\* select { case sc.workerSem <- struct{}{}: default: return }
AcquireSlot(t) ==
  /\ At0(t, "try")
  /\ \/ slots < MaxWorkers /\ slots' = slots + 1 /\ Goto(t, "pop") /\ UNCHANGED item
     \/ slots = MaxWorkers /\ UNCHANGED slots /\ Done(t, AfterDispatch(t))
  /\ UNCHANGED <<storeVars, procVars, queue, running, listed, time>>

\* Pop under mu.  A job taken gets its running mark, inherits the slot and
\* starts its execution on a new goroutine; the caller tries again.
PopJob(t) ==
  /\ At0(t, "pop")
  /\ \/ /\ queue = <<>>
        /\ Goto(t, "back")
        /\ UNCHANGED <<queue, running, item>>
     \/ /\ queue # <<>>
        /\ \E e \in Execs :
             /\ pc[e] = "idle"
             /\ \A f \in Execs : f[2] < e[2] => pc[f] # "idle"
             /\ pc' = [pc EXCEPT ![t] = "try", ![e] = "insert"]
             /\ item' = [item EXCEPT ![e] = Head(queue).job]
        /\ running' = running \cup {Head(queue).job}
        /\ queue' = Tail(queue)
  /\ UNCHANGED <<storeVars, procVars, slots, listed, time>>

\* <-sc.workerSem after an empty Pop.
GiveBackSlot(t) ==
  /\ At0(t, "back")
  /\ slots' = slots - 1
  /\ Done(t, AfterDispatch(t))
  /\ UNCHANGED <<storeVars, procVars, queue, running, listed, time>>

tryDispatch(t) == AcquireSlot(t) \/ PopJob(t) \/ GiveBackSlot(t)

\* enqueue, first part: Push under mu.  (MaxExecs bounds what can be queued.)
Push(t) ==
  /\ At0(t, "push")
  /\ Len(queue) < Cardinality({e \in Execs : pc[e] = "idle"})
  /\ queue' = Insert([job |-> item[t], by |-> IF t = Loop THEN "tick" ELSE "trigger"])
  /\ Goto(t, "send")
  /\ UNCHANGED <<storeVars, procVars, running, slots, item, listed, time>>

\* enqueue, second part: the non-blocking send wakes a worker if one waits.
Send(t) ==
  /\ At0(t, "send")
  /\ LET waiting == {w \in Workers : pc[w] = "idle"}
     IN  \/ waiting = {} /\ Goto(t, "try")
         \/ \E w \in waiting : pc' = [pc EXCEPT ![t] = "try", ![w] = "try"]
  /\ item' = [item EXCEPT ![t] = NoJob]
  /\ UNCHANGED <<storeVars, procVars, queue, running, slots, listed, time>>

enqueue(t) == Push(t) \/ Send(t)

---------------------------------------------------------------------------
(* tick: the dispatch loop looks at the enabled jobs in the order of their names. *)

ListJobs ==
  /\ At0(Loop, "idle") /\ ~stopped
  /\ listed' = {j \in Jobs : jobs[j] = "enabled"}
  /\ Goto(Loop, IF listed' = {} THEN "idle" ELSE "check")
  /\ UNCHANGED <<storeVars, procVars, queue, running, slots, item, time>>

\* Mutant: tick looks at the running marks only.
CheckIdleBug ==
  /\ At0(Loop, "check")
  /\ \E j \in listed :
       /\ \A k \in listed : j <= k
       /\ listed' = listed \ {j}
       /\ IF j \notin running
          THEN Goto(Loop, "decide") /\ item' = [item EXCEPT ![Loop] = j]
          ELSE Done(Loop, IF listed' = {} THEN "idle" ELSE "check")
  /\ UNCHANGED <<storeVars, procVars, queue, running, slots, time>>

\* Under mu: is the job running or queued?
CheckIdle ==
  /\ At0(Loop, "check")
  /\ \E j \in listed :
       /\ \A k \in listed : j <= k
       /\ listed' = listed \ {j}
       /\ IF j \notin running /\ ~isQueued(j)
          THEN Goto(Loop, "decide") /\ item' = [item EXCEPT ![Loop] = j]
          ELSE Done(Loop, IF listed' = {} THEN "idle" ELSE "check")
  /\ UNCHANGED <<storeVars, procVars, queue, running, slots, time>>

\* Mutex released: last run, fire time and preconditions decide.
Decide ==
  /\ At0(Loop, "decide")
  /\ \E last \in LastRunTimes(item[Loop]), met \in BOOLEAN :
       /\ met => PreconditionsMet(item[Loop])
       /\ IF IsDue(item[Loop], last) /\ met
          THEN Goto(Loop, "push") /\ UNCHANGED item
          ELSE Done(Loop, AfterDispatch(Loop))
  /\ UNCHANGED <<storeVars, procVars, queue, running, slots, listed, time>>

tick == ListJobs \/ CheckIdle \/ Decide

---------------------------------------------------------------------------
(* TriggerNow: GetJob, then the running mark under mu, then enqueue. *)

TriggerNow(c, j) ==
  /\ At0(c, "idle")
  /\ jobs[j] # "none"
  /\ item' = [item EXCEPT ![c] = j]
  /\ Goto(c, "check")
  /\ UNCHANGED <<storeVars, procVars, queue, running, slots, listed, time>>

TriggerCheck(c) ==
  /\ At0(c, "check")
  /\ \/ item[c] \in running /\ Done(c, "idle")
     \/ item[c] \notin running /\ Goto(c, "push") /\ UNCHANGED item
  /\ UNCHANGED <<storeVars, procVars, queue, running, slots, listed, time>>

---------------------------------------------------------------------------
(* execute. *)

\* Mutant: a refused InsertRun returns without the deferred clean-up.
InsertRunBug(e) ==
  /\ At0(e, "insert")
  /\ IF cascade /\ jobs[item[e]] = "none"
     THEN Goto(e, "exited") /\ UNCHANGED rows
     ELSE /\ rows' = [rows EXCEPT ![e] = [job |-> item[e], start |-> clock,
                                           end |-> 0, status |-> "running"]]
          /\ Goto(e, "run")
  /\ UNCHANGED <<jobs, skips, cascade, abandoned, procVars, queue, running, slots, item, listed, time>>

\* InsertRun; without its job the row is refused where foreign keys are on.
InsertRun(e) ==
  /\ At0(e, "insert")
  /\ \/ /\ cascade => jobs[item[e]] # "none"
        /\ rows' = [rows EXCEPT ![e] = [job |-> item[e], start |-> clock,
                                         end |-> 0, status |-> "running"]]
        /\ Goto(e, "run")
     \/ /\ cascade /\ jobs[item[e]] = "none"
        /\ UNCHANGED rows
        /\ Goto(e, "clear")
  /\ UNCHANGED <<jobs, skips, cascade, abandoned, procVars, queue, running, slots, item, listed, time>>

\* Mutant: a failing target returns before UpdateRun.
RunTargetBug(e, status) ==
  /\ At0(e, "run")
  /\ \/ /\ rows' = IF rows[e] = NoRow \/ status = "failure" THEN rows
                   ELSE [rows EXCEPT ![e].status = status, ![e].end = clock]
        /\ UNCHANGED abandoned
     \/ /\ rows[e] # NoRow
        /\ abandoned' = abandoned \cup {e}
        /\ UNCHANGED rows
  /\ Goto(e, "clear")
  /\ UNCHANGED <<jobs, skips, cascade, procVars, queue, running, slots, item, listed, time>>

\* runTarget returns (runAgent at once, runShell at exit or timeout); UpdateRun
\* of a row that a cascade removed changes nothing.  When the target panics the
\* deferred function recovers and goes on, and when UpdateRun fails that is only
\* logged: nobody writes the end of the row then.
RunTarget(e, status) ==
  /\ At0(e, "run")
  /\ \/ /\ rows' = IF rows[e] = NoRow THEN rows
                   ELSE [rows EXCEPT ![e].status = status, ![e].end = clock]
        /\ UNCHANGED abandoned
     \/ /\ rows[e] # NoRow
        /\ abandoned' = abandoned \cup {e}
        /\ UNCHANGED rows
  /\ Goto(e, "clear")
  /\ UNCHANGED <<jobs, skips, cascade, procVars, queue, running, slots, item, listed, time>>

\* The deferred function: delete the running mark under mu,
ClearRunning(e) ==
  /\ At0(e, "clear")
  /\ running' = running \ {item[e]}
  /\ Goto(e, "free")
  /\ UNCHANGED <<storeVars, procVars, queue, slots, item, listed, time>>

\* then release the slot, then tryDispatch.
FreeSlot(e) ==
  /\ At0(e, "free")
  /\ slots' = slots - 1
  /\ Goto(e, "try")
  /\ UNCHANGED <<storeVars, procVars, queue, running, item, listed, time>>

execute(e) ==
  \/ InsertRun(e) \/ ClearRunning(e) \/ FreeSlot(e)
  \/ \E status \in {"success", "failure"} : RunTarget(e, status)

---------------------------------------------------------------------------
(* The job table: the create, update, delete, pause and resume handlers.   *)
(* Each ends in one statement whose WHERE or UNIQUE repeats its check.     *)

CreateJob(j, flag) == jobs[j] = "none" /\ jobs' = [jobs EXCEPT ![j] = flag]

\* UpdateJob, Pause and Resume all overwrite the flag.
SetEnabled(j, flag) == jobs[j] # "none" /\ jobs' = [jobs EXCEPT ![j] = flag]

DeleteJob(j) ==
  /\ jobs[j] # "none"
  /\ jobs' = [jobs EXCEPT ![j] = "none"]
  /\ rows' = IF cascade
             THEN [e \in Execs |-> IF rows[e].job = j THEN NoRow ELSE rows[e]]
             ELSE rows
  /\ skips' = IF cascade THEN skips \ {j} ELSE skips

EditJobs ==
  /\ up
  /\ changes < MaxChanges /\ changes' = changes + 1
  /\ \E j \in Jobs :
       \/ /\ \E flag \in {"paused", "enabled"} : CreateJob(j, flag) \/ SetEnabled(j, flag)
          /\ UNCHANGED <<rows, skips>>
       \/ DeleteJob(j)
  /\ UNCHANGED <<cascade, abandoned, procVars, queue, running, slots, pc, item, listed, clock>>

---------------------------------------------------------------------------
(* Life of the process. *)

\* Stop closes stopCh; only the dispatch loop is waited for.
Stop ==
  /\ up /\ ~stopped
  /\ stopped' = TRUE
  /\ changes < MaxChanges /\ changes' = changes + 1
  /\ UNCHANGED <<storeVars, up, queue, running, slots, pc, item, listed, clock>>

\* The loop and the workers leave at their next select.
Leave(t) ==
  /\ stopped /\ At0(t, "idle")
  /\ Goto(t, "exited")
  /\ UNCHANGED <<storeVars, procVars, queue, running, slots, item, listed, time>>

\* The process ends, by a crash or after Stop: what memory held is gone.  (A
\* project closed and opened again in one process is the same to the store:
\* executions that are still under way have its old, closed database.)
Exit ==
  /\ up
  /\ changes < MaxChanges /\ changes' = changes + 1
  /\ up' = FALSE
  /\ queue' = <<>> /\ running' = {} /\ slots' = 0 /\ listed' = {}
  /\ pc' = [t \in Threads |-> IF t \in Execs /\ pc[t] # "idle" THEN "exited" ELSE "idle"]
  /\ item' = [t \in Threads |-> NoJob]
  /\ UNCHANGED <<storeVars, stopped, clock>>

\* PruneOldRuns, called when the project is opened.
Old(row) == row.start + Retention < clock

\* MarkStaleRunsFailed: no execution survived, so a running row has failed.
Recovered(row) ==
  IF row.status = "running" THEN [row EXCEPT !.status = "failure", !.end = clock] ELSE row

\* markMissedOneOffSkipped: one-off jobs in the past that have no run at all.
Missed == {j \in Jobs : /\ jobs[j] # "none" /\ Kind[j] = "one_off" /\ At <= clock
                        /\ RowsOf(j) \subseteq {e \in Execs : Old(rows[e])}
                        /\ j \notin skips}

\* Mutant: MarkStaleRunsFailed is not called.
StartBug ==
  /\ ~up
  /\ up' = TRUE /\ stopped' = FALSE
  /\ rows' = [e \in Execs |-> IF Old(rows[e]) THEN NoRow ELSE rows[e]]
  /\ skips' = skips \cup Missed
  /\ cascade' = FALSE
  /\ abandoned' = {}
  /\ UNCHANGED <<jobs, queue, running, slots, pc, item, listed, time>>

\* Open and Start.  Foreign keys are on in a connection that built the schema
\* and off in one that found it.  (Pruned skip rows are left out: they only
\* hide that a one-off job was ever missed.)
Start ==
  /\ ~up
  /\ up' = TRUE /\ stopped' = FALSE
  /\ rows' = [e \in Execs |-> IF Old(rows[e]) THEN NoRow ELSE Recovered(rows[e])]
  /\ skips' = skips \cup Missed
  /\ cascade' = FALSE
  /\ abandoned' = {}
  /\ UNCHANGED <<jobs, queue, running, slots, pc, item, listed, time>>

Advance ==
  /\ clock < MaxTime
  /\ clock' = clock + 1
  /\ UNCHANGED <<storeVars, procVars, queue, running, slots, pc, item, listed, changes>>

\* A server that has just started on a database with jobs, or on a new one, to
\* which the jobs may have been added since.
SchInit ==
  /\ \E flag \in {"none", "enabled"} : jobs = [j \in Jobs |-> flag]
  /\ cascade \in BOOLEAN
  /\ (\A j \in Jobs : jobs[j] = "none") => cascade
  /\ rows = [e \in Execs |-> NoRow]
  /\ skips = {} /\ abandoned = {}
  /\ changes = 0
  /\ up = TRUE /\ stopped = FALSE
  /\ queue = <<>> /\ running = {} /\ slots = 0 /\ listed = {}
  /\ pc = [t \in Threads |-> "idle"]
  /\ item = [t \in Threads |-> NoJob]
  /\ clock = 1

Thread(t) ==
  \/ tryDispatch(t) \/ enqueue(t)
  \/ t = Loop /\ tick
  \/ t \in Callers /\ TriggerCheck(t)
  \/ t \in Execs /\ execute(t)
  \/ t \in Workers \cup {Loop} /\ Leave(t)

SchNext ==
  \/ \E t \in Threads : Thread(t)
  \/ \E c \in Callers, j \in Jobs : TriggerNow(c, j)
  \/ EditJobs
  \/ Stop \/ Exit \/ Start \/ Advance

\* The runtime schedules every goroutine that can go on, a target ends or times
\* out, and an operator starts the server again.
SchFairness ==
  /\ WF_schVars(Start) /\ WF_schVars(Advance)
  /\ \A t \in Threads : WF_schVars(Thread(t))

SchSpec == SchInit /\ [][SchNext]_schVars /\ SchFairness

---------------------------------------------------------------------------
(* Properties. *)

\* workerSem is exact: a token is out for every goroutine between its acquire
\* and its release in tryDispatch and execute, whichever way those end.  A leaked
\* token would shrink the pool for good; a missing one breaks the job limit.
SlotsAccounted == slots = Cardinality({t \in Threads : pc[t] \in Holding})

\* A running mark, which makes TriggerNow refuse the job and tick pass over it,
\* is always backed by an execution that will clear it: no exit of execute
\* (a refused InsertRun, a job deleted meanwhile) leaves a job blocked for good.
RunningMarkIsBacked ==
  \A j \in running : \E e \in Execs : item[e] = j /\ pc[e] \in {"insert", "run", "clear"}

\* However triggers race tick's check, tick itself never has two entries of
\* one job waiting: a slow queue does not pile up scheduled runs.
TickQueuesOnce ==
  \A i, k \in DOMAIN queue : queue[i] = queue[k] /\ queue[i].by = "tick" => i = k

\* While the server is up, a run that the history shows as running has a
\* goroutine that will finish it, unless its target panicked or the write of its
\* end failed in this life; rows of an earlier life have been closed.
RunningRowsAreLive ==
  up => \A e \in Execs : rows[e].status = "running" => pc[e] = "run" \/ e \in abandoned

\* Across crashes and restarts every started run is eventually closed, with the
\* same exception.
RunsEnd ==
  \A e \in Execs :
    rows[e].status = "running" ~> rows[e].status # "running" \/ e \in abandoned

(* Statements of the documentation that the code does not keep.            *)

\* agent-task-scheduler-2: "A job that panics or exceeds its timeout is killed
\* and marked failed".  The row of one that panics says running until the next
\* start of the server.
PanickedIsMarkedFailed == \A e \in abandoned : rows[e].status # "running"

\* Requirement agent-task-scheduler-2: "excess jobs queue and eventually execute";
\* execute: "Drain any queued jobs now that a worker slot is free."  While a job
\* waits and a slot is free, some goroutine is still on its way to Pop.
FreeSlotIsOffered ==
  queue # <<>> /\ slots < MaxWorkers =>
    \E t \in Threads : pc[t] \in {"send", "try", "pop", "insert", "run", "clear", "free"}

=============================================================================

----------------------------- MODULE JobQueue -----------------------------
(***************************************************************************)
(* The application-level agent work queue: the table `jobs' and the pause  *)
(* state that internal/queue/store.go keeps in SQLite, the single          *)
(* dispatcher goroutine of internal/queue/dispatcher.go, the HTTP handlers *)
(* of internal/http/queue.go that enqueue, cancel, pause and resume, and   *)
(* the shutdown, crash and startup path of cmd/kaos-control/main.go.       *)
(*                                                                         *)
(* One step is one SQL statement or transaction, or one critical section   *)
(* of Dispatcher.mu; everything between two such points may interleave.    *)
(* The agent run itself is the environment: its outcome is whatever        *)
(* watchRunEvents hands over, and when (see RunWatch for how).             *)
(***************************************************************************)
EXTENDS Integers, FiniteSets

CONSTANTS
  Jobs,         \* job ids (newID): the rows the table can hold
  Paths,        \* keys (project, artifact_path) of the work
  Clients,      \* concurrent HTTP requests (handlers of one server process)
  Operators,    \* those whose user may pause and resume (requireAppRole)
  NoJob,        \* "no row"
  MaxAttempts,  \* Config.maxAttempts
  MaxRestarts   \* bound on the number of process restarts

ASSUME ParamAssumption ==
  /\ NoJob \notin Jobs
  /\ Paths # {}
  /\ Operators \subseteq Clients
  /\ MaxAttempts \in Nat \ {0}
  /\ MaxRestarts \in Nat

Active   == {"pending", "running"}
Terminal == {"completed", "failed", "skipped", "cancelled"}

\* Program counter of the dispatcher goroutine.
\*   idle      in loop, before d.paused()
\*   checked   d.paused() returned false, before store.Dequeue
\*   gate      holds a dequeued job, before StartRun has returned
\*   await     the run is started; blocked on runDone
\*   rateRequeue, authRequeue    job marked failed, before EnqueueDirect
\*   pauseStore, pauseMem        step 3 of handleRateLimit
OwnPc == {"gate", "await", "rateRequeue", "authRequeue"}
Pc    == OwnPc \cup {"idle", "checked", "pauseStore", "pauseMem"}

VARIABLES
  \* SQLite: the columns of table jobs, by id
  state, path, attempts, position,
  origin,      \* history: the request that a row is an incarnation of
  \* SQLite: table queue_state
  stored,      \* "off", "manual" (paused, no paused_until) or "timed"
  \* the server process
  up,          \* the process runs
  pc, cur,     \* dispatcher goroutine: where it is, and the job it holds
  manual,      \* Dispatcher.manualPause
  timed,       \* Dispatcher.pausedUntil is set
  autoWrites,  \* auto-resume goroutines that still have to write the store
  client,      \* what each HTTP handler is in the middle of
  \* history
  restarts,    \* how many times the process came back
  limited,     \* a rate limit was reported and its pause is not over
  held         \* a call of Pause has returned and Resume was not called since

rowVars   == <<state, path, attempts, position, origin>>
memPause  == <<manual, timed, autoWrites, limited>>
pauseVars == <<stored, memPause, held>>
dispVars  == <<pc, cur>>
procVars  == <<up, restarts>>
vars      == <<rowVars, pauseVars, dispVars, procVars, client>>

Rows == {j \in Jobs : state[j] # "absent"}

IsActive(j) == state[j] \in Active

ClientOp ==
  [op : {"none", "pauseStore", "resumeStore"}]
    \cup [op : {"enqueue"}, path : Paths, position : Int]
    \cup [op : {"cancel"}, job : Jobs]

Idle == [op |-> "none"]

TypeOK ==
  /\ state \in [Jobs -> Active \cup Terminal \cup {"absent"}]
  /\ path \in [Jobs -> Paths]
  /\ attempts \in [Jobs -> Nat]
  /\ position \in [Jobs -> Int]
  /\ origin \in [Jobs -> Jobs]
  /\ stored \in {"off", "manual", "timed"}
  /\ up \in BOOLEAN
  /\ pc \in Pc
  /\ cur \in Jobs \cup {NoJob}
  /\ manual \in BOOLEAN
  /\ timed \in BOOLEAN
  /\ autoWrites \in Nat
  /\ client \in [Clients -> ClientOp]
  /\ restarts \in Nat
  /\ limited \in BOOLEAN
  /\ held \in BOOLEAN

\* A fresh database and a server that has just started on it.
Init ==
  /\ state = [j \in Jobs |-> "absent"]
  /\ path = [j \in Jobs |-> CHOOSE p \in Paths : TRUE]
  /\ attempts = [j \in Jobs |-> 0]
  /\ position = [j \in Jobs |-> 0]
  /\ origin = [j \in Jobs |-> j]
  /\ stored = "off"
  /\ up = TRUE
  /\ pc = "idle"
  /\ cur = NoJob
  /\ manual = FALSE
  /\ timed = FALSE
  /\ autoWrites = 0
  /\ client = [c \in Clients |-> Idle]
  /\ restarts = 0
  /\ limited = FALSE
  /\ held = FALSE

---------------------------------------------------------------------------
(* Store operations. *)

\* INSERT INTO jobs of a pending row.
InsertRow(j, p, n, pos, o) ==
  /\ state[j] = "absent"
  /\ state' = [state EXCEPT ![j] = "pending"]
  /\ path' = [path EXCEPT ![j] = p]
  /\ attempts' = [attempts EXCEPT ![j] = n]
  /\ position' = [position EXCEPT ![j] = pos]
  /\ origin' = [origin EXCEPT ![j] = o]

\* MarkTerminal: an UPDATE by id that never looks at the state it replaces.
MarkTerminal(j, s) ==
  /\ state' = [state EXCEPT ![j] = s]
  /\ UNCHANGED <<path, attempts, position, origin>>

\* The position one past the largest, or 1 in an empty table.
IsNextPosition(pos) ==
  \/ Rows = {} /\ pos = 1
  \/ \E k \in Rows : /\ \A i \in Rows : position[i] <= position[k]
                     /\ pos = position[k] + 1

\* MinPosition() - 1; the table holds at least the job being retried.
IsHeadPosition(pos) ==
  \E k \in Rows : /\ \A i \in Rows : position[k] <= position[i]
                  /\ pos = position[k] - 1

---------------------------------------------------------------------------
(* The dispatcher goroutine. *)

(* Operators named ...Bug are plausible slips in the code they stand next to; *)
(* each shows that a property below depends on how that code is written.     *)

\* The end of a rate-limit pause is never noticed.
CheckPausedBug ==
  /\ up
  /\ pc = "idle"
  /\ ~manual
  /\ ~timed
  /\ pc' = "checked"
  /\ UNCHANGED <<rowVars, pauseVars, cur, procVars, client>>

\* loop, paused(): not paused, or the rate-limit pause has just run out, in
\* which case memory is cleared here and the store by a goroutine of its own.
\* While the queue is paused the loop only ticks.
CheckPaused ==
  /\ up
  /\ pc = "idle"
  /\ ~manual
  /\ pc' = "checked"
  /\ timed' = FALSE
  /\ IF timed
     THEN autoWrites' = autoWrites + 1 /\ limited' = FALSE
     ELSE UNCHANGED <<autoWrites, limited>>
  /\ UNCHANGED <<rowVars, stored, manual, held, cur, procVars, client>>

\* processNext, store.Dequeue: the pending row with the smallest position.
Dequeue ==
  /\ up
  /\ pc = "checked"
  /\ \/ /\ \A j \in Jobs : state[j] # "pending"
        /\ pc' = "idle"
        /\ UNCHANGED <<rowVars, cur>>
     \/ \E j \in Jobs :
          /\ state[j] = "pending"
          /\ \A k \in Jobs : state[k] = "pending" => position[j] <= position[k]
          /\ state' = [state EXCEPT ![j] = "running"]
          /\ cur' = j
          /\ pc' = "gate"
          /\ UNCHANGED <<path, attempts, position, origin>>
  /\ UNCHANGED <<pauseVars, procVars, client>>

\* The dispatcher's MarkTerminal of the job it holds, which it then drops.
Conclude(s) ==
  /\ MarkTerminal(cur, s)
  /\ pc' = "idle"
  /\ cur' = NoJob
  /\ UNCHANGED <<pauseVars, procVars, client>>

\* The project is gone, or StartRun returned an error.
StartFails ==
  /\ up
  /\ pc = "gate"
  /\ Conclude("failed")

\* FR7: the artifact is not approved any more; a retry is not gated.
SkipNotApproved ==
  /\ up
  /\ pc = "gate"
  /\ attempts[cur] <= 1
  /\ Conclude("skipped")

\* StartRun returned a run id.
StartRun ==
  /\ up
  /\ pc = "gate"
  /\ pc' = "await"
  /\ UNCHANGED <<rowVars, pauseVars, cur, procVars, client>>

RunCompletes ==
  /\ up
  /\ pc = "await"
  /\ Conclude("completed")

\* agent.failed, or ctx.Done of a server that is shutting down.
RunFails ==
  /\ up
  /\ pc = "await"
  /\ Conclude("failed")

\* A job out of attempts returns before the queue is paused.
RunRateLimitedBug ==
  /\ up
  /\ pc = "await"
  /\ MarkTerminal(cur, "failed")
  /\ limited' = TRUE
  /\ IF attempts[cur] >= MaxAttempts
     THEN pc' = "idle" /\ cur' = NoJob
     ELSE pc' = "rateRequeue" /\ cur' = cur
  /\ UNCHANGED <<stored, manual, timed, autoWrites, held, procVars, client>>

\* handleRateLimit, step 1: a queue.rate_limit event of the run.
RunRateLimited ==
  /\ up
  /\ pc = "await"
  /\ MarkTerminal(cur, "failed")
  /\ limited' = TRUE
  /\ IF attempts[cur] >= MaxAttempts
     THEN pc' = "pauseStore" /\ cur' = NoJob
     ELSE pc' = "rateRequeue" /\ cur' = cur
  /\ UNCHANGED <<stored, manual, timed, autoWrites, held, procVars, client>>

\* The retries of an authentication error have no bound.
RunAuthFailsBug ==
  /\ up
  /\ pc = "await"
  /\ MarkTerminal(cur, "failed")
  /\ pc' = "authRequeue"
  /\ UNCHANGED <<pauseVars, cur, procVars, client>>

\* handleAuthError, step 1: a queue.auth_error event of the run.
RunAuthFails ==
  /\ up
  /\ pc = "await"
  /\ MarkTerminal(cur, "failed")
  /\ IF attempts[cur] >= MaxAttempts
     THEN pc' = "idle" /\ cur' = NoJob
     ELSE pc' = "authRequeue" /\ cur' = cur
  /\ UNCHANGED <<pauseVars, procVars, client>>

\* Step 2 of both: MinPosition and EnqueueDirect of a new row at the head,
\* which no duplicate check guards and whose error is only logged.
\* (MinPosition and the INSERT are one step: no other writer inserts below
\* the smallest position or deletes a row.)
Requeue ==
  /\ up
  /\ pc \in {"rateRequeue", "authRequeue"}
  /\ \/ UNCHANGED rowVars
     \/ \E j \in Jobs, pos \in {position[k] - 1 : k \in Rows} :
          /\ IsHeadPosition(pos)
          /\ InsertRow(j, path[cur], attempts[cur] + 1, pos, origin[cur])
  /\ pc' = IF pc = "rateRequeue" THEN "pauseStore" ELSE "idle"
  /\ cur' = NoJob
  /\ UNCHANGED <<pauseVars, procVars, client>>

\* Step 3 of handleRateLimit: the store first, then memory.
PauseStore ==
  /\ up
  /\ pc = "pauseStore"
  /\ stored' = "timed"
  /\ pc' = "pauseMem"
  /\ UNCHANGED <<rowVars, memPause, held, cur, procVars, client>>

PauseMem ==
  /\ up
  /\ pc = "pauseMem"
  /\ timed' = TRUE
  /\ pc' = "idle"
  /\ UNCHANGED <<rowVars, stored, manual, autoWrites, limited, held, cur,
                 procVars, client>>

\* The goroutine paused() started: SetPauseState(false).
AutoResumeWrites ==
  /\ up
  /\ autoWrites > 0
  /\ autoWrites' = autoWrites - 1
  /\ stored' = "off"
  /\ UNCHANGED <<rowVars, manual, timed, limited, held, dispVars, procVars,
                 client>>

---------------------------------------------------------------------------
(* HTTP handlers; each Clients element is one handler goroutine. *)

\* Enqueue, first statement: SELECT MAX(position).
EnqueueRead(c, p) ==
  /\ up
  /\ client[c] = Idle
  /\ \E pos \in {1} \cup {position[k] + 1 : k \in Rows} :
       /\ IsNextPosition(pos)
       /\ client' = [client EXCEPT ![c] =
                       [op |-> "enqueue", path |-> p, position |-> pos]]
  /\ UNCHANGED <<rowVars, pauseVars, dispVars, procVars>>

\* The duplicate check sees pending jobs only.
EnqueueInsertBug(c) ==
  /\ up
  /\ client[c].op = "enqueue"
  /\ LET p == client[c].path
     IN \/ UNCHANGED rowVars
        \/ /\ \A i \in Jobs : ~(state[i] = "pending" /\ path[i] = p)
           /\ \E j \in Jobs : InsertRow(j, p, 1, client[c].position, j)
  /\ client' = [client EXCEPT ![c] = Idle]
  /\ UNCHANGED <<pauseVars, dispVars, procVars>>

\* Enqueue, second statement: INSERT ... WHERE NOT EXISTS an active job for
\* the path.  It inserts nothing (ErrDuplicateActive) or fails (the error
\* reaches the client), or the new row is there.
EnqueueInsert(c) ==
  /\ up
  /\ client[c].op = "enqueue"
  /\ LET p == client[c].path
     IN \/ UNCHANGED rowVars
        \/ /\ \A i \in Jobs : ~(IsActive(i) /\ path[i] = p)
           /\ \E j \in Jobs : InsertRow(j, p, 1, client[c].position, j)
  /\ client' = [client EXCEPT ![c] = Idle]
  /\ UNCHANGED <<pauseVars, dispVars, procVars>>

\* Cancel: GetByID finds the row pending.  A running or terminal row is an
\* error and changes nothing.
CancelRead(c, j) ==
  /\ up
  /\ client[c] = Idle
  /\ state[j] = "pending"
  /\ client' = [client EXCEPT ![c] = [op |-> "cancel", job |-> j]]
  /\ UNCHANGED <<rowVars, pauseVars, dispVars, procVars>>

\* Cancel: MarkTerminal, whatever the row has become since.
CancelWrite(c) ==
  /\ up
  /\ client[c].op = "cancel"
  /\ MarkTerminal(client[c].job, "cancelled")
  /\ client' = [client EXCEPT ![c] = Idle]
  /\ UNCHANGED <<pauseVars, dispVars, procVars>>

\* Pause and Resume: memory under d.mu, then the store.  Pause drops a
\* pending auto-resume time; it is also what PauseQueue calls when a run
\* ended with permission denials.
PauseByHand(c) ==
  /\ up
  /\ c \in Operators
  /\ client[c] = Idle
  /\ manual' = TRUE
  /\ timed' = FALSE
  /\ limited' = FALSE
  /\ client' = [client EXCEPT ![c] = [op |-> "pauseStore"]]
  /\ UNCHANGED <<rowVars, stored, autoWrites, held, dispVars, procVars>>

ResumeByHand(c) ==
  /\ up
  /\ c \in Operators
  /\ client[c] = Idle
  /\ manual' = FALSE
  /\ timed' = FALSE
  /\ limited' = FALSE
  /\ held' = FALSE
  /\ client' = [client EXCEPT ![c] = [op |-> "resumeStore"]]
  /\ UNCHANGED <<rowVars, stored, autoWrites, dispVars, procVars>>

StorePauseState(c) ==
  /\ up
  /\ client[c].op \in {"pauseStore", "resumeStore"}
  /\ stored' = IF client[c].op = "pauseStore" THEN "manual" ELSE "off"
  /\ held' = (held \/ client[c].op = "pauseStore")
  /\ client' = [client EXCEPT ![c] = Idle]
  /\ UNCHANGED <<rowVars, memPause, dispVars, procVars>>

---------------------------------------------------------------------------
(* The server process. *)

\* The process ends, by a crash or a signal; memory is lost.
Exit ==
  /\ up
  /\ restarts < MaxRestarts
  /\ up' = FALSE
  /\ pc' = "idle"
  /\ cur' = NoJob
  /\ manual' = FALSE
  /\ timed' = FALSE
  /\ autoWrites' = 0
  /\ limited' = FALSE
  /\ client' = [c \in Clients |-> Idle]
  /\ UNCHANGED <<rowVars, stored, held, restarts>>

RestartWith(recovered) ==
  /\ ~up
  /\ up' = TRUE
  /\ restarts' = restarts + 1
  /\ state' = [j \in Jobs |->
                 IF state[j] \in recovered THEN "pending" ELSE state[j]]
  /\ attempts' = [j \in Jobs |->
                    IF state[j] \in recovered THEN attempts[j] + 1
                                              ELSE attempts[j]]
  /\ manual' = (stored = "manual")
  /\ timed' = (stored = "timed")
  /\ UNCHANGED <<path, position, origin, stored, autoWrites, limited, held,
                 dispVars, client>>

\* Orphans are not recovered at all, or failed jobs are recovered with them.
RestartForgets == RestartWith({})
RestartRevives == RestartWith({"running", "failed"})

\* RecoverOrphans, then Dispatcher.Start restoring the persisted pause.
Restart == RestartWith({"running"})

---------------------------------------------------------------------------

RunOutcome ==
  RunCompletes \/ RunFails \/ RunRateLimited \/ RunAuthFails

Dispatch ==
  \/ CheckPaused \/ Dequeue
  \/ StartFails \/ SkipNotApproved \/ StartRun
  \/ RunOutcome
  \/ Requeue \/ PauseStore \/ PauseMem

Handle(c) ==
  \/ \E p \in Paths : EnqueueRead(c, p)
  \/ EnqueueInsert(c)
  \/ \E j \in Jobs : CancelRead(c, j)
  \/ CancelWrite(c)
  \/ PauseByHand(c) \/ ResumeByHand(c) \/ StorePauseState(c)

Next ==
  \/ Dispatch
  \/ AutoResumeWrites
  \/ \E c \in Clients : Handle(c)
  \/ Exit \/ Restart

Spec == Init /\ [][Next]_vars

(***************************************************************************)
(* Fairness.  The loop ticks for ever, each tick calls paused() and, when  *)
(* due, processNext runs through; a rate-limit pause runs out with time; a *)
(* stopped server is started again.  That a started run has an outcome the *)
(* dispatcher hears of is an assumption here; RunWatch examines it.        *)
(***************************************************************************)
Fairness ==
  /\ WF_vars(Dispatch)
  /\ WF_vars(AutoResumeWrites)
  /\ WF_vars(Restart)
  /\ \A c \in Clients : WF_vars(EnqueueInsert(c) \/ CancelWrite(c)
                                \/ StorePauseState(c))

FairSpec == Spec /\ Fairness

---------------------------------------------------------------------------
(* Properties. *)

\* The queue runs one job at a time: at most one row is marked running, and
\* while the server lives that row is the one the dispatcher holds, across
\* cancellations, retries, crashes and orphan recovery.
SingleExecution ==
  /\ \A i, j \in Jobs : state[i] = "running" /\ state[j] = "running" => i = j
  /\ up => \A j \in Jobs : state[j] = "running" => cur = j

\* Enqueue refuses a second active job for an artifact, but EnqueueDirect
\* does not ask: two active jobs for one artifact are always a retry and a
\* submission that slipped into the gap before it, and then the retry is
\* first in line and the other has never run.
RetryAhead(a, b) ==
  /\ attempts[a] > 1
  /\ attempts[b] = 1
  /\ state[b] = "pending"
  /\ position[a] < position[b]

DuplicatesAreRetries ==
  \A i, j \in Jobs :
    (IsActive(i) /\ IsActive(j) /\ path[i] = path[j] /\ i # j)
      => RetryAhead(i, j) \/ RetryAhead(j, i)

\* Config.MaxAttempts bounds the retries of a request; only RecoverOrphans,
\* which counts an attempt without looking at the bound, can exceed it, by
\* one for each restart.
AttemptsBounded ==
  \A j \in Jobs : attempts[j] <= MaxAttempts + restarts

\* No step, recovery included, makes a terminal row active again, and the
\* only way one terminal state replaces another is the unguarded UPDATE of a
\* cancellation that overlapped the execution of the job.
TerminalStaysTerminal ==
  [][\A j \in Jobs :
       state[j] \in Terminal =>
         /\ state'[j] \in Terminal
         /\ state'[j] # state[j] => "cancelled" \in {state[j], state'[j]}]_vars

\* Once a run reported a rate limit, no job leaves the queue before the pause
\* has run out or somebody paused or resumed by hand (or the server went
\* down), whether or not the job itself was retried.
RateLimitPauseHolds ==
  [][limited => ~(cur = NoJob /\ cur' # NoJob)]_vars

\* A request is known by its first row; that row and the rows that retried it
\* are its incarnations.
Incarnations(r) == {j \in Rows : origin[j] = r}

Executing(r) == \E j \in Incarnations(r) : state[j] = "running" \/ cur = j

Waiting(r) == \E j \in Incarnations(r) : state[j] = "pending"

Phase(r) ==
  IF Incarnations(r) = {} THEN "new"
  ELSE IF Executing(r) THEN "executing"
  ELSE IF Waiting(r) THEN "queued"
  ELSE "done"

Abstract == INSTANCE RequestLifecycle
              WITH Requests <- Jobs, phase <- [r \in Jobs |-> Phase(r)]

\* Every accepted request is executed serially and never again once it is
\* done, whatever the retries, cancellations and crashes.
ImplementsLifecycle == Abstract!Spec

\* With the server up and the queue not paused by hand from some point on,
\* every pending job is eventually taken, so no retry inserted at the head
\* starves the jobs behind it.
PendingIsServed ==
  <>[](up /\ ~manual)
    => \A j \in Jobs : state[j] = "pending" ~> state[j] # "pending"

---------------------------------------------------------------------------
(* The inductive invariant behind the safety properties above. *)

\* The dispatcher holds a job exactly in the steps of OwnPc, never while the
\* process is down, and re-enqueues only a job it has marked failed.
OwnerInv ==
  /\ cur # NoJob <=> pc \in OwnPc
  /\ ~up => cur = NoJob
  /\ cur # NoJob => state[cur] \notin {"absent", "pending"}
  /\ pc \in {"gate", "await"} => state[cur] \in {"running", "cancelled"}
  /\ pc \in {"rateRequeue", "authRequeue"} =>
       attempts[cur] < MaxAttempts /\ state[cur] \in {"failed", "cancelled"}

\* A row's request is a row that is its own request.
OriginInv ==
  \A j \in Rows : origin[j] \in Rows /\ origin[origin[j]] = origin[j]

Live(j) == IsActive(j) \/ cur = j

\* A request has one incarnation that is active or in the dispatcher's hands.
OneIncarnation ==
  \A i, j \in Jobs : Live(i) /\ Live(j) /\ origin[i] = origin[j] => i = j

\* What shares the path of the job in the dispatcher's hands has never run.
NewcomersBehind ==
  \A j \in Jobs :
    (cur # NoJob /\ j # cur /\ IsActive(j) /\ path[j] = path[cur])
      => attempts[j] = 1 /\ state[j] = "pending"

\* Rows have been attempted at least once, and a cancellation names a row.
RowInv ==
  /\ \A j \in Rows : attempts[j] >= 1
  /\ \A c \in Clients : client[c].op = "cancel" => client[c].job \in Rows

Inv ==
  /\ TypeOK
  /\ SingleExecution
  /\ OwnerInv
  /\ OriginInv
  /\ OneIncarnation
  /\ DuplicatesAreRetries
  /\ NewcomersBehind
  /\ RowInv
  /\ AttemptsBounded

---------------------------------------------------------------------------
(* Statements of the source that the code does not keep. *)

\* types.go: terminal states are "the set of states from which no further
\* transitions occur".
TerminalIsFinal ==
  [][\A j \in Jobs : state[j] \in Terminal => state'[j] = state[j]]_vars

\* dispatcher.go, Pause: it "manually pauses the queue indefinitely. The queue
\* will not resume until Resume() is called."  (Stated for one client, whose
\* calls of Pause and Resume do not overlap.)
PauseLastsUntilResume == held /\ up => manual
===========================================================================

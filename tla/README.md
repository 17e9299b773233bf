# kaos-control: TLA+ models, checks and proofs

kaos-control is one server process (Go) that manages repositories of lifecycle artifacts (ideas,
requirements, plans, tests, defects: markdown files with front matter) and runs coding agents, pipelines and
scheduled jobs on them. What is hard in it is coordination: goroutines, HTTP requests, a file watcher and
people work on the same files, SQLite rows, locks and maps, most of the time without a common lock, and the
process may end at any point. That is what the modules here describe. Paths below are relative to `src/`.

## 1. Inventory

| Component | State | Operations | Module |
|---|---|---|---|
| Agent work queue (`internal/queue`, `internal/http/queue.go`) | tables `jobs`, `queue_state`; `manualPause`, `pausedUntil`; the job in the dispatcher's hands | enqueue, cancel, pause, resume, dequeue, conclude, re-queue, recovery | `JobQueue`, `RequestLifecycle` |
| Hand-off (`processNext`, `watchRunEvents`), event hub (`internal/hub`) | the watcher's channel, `runIDCh`, `runDone`; subscriber channels | subscribe, start, hand over the run id, filter, conclude; broadcast without blocking | `RunWatch` |
| Agent runs (`internal/agent/agent.go`) | `m.sem`, `m.active`, table `agent_runs`, the status of the target | `StartRun`, `supervise`, `killAndFail`, recovery in `New` | `AgentRuns` |
| Lineage locks and reaper (`internal/lock`, `internal/http/locks.go`) | table `lineage_locks` | acquire, release, heartbeat, reap | `AgentRuns` |
| Scheduler (`internal/scheduler`) | tables `scheduler_jobs`, `scheduler_runs`; priority queue, running marks, slots | tick, trigger, dispatch, execute, edit, stop, restart | `Scheduler` |
| Releases (`internal/release`, `internal/watcher/release_handler.go`) | one file for each release, table `releases`, expected events | create, update, delete, watch, rehydrate | `Releases` |
| File watcher (`internal/watcher`) | timers, wait group, watched directories | events, debounce, walk, end of `Start` | `FileWatcher` |
| Artifact files, index, transitions (`internal/http/write.go`, `transition.go`, `internal/index`, `internal/workflow`) | artifact files, table `artifacts` | create, PUT, PATCH, delete, rename, transition, auto-block, scan | `ArtifactFiles`, `Workflow` |
| DevOps pipelines (`internal/devops`) | `bySlug`, logs, record files | run, cancel, list, prune, reconcile | `DevOps` |
| Triage (`internal/triage`) | runs in flight, cooldowns, semaphore | trigger, run, stop, rescan | `Triage` |
| Directive files (`internal/directives`) | AGENTS.md, CLAUDE.md, GEMINI.md, the agents in config.yaml | generate, migrate, patch, reload | `Directives` |
| Projects (`internal/http/projects.go`, `server.go`, `internal/config`) | registry, live runtimes, directories | create, init, update, delete, restart | `Projects` |
| Architecture zone (`internal/architecture`) | promoted artefacts, archive, ADRs, summary | promote, commit, write an ADR | `Architecture` |
| Server start and stop (`cmd/kaos-control`, `internal/project`) | - | open, recover, close | in the module of each component |
| Drivers and output parsing, artifact parser, rest of the configuration, auth, git, docs, reports, idea chat, test runner, web client | files, sessions | request/response | none (section 7) |

What makes each part correct:

- Queue: one job at a time, no request executed again once it is done, bounded retries, no duplicate beyond a
  retry and its newcomer, a rate-limit pause that holds, nobody starved.
- Hand-off: a job's verdict is its own run's, a transient error wins over the end it causes, the wait ends.
- Runs and locks: slots and locks are given back exactly once, rows and announcements tell the truth, a test
  under a live run is not offered again.
- Scheduler: slots and running marks are exact on every way out of an execution, ticks do not pile up, every
  started run is closed.
- Files and rows: files are authoritative, rows follow them, every change is handled, a transition changes
  the status it was granted for.
- Pipelines and triage: a run's log and record survive listing, pruning and crashes; one attempt at a time,
  and the user's text stays as it is.
- Projects, directives, architecture: requests that overlap, fail half-way or are cut off lose no directory
  and no text of people, and leave a state that the next request can put right.

`PROJECT.json` lists every component with its status and every hazard at its line, with the properties that
watch it or the reason why none does.

## 2. Plan

Everything planned at first exists now: the core (queue, hand-off, runs), then `Scheduler`, the files and
their rows, pipelines and triage, and the project-level components, with the proofs of section 6. Left:

- A composition of `JobQueue` and `AgentRuns` for a retry that meets the lock of a run that is still closing.
- Heartbeats between the SELECT and the DELETE of the reaper.
- Pipeline definitions (create, edit, delete while running), wizard drafts, `PropagateRename`.

## 3. Modules and the code

Throughout, one step is one SQL statement or transaction, one access to a file, one channel operation or one
critical section of a mutex; a request or goroutine is a program counter with what it has read so far.
Randomly drawn ids are model values, ids that are ordered are numbers. Texts are kept as far as properties
tell them apart.

**JobQueue.** `state`, `path`, `attempts`, `position` are columns of `jobs`; `stored` is `queue_state`;
`manual` and `timed` are `manualPause` and "`pausedUntil` is set"; `pc` and `cur` say where the dispatcher is
and which job it holds. Its actions follow `processNext`: `CheckPaused` (with the goroutine `paused()` may
start, `AutoResumeWrites`), `Dequeue`, `StartFails`, `SkipNotApproved`, `StartRun`, then one action for each
verdict, and for the two transient ones the steps of `handleRateLimit` and `handleAuthError`. Each element of
`Clients` is an HTTP handler; `Enqueue` and `Cancel` are two statements each; pausing is memory first and the
store second (`PauseByHand` also stands for `Manager.PauseQueue`). `Exit` is a crash or a signal, `Restart`
is `RecoverOrphans` followed by `Dispatcher.Start`. `origin`, `restarts`, `limited` and `held` are history.
Positions are kept, times are not (a rate-limit pause can run out at any moment); the artifact's status and
the run's verdict are free choices; a project and a path are one value.

**RequestLifecycle.** A submission and its retries are one request: new, queued, executing, done. At most one
executes, it may go back to the queue, it never executes again once done. `JobQueue` implements it; the
refinement mapping calls a request executing when one of its rows is running or in the dispatcher's hands (a
failed job about to be re-queued still executes), queued when one is pending, else done.

**AgentRuns.** Each run is one goroutine through `StartRun` (`ReadTarget`, `CheckLock`, `TakeSlot`,
`AcquireLock`, `InsertRow`, `MarkActive`, `StartDriver`, the error returns `UndoLock` and `UndoSlot`) and
`supervise` (`ProcessEnds`, `Settle`, `ReleaseLock`, `RecordRow`, `Announce`; `PrecheckFails` and the second
disjunct of `ReleaseLock` are `killAndFail`). `prev` is `prevStatus`, which the in-qa guard uses when it may
be stale. A lock has a holder and an age in two classes; `Release` and the reaper delete by lineage, `taken`
records whose lock went that way, and a heartbeat may come from anybody for any lock. When `Acquire` fails after
its INSERT (it reads the row back), the run is refused, knows nothing of its lock and leaves it behind: `leaky`,
then `stranded`. `UserMoves` is a transition by a product owner, who is not asked for the
lock. `Crash` and `Restart` are the end of the process and `agent.New`; locks survive both. Statuses are
approved, active (for a test in-qa) and done, which stands for all others. That a test has to come from
approved presumes a qa agent, as the code and the shipped configuration do. Kills act on the process only
and are among the reasons for `failed`.

**RunWatch.** The dispatcher from the subscription to the verdict, the watcher's `select`, its channel with a
capacity (64 in the code), and the events of runs, those of other runs (`OtherRun`) included. The hub drops
an event when the channel is full, the watcher drops what it reads before it knows its run id; `missed`
records both. This is what JobQueue abstracts into one action for each verdict.

**Scheduler.** Jobs with a kind, a priority and an `after_job` precondition; the clock in units; threads are
the dispatch loop, triggers, workers and executions, with a common `tryDispatch` (`send`, `try`, `pop`, ...).
What a shell or agent target does is its outcome; a panic is one, after which `execute` recovers and the row
stays `running`, as it does when the write of its end fails (`abandoned`: such executions of this life). `IsDue` is `NextFireTime` together with tick's comparison.

**Releases.** `disk` and `table`, the requests through `Store` and `DiskSync` step by step with their failures,
the watcher's `Handler` with `ExpectedEvents`, `Rehydrate` (a scan, then the prune), people's edits, and
restarts. `written` is history: what has been on disk under a slug. `disturbed` says whether anything else
happened during a `Rehydrate`.

**FileWatcher.** `fire`, the map of timers, callbacks in three stages, the wait group with the arithmetic of
the code (a `Reset` of a timer that has fired adds a callback that is not counted: `rearmed`), new directories
(event, watch, walk) and the end of `Start`.

**ArtifactFiles, Workflow.** Files with a status, open questions, a revision and a kind: people may turn an
artifact into a release or take its frontmatter away, and `IndexFile` passes over both, whatever row they have;
rows; every handler that
writes a file, each of which indexes what it has written, followed by auto-block and the parent's; the watcher
indexes every change once more; `RestartAndScan` is the scan at start-up. `Workflow` has the role rules of
`CanTransition` and the staleness algorithm as operators. `astray` and `raced` name the gaps the code
has: an upsert of a copy that was overtaken, and a writer that does not take the transitions' mutex.

**DevOps.** A run with its log and its record file; requests that start, cancel, list (which makes up records
and prunes) and the reconciliation at start-up. Every write of a record may fail (`TryRecord`), and `unwritten`
remembers whose did; a step may hang (`StepHangs`), since its context kills the shell only and its output is read
to the end first. `Second` gives the second of a run's start, by which files
are named and sorted.

**Triage.** An attempt is one call of `Trigger` and the run it may lead to: fast path, index, semaphore, lock,
second look at the map, then read, generate, write, re-read, patch, index (or put back), and the deferred clean-up. Of a text the model
keeps the headings by which `rewriteBody` recognises its own work, and how often it has been wrapped. Other users of the
lock, the reaper and people are the environment.

**Directives.** Of a file the model keeps whether it has markers, what its region was generated from, and the
texts of people outside and inside the region. `Generate`, `Migrate`, the patch of config.yaml, its PUT and its
reload; people's edits; reads and writes that fail; a crash between any two files. Two histories: `owed`, texts
that were outside a region and that no request with force has struck off, and `migrated`, those of them that
`Migrate` has put into the region of AGENTS.md.

**Projects.** The registry (`entryAt`), the map of live projects, runtimes (open or closed), directories
(absent, people's, made by a request), and each request as its sequence of steps with failures (of closing and deleting, too) and rollbacks.
`overlapped` is history: projects on which two requests have been at work at a time.

**Architecture.** The roots of the zone, the archive, the ADRs with number, slug, status and adopted source, the
summary; promotion, commit and ADR requests step by step. An act records whether it had the zone to itself.

**Compositions.** `MCJobQueue`, `MCAgentRuns`, `MCScheduler`, `MCReleases` only give constants; `MCAgentRuns`
also fixes, in `LocksSpec`, which run works on a test. `MCFiles`, `MCServices` and `MCProject` put components that share no
state into one run: the variable `focus`, constant in each behaviour, says which component, and which view of
it, takes steps, so that state spaces add up. A view restricts the requests (for example: two that promote; or
one that commits, and a hand-written artefact) where all of them together would be too many states; what each
leaves out is said next to it.

## 4. Runs

| Run | Question | Bounds |
|---|---|---|
| `queue_rows` | Single execution, duplicates, attempts, terminal rows, refinement | 3 rows for one artifact, 2 requests, 2 attempts, 1 restart |
| `queue_pause` | Rate-limit pauses hold; every pending job is served (fair) | 3 rows, 1 operator, 2 attempts |
| `agent_runs` | Slots, locks, order of announcements, in-qa; and, in behaviours of their own, directives (texts of people), projects (registry, map, directories), architecture (a commit heals) | 3 runs, or 2 of a test that a product owner moves, 2 slots, 1 editor; 2 requests, 2 texts, 1 crash; 1 project, 2 directories, 2 requests or 1 restart; 2 sources, 2 requests, 2 ADR numbers |
| `agent_locks` | Rows accounted for, locks come free once nobody refreshes them (fair) | 2 runs of 2 artifacts, 1 editor, 1 slot, 1 restart |
| `agent_lineage` | Violated: concurrent runs on one lineage are rejected | 2 runs |
| `run_watch` | Verdicts, transient errors, end of the wait (fair) | 2 runs in either role, channel of 2, 1 progress event |
| `run_watch_missed` | Violated: the dispatcher blocks until the run finishes, not longer | 1 run, channel of 8 |
| `scheduler` | Slots, running marks, ticks, rows; started runs are closed or abandoned by a panic (fair) | 1 interval job, 1 trigger, 1 slot, 2 executions, 1 edit or exit, clock to 2 |
| `scheduler_wakeup` | Violated: a free slot is offered to a waiting job | the same without edits |
| `files` | Rows and files of releases and artifacts, the watcher's wait group, every change is handled (fair) | 2 releases, 1 edit, 1 restart; 2 paths, 3 writes; 3 artifacts, 2 requests, 2 contents, 1 restart |
| `releases_collision` | Violated: a request writes no other release's file | 2 releases, 3 requests |
| `services` | Records and logs of pipelines (fair), attempts and texts of triage | 2 pipelines, 2 runs; 1 run with hanging steps, failing writes and 1 crash; 1 idea, 3 attempts, or 2 with 1 edit and 1 crash |

Why the bounds are enough. The conflicts of the queue are between the row in execution, its retry and one
newcomer for the same artifact; other artifacts add independent rows. Three runs with two slots make the slot
and the lock a bottleneck at once, and the lineage is the unit of conflict. A channel of two is full after two
events. One scheduled job is what goroutines meet over; two executions let one end while the other begins.
Two requests are what a file, a directory or the zone can be fought over by, and one crash reaches recovery
with every half-done step. Symmetry is used only where ids are random or interchangeable in the code and only
for safety. The proofs remove the bounds for the components they cover.

Deadlock is checked where the system never rests (queue, runs, project); elsewhere requests and bounds run out.
`RestIsConsistent`, `RowsFollowFiles`, `CommitHeals` and the like are about the moments at which the code owes
consistency: with two requests at work on one thing it keeps none, as the hazards say.

### What the violated statements show

- `agent_lineage`: runs send no heartbeats, so the reaper deletes the lock of any run older than five minutes;
  a second run of the lineage then starts, and the first one's `Release` deletes the second one's lock.
- `run_watch_missed`: the watcher is registered early but throws away what it reads before the run id
  arrives; a run that ends that fast leaves the dispatcher, and the queue, waiting for ever.
- `scheduler_wakeup`: `tryDispatch` takes a slot, finds the queue empty and gives the slot back; a job pushed in
  between finds no slot and waits, with the slot free, until another run ends or is enqueued.
- `releases_collision`: a rename writes the new file before the cache finds the conflict.

### Statements that do not hold and have no run of their own

Each is stated in its module, or here, and was found violated while modelling.

- `TerminalIsFinal` (JobQueue): `Cancel` checks the state and then writes without looking; a job concluded in
  between changes from one terminal state to another. `TerminalStaysTerminal` is what holds.
- `PauseLastsUntilResume` (JobQueue): the rate-limit handler and the goroutine of `paused()` write the store
  without looking; a restart reads the store, and a manual pause is gone.
- `SecondQaRunRejected` (AgentRuns): the guard sees the status from before the lock; a failed run leaves the
  test in in-qa and a waiting second run marks it again. `RunningTestIsInQa` is what holds.
- `SafeToClose` (FileWatcher): the extra callback of a `Reset` timer is not counted, so `Start` may return
  while a handler is at work, or the counter become negative.
- `PrunesOnlyTheMissing` (Releases): a retitled file collides with a row of the same slug, the upsert fails, and
  the row of a valid file is pruned.
- `OneChoiceInForce` (Architecture): `detectPriorRun` looks at adr-0001 only, so that the third selection
  supersedes the wrong ADR, and committing an earlier selection again approves its superseded ADR.
- Scheduler: cron and one-off jobs are never due (`schedule.go:57,67` against `scheduler.go:185`).
- Directives: a CLAUDE.md that has markers is copied to AGENTS.md and then makes `Migrate` fail
  ("freshBody has no start marker"), and init, create and refresh with it.
- `NoProseIsLost` (Directives), NFR-3 of the requirement: `Migrate` puts the text of CLAUDE.md into the generated
  region of AGENTS.md, and the next `Generate` replaces that region, without force. (The merge of a file that has
  markers is never withheld, although `migrate.go:56-58` says that an AGENTS.md that differs is left alone.)
- `PanickedIsMarkedFailed` (Scheduler): the requirement says that a job which panics is marked failed;
  `execute` recovers, gives back mark and slot and leaves the row `running` until the next start.
- `RowsHaveArtifacts` (ArtifactFiles): a file that becomes a release or loses its frontmatter keeps the row it had,
  since `IndexFile` returns nil and the watcher removes rows of absent files only.
- `CancelEndsRun` (DevOps): `Cancel` "waits for it to finish", and a step with a child that holds a pipe open, or
  with a line that is too long for the scanner, does not.
- A run refused because `Acquire` failed after its INSERT leaves the lineage locked until the reaper or a user
  comes (`AnnouncedLast` names it).
- `replaceIdeaSection` (Triage) replaces everything to the end of the file, not "to the next ## heading".
- The test status lifecycle's FR-2 (a test returns to approved whatever the exit code) against the code,
  which does so on success and at the next restart.

## 5. Fairness

Only weak fairness is used.

- `JobQueue`: of the dispatcher (the loop ticks for ever, a rate-limit pause runs out), its auto-resume
  goroutine, the second statement of a handler, and the restart. That a started run has a verdict is an
  assumption here; `RunWatch` says when it fails.
- `AgentRuns`: goroutines run, a process ends (runs have timeouts), time passes, the reaper ticks, a stopped
  server comes back. Nobody has to start a run or send a heartbeat; and `LocksComeFree` is about
  lineages for which heartbeats come to an end, since anybody may keep any lock alive.
- `RunWatch`: Go's `select` chooses uniformly among ready cases, so neither of the watcher's is ignored for
  ever; `StartRun` returns, processes end. Shutdown is never forced.
- `Scheduler`: goroutines run, the clock advances, a target ends, panics or times out (its output goes to a file,
  so that the end of the shell is the end of the command), the server is started again.
- `FileWatcher`: the loop takes the events it is given, timers fire, callbacks run. An event that postpones a
  timer for ever is excluded by the bound on writes.
- `DevOps`: goroutines run and the server starts again. A step that hangs owes nothing, and `RunsGetRecords`
  excepts it.

## 6. Proofs

`JobQueueProofs`, `AgentRunsProofs`, `RunWatchProofs`, `ProjectsProofs`, `SchedulerProofs`, `FilesProofs` (watcher,
releases, artifacts), `ServicesProofs` (triage, pipelines) and `ScaffoldProofs` (directive files, architecture zone)
hold for any sets of jobs, paths, clients, runs, targets, lineages, projects, directories, pipelines, attempts,
requests, release names, artifacts, notes and sources (those that are counted are finite), and any number of
attempts, slots, workers, tokens, slugs, revisions, restarts, records kept and ADRs and any channel capacity.
The assumptions are `ParamAssumption`, `RunAssumption`, `WatchAssumption`, `ProjectsAssumption`,
`SchedulerAssumption`, `WatcherAssumption`, `ReleasesAssumption`, `ArtifactAssumption`, `TriageAssumption`,
`DevOpsAssumption`, `DirectivesAssumption` and `ArchitectureAssumption`, which every run of these modules evaluates.
Where a model sums or counts, it does so by `Cardinality` and not by recursion, so that it can be proved about.

**Queue.** `Inv` is inductive. `SingleExecution` alone is not: a state in which the dispatcher is idle and a
handler is about to write is harmless only because of `OwnerInv` (the dispatcher holds a job exactly in the
steps of `OwnPc`, the job is running or was cancelled under its hands, and what it re-queues it has marked
failed with attempts to spare). `DuplicatesAreRetries` needs `NewcomersBehind` (what shares the path of the
held job has never run) and positions below all others for retries; the refinement needs `OneIncarnation` (a
request has one row that is active or held) and `OriginInv`. The proof first reduces the actions to a few step
shapes (`StepShape`: quiet, mark, take, insert, let go, submit, cancel, restart) and then shows one lemma for
each shape. The theorems are type correctness, `SingleExecution`, `DuplicatesAreRetries`, `AttemptsBounded`,
`TerminalStaysTerminal`, and `ImplementsLifecycle`: each shape maps to a step of `RequestLifecycle` or to a
stutter. `RateLimitPauseHolds` follows from `LimitedInv`: from the report to the end of the pause the dispatcher
is on its way to the pause or idle under it, so no step from a verdict leads to `Dequeue` without `CheckPaused`.

**Runs.** `Inv` adds to `LockKept` and `SlotsExact` who may own a lock (`LockOwner`: only a run that still has
to release it, that went down with the server, or that does not know it has one), who may own a running row (`RowOwner`), and that nothing
runs while the server is down. `StartEffects` and `SuperviseEffects` describe every action of a run by its
effect on its own program counter, slot, lock and row; the rest of the proof does not look at the actions of
runs again. `SlotsExact` uses the finiteness of `Runs` and cardinalities of sets that gain or lose one
element. `RunningTestIsInQa` adds `QaInv`, for runs that hold their lock and have written the active status: by
`LockKept` two runs of a lineage whose lock nobody deleted are never between `Acquire` and `Release` together, so
nobody else settles the test meanwhile. Theorems: type correctness, `SlotsExact`, `LockKept`, `RowsAccounted`,
`AnnouncedLast`, `RunningTestIsInQa`.

**Hand-off.** `VerdictIsOwn` and `TransientComesFirst` speak about the end of a wait; `Inv` says what makes them
true on the way: which run the dispatcher and the watcher take for theirs (`OwnInv`), that what is in the
channel has been said and a run that is not over has said no final event (`SaidInv`), that a final event is
the last of its run in the channel (`LastInv`), and that a transient report of the run in service was missed,
is noted or is on its way (`PendingInv`). The channel is first in, first out and a run says nothing after its
final event, so when the watcher takes that event no report is left behind it. The steps are grouped into
those that speak (`Speaks`), those that read (`WatcherReads`) and silent ones. Theorems: type correctness,
`VerdictIsOwn`, `TransientComesFirst`.

**Projects.** `PeopleDirsSurvive` needs `MadeInv`: at most one request at a time has made a given directory, and
the directory is not people's until that request has registered its project or taken the directory away.
`LiveRuntimeIsOpen` needs `HeldInv`: a runtime that a request is about to publish or to close is open, of the
request's project, held by no other request and not in the map. `RuntimesSuffice` is what a restart needs of the
bound on runtimes. `RestIsConsistent` speaks of the moments at which nobody is at work; `RestInv` says what holds
on the way there: a request alone with its project knows at each point what the map and the registry say of it
(`Work`: a create request finds no runtime, one about to open has its path in the registry, an edit saves the
path the runtime has), and an open runtime is in the map or held by a request (`Known`). `StepRest` shows that a
step of one request leaves what is said of the other projects alone; there is one lemma for each action under it.
Theorems: type correctness, `LiveRuntimeIsOpen`, `PeopleDirsSurvive`, `RegistryAgrees`.

**Scheduler.** A token of `workerSem` is counted by the places in the code at which a goroutine holds one;
`SlotsAccounted` is the equality of the two sets, kept by every way out of `tryDispatch` and `execute`.
`TickQueuesOnce` is not inductive: the tick looks whether a job is queued and pushes it in two critical
sections. `LoopInv` says what the loop knows in between (nobody but the tick queues an item of the tick's
kind, so what was not there still is not), `ItemInv` what a queued item promises. `RunningMarkIsBacked` and
`RunningRowsAreLive` follow an execution from its mark over `InsertRun` to the end of its row, with deletes,
panics, crashes and restarts in between. Theorems: type correctness, `SlotsAccounted`, `RunningMarkIsBacked`,
`TickQueuesOnce`, `RunningRowsAreLive`.

**File watcher.** `WaitGroupExact` compares the counter with the number of pairs of a path and a callback in
one of its stages, less what a `Reset` of a fired timer has added: `Sum` is a cardinality, and each action adds
or removes one pair of it. `SafeWithoutLateResets` draws the conclusion from the invariant: as long as no fired
timer has been reset the counter is never negative and `Start` returns only when no callback is in flight. So
the race of `Reset` is the only way to break what `Start` promises; that it does break it was found with TLC
(section 4). Type correctness (`WatcherTypes`) follows: no timer or callback ends that has not begun.

**Triage.** `MapInv` says what the map of runs in flight knows of the runs: which attempt an entry belongs to,
whether it runs or cools down. It holds but for the time between `Stop` and the end of the process, in which
nothing registers any more. `SemaphoreExact` counts tokens as in the scheduler. `RawTextIsWrappedOnce` needs
that not only the file but also each text a run has read (before it generates, and before it patches the status)
is wrapped once at most, and is not wrapped unless it has both headings: the guard of `rewriteBody` then tells.
A person who takes a heading away starts the count again, since the next run wraps the text again. Theorems: type
correctness with `SemaphoreExact`, `RawTextIsWrappedOnce` (a state invariant) and `OneAttemptAtATime` (an action
property, from `MapInv`).

**Pipelines.** Four parties write and remove the files of runs and remember what they read in the directory
before. The argument is that what they remember is stable: `Begun` (a run found there has begun) and `Ended` (a
run that is not in the `Runner`'s map is over) only grow, because ids are given out in turn (`IdsInTurn`) and
the map holds exactly the runs that execute (`SlugsInv`). So a prune removes only what is over, a record is
made up and an orphan is marked only after the run's first entry, whichever list the decision came from
(`Memory`). A write of a record that fails leaves the files as they were and
the run in `unwritten`, so `EndedRunHasRecord` and the decisions of the other parties hold with it. `PartyInv`
shows all this once for a step of any party; the lemmas after it show that each action
is such a step, and only `Start`, the end of a run, a crash and `Open` are not. Theorems: type correctness,
`EndedRunHasRecord`, `LiveRunKeepsLog`.

**Releases.** `RelInv` says that whatever is on its way into a row was on disk: a request past its `Put` has put
its file there (`ClientInv`), the file a watcher callback or Rehydrate has read was there (`HandlerInv`,
`LoadInv`), and so is every valid file now (`DiskInv`). `LoadLeavesNoGhost` speaks of the step that prunes;
`LoadFresh` says what Rehydrate knows until then if nobody disturbs it: the file it has read is the one on disk,
and the rows of the files it has seen say what the disk says. Theorems: type correctness, `RowsWereOnDisk`,
`LoadLeavesNoGhost`.

**Artifacts.** `RowsFollowFiles` speaks of a server at rest. On the way there (`Row`) a row that is not astray is
what its file says, or an event of the file is still to come (`dirty`), or some request or callback has yet to
make the row from the file as it is (`Renews`); and a row whose status differs from the one the file settles on is
followed by that of the request which stored it (`Settles`). `Plan` says what each request knows of its files at each
point; a file that `IndexFile` passes over is excepted (`PassedOver`), and comes back under the invariant with the
event of the edit that makes it an artifact again; `RowlessStep` and `RowStep` are the two shapes of steps, those that leave rows alone and those that make
one. `TransitionsFromGrantedStatus` needs the mutex of a path (`OneHolder`) and that a transition nobody overtook
finds the file as it has read it (`Unovertaken`). Theorems: type correctness, `RowsFollowFiles`,
`TransitionsFromGrantedStatus`.

**Directive files.** `HandTextIsKept` is about the texts that are `Protected`: owed, and not yet migrated. A request
about to replace a file has seen exactly those of them that stand outside its region (`HasSeen`; a migration need
not have seen, in AGENTS.md, what still stands in CLAUDE.md), so that a request without force keeps them and one
with force strikes them off knowingly. The pointer replaces CLAUDE.md whatever the request said of force; by then,
all that it replaces is in the region of AGENTS.md (`Migrating`). That holds for any number of migrations at once,
because they all carry the same body, and of migrations and generations only apart (`Meet`; section 7).
`Replaced` and `Wrote` are the shapes of the steps that change a file. What happens to a text in the region is
outside the theorem: `NoProseIsLost` fails (section 4). Theorems: type correctness, `HandTextIsKept`.

**Architecture.** `CommitHeals` speaks of a commit that had the zone to itself from its begin to its end. `ArchInv`
follows it from point to point: which artefacts are promoted and which have moved to the archive
(`Promoting`), which ADR is there and what the summary says (`Recording`). That superseding the earlier
choice leaves the new ADR alone rests on numbers: an earlier choice has number 1 (`Course`), and the new ADR
has one above the greatest there is. Theorems: type correctness, `CommitHeals`.

**Compositions.** TLC checks most components inside `FilesSpec`, `ServicesSpec` and `ProjectSpec`, in which a
choice at the start (`focus`) says which component is at work. `FilesImplement`, `ServicesImplement` and
`ProjectImplements` show that each step of these is one of each component or leaves it alone, so that the
theorems hold of the specifications the runs check: `FilesProperties`, `ServicesProperties`, `ProjectProperties`,
and the types `ServicesTypes` and `ProjectTypes`.

**Model-checked only.** Liveness (`PendingIsServed`, `LocksComeFree`, `AwaitEnds`, `RunsEnd`, `ChangeIsHandled`,
`RunsGetRecords`) is out of the prover's reach, as are `ENABLED` and induction over data.
Every safety property of a passing run is a theorem. The statements that do not hold (section 4) are TLC's
counterexamples.

## 7. Not modelled

- Errors that the code ignores or only logs and that have no action of their own: `MarkTerminal` in the dispatcher,
  `UpdateAgentRun`, `Release` of a lock, the upsert inside `IndexFile` (after which the watcher removes the row),
  appends to a pipeline's log, and removing files in `PruneOldRuns`. Failing writes of a pipeline's record, of the
  end of a scheduled run, of directive files, releases and ideas are modelled, as is every one that makes a
  request fail.
- A project closed and opened again in one process while executions of its first life go on.
- Child processes that survive a crash of the server, output formats, quotas, metrics, secrets, git commits.
- The moment inside `os.WriteFile` in which a file is truncated and not yet written: a reader may see an
  empty file, and a crash leaves one. Where the code writes a temporary file and renames it there is none.
- Generate and Migrate at the same time: both read and replace the same files, and the legacy text of CLAUDE.md
  can be lost; `Alone` in `Directives` excludes it. Edits between the read and the rename of a file are lost in
  any case, and so is a PUT of config.yaml that `PatchAgentConfig` overtakes.
- Two `ReloadConfig`s that interleave `SetConfig` and `SetAgents`, requests that go on with a project that has
  been closed, `p.Entry` written under a read lock: hazards of `internal/project` and `internal/http`.
- `NormaliseDates`, `pruneEscapingPaths`, `PropagateRename`, the roadmap graph, dashboards, every query.
- Pipeline definitions: creation, edit, delete, discovery, bootstrap. (`handleUpdatePipeline` looks twice at
  `AnyRunning` and can still write under a run that starts after the second look.)
- The wizard's drafts, its recommendation, and the catalogue.
- The test runner: `testrunner.Run` is called by its own tests only. Two runs of it at once would file one
  defect twice, overwrite a defect of the same index and lose a witness.
- Idea chat: sessions are shared between requests without a lock; its guard against an existing file is a
  `Stat` followed by a write (`internal/http/idea_chat.go:164`).
- Parsers, the rules of validation and repair of configuration files, reports, authentication, docs, web client:
  request/response code or text conversions, without interleavings of their own.

## 8. Operators named `...Bug`, `RestartForgets`, `RestartRevives`

Each is a plausible slip in the action it stands next to (a dropped check, a missing release, a wrong order).
`PROJECT.json` lists which property fails when the action is replaced by it, so no property is vacuous.

------------------------------- MODULE DevOps -------------------------------
(***************************************************************************)
(* DevOps pipelines: the Runner of internal/devops/runner.go, the logs and *)
(* record files of logger.go, the reconciliation of reconcile.go, the      *)
(* event hook and the startup goroutine of internal/project/project.go,    *)
(* and the run, cancel and history handlers of internal/http/devops.go.    *)
(*                                                                         *)
(* A run leaves two files: a log, to which every event is appended, and a  *)
(* record (meta.json), written when it is over.  Four parties write them   *)
(* without a common lock: the run, a request for the history (which makes  *)
(* up records for logs that have none), a request to cancel, and the       *)
(* goroutine that cleans up after the previous process.                    *)
(*                                                                         *)
(* A step is one access to a file or one critical section of Runner.mu.    *)
(* byRunID is bySlug read backwards and has no variable of its own.        *)
(***************************************************************************)
EXTENDS Integers, FiniteSets, FiniteSetsExt

CONSTANTS
  Pipelines,         \* slugs
  DevClients,        \* concurrent HTTP requests
  NSteps,            \* steps of every pipeline
  Second,            \* Second[r]: the second in which run r starts (StartedAt)
  KeepRuns,          \* records kept for each pipeline (50 in project.go)
  MaxPipelineCrashes \* bound on crashes

Runs == DOMAIN Second   \* 1..n: run ids, in the order of their starts

NoRun == 0
Boot  == -1   \* the goroutine Open starts for ReconcileOrphanedRuns
DevThreads == Runs \cup DevClients \cup {Boot}

ASSUME DevOpsAssumption ==
  /\ NSteps \in Nat \ {0} /\ KeepRuns \in Nat \ {0} /\ MaxPipelineCrashes \in Nat
  /\ IsFiniteSet(Runs) /\ Runs = 1..Cardinality(Runs)
  /\ DevClients \cap (Runs \cup {Boot}) = {}
  /\ \A r, s \in Runs : r <= s => Second[r] <= Second[s]

Results == {"passed", "failed", "cancelled"}

VARIABLES
  logs,      \* run -> its log: first and last entry, and the status that one has
  metas,     \* run -> the status in its record, or "none"
  unwritten, \* history: runs whose record could not be written last, in this process
  bySlug,    \* Runner: pipeline -> its active run
  run,       \* run -> pipeline, step reached, status so far, context cancelled
  at,        \* thread -> where it is
  scan,      \* thread -> what it found in the directory and is working on
  serverUp, pipeCrashes

devFiles == <<logs, metas, unwritten>>
devProc  == <<serverUp, pipeCrashes>>
devVars  == <<devFiles, bySlug, run, at, scan, devProc>>

NoLog == [first |-> "none", last |-> "none", status |-> "none"]
Quiet == [slug |-> "none", todo |-> {}, found |-> {}, cur |-> NoRun, got |-> "none"]

\* A run that has not begun, or has left nothing but its files.
OfPipeline(p) == [slug |-> p, step |-> 0, status |-> "passed", cancelled |-> FALSE]

DevTypeOK ==
  /\ logs \in [Runs -> [first : {"none", "run.started", "run.completed"},
                        last : {"none", "open", "step.completed", "run.completed"},
                        status : Results \cup {"none"}]]
  /\ metas \in [Runs -> Results \cup {"unknown", "none"}]
  /\ unwritten \subseteq Runs
  /\ bySlug \in [Pipelines -> Runs \cup {NoRun}]
  /\ \A r \in Runs : /\ run[r].slug \in Pipelines \cup {"none"}
                     /\ run[r].step \in 0..NSteps /\ run[r].status \in Results
                     /\ run[r].cancelled \in BOOLEAN
  /\ \A t \in DevThreads : /\ scan[t].slug \in Pipelines \cup {"none"}
                           /\ scan[t].todo \subseteq Runs /\ scan[t].found \subseteq Runs
                           /\ scan[t].cur \in Runs \cup {NoRun}
                           /\ scan[t].got \in Results \cup {"unknown", "none"}
  /\ serverUp \in BOOLEAN /\ pipeCrashes \in 0..MaxPipelineCrashes

Live == {bySlug[p] : p \in Pipelines} \ {NoRun}   \* IsRunningID

LogExists(r) == logs[r].first # "none"

\* WriteEvent appends, and creates a log that is not there.
WriteEvent(r, kind, status) ==
  logs' = [logs EXCEPT ![r] = [first |-> IF LogExists(r) THEN @.first ELSE kind,
                               last |-> IF kind = "run.started" THEN "open" ELSE kind,
                               status |-> status]]

WriteRecord(r, status) == metas' = [metas EXCEPT ![r] = status]

\* LogStore.WriteRecord can fail; whoever calls it logs the error and goes on.
TryRecord(r, status) ==
  \/ WriteRecord(r, status) /\ unwritten' = unwritten \ {r}
  \/ UNCHANGED metas /\ unwritten' = unwritten \cup {r}

At(t, a)   == serverUp /\ at[t] = a
Goes(t, a) == at' = [at EXCEPT ![t] = a]
Rest(t) == Goes(t, "rest") /\ scan' = [scan EXCEPT ![t] = Quiet]

---------------------------------------------------------------------------
(* A run: the goroutine of Runner.Start.                                   *)

\* handleRunPipeline: IsRunning, then Start, which looks again under mu; run ids are
\* fresh.
handleRunPipeline(p) ==
  LET r == 1 + Cardinality({x \in Runs : at[x] # "absent"}) IN
  /\ serverUp /\ bySlug[p] = NoRun /\ r \in Runs
  /\ bySlug' = [bySlug EXCEPT ![p] = r]
  /\ run' = [run EXCEPT ![r].slug = p]
  /\ Goes(r, "begin") /\ scan' = [scan EXCEPT ![r].slug = p]
  /\ UNCHANGED <<devFiles, devProc>>

BeginRun(r) ==
  /\ At(r, "begin")
  /\ WriteEvent(r, "run.started", "none")
  /\ Goes(r, "next")
  /\ UNCHANGED <<metas, unwritten, bySlug, run, scan, devProc>>

\* The loop over the steps ends at the first step that did not pass.
StepBegins(r) ==
  /\ At(r, "next") /\ run[r].step < NSteps /\ run[r].status = "passed"
  /\ logs' = [logs EXCEPT ![r].last = "open", ![r].status = "none"]
  /\ run' = [run EXCEPT ![r].step = @ + 1]
  /\ Goes(r, IF run[r].cancelled THEN "refused" ELSE "step")
  /\ UNCHANGED <<metas, unwritten, bySlug, scan, devProc>>

\* How a step can end, if it does.  cmd.Start fails, as it always does under a context
\* that is cancelled already; the command exits with 0; or it fails, is killed at its
\* timeout or by Cancel, and such an error counts as cancelled once the context is.
runStep(r) ==
  IF At(r, "refused") THEN {"failed"}
  ELSE {"passed", "failed"} \cup (IF run[r].cancelled THEN {"cancelled"} ELSE {})

\* The context kills the shell only, and its output is read to the end before
\* cmd.Wait: a step whose children keep a pipe open goes on past its timeout and past
\* Cancel, until they end, if ever.
StepHangs(r) ==
  /\ At(r, "step")
  /\ Goes(r, "hung")
  /\ UNCHANGED <<devFiles, bySlug, run, scan, devProc>>

StepEnds(r) ==
  /\ At(r, "step") \/ At(r, "refused") \/ At(r, "hung")
  /\ \E status \in runStep(r) : /\ run' = [run EXCEPT ![r].status = status]
                              /\ WriteEvent(r, "step.completed", status)
  /\ Goes(r, "next")
  /\ UNCHANGED <<metas, unwritten, bySlug, scan, devProc>>

\* Mutant: the handle goes before the record is written.
CompleteBug(r) ==
  /\ At(r, "next") /\ (run[r].step = NSteps \/ run[r].status # "passed")
  /\ WriteEvent(r, "run.completed", run[r].status)
  /\ bySlug' = [bySlug EXCEPT ![run[r].slug] = NoRun]
  /\ Goes(r, "gone")
  /\ UNCHANGED <<metas, unwritten, run, scan, devProc>>

\* The hook on run.completed: the event goes to the log,
Complete(r) ==
  /\ At(r, "next") /\ (run[r].step = NSteps \/ run[r].status # "passed")
  /\ WriteEvent(r, "run.completed", run[r].status)
  /\ Goes(r, "record")
  /\ UNCHANGED <<metas, unwritten, bySlug, run, scan, devProc>>

\* then the record is written, or not, then old runs are pruned (PruneOldRuns lists first).
Record(r) ==
  /\ At(r, "record")
  /\ TryRecord(r, run[r].status)
  /\ Goes(r, "list")
  /\ UNCHANGED <<logs, bySlug, run, scan, devProc>>

\* Nothing (more) to prune; the deferred functions: the handle goes, done is closed.
Leaves(r) ==
  /\ At(r, "prune") /\ scan[r].todo = {}
  /\ bySlug' = [bySlug EXCEPT ![run[r].slug] = NoRun]
  /\ run' = [run EXCEPT ![r] = OfPipeline(@.slug)]
  /\ Goes(r, "gone") /\ scan' = [scan EXCEPT ![r] = Quiet]
  /\ UNCHANGED <<devFiles, devProc>>

executeRun(r) ==
  \/ BeginRun(r) \/ StepBegins(r) \/ StepHangs(r) \/ StepEnds(r)
  \/ Complete(r) \/ Record(r) \/ Leaves(r)

---------------------------------------------------------------------------
(* ListPipelineRuns: for a request, or at the start of PruneOldRuns.       *)

\* One reading of the directory: the records of the pipeline, and every log, of
\* whichever pipeline, that has no record.
ListDir(t) ==
  /\ At(t, "list")
  /\ scan' = [scan EXCEPT
       ![t].found = {r \in Runs : metas[r] # "none" /\ run[r].slug = scan[t].slug},
       ![t].todo = {r \in Runs : LogExists(r) /\ metas[r] = "none"}]
  /\ Goes(t, "scan")
  /\ UNCHANGED <<devFiles, bySlug, run, devProc>>

\* backfillRecord makes up a record from the first and the last entry of the log;
DerivedStatus(r) ==
  IF logs[r].last \in {"run.completed", "step.completed"} THEN logs[r].status ELSE "unknown"

ReadLog(t, r) ==
  /\ At(t, "scan") /\ r \in scan[t].todo
  /\ IF logs[r].first = "run.started"
     THEN /\ scan' = [scan EXCEPT ![t].todo = @ \ {r}, ![t].cur = r, ![t].got = DerivedStatus(r)]
          /\ Goes(t, "backfill")
     ELSE scan' = [scan EXCEPT ![t].todo = @ \ {r}] /\ UNCHANGED at
  /\ UNCHANGED <<devFiles, bySlug, run, devProc>>

\* and writes it, over one that may have been written since; it is listed even if it
\* could not be written.
backfillRecord(t) ==
  LET r == scan[t].cur IN
  /\ At(t, "backfill")
  /\ TryRecord(r, scan[t].got)
  /\ scan' = [scan EXCEPT ![t].found = IF run[r].slug = scan[t].slug THEN @ \cup {r} ELSE @,
                          ![t].cur = NoRun, ![t].got = "none"]
  /\ Goes(t, "scan")
  /\ UNCHANGED <<logs, bySlug, run, devProc>>

\* Newest first, by the second; what is beyond KeepRuns is to be removed.
Newest(kept, all) == \A r \in kept, s \in all \ kept : Second[r] >= Second[s]

ListedAll(t) ==
  /\ At(t, "scan") /\ scan[t].todo = {}
  /\ IF t \in DevClients
     THEN Rest(t)
     ELSE /\ Goes(t, "prune")
          /\ \E kept \in SUBSET scan[t].found :
               /\ Newest(kept, scan[t].found)
               /\ Cardinality(kept) = Min({KeepRuns, Cardinality(scan[t].found)})
               /\ scan' = [scan EXCEPT ![t].todo = scan[t].found \ kept, ![t].found = {}]
  /\ UNCHANGED <<devFiles, bySlug, run, devProc>>

\* Mutant: isActive is not asked.
PruneOneBug(t, r) ==
  /\ At(t, "prune") /\ r \in scan[t].todo
  /\ WriteRecord(r, "none")
  /\ scan' = [scan EXCEPT ![t].todo = @ \ {r}, ![t].cur = r]
  /\ Goes(t, "unlink")
  /\ UNCHANGED <<logs, unwritten, bySlug, run, devProc>>

\* The loop of PruneOldRuns: an active run is passed over; of any other the record
\* is removed, then the log.
PruneOne(t, r) ==
  /\ At(t, "prune") /\ r \in scan[t].todo
  /\ IF r \in Live
     THEN UNCHANGED <<metas, unwritten, at>> /\ scan' = [scan EXCEPT ![t].todo = @ \ {r}]
     ELSE /\ WriteRecord(r, "none")
          /\ scan' = [scan EXCEPT ![t].todo = @ \ {r}, ![t].cur = r]
          /\ Goes(t, "unlink")
  /\ UNCHANGED <<logs, unwritten, bySlug, run, devProc>>

RemoveLog(t) ==
  /\ At(t, "unlink")
  /\ logs' = [logs EXCEPT ![scan[t].cur] = NoLog]
  /\ scan' = [scan EXCEPT ![t].cur = NoRun]
  /\ Goes(t, "prune")
  /\ UNCHANGED <<metas, unwritten, bySlug, run, devProc>>

ListPipelineRuns(t) ==
  \/ ListDir(t) \/ backfillRecord(t) \/ ListedAll(t) \/ RemoveLog(t)
  \/ \E r \in Runs : ReadLog(t, r) \/ PruneOne(t, r)

---------------------------------------------------------------------------
(* Orphans.                                                                *)

\* Logs that begin with run.started and have no record.
orphanCandidates == {r \in Runs : logs[r].first = "run.started" /\ metas[r] = "none"}

\* ReconcileOrphanedRuns: one reading of the directory,
FindOrphans ==
  /\ At(Boot, "boot")
  /\ scan' = [scan EXCEPT ![Boot].todo = orphanCandidates]
  /\ Goes(Boot, "reconcile")
  /\ UNCHANGED <<devFiles, bySlug, run, devProc>>

\* then each candidate that is not active now is marked.
ReconcileOne(r) ==
  /\ At(Boot, "reconcile") /\ r \in scan[Boot].todo
  /\ IF r \in Live
     THEN scan' = [scan EXCEPT ![Boot].todo = @ \ {r}] /\ UNCHANGED at
     ELSE scan' = [scan EXCEPT ![Boot].todo = @ \ {r}, ![Boot].cur = r] /\ Goes(Boot, "mark")
  /\ UNCHANGED <<devFiles, bySlug, run, devProc>>

ReconciledAll ==
  /\ At(Boot, "reconcile") /\ scan[Boot].todo = {}
  /\ Rest(Boot)
  /\ UNCHANGED <<devFiles, bySlug, run, devProc>>

\* ReconcileSlugOrphan: the candidate of the pipeline with the latest first entry.
ReconcileSlugOrphan(t) ==
  LET mine == {r \in orphanCandidates : run[r].slug = scan[t].slug} IN
  /\ At(t, "orphan")
  /\ \/ mine = {} /\ Rest(t)
     \/ \E r \in mine :
          /\ \A x \in mine : x <= r
          /\ scan' = [scan EXCEPT ![t].cur = r] /\ Goes(t, "mark")
  /\ UNCHANGED <<devFiles, bySlug, run, devProc>>

\* markOrphanCancelled: an entry in the log, then the record.
MarkInLog(t) ==
  /\ At(t, "mark")
  /\ WriteEvent(scan[t].cur, "run.completed", "cancelled")
  /\ Goes(t, "markRecord")
  /\ UNCHANGED <<metas, unwritten, bySlug, run, scan, devProc>>

\* Mutant: the log gets its last entry, but no record is written.
MarkRecordBug(t) ==
  /\ At(t, "markRecord")
  /\ IF t = Boot THEN Goes(t, "reconcile") /\ scan' = [scan EXCEPT ![t].cur = NoRun] ELSE Rest(t)
  /\ UNCHANGED <<devFiles, bySlug, run, devProc>>

MarkRecord(t) ==
  /\ At(t, "markRecord")
  /\ TryRecord(scan[t].cur, "cancelled")
  /\ IF t = Boot THEN Goes(t, "reconcile") /\ scan' = [scan EXCEPT ![t].cur = NoRun] ELSE Rest(t)
  /\ UNCHANGED <<logs, bySlug, run, devProc>>

Reconcile(t) ==
  \/ t = Boot /\ (FindOrphans \/ ReconciledAll \/ \E r \in Runs : ReconcileOne(r))
  \/ ReconcileSlugOrphan(t) \/ MarkInLog(t) \/ MarkRecord(t)

---------------------------------------------------------------------------
(* Requests. *)

handleListPipelineRuns(c, p) ==
  /\ At(c, "rest")
  /\ Goes(c, "list") /\ scan' = [scan EXCEPT ![c].slug = p]
  /\ UNCHANGED <<devFiles, bySlug, run, devProc>>

\* ActiveRunID decides which way the cancellation goes.
handleCancelPipeline(c, p) ==
  /\ At(c, "rest")
  /\ Goes(c, IF bySlug[p] # NoRun THEN "cancel" ELSE "orphan")
  /\ scan' = [scan EXCEPT ![c].slug = p, ![c].cur = bySlug[p]]
  /\ UNCHANGED <<devFiles, bySlug, run, devProc>>

\* Runner.Cancel: refused if the run has gone; else it cancels the context
CancelRun(c) ==
  /\ At(c, "cancel")
  /\ IF scan[c].cur \in Live
     THEN run' = [run EXCEPT ![scan[c].cur].cancelled = TRUE] /\ Goes(c, "wait") /\ UNCHANGED scan
     ELSE Rest(c) /\ UNCHANGED run
  /\ UNCHANGED <<devFiles, bySlug, devProc>>

\* and waits for done.
CancelReturns(c) ==
  /\ At(c, "wait") /\ at[scan[c].cur] = "gone"
  /\ Rest(c)
  /\ UNCHANGED <<devFiles, bySlug, run, devProc>>

DevRequest(c) ==
  \E p \in Pipelines :
    handleListPipelineRuns(c, p) \/ handleCancelPipeline(c, p)

---------------------------------------------------------------------------
(* The process. *)

\* A crash (or an exit: nothing waits for pipelines) takes the goroutines along.
PipelineCrash ==
  /\ serverUp /\ pipeCrashes < MaxPipelineCrashes
  /\ serverUp' = FALSE /\ pipeCrashes' = pipeCrashes + 1
  /\ bySlug' = [p \in Pipelines |-> NoRun]
  /\ at' = [t \in DevThreads |-> IF t \notin Runs THEN "rest"
                                 ELSE IF at[t] = "absent" THEN "absent" ELSE "dead"]
  /\ scan' = [t \in DevThreads |-> Quiet]
  /\ run' = [r \in Runs |-> OfPipeline(run[r].slug)]
  /\ unwritten' = {} /\ UNCHANGED <<logs, metas>>

\* Open: a new Runner, and the goroutine of ReconcileOrphanedRuns.
OpenPipelines ==
  /\ ~serverUp /\ serverUp' = TRUE
  /\ at' = [at EXCEPT ![Boot] = "boot"]
  /\ UNCHANGED <<devFiles, bySlug, run, scan, pipeCrashes>>

\* A server whose startup goroutine has found nothing to do.
DevInit ==
  /\ logs = [r \in Runs |-> NoLog]
  /\ metas = [r \in Runs |-> "none"] /\ unwritten = {}
  /\ bySlug = [p \in Pipelines |-> NoRun]
  /\ run = [r \in Runs |-> OfPipeline("none")]
  /\ at = [t \in DevThreads |-> IF t \in Runs THEN "absent" ELSE "rest"]
  /\ scan = [t \in DevThreads |-> Quiet]
  /\ serverUp = TRUE /\ pipeCrashes = 0

\* What a thread does once it has begun.
DevThread(t) ==
  \/ t \in Runs /\ executeRun(t)
  \/ t \in DevClients /\ (CancelRun(t) \/ CancelReturns(t))
  \/ ListPipelineRuns(t) \/ Reconcile(t)

\* What Go's scheduler will get to: it is not its doing that a hung step ends.
Proceeds(t) == DevThread(t) /\ at[t] # "hung"

DevNext ==
  \/ \E t \in DevThreads : DevThread(t)
  \/ \E p \in Pipelines : handleRunPipeline(p)
  \/ \E c \in DevClients : DevRequest(c)
  \/ PipelineCrash \/ OpenPipelines

DevSpec == DevInit /\ [][DevNext]_devVars

---------------------------------------------------------------------------
(* Properties. *)

\* orphanCandidates takes a log without a record for a run that never ended.
\* That needs the order kept by the hook and the deferred functions: when the
\* handle of a run goes, its record is there, unless it is being pruned or could not
\* be written.
EndedRunHasRecord ==
  \A r \in Runs : at[r] = "gone" /\ logs[r].first = "run.started" =>
    \/ metas[r] # "none" \/ r \in unwritten
    \/ \E t \in Runs : at[t] = "unlink" /\ scan[t].cur = r

\* Whatever prunes, lists or reconciles, a run that executes keeps its log from
\* the first entry on (the viewer reads it, and after a crash it is all there is).
LiveRunKeepsLog ==
  \A r \in Live : at[r] # "begin" => logs[r].first = "run.started"

\* "both the log viewer and run-history listing show a resolved terminal state":
\* whatever happens to the process, a run that was logged ends up with a record, or is
\* pruned, or hangs in a step; or its record could not be written, and nobody has
\* listed the history or started the server since.
RunsGetRecords ==
  \A r \in Runs :
    logs[r].first = "run.started" ~>
      \/ metas[r] # "none" \/ logs[r].first # "run.started"
      \/ at[r] = "hung" \/ r \in unwritten

\* "Cancel signals the active run ... to stop, waits for it to finish, and returns nil":
\* a cancelled run ends.  It does not: see StepHangs.
CancelEndsRun ==
  \A r \in Runs : run[r].cancelled ~> ~run[r].cancelled

=============================================================================

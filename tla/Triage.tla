------------------------------- MODULE Triage -------------------------------
(***************************************************************************)
(* Automatic triage of raw ideas: internal/triage/triage.go (Trigger, Stop *)
(* and the goroutine of a run), run.go (what a run does), eligibility.go   *)
(* and rescan.go, and the callers in internal/watcher, internal/project    *)
(* and internal/http/triage.go.                                            *)
(*                                                                         *)
(* An attempt is one call of Trigger and, if it gets that far, the run it  *)
(* starts; its number is the run id.  It passes a fast path, a check of    *)
(* the index, a semaphore, the lineage lock and a second look at the map   *)
(* of runs in flight; each can have changed by the time of the next.       *)
(* Every idea has a lineage of its own.                                    *)
(***************************************************************************)
EXTENDS Integers, FiniteSets

CONSTANTS
  Ideas,            \* files in lifecycle/ideas
  Attempts,         \* 1..n, calls of Trigger
  MaxConcurrent,    \* Options.MaxConcurrent
  MaxIdeaEdits,     \* bound on the edits people make
  MaxTriageCrashes  \* bound on crashes

ASSUME TriageAssumption ==
  /\ IsFiniteSet(Attempts) /\ Attempts = 1..Cardinality(Attempts)
  /\ MaxConcurrent \in Nat \ {0} /\ MaxIdeaEdits \in Nat /\ MaxTriageCrashes \in Nat

Free  == 0    \* no lock, no run in flight
Agent == -1   \* the lock is held by an agent run or an editor

VARIABLES
  idea,        \* path -> its file: status, the headings of triage that are in it, how
               \* often it was wrapped since a person left it without one of them,
               \* and the number of the last edit
  indexed,     \* path -> the status in the index
  inFlight,    \* path -> the attempt in Manager.inFlight
  cooling,     \* paths with a cooldown timer
  taken,       \* tokens out of Manager.sem
  lineageLock, \* path -> holder of the lock of its lineage
  attempt,     \* attempt -> where it is, its path, the bytes it read, before and
               \* after its own write, and runErr = nil
  runRow,      \* attempt -> status of its row in agent_runs
  managerUp, stopped, triageCrashes, ideaEdits

ideaVars  == <<idea, indexed, ideaEdits>>
mapVars   == <<inFlight, cooling>>
mgrVars   == <<managerUp, stopped, triageCrashes>>
triageVars == <<ideaVars, mapVars, taken, lineageLock, attempt, runRow, mgrVars>>

Statuses == {"raw", "draft"}
Sections == {"Raw Idea", "Idea"}
File     == [status : Statuses, headings : SUBSET Sections, wraps : 0..2, edit : 0..MaxIdeaEdits]
NewIdea  == [status |-> "raw", headings |-> {}, wraps |-> 0, edit |-> 0]

InRun == {"insert", "read", "llm", "write", "advance", "patch", "reindex", "rollback", "close"}
Tail  == {"freeSlot", "freeLock", "finish"}

TriageTypeOK ==
  /\ idea \in [Ideas -> File]
  /\ indexed \in [Ideas -> Statuses]
  /\ inFlight \in [Ideas -> Attempts \cup {Free}]
  /\ cooling \subseteq Ideas
  /\ taken \in 0..MaxConcurrent
  /\ lineageLock \in [Ideas -> Attempts \cup {Free, Agent}]
  /\ \A t \in Attempts :
       /\ attempt[t].pc \in {"new", "eligible", "slot", "lock", "register", "refund", "over"}
                              \cup InRun \cup Tail
       /\ attempt[t].path \in Ideas /\ attempt[t].ok \in BOOLEAN
       /\ attempt[t].original \in File /\ attempt[t].current \in File
  /\ runRow \in [Attempts -> {"none", "running", "done", "failed"}]
  /\ managerUp \in BOOLEAN /\ stopped \in BOOLEAN
  /\ triageCrashes \in 0..MaxTriageCrashes /\ ideaEdits \in 0..MaxIdeaEdits

Is(t, pc) == managerUp /\ attempt[t].pc = pc
To(t, pc) == attempt' = [attempt EXCEPT ![t].pc = pc]
End(t, pc, ok) == attempt' = [attempt EXCEPT ![t].pc = pc, ![t].ok = ok]
PathOf(t) == attempt[t].path
\* Nothing is left of the variables of a goroutine that has ended.
Over(t) == [pc |-> "over", path |-> PathOf(t), ok |-> TRUE, original |-> NewIdea, current |-> NewIdea]

IndexFile(p) == indexed' = [indexed EXCEPT ![p] = idea[p].status]

---------------------------------------------------------------------------
(* Trigger. *)

\* The fast path: a run in flight (or cooling) is returned instead.
Trigger(t, p) ==
  /\ Is(t, "new") /\ \A u \in Attempts : u < t => attempt[u].pc # "new"
  /\ attempt' = [attempt EXCEPT ![t].path = p,
                                ![t].pc = IF inFlight[p] # Free THEN "over" ELSE "eligible"]
  /\ UNCHANGED <<ideaVars, mapVars, taken, lineageLock, runRow, mgrVars>>

eligible(t) ==
  /\ Is(t, "eligible")
  /\ To(t, IF indexed[PathOf(t)] = "raw" THEN "slot" ELSE "over")
  /\ UNCHANGED <<ideaVars, mapVars, taken, lineageLock, runRow, mgrVars>>

\* m.sem <- struct{}{}, or the context of the caller is done: ErrBusy.
TakeSlot(t) ==
  /\ Is(t, "slot")
  /\ \/ taken < MaxConcurrent /\ taken' = taken + 1 /\ To(t, "lock")
     \/ To(t, "over") /\ UNCHANGED taken
  /\ UNCHANGED <<ideaVars, mapVars, lineageLock, runRow, mgrVars>>

\* Mutant: on a conflict the token goes back here and again at Refund.
TakeLockBug(t) ==
  /\ Is(t, "lock")
  /\ IF lineageLock[PathOf(t)] = Free
     THEN lineageLock' = [lineageLock EXCEPT ![PathOf(t)] = t] /\ To(t, "register") /\ UNCHANGED taken
     ELSE taken' = taken - 1 /\ To(t, "refund") /\ UNCHANGED lineageLock
  /\ UNCHANGED <<ideaVars, mapVars, runRow, mgrVars>>

\* Locks.Acquire; on a conflict the token goes back and the caller gets the run in
\* flight or ErrLocked.
TakeLock(t) ==
  /\ Is(t, "lock")
  /\ IF lineageLock[PathOf(t)] = Free
     THEN lineageLock' = [lineageLock EXCEPT ![PathOf(t)] = t] /\ To(t, "register") /\ UNCHANGED taken
     ELSE taken' = taken - 1 /\ To(t, "over") /\ UNCHANGED lineageLock
  /\ UNCHANGED <<ideaVars, mapVars, runRow, mgrVars>>

\* Mutant: the map is not looked at again.
RegisterBug(t) ==
  /\ Is(t, "register")
  /\ inFlight' = [inFlight EXCEPT ![PathOf(t)] = t] /\ To(t, "insert")
  /\ UNCHANGED <<ideaVars, cooling, taken, lineageLock, runRow, mgrVars>>

\* The second look at the map, under mu.  Release takes a lineage, not a holder.
Register(t) ==
  LET p == PathOf(t) IN
  /\ Is(t, "register")
  /\ IF inFlight[p] # Free
     THEN lineageLock' = [lineageLock EXCEPT ![p] = Free] /\ To(t, "refund") /\ UNCHANGED inFlight
     ELSE inFlight' = [inFlight EXCEPT ![p] = t] /\ To(t, "insert") /\ UNCHANGED lineageLock
  /\ UNCHANGED <<ideaVars, cooling, taken, runRow, mgrVars>>

Refund(t) ==
  /\ Is(t, "refund")
  /\ taken' = taken - 1 /\ To(t, "over")
  /\ UNCHANGED <<ideaVars, mapVars, lineageLock, runRow, mgrVars>>

---------------------------------------------------------------------------
(* execute. *)

recordRunStart(t) ==
  /\ Is(t, "insert")
  /\ runRow' = [runRow EXCEPT ![t] = "running"] /\ To(t, "read")
  /\ UNCHANGED <<ideaVars, mapVars, taken, lineageLock, mgrVars>>

ReadOriginal(t) ==
  /\ Is(t, "read")
  /\ \/ attempt' = [attempt EXCEPT ![t].original = idea[PathOf(t)], ![t].pc = "llm"]
     \/ End(t, "close", FALSE)
  /\ UNCHANGED <<ideaVars, mapVars, taken, lineageLock, runRow, mgrVars>>

\* ideachat.Generate: an answer, or an error (always, for a request that has been
\* answered: its context is the run's).  After a panic runErr and retErr are nil.
Generate(t) ==
  /\ Is(t, "llm")
  /\ \/ To(t, "write")
     \/ \E ok \in BOOLEAN : End(t, "close", ok)
  /\ UNCHANGED <<ideaVars, mapVars, taken, lineageLock, runRow, mgrVars>>

\* Mutant: the text is wrapped whether or not it is already.
rewriteBodyBug(f) == [f EXCEPT !.wraps = @ + 1, !.headings = Sections]

\* The text goes under "## Raw Idea", unless both headings are there.
rewriteBody(f) ==
  IF Sections \subseteq f.headings THEN f ELSE [f EXCEPT !.wraps = @ + 1, !.headings = Sections]

\* What was read is written, with a new body: an edit made meanwhile is lost.
WriteIdea(t) ==
  /\ Is(t, "write")
  /\ \/ /\ idea' = [idea EXCEPT ![PathOf(t)] = rewriteBody(attempt[t].original)]
        /\ To(t, "advance")
     \/ End(t, "close", FALSE) /\ UNCHANGED idea
  /\ UNCHANGED <<indexed, ideaEdits, mapVars, taken, lineageLock, runRow, mgrVars>>

\* applyDraftTransition: refused by the workflow, or by a file that cannot be read or
\* whose status field is gone; nothing to do if somebody has set another status;
applyDraftTransition(t) ==
  LET now == idea[PathOf(t)] IN
  /\ Is(t, "advance")
  /\ \/ To(t, "rollback")
     \/ now.status # "raw" /\ End(t, "close", TRUE)
     \/ /\ now.status = "raw"
        /\ attempt' = [attempt EXCEPT ![t].current = now, ![t].pc = "patch"]
  /\ UNCHANGED <<ideaVars, mapVars, taken, lineageLock, runRow, mgrVars>>

\* else what it has read is written with the new status (over an edit, again)
PatchStatus(t) ==
  /\ Is(t, "patch")
  /\ \/ /\ idea' = [idea EXCEPT ![PathOf(t)] = [attempt[t].current EXCEPT !.status = "draft"]]
        /\ End(t, "reindex", TRUE)
     \/ To(t, "rollback") /\ UNCHANGED idea
  /\ UNCHANGED <<indexed, ideaEdits, mapVars, taken, lineageLock, runRow, mgrVars>>

\* and indexed, as is what Rollback has put back, if it could.
IndexIdea(t) ==
  /\ Is(t, "reindex")
  /\ IndexFile(PathOf(t)) /\ To(t, "close")
  /\ UNCHANGED <<idea, ideaEdits, mapVars, taken, lineageLock, runRow, mgrVars>>

Rollback(t) ==
  /\ Is(t, "rollback")
  /\ idea' = [idea EXCEPT ![PathOf(t)] = attempt[t].original] \/ UNCHANGED idea
  /\ End(t, "reindex", FALSE)
  /\ UNCHANGED <<indexed, ideaEdits, mapVars, taken, lineageLock, runRow, mgrVars>>

recordRunComplete(t) ==
  /\ Is(t, "close")
  /\ runRow' = [runRow EXCEPT ![t] = IF attempt[t].ok THEN "done" ELSE "failed"]
  /\ To(t, "freeSlot")
  /\ UNCHANGED <<ideaVars, mapVars, taken, lineageLock, mgrVars>>

execute(t) ==
  \/ recordRunStart(t) \/ ReadOriginal(t) \/ Generate(t) \/ WriteIdea(t)
  \/ applyDraftTransition(t) \/ PatchStatus(t) \/ IndexIdea(t) \/ Rollback(t)
  \/ recordRunComplete(t)

---------------------------------------------------------------------------
(* The deferred function of the run: token, lock, map. *)

ReturnSlot(t) ==
  /\ Is(t, "freeSlot")
  /\ taken' = taken - 1 /\ To(t, "freeLock")
  /\ UNCHANGED <<ideaVars, mapVars, lineageLock, runRow, mgrVars>>

ReleaseLock(t) ==
  /\ Is(t, "freeLock")
  /\ lineageLock' = [lineageLock EXCEPT ![PathOf(t)] = Free] /\ To(t, "finish")
  /\ UNCHANGED <<ideaVars, mapVars, taken, runRow, mgrVars>>

\* A failed run stays in the map, with a timer that will remove it.
Finish(t) ==
  /\ Is(t, "finish")
  /\ IF attempt[t].ok
     THEN inFlight' = [inFlight EXCEPT ![PathOf(t)] = Free] /\ UNCHANGED cooling
     ELSE cooling' = cooling \cup {PathOf(t)} /\ UNCHANGED inFlight
  /\ attempt' = [attempt EXCEPT ![t] = Over(t)]
  /\ UNCHANGED <<ideaVars, taken, lineageLock, runRow, mgrVars>>

CooldownOver(p) ==
  /\ managerUp /\ p \in cooling
  /\ cooling' = cooling \ {p}
  /\ inFlight' = [inFlight EXCEPT ![p] = Free]
  /\ UNCHANGED <<ideaVars, taken, lineageLock, attempt, runRow, mgrVars>>

\* Stop, when the runs are over or its context is: the map and the timers go.
StopTriage ==
  /\ managerUp /\ ~stopped /\ stopped' = TRUE
  /\ inFlight' = [p \in Ideas |-> Free] /\ cooling' = {}
  /\ UNCHANGED <<ideaVars, taken, lineageLock, attempt, runRow, managerUp, triageCrashes>>

---------------------------------------------------------------------------
(* Everybody else. *)

\* A person saves the idea, with any status, and with the headings of triage or without.
EditIdea(p) ==
  /\ ideaEdits < MaxIdeaEdits /\ ideaEdits' = ideaEdits + 1
  /\ \E s \in Statuses, h \in SUBSET Sections :
       idea' = [idea EXCEPT ![p] = [status |-> s, headings |-> h, edit |-> ideaEdits + 1,
                                    wraps |-> IF Sections \subseteq h THEN idea[p].wraps ELSE 0]]
  /\ UNCHANGED <<indexed, mapVars, taken, lineageLock, attempt, runRow, mgrVars>>

\* The watcher indexes a file that has changed.
Reindex(p) ==
  /\ managerUp /\ indexed[p] # idea[p].status
  /\ IndexFile(p)
  /\ UNCHANGED <<idea, ideaEdits, mapVars, taken, lineageLock, attempt, runRow, mgrVars>>

\* Other users of the lock; and the reaper, since a triage run sends no heartbeat.
OtherHolder(p) ==
  /\ managerUp
  /\ \/ lineageLock[p] = Free /\ lineageLock' = [lineageLock EXCEPT ![p] = Agent]
     \/ lineageLock[p] = Agent /\ lineageLock' = [lineageLock EXCEPT ![p] = Free]
     \/ /\ lineageLock[p] \in Attempts /\ attempt[lineageLock[p]].pc \in {"llm", "over"}
        /\ lineageLock' = [lineageLock EXCEPT ![p] = Free]
  /\ UNCHANGED <<ideaVars, mapVars, taken, attempt, runRow, mgrVars>>

\* A crash, or the end of the process after Stop.  The rows of locks stay.
TriageCrash ==
  /\ managerUp /\ triageCrashes < MaxTriageCrashes
  /\ managerUp' = FALSE /\ triageCrashes' = triageCrashes + 1
  /\ inFlight' = [p \in Ideas |-> Free] /\ cooling' = {} /\ taken' = 0
  /\ attempt' = [t \in Attempts |-> IF attempt[t].pc = "new" THEN attempt[t] ELSE Over(t)]
  /\ UNCHANGED <<ideaVars, lineageLock, runRow, stopped>>

\* Open: running rows are closed, the files scanned; RescanRaw calls Trigger for
\* every raw idea, as any caller may.
OpenTriage ==
  /\ ~managerUp /\ managerUp' = TRUE /\ stopped' = FALSE
  /\ indexed' = [p \in Ideas |-> idea[p].status]
  /\ runRow' = [t \in Attempts |-> IF runRow[t] = "running" THEN "failed" ELSE runRow[t]]
  /\ UNCHANGED <<idea, ideaEdits, mapVars, taken, lineageLock, attempt, triageCrashes>>

TriageInit ==
  /\ idea = [p \in Ideas |-> NewIdea]
  /\ indexed = [p \in Ideas |-> "raw"]
  /\ inFlight = [p \in Ideas |-> Free] /\ cooling = {} /\ taken = 0
  /\ lineageLock = [p \in Ideas |-> Free]
  /\ \E p \in Ideas : attempt = [t \in Attempts |-> [pc |-> "new", path |-> p, ok |-> TRUE,
                                                     original |-> NewIdea, current |-> NewIdea]]
  /\ runRow = [t \in Attempts |-> "none"]
  /\ managerUp = TRUE /\ stopped = FALSE /\ triageCrashes = 0 /\ ideaEdits = 0

TriageNext ==
  \/ \E t \in Attempts :
       \/ \E p \in Ideas : Trigger(t, p)
       \/ eligible(t) \/ TakeSlot(t) \/ TakeLock(t) \/ Register(t) \/ Refund(t)
       \/ execute(t) \/ ReturnSlot(t) \/ ReleaseLock(t) \/ Finish(t)
  \/ \E p \in Ideas : CooldownOver(p) \/ EditIdea(p) \/ Reindex(p) \/ OtherHolder(p)
  \/ StopTriage \/ TriageCrash \/ OpenTriage

TriageSpec == TriageInit /\ [][TriageNext]_triageVars

---------------------------------------------------------------------------
(* Properties. *)

\* "Any Trigger call during this window coalesces onto the already-finished run
\* (no-retry policy)": a run begins only when no other run of the idea is under way
\* or cooling down, however long ago its caller passed the fast path, and whether
\* or not the reaper took the lock from under the other run.
OneAttemptAtATime ==
  [][\A t \in Attempts :
       attempt[t].pc = "register" /\ attempt'[t].pc = "insert" /\ ~stopped =>
         /\ PathOf(t) \notin cooling
         /\ \A u \in Attempts \ {t} : PathOf(u) = PathOf(t) => attempt[u].pc \notin InRun \cup Tail]_triageVars

\* "Re-running triage on an artifact that already has both ... sections MUST ... leave
\* ## Raw Idea untouched": however often an idea is triaged, after a crash between the
\* two writes of a run or a rollback too, its text is wrapped once, until a person takes
\* away one of the headings by which that is seen.
RawTextIsWrappedOnce == \A p \in Ideas : idea[p].wraps <= 1

=============================================================================

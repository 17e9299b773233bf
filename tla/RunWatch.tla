------------------------------ MODULE RunWatch ------------------------------
(***************************************************************************)
(* How the queue's dispatcher learns what became of the run it started:    *)
(* Dispatcher.processNext (from the hub subscription to the verdict) and   *)
(* the watcher goroutine watchRunEvents of internal/queue/dispatcher.go,   *)
(* the project hub of internal/hub/hub.go, whose channels drop events when *)
(* they are full, and the events that supervise of internal/agent/agent.go *)
(* broadcasts for this run and for the runs somebody else started.         *)
(*                                                                         *)
(* This is the hand-off that JobQueue abstracts into one step per verdict. *)
(* AgentRuns shows in detail that a run's last event comes after its lock  *)
(* is released (AnnouncedLast); here a run is only live, closing, released *)
(* or over.                                                                *)
(***************************************************************************)
EXTENDS Integers, Sequences

CONSTANTS
  Runs,      \* run ids
  NoRun,     \* the empty run id
  Capacity,  \* of the watcher's channel evCh; 64 in the code
  MaxEvents  \* bound on the events of live runs (progress, rate limits)

ASSUME WatchAssumption ==
  /\ NoRun \notin Runs
  /\ Capacity \in Nat \ {0}
  /\ MaxEvents \in Nat

\* agent.finished, agent.failed, queue.rate_limit and queue.auth_error, by the
\* verdict they stand for; "noise" is every other event of the hub.
Final     == {"completed", "failed"}
Transient == {"rate_limit", "auth_error"}
Relevant  == Final \cup Transient
Event     == [kind : Relevant \cup {"noise"}, run : Runs]

VARIABLES
  disp,      \* dispatcher: "idle", "subscribed", "started", "await", "stopped"
  own,       \* the run it started for its job
  handed,    \* runIDCh: "empty", "sent"
  watching,  \* the watcher runs and its channel is registered with the hub
  ours,      \* watcher: ourRunID
  evCh,      \* the watcher's channel
  runDone,   \* the result channel, of capacity one; "none" when empty
  stopping,  \* ctx is cancelled
  life,      \* of each run: "absent", "live", "closing", "released", "over"
  authKill,  \* of each run: authErrKilled
  events,    \* how many events live runs have broadcast
  sent,      \* history: relevant kinds each run has broadcast
  missed,    \* history: those that never reached a watcher that knew its run
  verdict    \* history: what the dispatcher concluded for each run

dispVars  == <<disp, own, handed, verdict>>
watchVars == <<watching, ours, runDone>>
runVars   == <<life, authKill>>
hubVars   == <<evCh, sent, missed>>
vars      == <<dispVars, watchVars, runVars, hubVars, events, stopping>>

TypeOK ==
  /\ disp \in {"idle", "subscribed", "started", "await", "stopped"}
  /\ own \in Runs \cup {NoRun}
  /\ handed \in {"empty", "sent"}
  /\ watching \in BOOLEAN
  /\ ours \in Runs \cup {NoRun}
  /\ evCh \in Seq(Event) /\ Len(evCh) <= Capacity
  /\ runDone \in Relevant \cup {"none", "cancelled"}
  /\ stopping \in BOOLEAN
  /\ life \in [Runs -> {"absent", "live", "closing", "released", "over"}]
  /\ authKill \in [Runs -> BOOLEAN]
  /\ events \in Nat
  /\ sent \in [Runs -> SUBSET Relevant]
  /\ missed \in [Runs -> SUBSET Relevant]
  /\ verdict \in [Runs -> Relevant \cup {"none", "cancelled"}]

Init ==
  /\ disp = "idle"
  /\ own = NoRun
  /\ handed = "empty"
  /\ watching = FALSE
  /\ ours = NoRun
  /\ evCh = <<>>
  /\ runDone = "none"
  /\ stopping = FALSE
  /\ life = [r \in Runs |-> "absent"]
  /\ authKill = [r \in Runs |-> FALSE]
  /\ events = 0
  /\ sent = [r \in Runs |-> {}]
  /\ missed = [r \in Runs |-> {}]
  /\ verdict = [r \in Runs |-> "none"]

---------------------------------------------------------------------------
(* The hub.                                                                *)

Note(history, r, kind) ==
  [history EXCEPT ![r] = @ \cup ({kind} \cap Relevant)]

\* Broadcast never blocks: a full channel loses the event.
Broadcast(kind, r) ==
  LET delivered == watching /\ Len(evCh) < Capacity
  IN /\ evCh' = IF delivered THEN Append(evCh, [kind |-> kind, run |-> r])
                             ELSE evCh
     /\ sent' = Note(sent, r, kind)
     /\ missed' = IF delivered THEN missed ELSE Note(missed, r, kind)

---------------------------------------------------------------------------
(* processNext.                                                            *)

\* A job is dequeued; the watcher is registered before the run is started.
\* (loop may choose its tick even when ctx is done.)
Subscribe ==
  /\ disp = "idle"
  /\ disp' = "subscribed"
  /\ watching' = TRUE
  /\ ours' = NoRun
  /\ handed' = "empty"
  /\ runDone' = "none"
  /\ evCh' = <<>>
  /\ UNCHANGED <<own, verdict, runVars, sent, missed, events, stopping>>

\* Manager.StartRun: the run is live and supervised before its id is known
\* here.
StartRun(r) ==
  /\ disp = "subscribed"
  /\ life[r] = "absent"
  /\ life' = [life EXCEPT ![r] = "live"]
  /\ Broadcast("noise", r)
  /\ disp' = "started"
  /\ own' = r
  /\ UNCHANGED <<handed, verdict, watchVars, authKill, events, stopping>>

\* StartRun's error: runIDCh is closed, and the watcher exits.
StartRunFails ==
  /\ disp = "subscribed"
  /\ disp' = "idle"
  /\ watching' = FALSE
  /\ UNCHANGED <<own, handed, verdict, ours, runDone, runVars, hubVars, events,
                 stopping>>

\* runIDCh <- runID.
HandOff ==
  /\ disp = "started"
  /\ disp' = "await"
  /\ handed' = "sent"
  /\ UNCHANGED <<own, verdict, watchVars, runVars, hubVars, events, stopping>>

\* The select on runDone and ctx.Done, and the MarkTerminal that follows.
Conclude ==
  /\ disp = "await"
  /\ \/ /\ runDone # "none"
        /\ verdict' = [verdict EXCEPT ![own] = runDone]
     \/ /\ stopping
        /\ verdict' = [verdict EXCEPT ![own] = "cancelled"]
  /\ disp' = "idle"
  /\ own' = NoRun
  /\ UNCHANGED <<handed, watchVars, runVars, hubVars, events, stopping>>

---------------------------------------------------------------------------
(* watchRunEvents.  Its select takes any case that is ready.               *)

WatcherLearns ==
  /\ watching
  /\ handed = "sent"
  /\ ours = NoRun
  /\ ours' = own
  /\ UNCHANGED <<dispVars, watching, runDone, runVars, hubVars, events,
                 stopping>>

(* Operators named ...Bug are plausible slips in the code they stand next to; *)
(* each shows that a property below depends on how that code is written.     *)

\* Any run's end is taken for our run's.
WatcherReadsAnyRunBug ==
  /\ watching
  /\ evCh # <<>>
  /\ LET e == Head(evCh)
     IN IF e.kind \in Relevant /\ ours # NoRun
        THEN /\ runDone' = e.kind
             /\ watching' = FALSE
             /\ missed' = missed
        ELSE /\ missed' = Note(missed, e.run, e.kind)
             /\ UNCHANGED <<runDone, watching>>
  /\ evCh' = Tail(evCh)
  /\ UNCHANGED <<dispVars, ours, runVars, sent, events, stopping>>

\* The watcher goes on after a transient report, and the last event wins.
WatcherReadsOnBug ==
  /\ watching
  /\ evCh # <<>>
  /\ LET e == Head(evCh)
     IN IF e.kind \in Relevant /\ ours # NoRun /\ e.run = ours
        THEN /\ runDone' = e.kind
             /\ watching' = (e.kind \in Transient)
             /\ missed' = missed
        ELSE /\ missed' = Note(missed, e.run, e.kind)
             /\ UNCHANGED <<runDone, watching>>
  /\ evCh' = Tail(evCh)
  /\ UNCHANGED <<dispVars, ours, runVars, sent, events, stopping>>

\* The case for agent.failed is missing, so a failed run has no result.
WatcherReadsNoFailureBug ==
  /\ watching
  /\ evCh # <<>>
  /\ LET e == Head(evCh)
     IN IF e.kind \in Relevant /\ ours # NoRun /\ e.run = ours
        THEN /\ runDone' = IF e.kind = "failed" THEN runDone ELSE e.kind
             /\ watching' = (e.kind = "failed")
             /\ missed' = missed
        ELSE /\ missed' = Note(missed, e.run, e.kind)
             /\ UNCHANGED <<runDone, watching>>
  /\ evCh' = Tail(evCh)
  /\ UNCHANGED <<dispVars, ours, runVars, sent, events, stopping>>

\* The next event: the first relevant one of our run is the result, others
\* are dropped, and so is our own as long as our run id is not known.
WatcherReads ==
  /\ watching
  /\ evCh # <<>>
  /\ LET e == Head(evCh)
     IN IF e.kind \in Relevant /\ ours # NoRun /\ e.run = ours
        THEN /\ runDone' = e.kind
             /\ watching' = FALSE
             /\ missed' = missed
        ELSE /\ missed' = Note(missed, e.run, e.kind)
             /\ UNCHANGED <<runDone, watching>>
  /\ evCh' = Tail(evCh)
  /\ UNCHANGED <<dispVars, ours, runVars, sent, events, stopping>>

\* ctx.Done.
WatcherCancelled ==
  /\ watching
  /\ stopping
  /\ runDone' = IF runDone = "none" THEN "cancelled" ELSE runDone
  /\ watching' = FALSE
  /\ UNCHANGED <<dispVars, ours, runVars, hubVars, events, stopping>>

---------------------------------------------------------------------------
(* supervise, for every run of the project.                                *)

\* A run started by hand or by the scheduler.
OtherRun(r) ==
  /\ life[r] = "absent"
  /\ life' = [life EXCEPT ![r] = "live"]
  /\ Broadcast("noise", r)
  /\ UNCHANGED <<dispVars, watchVars, authKill, events, stopping>>

\* Progress, and a rate limit seen in it, which does not end the run.
Report(r) ==
  /\ life[r] = "live"
  /\ events < MaxEvents
  /\ events' = events + 1
  /\ Broadcast("noise", r) \/ Broadcast("rate_limit", r)
  /\ UNCHANGED <<dispVars, watchVars, runVars, stopping>>

\* The auth-error threshold: told once, and the process is killed.
AuthError(r) ==
  /\ life[r] = "live"
  /\ ~authKill[r]
  /\ authKill' = [authKill EXCEPT ![r] = TRUE]
  /\ Broadcast("auth_error", r)
  /\ UNCHANGED <<dispVars, watchVars, life, events, stopping>>

\* The process is gone; the commit follows, and then the lineage lock goes.
Advance(r, from, to) ==
  /\ life[r] = from
  /\ life' = [life EXCEPT ![r] = to]
  /\ UNCHANGED <<dispVars, watchVars, authKill, hubVars, events, stopping>>

ProcessEnds(r) == Advance(r, "live", "closing")

ReleaseLock(r) == Advance(r, "closing", "released")

\* agent.finished or agent.failed, once the lock is released; an
\* authentication kill never finishes.
Announce(r) ==
  /\ life[r] = "released"
  /\ life' = [life EXCEPT ![r] = "over"]
  /\ \/ ~authKill[r] /\ Broadcast("completed", r)
     \/ Broadcast("failed", r)
  /\ UNCHANGED <<dispVars, watchVars, authKill, events, stopping>>

\* SIGTERM.
Shutdown ==
  /\ ~stopping
  /\ stopping' = TRUE
  /\ UNCHANGED <<dispVars, watchVars, runVars, hubVars, events>>

\* loop returns.
LoopEnds ==
  /\ disp = "idle"
  /\ stopping
  /\ disp' = "stopped"
  /\ UNCHANGED <<own, handed, verdict, watchVars, runVars, hubVars, events,
                 stopping>>

---------------------------------------------------------------------------

Dispatcher ==
  \/ Subscribe \/ StartRunFails \/ HandOff \/ Conclude \/ LoopEnds
  \/ \E r \in Runs : StartRun(r)

RunStep(r) == ProcessEnds(r) \/ ReleaseLock(r) \/ Announce(r)

Next ==
  \/ Dispatcher
  \/ WatcherLearns \/ WatcherReads \/ WatcherCancelled
  \/ \E r \in Runs : OtherRun(r) \/ Report(r) \/ AuthError(r) \/ RunStep(r)
  \/ Shutdown

Spec == Init /\ [][Next]_vars

(***************************************************************************)
(* Fairness.  StartRun returns, goroutines run, and a process ends some    *)
(* time.  The select of the watcher is a uniform choice among the cases    *)
(* that are ready, so neither of its two cases is passed over for ever.    *)
(***************************************************************************)
Fairness ==
  /\ WF_vars(HandOff) /\ WF_vars(Conclude)
  /\ WF_vars(WatcherLearns) /\ WF_vars(WatcherReads)
  /\ \A r \in Runs : WF_vars(RunStep(r))

FairSpec == Spec /\ Fairness

---------------------------------------------------------------------------
(* Properties.                                                             *)

\* A job's verdict is an event of the job's own run: neither a run started by
\* hand nor the late end of an earlier job's run is mistaken for it.
VerdictIsOwn ==
  \A r \in Runs : verdict[r] \in Relevant => verdict[r] \in sent[r]

\* A run that reported a rate limit or an authentication error is concluded
\* by that report and not by its end, so that its job is retried, unless the
\* report never reached the watcher.
TransientComesFirst ==
  \A r \in Runs :
    verdict[r] \in Final => sent[r] \cap Transient \subseteq missed[r]

\* The dispatcher, which serves no other job meanwhile, gets its verdict,
\* unless everything its run had to say was missed.
AwaitEnds ==
  \A r \in Runs :
    (disp = "await" /\ own = r)
      ~> (disp # "await" \/ (missed[r] = sent[r] /\ life[r] = "over"))

---------------------------------------------------------------------------
(* A statement of the source that the code does not keep.                  *)

\* dispatcher.go, processNext: "Block until the run finishes (or ctx is
\* cancelled)."
BlocksUntilRunFinishes ==
  \A r \in Runs :
    (disp = "await" /\ own = r /\ life[r] = "over")
      ~> ~(disp = "await" /\ own = r)
===========================================================================

---------------------------- MODULE FileWatcher ----------------------------
(***************************************************************************)
(* The file watcher of internal/watcher/watcher.go: fsnotify events, one   *)
(* debounce timer for each path, the goroutines time.AfterFunc starts, and *)
(* the orderly end of Start.  What a handler does with the file is left    *)
(* to the modules Releases and ArtifactFiles; here it reads it.            *)
(*                                                                         *)
(* Time.Reset on a timer that has fired, but whose callback has not yet    *)
(* taken the mutex to leave the map, starts the timer again.  Such a timer *)
(* is an orphan once the callback has removed it from the map.             *)
(***************************************************************************)
EXTENDS Integers, FiniteSets

CONSTANTS
  Paths,      \* the files watched
  Nested,     \* those in a directory that does not exist at first
  MaxWrites   \* bound on the changes of files

ASSUME WatcherAssumption ==
  /\ IsFiniteSet(Paths) /\ Nested \subseteq Paths
  /\ MaxWrites \in Nat

VARIABLES
  loop,      \* Start: "running", "exiting" (its deferred function), "returned"
  folder,    \* the directory of Nested: "none", "new" (made; its event is
             \* pending), "walk" (watched, not yet walked), "watched", "missed"
  unread,    \* paths with an event fsnotify has not delivered
  inMap,     \* timers: paths with an entry in the map
  armed,     \* of these, the ones whose timer is running
  orphans,   \* path -> running timers that are not in the map
  starting,  \* path -> callbacks that have fired and wait for mu
  handling,  \* path -> callbacks inside fn that have not read the file yet
  ending,    \* path -> callbacks that have read it
  wg,        \* the counter of the WaitGroup
  crashed,   \* "sync: negative WaitGroup counter"
  stale,     \* paths that changed since a handler read them
  writes,
  rearmed    \* history: Resets of timers that had fired

callbacks == <<starting, handling, ending>>
fwVars == <<loop, folder, unread, inMap, armed, orphans, callbacks, wg, crashed,
            stale, writes, rearmed>>

\* Timers and callbacks of a path; no number of them is a bound of the code.
Counts == [Paths -> Nat]

\* The counter of the wait group may go below zero: that is what crashed is about.
FwTypeOK ==
  /\ loop \in {"running", "exiting", "returned"}
  /\ folder \in {"none", "new", "walk", "watched", "missed"}
  /\ unread \subseteq Paths /\ inMap \subseteq Paths /\ stale \subseteq Paths
  /\ armed \subseteq inMap
  /\ orphans \in Counts /\ starting \in Counts /\ handling \in Counts /\ ending \in Counts
  /\ wg \in Int /\ crashed \in BOOLEAN
  /\ writes \in 0..MaxWrites /\ rearmed \in Nat

Plus(f, p)  == [f EXCEPT ![p] = @ + 1]
Minus(f, p) == [f EXCEPT ![p] = @ - 1]

Running == loop = "running" /\ ~crashed

---------------------------------------------------------------------------
(* The file system. *)

\* A file is written or removed; fsnotify tells if its directory is watched.
Write(p) ==
  /\ writes < MaxWrites /\ writes' = writes + 1
  /\ p \in Nested => folder # "none"
  /\ stale' = stale \cup {p}
  /\ unread' = IF p \in Nested /\ folder \in {"new", "missed"} THEN unread ELSE unread \cup {p}
  /\ UNCHANGED <<loop, folder, inMap, armed, orphans, callbacks, wg, crashed, rearmed>>

MakeFolder ==
  /\ folder = "none" /\ folder' = "new"
  /\ UNCHANGED <<loop, unread, inMap, armed, orphans, callbacks, wg, crashed, stale,
                 writes, rearmed>>

---------------------------------------------------------------------------
(* The event loop. *)

\* fire, for every path of ps: a path in the map has its timer reset, any other
\* gets a timer and a count.
fire(ps) ==
  /\ inMap' = inMap \cup ps
  /\ armed' = armed \cup ps
  /\ wg' = wg + Cardinality(ps \ inMap)
  /\ rearmed' = rearmed + Cardinality((ps \cap inMap) \ armed)

\* An event of a file that shouldProcess, of the configuration, of docs or of git.
ReadEvent(p) ==
  /\ Running /\ p \in unread
  /\ unread' = unread \ {p}
  /\ fire({p})
  /\ UNCHANGED <<loop, folder, orphans, callbacks, crashed, stale, writes>>

\* The event of a new directory: addDirRecursive, which may meet maxWatchedDirs
\* or an error of fsnotify,
AddFolder ==
  /\ Running /\ folder = "new"
  /\ folder' \in {"walk", "missed"}
  /\ UNCHANGED <<loop, unread, inMap, armed, orphans, callbacks, wg, crashed, stale,
                 writes, rearmed>>

\* Mutant: the files that a new directory already holds are not looked for.
WalkFolderBug ==
  /\ Running /\ folder = "walk"
  /\ folder' = "watched"
  /\ UNCHANGED <<loop, unread, inMap, armed, orphans, callbacks, wg, crashed, stale,
                 writes, rearmed>>

\* then the walk over the files that are already in it.
WalkFolder ==
  /\ Running /\ folder = "walk"
  /\ folder' = "watched"
  /\ \E found \in SUBSET Nested :
       /\ stale \cap Nested \subseteq found
       /\ fire(found)
  /\ UNCHANGED <<loop, unread, orphans, callbacks, crashed, stale, writes>>

---------------------------------------------------------------------------
(* Timers and callbacks. *)

Fires(p) ==
  /\ ~crashed
  /\ \/ p \in armed /\ armed' = armed \ {p} /\ UNCHANGED orphans
     \/ orphans[p] > 0 /\ orphans' = Minus(orphans, p) /\ UNCHANGED armed
  /\ starting' = Plus(starting, p)
  /\ UNCHANGED <<loop, folder, unread, inMap, handling, ending, wg, crashed, stale,
                 writes, rearmed>>

\* delete(timers, path): whatever timer is there.
LeaveMap(p) ==
  /\ ~crashed /\ starting[p] > 0
  /\ starting' = Minus(starting, p) /\ handling' = Plus(handling, p)
  /\ inMap' = inMap \ {p} /\ armed' = armed \ {p}
  /\ orphans' = IF p \in armed THEN Plus(orphans, p) ELSE orphans
  /\ UNCHANGED <<loop, folder, unread, ending, wg, crashed, stale, writes, rearmed>>

ReadFile(p) ==
  /\ ~crashed /\ handling[p] > 0
  /\ handling' = Minus(handling, p) /\ ending' = Plus(ending, p)
  /\ stale' = stale \ {p}
  /\ UNCHANGED <<loop, folder, unread, inMap, armed, orphans, starting, wg, crashed,
                 writes, rearmed>>

\* Mutant: the deferred Done is left out when fn panics.
DoneBug(p) ==
  /\ ~crashed /\ ending[p] > 0
  /\ ending' = Minus(ending, p)
  /\ wg' \in {wg, wg - 1} /\ crashed' = (wg' < 0)
  /\ UNCHANGED <<loop, folder, unread, inMap, armed, orphans, starting, handling,
                 stale, writes, rearmed>>

\* fn returns, or panics and is recovered; then the deferred wg.Done, which is
\* not under that recover.
Done(p) ==
  /\ ~crashed /\ ending[p] > 0
  /\ ending' = Minus(ending, p)
  /\ wg' = wg - 1 /\ crashed' = (wg = 0)
  /\ UNCHANGED <<loop, folder, unread, inMap, armed, orphans, starting, handling,
                 stale, writes, rearmed>>

---------------------------------------------------------------------------
(* The end of Start: pending timers are stopped and their counts given back, *)
(* then the handlers in flight are waited for.                               *)

\* Mutant: the map is emptied before its timers are stopped.
StopTimersBug ==
  /\ Running
  /\ loop' = "exiting"
  /\ inMap' = {}
  /\ UNCHANGED <<folder, unread, armed, orphans, callbacks, wg, crashed, stale, writes, rearmed>>

StopTimers ==
  /\ Running
  /\ loop' = "exiting"
  /\ wg' = wg - Cardinality(armed) /\ crashed' = (wg < Cardinality(armed))
  /\ inMap' = {} /\ armed' = {}
  /\ UNCHANGED <<folder, unread, orphans, callbacks, stale, writes, rearmed>>

Return ==
  /\ loop = "exiting" /\ ~crashed /\ wg = 0
  /\ loop' = "returned"
  /\ UNCHANGED <<folder, unread, inMap, armed, orphans, callbacks, wg, crashed, stale,
                 writes, rearmed>>

FwInit ==
  /\ loop = "running" /\ folder = "none"
  /\ unread = {} /\ inMap = {} /\ armed = {} /\ stale = {}
  /\ orphans = [p \in Paths |-> 0]
  /\ starting = orphans /\ handling = orphans /\ ending = orphans
  /\ wg = 0 /\ crashed = FALSE /\ writes = 0 /\ rearmed = 0

Loop == AddFolder \/ WalkFolder \/ \E p \in Paths : ReadEvent(p)

Callback(p) == Fires(p) \/ LeaveMap(p) \/ ReadFile(p) \/ Done(p)

FwNext ==
  \/ \E p \in Paths : Write(p) \/ Callback(p)
  \/ MakeFolder \/ Loop
  \/ StopTimers \/ Return

\* The loop takes the events it is given; timers fire and goroutines run.  An event
\* that postpones a timer for ever is excluded by the bound on writes.
FwFairness ==
  /\ WF_fwVars(AddFolder \/ WalkFolder) /\ WF_fwVars(Return)
  /\ \A p \in Paths : WF_fwVars(ReadEvent(p)) /\ WF_fwVars(Callback(p))

FwSpec == FwInit /\ [][FwNext]_fwVars /\ FwFairness

---------------------------------------------------------------------------
(* Properties. *)

\* The sum of f over the paths, as the number of pairs <<path, n>> with n <= f[path].
Units(f) == UNION {{p} \X (1..f[p]) : p \in Paths}
Sum(f)   == Cardinality(Units(f))

InFlight == Sum(starting) + Sum(handling) + Sum(ending)
Pending  == Cardinality(armed) + Sum(orphans) + InFlight

\* The wait group counts every timer and callback once, on all ways out of them
\* (fired, stopped at the exit, removed from the map by another callback), but for
\* the callbacks that a Reset of a fired timer adds.
WaitGroupExact == wg = Pending - rearmed

\* Every change is read by a handler that starts after it, in a directory created
\* together with its files too, unless the watcher ends, or the directory could
\* not be watched.
ChangeIsHandled ==
  \A p \in Paths :
    p \in stale ~> (p \notin stale \/ loop # "running" \/ crashed
                    \/ (p \in Nested /\ folder \in {"new", "missed"}))

\* Start "does not return until all in-flight handleChange callbacks have
\* completed, ensuring it is safe to close the index immediately after".
SafeToClose == loop = "returned" => InFlight = 0

=============================================================================

------------------------------ MODULE Projects ------------------------------
(***************************************************************************)
(* The projects of a server: their registry (one YAML file per project,    *)
(* internal/config), the map of live projects (internal/http/server.go),   *)
(* the directories they live in, and the requests that create, initialise, *)
(* move and delete them (internal/http/projects.go), the start of the      *)
(* server (cmd/kaos-control/main.go) included.                             *)
(*                                                                         *)
(* A runtime is what project.Open returns, with the goroutines started for *)
(* it; the cancel function of its context is put into and taken out of     *)
(* s.projectCancels together with it, and stands for nothing else here.    *)
(* Nothing but the map is protected by a lock, so that the steps of two    *)
(* requests interleave at every access to the registry, to a directory and *)
(* to the map.  Requests that hold a runtime while it is closed, and the   *)
(* fields of an entry other than the path, are not modelled.               *)
(***************************************************************************)
EXTENDS Integers, FiniteSets

CONSTANTS
  ProjNames,          \* names of projects
  Dirs,               \* directories
  Requests,           \* concurrent requests
  MaxRuntimes,        \* bound on runtimes that exist at once
  MaxServerRestarts   \* bound on restarts

ASSUME ProjectsAssumption ==
  /\ IsFiniteSet(ProjNames) /\ MaxRuntimes \in Nat /\ MaxRuntimes >= Cardinality(ProjNames)
  /\ MaxServerRestarts \in Nat

VARIABLES
  entryAt,        \* the registry: project -> its path, or NoDir
  projects,       \* s.projects: project -> its runtime, or NoRuntime
  runtime,        \* runtime -> whether it is open, of which project, where
  dir,            \* directory -> "absent", "people"'s, or made by a "request"
  req,            \* request -> what it does and how far it is
  overlapped,     \* history: projects two requests have worked on at a time
  serverRestarts

projVars == <<entryAt, projects, runtime, dir, req, overlapped, serverRestarts>>

Runtimes  == 1..MaxRuntimes
NoRuntime == 0
NoDir     == "none"
NoName    == "none"

Closed   == [open |-> FALSE, name |-> NoName, at |-> NoDir]
Idle     == [op |-> "none", pc |-> "idle", name |-> NoName, at |-> NoDir, made |-> FALSE, rt |-> NoRuntime]

ProjTypeOK ==
  /\ entryAt \in [ProjNames -> Dirs \cup {NoDir}]
  /\ projects \in [ProjNames -> Runtimes \cup {NoRuntime}]
  /\ runtime \in [Runtimes -> [open : BOOLEAN, name : ProjNames \cup {NoName}, at : Dirs \cup {NoDir}]]
  /\ dir \in [Dirs -> {"absent", "people", "request"}]
  /\ req \in [Requests ->
       [op : {"none", "create", "init", "edit", "update", "delete"},
        pc : {"idle", "mkdir", "scaffold", "save", "open", "publish", "unsave", "rollback",
              "delete", "unregister", "close"},
        name : ProjNames \cup {NoName}, at : Dirs \cup {NoDir}, made : BOOLEAN,
        rt : Runtimes \cup {NoRuntime}]]
  /\ overlapped \subseteq ProjNames
  /\ serverRestarts \in 0..MaxServerRestarts

AtWorkOn(n) == {r \in Requests : req[r].name = n}

Goes(r, pc) == req' = [req EXCEPT ![r].pc = pc]
Ends(r)     == req' = [req EXCEPT ![r] = Idle]

Begins(r, op, pc, n, d) ==
  /\ req[r] = Idle
  /\ req' = [req EXCEPT ![r] = [Idle EXCEPT !.op = op, !.pc = pc, !.name = n, !.at = d]]
  /\ overlapped' = IF AtWorkOn(n) # {} THEN overlapped \cup {n} ELSE overlapped
  /\ UNCHANGED <<entryAt, projects, runtime, dir, serverRestarts>>

---------------------------------------------------------------------------
(* How a request begins: getProject under the read lock, then validation.   *)

\* A path of an existing directory, and one at which nothing is yet.
ValidatePath(d)     == dir[d] # "absent"
ResolveNewTarget(d) == dir[d] = "absent"

\* resolveExistingTarget.
CreateExisting(r, n, d) ==
  /\ projects[n] = NoRuntime /\ ValidatePath(d)
  /\ Begins(r, "create", "scaffold", n, d)

\* resolveNewTargetForCreate.
CreateNew(r, n, d) ==
  /\ projects[n] = NoRuntime /\ ResolveNewTarget(d)
  /\ Begins(r, "create", "mkdir", n, d)

handleInitProject(r, n) ==
  /\ projects[n] # NoRuntime
  /\ Begins(r, "init", "scaffold", n, runtime[projects[n]].at)

handleDeleteProject(r, n) ==
  /\ projects[n] # NoRuntime
  /\ Begins(r, "delete", "delete", n, runtime[projects[n]].at)

\* With the path the project has, only the entry is saved.
handleUpdateProject(r, n, d) ==
  /\ projects[n] # NoRuntime
  /\ ValidatePath(d) \/ d = runtime[projects[n]].at
  /\ Begins(r, IF d = runtime[projects[n]].at THEN "edit" ELSE "update", "save", n, d)

---------------------------------------------------------------------------
(* The directory. *)

\* A directory somebody writes into is there, and whose it was.
Present(d) == [dir EXCEPT ![d] = IF @ = "absent" THEN "request" ELSE @]

\* Mutant: MkdirAll, which is content with a directory that is there.
MakeTargetBug(r) ==
  /\ req[r].pc = "mkdir"
  /\ req' = [req EXCEPT ![r].pc = "scaffold", ![r].made = TRUE]
  /\ dir' = Present(req[r].at)
  /\ UNCHANGED <<entryAt, projects, runtime, overlapped, serverRestarts>>

\* IsInitialised, os.Mkdir: both refuse a directory that has come meanwhile.
MakeTarget(r) ==
  /\ req[r].pc = "mkdir"
  /\ IF ~ResolveNewTarget(req[r].at) THEN Ends(r) /\ UNCHANGED dir
     ELSE /\ req' = [req EXCEPT ![r].pc = "scaffold", ![r].made = TRUE]
          /\ dir' = Present(req[r].at)
  /\ UNCHANGED <<entryAt, projects, runtime, overlapped, serverRestarts>>

\* ScaffoldProject, for init also git; it makes a directory that was taken away again,
\* whether it fails or not.
ScaffoldProject(r, ok) ==
  /\ req[r].pc = "scaffold"
  /\ dir' = Present(req[r].at)
  /\ CASE req[r].op = "create" -> Goes(r, IF ok THEN "save" ELSE "rollback")
       [] req[r].op = "init"   -> IF ok THEN Goes(r, "unregister") ELSE Ends(r)
  /\ UNCHANGED <<entryAt, projects, runtime, overlapped, serverRestarts>>

\* rollbackDir removes the directory the request has made, and all that is in it.
rollbackDir(r) ==
  /\ req[r].pc = "rollback"
  /\ dir' = IF req[r].made THEN [dir EXCEPT ![req[r].at] = "absent"] ELSE dir
  /\ Ends(r)
  /\ UNCHANGED <<entryAt, projects, runtime, overlapped, serverRestarts>>

---------------------------------------------------------------------------
(* The registry. *)

\* SaveProjectEntry, by a rename.
SaveProjectEntry(r, ok) ==
  /\ req[r].pc = "save"
  /\ entryAt' = IF ok THEN [entryAt EXCEPT ![req[r].name] = req[r].at] ELSE entryAt
  /\ CASE req[r].op = "create" -> Goes(r, IF ok THEN "open" ELSE "rollback")
       [] req[r].op = "update" -> IF ok THEN Goes(r, "unregister") ELSE Ends(r)
       [] OTHER                -> Ends(r)
  /\ UNCHANGED <<projects, runtime, dir, overlapped, serverRestarts>>

\* DeleteProjectEntry, which may fail, and does if the entry is gone: an error to a delete
\* request, not to the rollback of a create request.
DeleteProjectEntry(r, ok) ==
  /\ req[r].pc \in {"delete", "unsave"}
  /\ entryAt' = IF ok THEN [entryAt EXCEPT ![req[r].name] = NoDir] ELSE entryAt
  /\ IF req[r].pc = "unsave" THEN Goes(r, "rollback")
     ELSE IF ok /\ entryAt[req[r].name] # NoDir THEN Goes(r, "unregister") ELSE Ends(r)
  /\ UNCHANGED <<projects, runtime, dir, overlapped, serverRestarts>>

---------------------------------------------------------------------------
(* The live projects. *)

\* Mutant: the project is closed first and taken out of the map afterwards.
UnregisterProjectBug(r) ==
  /\ req[r].pc = "unregister"
  /\ req' = [req EXCEPT ![r].pc = "close", ![r].rt = projects[req[r].name]]
  /\ UNCHANGED <<entryAt, projects, runtime, dir, overlapped, serverRestarts>>

\* UnregisterProject, under the lock; a request to init goes on without a project.
UnregisterProject(r) ==
  LET n == req[r].name IN
  /\ req[r].pc = "unregister"
  /\ projects' = [projects EXCEPT ![n] = NoRuntime]
  /\ IF projects[n] # NoRuntime
     THEN req' = [req EXCEPT ![r].pc = "close", ![r].rt = projects[n]]
     ELSE IF req[r].op = "init" THEN Goes(r, "open") ELSE Ends(r)
  /\ UNCHANGED <<entryAt, runtime, dir, overlapped, serverRestarts>>

\* Project.Close, whose error ends an update before it registers the project again.
CloseProject(r, ok) ==
  /\ req[r].pc = "close"
  /\ runtime' = [runtime EXCEPT ![req[r].rt] = Closed]
  /\ IF req[r].op = "delete" \/ (req[r].op = "update" /\ ~ok) THEN Ends(r)
     ELSE req' = [req EXCEPT ![r].pc = "open", ![r].rt = NoRuntime]
  /\ UNCHANGED <<entryAt, projects, dir, overlapped, serverRestarts>>

FreeRuntimes == {k \in Runtimes : ~runtime[k].open}

\* project.Open, which puts the architecture catalogue into the directory; what a failure
\* means to the request.
OpenProject(r, ok) ==
  LET k == CHOOSE i \in FreeRuntimes : TRUE
      d == req[r].at
  IN
  /\ req[r].pc = "open" /\ FreeRuntimes # {}
  /\ dir' = IF ok THEN Present(d) ELSE dir
  /\ IF ok
     THEN /\ runtime' = [runtime EXCEPT ![k] = [open |-> TRUE, name |-> req[r].name, at |-> d]]
          /\ req' = [req EXCEPT ![r].pc = "publish", ![r].rt = k]
     ELSE /\ UNCHANGED runtime
          /\ IF req[r].op = "create" THEN Goes(r, "unsave") ELSE Ends(r)
  /\ UNCHANGED <<entryAt, projects, overlapped, serverRestarts>>

\* The end of RegisterProject, under the lock; a directory made for a project is now the
\* project's.
RegisterProject(r) ==
  /\ req[r].pc = "publish"
  /\ projects' = [projects EXCEPT ![req[r].name] = req[r].rt]
  /\ dir' = IF req[r].made /\ dir[req[r].at] # "absent" THEN [dir EXCEPT ![req[r].at] = "people"] ELSE dir
  /\ Ends(r)
  /\ UNCHANGED <<entryAt, runtime, overlapped, serverRestarts>>

---------------------------------------------------------------------------
(* The server, people. *)

\* The server ends, or is killed, and starts: every registered project is opened, one that
\* cannot be opened is left out.  Nobody will remove a directory now.
RestartServer ==
  /\ serverRestarts < MaxServerRestarts /\ serverRestarts' = serverRestarts + 1
  /\ req' = [r \in Requests |-> Idle] /\ overlapped' = {}
  /\ \E opened \in SUBSET {n \in ProjNames : entryAt[n] # NoDir} :
       LET k == CHOOSE f \in [opened -> Runtimes] : \A m, n \in opened : m # n => f[m] # f[n] IN
       /\ projects' = [n \in ProjNames |-> IF n \in opened THEN k[n] ELSE NoRuntime]
       /\ runtime' = [i \in Runtimes |->
            IF \E n \in opened : k[n] = i
            THEN LET n == CHOOSE m \in opened : k[m] = i
                 IN [open |-> TRUE, name |-> n, at |-> entryAt[n]]
            ELSE Closed]
       /\ dir' = [d \in Dirs |->
            IF dir[d] # "absent" \/ \E n \in opened : entryAt[n] = d THEN "people" ELSE "absent"]
  /\ UNCHANGED entryAt

\* Somebody makes a directory.
PeopleMakeDir(d) ==
  /\ dir[d] = "absent"
  /\ dir' = [dir EXCEPT ![d] = "people"]
  /\ UNCHANGED <<entryAt, projects, runtime, req, overlapped, serverRestarts>>

ProjInit ==
  /\ entryAt = [n \in ProjNames |-> NoDir]
  /\ projects = [n \in ProjNames |-> NoRuntime]
  /\ runtime = [k \in Runtimes |-> Closed]
  /\ dir \in [Dirs -> {"absent", "people"}]
  /\ req = [r \in Requests |-> Idle]
  /\ overlapped = {} /\ serverRestarts = 0

ProjStep(r) ==
  \/ \E n \in ProjNames : handleInitProject(r, n) \/ handleDeleteProject(r, n)
  \/ \E n \in ProjNames, d \in Dirs :
       CreateExisting(r, n, d) \/ CreateNew(r, n, d) \/ handleUpdateProject(r, n, d)
  \/ \E ok \in BOOLEAN :
       \/ ScaffoldProject(r, ok) \/ SaveProjectEntry(r, ok) \/ OpenProject(r, ok)
       \/ DeleteProjectEntry(r, ok) \/ CloseProject(r, ok)
  \/ MakeTarget(r) \/ rollbackDir(r) \/ UnregisterProject(r) \/ RegisterProject(r)

ProjNext ==
  \/ \E r \in Requests : ProjStep(r)
  \/ \E d \in Dirs : PeopleMakeDir(d)
  \/ RestartServer

---------------------------------------------------------------------------
(* Properties. *)

\* Requests, webhooks and the queue find a project through the map and use its index at
\* once: what they find is open, whatever other requests are at.
LiveRuntimeIsOpen ==
  \A n \in ProjNames : projects[n] # NoRuntime =>
    runtime[projects[n]].open /\ runtime[projects[n]].name = n

\* The runtimes, the map and the registry say the same of a project, as long as requests
\* about it have not overlapped and none is at work: no runtime is open that nobody can
\* close, and a restart finds a live project where it was.  Whichever step of a request
\* failed.
RestIsConsistent ==
  \A n \in ProjNames \ overlapped : AtWorkOn(n) = {} =>
    /\ \A k \in Runtimes : runtime[k].open /\ runtime[k].name = n => projects[n] = k
    /\ projects[n] # NoRuntime => entryAt[n] = runtime[projects[n]].at

\* The map of live projects can be relied on.
RegistryAgrees == LiveRuntimeIsOpen /\ RestIsConsistent

\* "Roll back ... the directory we created": no request that fails takes away a directory
\* it has not made, nor one whose maker has registered its project, though Stat and Mkdir
\* are two steps and others make the directory in between.
PeopleDirsSurvive ==
  [][\A d \in Dirs : dir[d] = "people" => dir'[d] = "people"]_projVars

=============================================================================

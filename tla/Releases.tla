------------------------------ MODULE Releases ------------------------------
(***************************************************************************)
(* Releases: one markdown file for each slug under lifecycle/releases,     *)
(* which is authoritative, and the table `releases', which caches it.      *)
(*                                                                         *)
(* Four parties change them: the handlers of internal/http/releases.go     *)
(* through release.Store and release.DiskSync, people who edit the files,  *)
(* the file watcher with release_handler.go, and Rehydrate, which runs in  *)
(* a goroutine of its own at start-up and on request.  ExpectedEvents is   *)
(* the set of paths whose next event the watcher is to ignore.             *)
(*                                                                         *)
(* One step is one SQL statement, one change of the directory, or one      *)
(* critical section of ExpectedEvents.mu.                                  *)
(***************************************************************************)
EXTENDS Integers, FiniteSets

CONSTANTS
  NNames,      \* release names are 1..NNames
  NSlugs,      \* slugs, hence files, are 1..NSlugs, in directory order
  Slugify,     \* name -> slug, with fallbackSlug for a name without one
  Emoji,       \* the names that have no slug of their own
  Versions,    \* the rest of a release: status and dates
  RelClients,  \* concurrent requests
  Handlers,    \* concurrent runs of ReleaseHandler.Handle
  MaxId,       \* bound on the ids AUTOINCREMENT hands out
  MaxRequests, \* bound on the requests that pass their first checks
  MaxEdits,    \* bound on the changes made by people
  MaxRestarts  \* bound on the restarts of the server

Names  == 1..NNames
Slugs  == 1..NSlugs
NoName == 0

ASSUME ReleasesAssumption ==
  /\ NNames \in Nat \ {0} /\ NSlugs \in Nat \ {0}
  /\ Slugify \in [Names -> Slugs] /\ Emoji \subseteq Names
  /\ Versions \subseteq Nat \ {0} /\ Versions # {}
  /\ MaxId \in Nat \ {0} /\ MaxRequests \in Nat /\ MaxEdits \in Nat /\ MaxRestarts \in Nat

\* What Parse makes of a file; Broken stands for everything it rejects.
Valid  == [title : Names, ver : Versions]
NoFile == [title |-> NoName, ver |-> 0]
Broken == [title |-> NoName, ver |-> 1]
Files  == Valid \cup {NoFile, Broken}

Rows     == [id : 1..MaxId, name : Names, slug : Slugs, ver : Versions]
Requests == [op : {"none", "create", "update", "delete"}, id : 0..MaxId, name : 0..NNames,
             slug : 0..NSlugs, old : 0..NSlugs, ver : {0} \cup Versions]
NoRequest == [op |-> "none", id |-> 0, name |-> 0, slug |-> 0, old |-> 0, ver |-> 0]
NoHandler == [at |-> "idle", slug |-> 0, file |-> NoFile]
NoLoad    == [at |-> "idle", list |-> {}, seen |-> {}, slug |-> 0, file |-> NoFile]

VARIABLES
  disk,      \* slug -> content of lifecycle/releases/<slug>.md
  dir,       \* the directory: "none", "new" (not watched yet) or "watched"
  table,     \* the table releases
  lastId,    \* its AUTOINCREMENT counter
  expected,  \* ExpectedEvents.paths
  events,    \* slugs with an fsnotify event the watcher has not read
  timers,    \* slugs with a debounce timer
  handler,   \* runs of Handle
  at, req,   \* client -> step of its request, the request
  load,      \* Rehydrate
  requests, edits, restarts,
  disturbed, \* history: somebody else acted since Rehydrate began
  written    \* history: <<slug, content>> of everything ever on disk

files     == <<disk, dir, written>>
cache     == <<table, lastId>>
watchVars == <<events, timers, handler>>
clientVars == <<at, req>>
counters  == <<requests, edits, restarts>>
relVars   == <<files, cache, expected, watchVars, clientVars, load, counters, disturbed>>

RelTypeOK ==
  /\ disk \in [Slugs -> Files]
  /\ dir \in {"none", "new", "watched"}
  /\ table \subseteq Rows
  /\ lastId \in 0..MaxId
  /\ expected \subseteq Slugs /\ events \subseteq Slugs /\ timers \subseteq Slugs
  /\ handler \in [Handlers -> [at : {"idle", "consume", "read", "store"},
                               slug : 0..NSlugs, file : Files]]
  /\ at \in [RelClients -> {"idle", "expect", "put", "expectOld", "remove", "store"}]
  /\ req \in [RelClients -> Requests]
  /\ load \in [at : {"idle", "list", "read", "store"}, list : SUBSET Slugs,
               seen : SUBSET Slugs, slug : 0..NSlugs, file : Files]
  /\ requests \in 0..MaxRequests /\ edits \in 0..MaxEdits /\ restarts \in 0..MaxRestarts
  /\ disturbed \in BOOLEAN
  /\ written \subseteq Slugs \X Valid

---------------------------------------------------------------------------
(* The table: UNIQUE(project_id, name) and a unique index on the slug.      *)

\* UpsertBySlug: ON CONFLICT(project_id, name) keeps the id of that row and moves
\* it to the slug; a row of another name at the slug makes the statement fail.
CanUpsert(slug, file) ==
  /\ \A r \in table : r.slug = slug => r.name = file.title
  /\ lastId < MaxId \/ \E r \in table : r.name = file.title

Upsert(slug, file) ==
  LET same == {r \in table : r.name = file.title}
      new  == [id |-> lastId + 1, name |-> file.title, slug |-> slug, ver |-> file.ver]
  IN  IF same = {}
      THEN table' = table \cup {new} /\ lastId' = lastId + 1
      ELSE /\ table' = (table \ same) \cup {[r EXCEPT !.slug = slug, !.ver = file.ver] : r \in same}
           /\ UNCHANGED lastId

\* The bound on ids: nobody starts what might need one more.
IdLeft == lastId < MaxId

---------------------------------------------------------------------------
(* The directory.  An event is seen once the directory is watched; what was *)
(* put into a new directory before that goes to the artifact indexer, which *)
(* skips releases.                                                          *)

Change(slug, file) ==
  /\ disk' = [disk EXCEPT ![slug] = file]
  /\ written' = IF file \in Valid THEN written \cup {<<slug, file>>} ELSE written
  /\ dir' = IF dir = "none" THEN "new" ELSE dir
  /\ events' = IF dir = "watched" THEN events \cup {slug} ELSE events

---------------------------------------------------------------------------
(* Requests: Store.Create, Store.Update, Store.Delete with DiskSync.        *)

Step(c, place) == at' = [at EXCEPT ![c] = place]
Reply(c) == Step(c, "idle") /\ req' = [req EXCEPT ![c] = NoRequest]

Begin(c, place, r) ==
  /\ requests < MaxRequests /\ requests' = requests + 1
  /\ at[c] = "idle"
  /\ Step(c, place) /\ req' = [req EXCEPT ![c] = r]
  /\ disturbed' = TRUE
  /\ UNCHANGED <<files, cache, expected, watchVars, load, edits, restarts>>

\* The conflict check: any row of that name or slug refuses the request.
Create(c, name, ver) ==
  /\ IdLeft
  /\ \A r \in table : r.name # name /\ r.slug # Slugify[name]
  /\ Begin(c, "expect", [op |-> "create", id |-> 0, name |-> name,
                         slug |-> Slugify[name], old |-> Slugify[name], ver |-> ver])

\* Update reads the row's slug; an emoji name keeps it.  (The comparison of
\* updated_at only adds a way to refuse the request here.)
Update(c, r, name, ver) ==
  Begin(c, "expect", [op |-> "update", id |-> r.id, name |-> name, ver |-> ver, old |-> r.slug,
                      slug |-> IF name \in Emoji THEN r.slug ELSE Slugify[name]])

Delete(c, r) ==
  Begin(c, "expectOld", [NoRequest EXCEPT !.op = "delete", !.id = r.id, !.old = r.slug])

Expect(c) ==
  /\ \/ at[c] = "expect"    /\ expected' = expected \cup {req[c].slug} /\ Step(c, "put")
     \/ at[c] = "expectOld" /\ expected' = expected \cup {req[c].old}  /\ Step(c, "remove")
  /\ disturbed' = TRUE
  /\ UNCHANGED <<files, cache, watchVars, req, load, counters>>

\* Mutant: the failure of the write is not looked at.
PutBug(c) ==
  /\ at[c] = "put"
  /\ \/ Change(req[c].slug, [title |-> req[c].name, ver |-> req[c].ver])
     \/ UNCHANGED <<files, events>>
  /\ Step(c, IF req[c].old # req[c].slug THEN "expectOld" ELSE "store")
  /\ disturbed' = TRUE
  /\ UNCHANGED <<cache, expected, req, timers, handler, load, counters>>

\* DiskSync.Write: temporary file and rename; the expectation is undone on failure.
Put(c) ==
  /\ at[c] = "put"
  /\ \/ /\ Change(req[c].slug, [title |-> req[c].name, ver |-> req[c].ver])
        /\ Step(c, IF req[c].old # req[c].slug THEN "expectOld" ELSE "store")
        /\ UNCHANGED <<expected, req>>
     \/ /\ expected' = expected \ {req[c].slug}
        /\ Reply(c)
        /\ UNCHANGED <<files, events>>
  /\ disturbed' = TRUE
  /\ UNCHANGED <<cache, timers, handler, load, counters>>

\* DiskSync.Delete, and the second half of Rename, whose failure is not fatal.
\* A file that is not there counts as removed.
Remove(c) ==
  /\ at[c] = "remove"
  /\ \/ /\ disk[req[c].old] # NoFile
        /\ Change(req[c].old, NoFile)
        /\ Step(c, "store") /\ UNCHANGED <<expected, req>>
     \/ /\ disk[req[c].old] = NoFile
        /\ Step(c, "store") /\ UNCHANGED <<files, events, expected, req>>
     \/ /\ disk[req[c].old] # NoFile
        /\ expected' = expected \ {req[c].old}
        /\ IF req[c].op = "delete" THEN Reply(c) ELSE Step(c, "store") /\ UNCHANGED req
        /\ UNCHANGED <<files, events>>
  /\ disturbed' = TRUE
  /\ UNCHANGED <<cache, timers, handler, load, counters>>

\* The UPDATE by id, or the upsert, meets a row it may not coincide with.
Clash(c) ==
  \/ /\ req[c].op = "create"
     /\ ~CanUpsert(req[c].slug, [title |-> req[c].name, ver |-> req[c].ver])
  \/ /\ req[c].op = "update"
     /\ \E r \in table : r.id = req[c].id
     /\ \E r \in table : r.id # req[c].id /\ (r.name = req[c].name \/ r.slug = req[c].slug)

\* The cache statement and the answer: done, or 409.
StoreRow(c) ==
  /\ at[c] = "store"
  /\ LET own == {r \in table : r.id = req[c].id}
     IN  \/ Clash(c) /\ UNCHANGED cache
         \/ /\ ~Clash(c) /\ req[c].op = "create"
            /\ Upsert(req[c].slug, [title |-> req[c].name, ver |-> req[c].ver])
         \/ /\ ~Clash(c) /\ req[c].op = "update"
            /\ table' = (table \ own) \cup {[r EXCEPT !.name = req[c].name, !.slug = req[c].slug,
                                                      !.ver = req[c].ver] : r \in own}
            /\ UNCHANGED lastId
         \/ req[c].op = "delete" /\ table' = table \ own /\ UNCHANGED lastId
  /\ Reply(c)
  /\ disturbed' = TRUE
  /\ UNCHANGED <<files, expected, watchVars, load, counters>>

\* The handlers check the input and find the row (resolveReleaseID, Store.Get) first.
handleCreateRelease(c) == \E name \in Names, ver \in Versions : Create(c, name, ver)

handleUpdateRelease(c) ==
  \E r \in table, name \in Names, ver \in Versions : Update(c, r, name, ver)

handleDeleteRelease(c) == \E r \in table : Delete(c, r)

Request(c) ==
  \/ handleCreateRelease(c) \/ handleUpdateRelease(c) \/ handleDeleteRelease(c)
  \/ Expect(c) \/ Put(c) \/ Remove(c) \/ StoreRow(c)

---------------------------------------------------------------------------
(* People, and the watcher. *)

Edit(slug, file) ==
  /\ edits < MaxEdits /\ edits' = edits + 1
  /\ file # disk[slug]
  /\ Change(slug, file)
  /\ disturbed' = TRUE
  /\ UNCHANGED <<cache, expected, timers, handler, clientVars, load, requests, restarts>>

\* The event loop: a new directory is added; an event arms the path's timer or,
\* if there is one, only postpones it.
WatchDir ==
  /\ dir = "new" /\ dir' = "watched"
  /\ UNCHANGED <<disk, written, cache, expected, watchVars, clientVars, load, counters, disturbed>>

Debounce(slug) ==
  /\ slug \in events
  /\ events' = events \ {slug} /\ timers' = timers \cup {slug}
  /\ disturbed' = TRUE
  /\ UNCHANGED <<files, cache, expected, handler, clientVars, load, counters>>

TimerFires(slug, h) ==
  /\ slug \in timers /\ handler[h].at = "idle"
  /\ timers' = timers \ {slug}
  /\ handler' = [handler EXCEPT ![h] = [at |-> "consume", slug |-> slug, file |-> NoFile]]
  /\ disturbed' = TRUE
  /\ UNCHANGED <<files, cache, expected, events, clientVars, load, counters>>

\* Handle: an expected event is ignored,
Consume(h) ==
  /\ handler[h].at = "consume"
  /\ IF handler[h].slug \in expected
     THEN /\ expected' = expected \ {handler[h].slug}
          /\ handler' = [handler EXCEPT ![h] = NoHandler]
     ELSE handler' = [handler EXCEPT ![h].at = "read"] /\ UNCHANGED expected
  /\ disturbed' = TRUE
  /\ UNCHANGED <<files, cache, events, timers, clientVars, load, counters>>

\* else the file is read; an invalid one is skipped,
ReadChanged(h) ==
  /\ handler[h].at = "read"
  /\ LET file == disk[handler[h].slug]
     IN  handler' = [handler EXCEPT ![h] = IF file = Broken THEN NoHandler
                       ELSE [@ EXCEPT !.at = "store", !.file = file]]
  /\ disturbed' = TRUE
  /\ UNCHANGED <<files, cache, expected, events, timers, clientVars, load, counters>>

\* and the row is deleted or upserted; a failing upsert is logged only.
StoreChanged(h) ==
  /\ handler[h].at = "store"
  /\ LET slug == handler[h].slug
         file == handler[h].file
     IN  \/ /\ file = NoFile
            /\ table' = {r \in table : r.slug # slug} /\ UNCHANGED lastId
         \/ file # NoFile /\ CanUpsert(slug, file) /\ Upsert(slug, file)
         \/ file # NoFile /\ ~CanUpsert(slug, file) /\ UNCHANGED cache
  /\ handler' = [handler EXCEPT ![h] = NoHandler]
  /\ disturbed' = TRUE
  /\ UNCHANGED <<files, expected, events, timers, clientVars, load, counters>>

Watch ==
  \/ WatchDir
  \/ \E slug \in Slugs : Debounce(slug) \/ \E h \in Handlers : TimerFires(slug, h)
  \/ \E h \in Handlers : Consume(h) \/ ReadChanged(h) \/ StoreChanged(h)

---------------------------------------------------------------------------
(* Rehydrate. *)

quiet == <<files, expected, watchVars, clientVars, counters>>

\* ReadDir, at start-up or for POST /releases/rehydrate.
LoadList ==
  /\ load.at \in {"idle", "list"}
  /\ load' = [NoLoad EXCEPT !.at = "read", !.list = {s \in Slugs : disk[s] # NoFile}]
  /\ disturbed' = FALSE
  /\ UNCHANGED <<quiet, cache>>

\* The next file; one that is gone or invalid is skipped.
LoadRead ==
  /\ load.at = "read"
  /\ \E s \in load.list :
       /\ \A t \in load.list : s <= t
       /\ load' = IF disk[s] \in Valid
                  THEN [load EXCEPT !.at = "store", !.list = @ \ {s}, !.slug = s, !.file = disk[s]]
                  ELSE [load EXCEPT !.list = @ \ {s}]
  /\ UNCHANGED <<quiet, cache, disturbed>>

LoadStore ==
  /\ load.at = "store"
  /\ \/ CanUpsert(load.slug, load.file) /\ Upsert(load.slug, load.file)
     \/ ~CanUpsert(load.slug, load.file) /\ UNCHANGED cache
  /\ load' = [load EXCEPT !.at = "read", !.slug = 0, !.file = NoFile,
                !.seen = IF CanUpsert(load.slug, load.file) THEN @ \cup {load.slug} ELSE @]
  /\ UNCHANGED <<quiet, disturbed>>

\* Mutant: rows are not pruned.
LoadPruneBug ==
  /\ load.at = "read" /\ load.list = {}
  /\ load' = NoLoad
  /\ UNCHANGED <<quiet, cache, disturbed>>

\* PruneExcept(seen).
LoadPrune ==
  /\ load.at = "read" /\ load.list = {}
  /\ table' = {r \in table : r.slug \in load.seen}
  /\ load' = NoLoad
  /\ UNCHANGED <<quiet, lastId, disturbed>>

Rehydrate == LoadList \/ LoadRead \/ LoadStore \/ LoadPrune

\* The server stops anywhere, and a new one opens the project: the directory, if
\* there is one, is watched, and Rehydrate is on its way.
Reopen ==
  /\ restarts < MaxRestarts /\ restarts' = restarts + 1
  /\ dir' = IF dir = "none" THEN "none" ELSE "watched"
  /\ expected' = {} /\ events' = {} /\ timers' = {}
  /\ handler' = [h \in Handlers |-> NoHandler]
  /\ at' = [c \in RelClients |-> "idle"] /\ req' = [c \in RelClients |-> NoRequest]
  /\ load' = [NoLoad EXCEPT !.at = "list"]
  /\ UNCHANGED <<disk, written, cache, requests, edits, disturbed>>

RelInit ==
  /\ \/ disk = [s \in Slugs |-> NoFile] /\ dir = "none" /\ table = {} /\ lastId = 0
     \/ \E n \in Names, v \in Versions :
          /\ disk = [s \in Slugs |-> IF s = Slugify[n] THEN [title |-> n, ver |-> v] ELSE NoFile]
          /\ dir = "watched" /\ lastId = 1
          /\ table = {[id |-> 1, name |-> n, slug |-> Slugify[n], ver |-> v]}
  /\ written = {<<s, disk[s]>> : s \in {t \in Slugs : disk[t] # NoFile}}
  /\ expected = {} /\ events = {} /\ timers = {}
  /\ handler = [h \in Handlers |-> NoHandler]
  /\ at = [c \in RelClients |-> "idle"] /\ req = [c \in RelClients |-> NoRequest]
  /\ load = NoLoad
  /\ requests = 0 /\ edits = 0 /\ restarts = 0
  /\ disturbed = FALSE

RelNext ==
  \/ \E c \in RelClients : Request(c)
  \/ \E slug \in Slugs, file \in Files : Edit(slug, file)
  \/ Watch \/ Rehydrate \/ Reopen

RelSpec == RelInit /\ [][RelNext]_relVars

---------------------------------------------------------------------------
(* Properties. *)

\* Markdown first: whatever fails, stops half-way or overlaps, no row shows a
\* release that was not on disk before under that slug.
RowsWereOnDisk ==
  \A r \in table : <<r.slug, [title |-> r.name, ver |-> r.ver]>> \in written

\* "Rebuilds the releases cache from disk": after a Rehydrate that nobody
\* disturbed, every row is what its file says, whatever the crash, the lost event
\* or the stale handler that came before.
LoadLeavesNoGhost ==
  [][LoadPrune /\ ~disturbed =>
       \A r \in table' : disk[r.slug] = [title |-> r.name, ver |-> r.ver]]_relVars

\* Rehydrate: it "prunes any cache rows whose file is no longer on disk": not the
\* row of a valid file.
PrunesOnlyTheMissing ==
  [][LoadPrune /\ ~disturbed => \A r \in table \ table' : disk[r.slug] \notin Valid]_relVars

\* Requirement release-artefacts-2: file names are unique, "collisions are rejected
\* at create/rename time with HTTP 409": a request writes the file of its own
\* release or a new one, never that of another release.
WritesOwnFileOnly ==
  \A c \in RelClients : at[c] = "put" /\ disk[req[c].slug] # NoFile =>
    req[c].op = "update" /\ req[c].slug = req[c].old

=============================================================================

---------------------------- MODULE ArtifactFiles ----------------------------
(***************************************************************************)
(* The artifacts of one lineage: their markdown files, which are           *)
(* authoritative, and their rows in the table artifacts, which the index   *)
(* derives from them.  Writers are the handlers of internal/http/write.go  *)
(* and transition.go, the index itself (autoblock.go moves an artifact     *)
(* with open questions to blocked and back), and people and agents; the    *)
(* watcher indexes every file that changed once more.                      *)
(*                                                                         *)
(* One step is one access to a file or one SQL transaction.  A write of a  *)
(* file is one step (os.WriteFile truncates first; see README, 7).         *)
(***************************************************************************)
EXTENDS Integers, FiniteSets, Workflow

CONSTANTS
  Artifacts,   \* the file names that can occur
  IndexOf,     \* artifact -> the number in its name: 0, 2, 3, ...
  Parent,      \* artifact -> its parent; itself if it has none
  FileClients, \* concurrent requests
  Watchers,    \* concurrent callbacks of the watcher
  Roles,       \* of the users who transition
  Transitions, \* of the project's configuration, in their order
  EditStatuses,\* what a PUT or an edit may set, besides keeping the status
  EditKinds,   \* what a request or an edit may make of a file
  MaxRevs,     \* bound on the new contents
  MaxSteps,    \* bound on the requests
  MaxCrashes   \* bound on the restarts

ASSUME ArtifactAssumption ==
  /\ IndexOf \in [Artifacts -> Nat] /\ Parent \in [Artifacts -> Artifacts]
  /\ FileClients \cap Watchers = {}
  /\ EditStatuses \subseteq Known
  /\ EditKinds \subseteq {"artifact", "release", "bare"}
  /\ MaxRevs \in Nat \ {0} /\ MaxSteps \in Nat /\ MaxCrashes \in Nat

Type == "requirement"
Rules == New(Transitions)
\* A file of the lineage: an artifact, one that says `type: release', or one that
\* does not begin with frontmatter, of which Parse gives no status and no type.
Contents == [kind : {"artifact", "release", "bare"}, status : Known \cup {""},
             asks : BOOLEAN, rev : 1..MaxRevs]
None == [kind |-> "", status |-> "", asks |-> FALSE, rev |-> 0]
File(kind, status, asks, rev) ==
  [kind |-> kind, status |-> IF kind = "bare" THEN "" ELSE status, asks |-> asks, rev |-> rev]
\* buildMarkdown of what was parsed: Parse will default an empty type and status.
Fenced(content) ==
  IF content.kind = "bare" THEN [content EXCEPT !.kind = "artifact", !.status = "draft"]
  ELSE content
Tasks == FileClients \cup Watchers
Stages == {"idle", "write", "index", "store", "settle", "restore", "unindex",
           "lock", "place", "relink", "move", "reject"}
Ops == {"", "create", "edit", "patch", "delete", "rename", "relink", "transition",
        "reject", "watch"}
NoJob == [op |-> "", file |-> "", to |-> "", from |-> "", copy |-> None]

VARIABLES
  text,     \* file -> content, None if there is no such file
  idx,      \* file -> the content its row in artifacts was made from
  dirty,    \* files with a debounce timer of the watcher
  stage, job, \* request or callback -> where it is, what it does
  revs, steps, crashes,
  raced,    \* history: transitions during which somebody else wrote the file
  astray    \* history: files whose row was last made from an overtaken copy,
            \* or that the last Scan passed over although they had changed

taskVars == <<stage, job>>
limits   == <<revs, steps, crashes>>
artVars  == <<text, idx, dirty, taskVars, limits, raced, astray>>

ArtTypeOK ==
  /\ text \in [Artifacts -> Contents \cup {None}]
  /\ idx \in [Artifacts -> Contents \cup {None}]
  /\ dirty \subseteq Artifacts /\ astray \subseteq Artifacts
  /\ stage \in [Tasks -> Stages]
  /\ \A t \in Tasks :
       /\ job[t].op \in Ops /\ job[t].copy \in Contents \cup {None}
       /\ {job[t].file, job[t].from, job[t].to} \subseteq Artifacts \cup Known \cup {""}
  /\ raced \subseteq FileClients
  /\ revs \in 0..MaxRevs /\ steps \in 0..MaxSteps /\ crashes \in 0..MaxCrashes

Goes(t, place) == stage' = [stage EXCEPT ![t] = place]
Ends(t) == Goes(t, "idle") /\ job' = [job EXCEPT ![t] = NoJob]

\* Task t writes file f: the watcher's timer starts, and a transition of f that
\* has read it is overtaken.
Puts(t, f, content) ==
  /\ text' = [text EXCEPT ![f] = content]
  /\ dirty' = dirty \cup {f}
  /\ raced' = raced \cup {c \in FileClients \ {t} :
                 job[c].op = "transition" /\ job[c].file = f /\ stage[c] = "write"
                 /\ ~(t \in FileClients /\ job[t].op = "transition" /\ stage[t] = "write")}

NewRev == revs < MaxRevs /\ revs' = revs + 1

---------------------------------------------------------------------------
(* Index.IndexFile. *)

\* applyOpenQuestionTransition: the content it leaves on disk.
Settled(content) ==
  CASE content.asks /\ content.status # "blocked"  -> [content EXCEPT !.status = "blocked"]
    [] ~content.asks /\ content.status = "blocked" -> [content EXCEPT !.status = "draft"]
    [] OTHER -> content

\* What IndexFile returns nil for, whatever the row of the file says.
PassedOver(content) == content.kind \in {"release", "bare"}

\* Where a task goes on after IndexFile.
Indexed(t) ==
  CASE job[t].op = "relink" ->
         Goes(t, "move") /\ job' = [job EXCEPT ![t].op = "rename", ![t].file = job[t].from,
                                               ![t].from = "", ![t].copy = None]
    [] job[t].op = "transition" /\ job[t].to = "rejected" ->
         Goes(t, "reject") /\ UNCHANGED job
    [] OTHER -> Ends(t)

\* A file is read; without it the watcher removes the row, a request fails; a release or
\* a file without frontmatter keeps the row it has, if any.
IndexRead(t) ==
  /\ stage[t] = "index"
  /\ LET content == text[job[t].file]
     IN  IF content = None
         THEN IF job[t].op = "watch" THEN Goes(t, "unindex") /\ UNCHANGED job ELSE Ends(t)
         ELSE IF PassedOver(content) THEN Indexed(t)
         ELSE Goes(t, "store") /\ job' = [job EXCEPT ![t].copy = content]
  /\ UNCHANGED <<text, idx, dirty, limits, raced, astray>>

\* The guard on hash and status, then Upsert.
IndexStore(t) ==
  /\ stage[t] = "store"
  /\ LET f == job[t].file
         copy == job[t].copy
     IN  IF idx[f] = copy
         THEN Indexed(t) /\ UNCHANGED <<idx, astray>>
         ELSE /\ idx' = [idx EXCEPT ![f] = copy]
              /\ astray' = IF copy = text[f] THEN astray \ {f} ELSE astray \cup {f}
              /\ IF Settled(copy) = copy THEN Indexed(t)
                 ELSE Goes(t, "settle") /\ UNCHANGED job
  /\ UNCHANGED <<text, dirty, limits, raced>>

\* autoBlock, autoUnblock: the copy, with its new status, replaces the file,
IndexSettle(t) ==
  /\ stage[t] = "settle"
  /\ Puts(t, job[t].file, Settled(job[t].copy))
  /\ job' = [job EXCEPT ![t].copy = Settled(@)]
  /\ Goes(t, "restore")
  /\ UNCHANGED <<idx, limits, astray>>

\* and is upserted.
IndexRestore(t) ==
  /\ stage[t] = "restore"
  /\ LET f == job[t].file
     IN  /\ idx' = [idx EXCEPT ![f] = job[t].copy]
         /\ astray' = IF job[t].copy = text[f] THEN astray \ {f} ELSE astray \cup {f}
  /\ Indexed(t)
  /\ UNCHANGED <<text, dirty, limits, raced>>

\* DeletePath, by the watcher, a DELETE or the first half of a rename.
Unindex(t) ==
  /\ stage[t] = "unindex"
  /\ LET f == job[t].file
     IN  /\ idx' = [idx EXCEPT ![f] = None]
         /\ astray' = IF text[f] = None THEN astray \ {f} ELSE astray \cup {f}
  /\ IF job[t].op = "rename"
     THEN /\ Goes(t, "index")
          /\ job' = [job EXCEPT ![t].file = job[t].to, ![t].to = "", ![t].op = "edit"]
     ELSE Ends(t)
  /\ UNCHANGED <<text, dirty, limits, raced>>

IndexFile(t) == IndexRead(t) \/ IndexStore(t) \/ IndexSettle(t) \/ IndexRestore(t) \/ Unindex(t)

---------------------------------------------------------------------------
(* Requests. *)

Accept(c, place, j) ==
  /\ stage[c] = "idle" /\ steps < MaxSteps /\ steps' = steps + 1
  /\ Goes(c, place) /\ job' = [job EXCEPT ![c] = j]
  /\ UNCHANGED <<text, idx, dirty, revs, crashes, raced, astray>>

RowFiles == {f \in Artifacts : idx[f] # None}

NextIndexForLineage ==
  LET top == Max({IndexOf[f] : f \in RowFiles})
  IN  IF RowFiles = {} THEN 0 ELSE IF top = 0 THEN 2 ELSE top + 1

\* Create: a number from the index, and no such file.
CreateArtifact(c) ==
  \E f \in Artifacts :
    /\ IndexOf[f] = NextIndexForLineage /\ text[f] = None
    /\ Accept(c, "place", [NoJob EXCEPT !.op = "create", !.file = f])

PlaceNew(c) ==
  /\ stage[c] = "place" /\ NewRev
  /\ \E kind \in EditKinds \ {"bare"}, asks \in BOOLEAN :
       Puts(c, job[c].file, File(kind, "draft", asks, revs'))
  /\ Goes(c, "index")
  /\ UNCHANGED <<idx, job, steps, crashes, astray>>

\* PUT: the file is read and compared with expected_sha, then replaced by a content
\* of any type, status and body.  The refusals (404, 409) change nothing.
ReadForEdit(c) ==
  \E f \in Artifacts :
    /\ text[f] # None
    /\ Accept(c, "write", [NoJob EXCEPT !.op = "edit", !.file = f, !.copy = text[f]])

WriteEdit(c) ==
  /\ stage[c] = "write" /\ job[c].op = "edit" /\ NewRev
  /\ \E status \in {Fenced(job[c].copy).status} \cup EditStatuses,
        kind \in EditKinds \ {"bare"}, asks \in BOOLEAN :
       Puts(c, job[c].file, File(kind, status, asks, revs'))
  /\ Goes(c, "index")
  /\ UNCHANGED <<idx, job, steps, crashes, astray>>

\* PATCH of priority, release or RICE fields: what was read is written back with one
\* field changed; 404, 422 and 423 (the lineage is locked) change nothing.
ReadForPatch(c) ==
  \E f \in Artifacts :
    /\ text[f] # None
    /\ Accept(c, "write", [NoJob EXCEPT !.op = "patch", !.file = f, !.copy = text[f]])

\* The copy replaces the file, its status and body as they were.
WriteBack(c, op, content) ==
  /\ stage[c] = "write" /\ job[c].op = op /\ NewRev
  /\ Puts(c, job[c].file, [content EXCEPT !.rev = revs'])
  /\ Goes(c, "index")
  /\ UNCHANGED <<idx, job, steps, crashes, astray>>

WritePatch(c) == WriteBack(c, "patch", Fenced(job[c].copy))

DeleteArtifact(c) ==
  \E f \in Artifacts :
    /\ stage[c] = "idle" /\ steps < MaxSteps /\ steps' = steps + 1
    /\ text[f] # None
    /\ Puts(c, f, None)
    /\ Goes(c, "unindex") /\ job' = [job EXCEPT ![c] = [NoJob EXCEPT !.op = "delete", !.file = f]]
    /\ UNCHANGED <<idx, revs, crashes, astray>>

\* Rename: the new name is free; a file that links to the old one is rewritten;
\* then the file is moved and both rows follow.
RenameArtifact(c) ==
  \E f, g \in Artifacts :
    /\ f # g /\ IndexOf[f] = IndexOf[g]
    /\ text[f] # None /\ text[g] = None
    /\ Accept(c, "relink", [NoJob EXCEPT !.op = "rename", !.file = f, !.to = g])

Relink(c) ==
  /\ stage[c] = "relink"
  /\ \/ Goes(c, "move") /\ UNCHANGED job
     \/ \E f \in RowFiles \ {job[c].file} :
          /\ text[f] # None
          /\ Goes(c, "write")
          /\ job' = [job EXCEPT ![c] = [job[c] EXCEPT !.op = "relink", !.from = job[c].file,
                                                      !.file = f, !.copy = text[f]]]
  /\ UNCHANGED <<text, idx, dirty, limits, raced, astray>>

WriteRelinked(c) == WriteBack(c, "relink", job[c].copy)

Move(c) ==
  /\ stage[c] = "move"
  /\ IF text[job[c].file] = None
     THEN Ends(c) /\ UNCHANGED <<text, dirty>>
     ELSE /\ text' = [text EXCEPT ![job[c].to] = text[job[c].file], ![job[c].file] = None]
          /\ dirty' = dirty \cup {job[c].file, job[c].to}
          /\ Goes(c, "unindex") /\ UNCHANGED job
  /\ raced' = raced \cup {d \in FileClients : job[d].op = "transition" /\ stage[d] = "write"}
  /\ UNCHANGED <<idx, limits, astray>>

---------------------------------------------------------------------------
(* Transitions. *)

ChildStatuses(f) == {idx[g].status : g \in {h \in RowFiles : Parent[h] = f /\ h # f}}

Granted(c, f, to) ==
  /\ CanTransition(Rules, idx[f].status, to, Roles, Type)
  /\ Accept(c, "lock", [NoJob EXCEPT !.op = "transition", !.file = f,
                                     !.from = idx[f].status, !.to = to])

\* What the form offers for a row.
Offered(f) == AllowedTargets(Rules, idx[f].status, Roles, Type)

BeginTransition(c) == \E f \in RowFiles : \E to \in Offered(f) : Granted(c, f, to)

\* status-check/advance: a row behind all its children follows them.
AdvanceStale(c) ==
  \E f \in RowFiles :
    LET to == Suggested(idx[f].status, ChildStatuses(f))
    IN  to # "" /\ Granted(c, f, to)

\* The mutex of transitionLockFor(path): held until applyTransition returns.
Holds(c, f) ==
  /\ job[c].op = "transition" /\ job[c].file = f
  /\ stage[c] \in {"write", "index", "store", "settle", "restore"}

\* Mutant: transitions are not serialised.
LockAndReadBug(c) ==
  /\ stage[c] = "lock"
  /\ LET f == job[c].file
     IN  IF text[f] # None /\ text[f].status = job[c].from
         THEN Goes(c, "write") /\ job' = [job EXCEPT ![c].copy = text[f]]
         ELSE Ends(c)
  /\ raced' = raced \ {c}
  /\ UNCHANGED <<text, idx, dirty, limits, astray>>

\* Under the mutex: the file must still have the status the row had.
LockAndRead(c) ==
  /\ stage[c] = "lock"
  /\ \A d \in FileClients : ~Holds(d, job[c].file)
  /\ LET f == job[c].file
     IN  IF text[f] # None /\ text[f].status = job[c].from
         THEN Goes(c, "write") /\ job' = [job EXCEPT ![c].copy = text[f]]
         ELSE Ends(c)
  /\ raced' = raced \ {c}
  /\ UNCHANGED <<text, idx, dirty, limits, astray>>

WriteStatus(c) ==
  /\ stage[c] = "write" /\ job[c].op = "transition"
  /\ Puts(c, job[c].file, [job[c].copy EXCEPT !.status = job[c].to])
  /\ Goes(c, "index")
  /\ UNCHANGED <<idx, job, limits, astray>>

\* writeRejectionArtifact, if there is a comment: the next number, no look at the disk.
WriteRejection(c) ==
  /\ stage[c] = "reject"
  /\ \/ Ends(c) /\ UNCHANGED <<text, dirty, raced, revs>>
     \/ \E f \in Artifacts, asks \in BOOLEAN :
          /\ IndexOf[f] = NextIndexForLineage /\ NewRev
          /\ Puts(c, f, File("artifact", "rejected", asks, revs'))
          /\ Goes(c, "index")
          /\ job' = [job EXCEPT ![c] = [NoJob EXCEPT !.op = "reject", !.file = f]]
  /\ UNCHANGED <<idx, steps, crashes, astray>>

FileRequest(c) ==
  \/ CreateArtifact(c) \/ PlaceNew(c)
  \/ ReadForEdit(c) \/ WriteEdit(c)
  \/ ReadForPatch(c) \/ WritePatch(c)
  \/ DeleteArtifact(c)
  \/ RenameArtifact(c) \/ Relink(c) \/ WriteRelinked(c) \/ Move(c)
  \/ BeginTransition(c) \/ AdvanceStale(c)
  \/ LockAndRead(c) \/ WriteStatus(c) \/ WriteRejection(c)

---------------------------------------------------------------------------
(* People and agents, the watcher, a restart. *)

EditFile(f) ==
  /\ \/ text[f] # None /\ text' = [text EXCEPT ![f] = None] /\ steps < MaxSteps
        /\ steps' = steps + 1 /\ UNCHANGED revs
     \/ /\ NewRev /\ UNCHANGED steps
        /\ \E status \in EditStatuses, kind \in EditKinds, asks \in BOOLEAN :
             text' = [text EXCEPT ![f] = File(kind, status, asks, revs')]
  /\ dirty' = dirty \cup {f}
  /\ raced' = raced \cup {c \in FileClients : job[c].op = "transition" /\ job[c].file = f}
  /\ UNCHANGED <<idx, taskVars, crashes, astray>>

\* Mutant: the watcher leaves the row of a file that has gone.
HandleChangeBug(w) ==
  \E f \in dirty :
    /\ stage[w] = "idle"
    /\ dirty' = dirty \ {f}
    /\ Goes(w, "index") /\ job' = [job EXCEPT ![w] = [NoJob EXCEPT !.op = "edit", !.file = f]]
    /\ UNCHANGED <<text, idx, limits, raced, astray>>

\* handleChange of a path whose timer fired.
HandleChange(w) ==
  \E f \in dirty :
    /\ stage[w] = "idle"
    /\ dirty' = dirty \ {f}
    /\ Goes(w, "index") /\ job' = [job EXCEPT ![w] = [NoJob EXCEPT !.op = "watch", !.file = f]]
    /\ UNCHANGED <<text, idx, limits, raced, astray>>

\* The server stops anywhere; Open scans: files whose modification time (in
\* seconds) is that of the row are skipped; rows without a file, or of one that is no
\* artifact now, are left.
RestartAndScan ==
  /\ crashes < MaxCrashes /\ crashes' = crashes + 1
  /\ \E skipped \in SUBSET RowFiles :
       LET read == {f \in Artifacts : text[f] # None /\ ~PassedOver(text[f])} \ skipped
       IN  /\ text' = [f \in Artifacts |-> IF f \in read /\ idx[f] # text[f]
                                            THEN Settled(text[f]) ELSE text[f]]
           /\ idx'  = [f \in Artifacts |-> IF f \in read /\ idx[f] # text[f]
                                            THEN Settled(text[f]) ELSE idx[f]]
           /\ astray' = {f \in Artifacts : \/ Settled(idx'[f]) # idx'[f]
                                            \/ (idx'[f] # text'[f] /\ ~PassedOver(text'[f]))}
  /\ dirty' = {} /\ raced' = {}
  /\ stage' = [t \in Tasks |-> "idle"] /\ job' = [t \in Tasks |-> NoJob]
  /\ UNCHANGED <<revs, steps>>

\* The lineage's first artifact and maybe others, indexed, and the server idle.
ArtInit ==
  /\ \E f \in Artifacts, others \in SUBSET {g \in Artifacts : IndexOf[g] # 0} :
       /\ IndexOf[f] = 0
       /\ text = [g \in Artifacts |-> IF g \in {f} \cup others
                                      THEN File("artifact", "draft", FALSE, 1)
                                      ELSE None]
  /\ idx = text
  /\ dirty = {} /\ raced = {} /\ astray = {}
  /\ stage = [t \in Tasks |-> "idle"] /\ job = [t \in Tasks |-> NoJob]
  /\ revs = 1 /\ steps = 0 /\ crashes = 0

ArtNext ==
  \/ \E c \in FileClients : FileRequest(c)
  \/ \E t \in Tasks : IndexFile(t)
  \/ \E f \in Artifacts : EditFile(f)
  \/ \E w \in Watchers : HandleChange(w)
  \/ RestartAndScan

ArtSpec == ArtInit /\ [][ArtNext]_artVars

---------------------------------------------------------------------------
(* Properties. *)

Quiet == dirty = {} /\ \A t \in Tasks : stage[t] = "idle"

\* Disk is authoritative.  When requests and the watcher have come to rest, every
\* row is made from the file as it is, and an artifact is blocked exactly if it has
\* open questions, but for three gaps of the code: IndexFile leaves the row of a file
\* that has become a release or lost its frontmatter as it was; an upsert may be of a
\* copy that was overtaken; and Scan passes over files after a restart.
RowsFollowFiles ==
  Quiet => \A f \in Artifacts \ astray :
             \/ PassedOver(text[f])
             \/ idx[f] = text[f] /\ Settled(text[f]) = text[f]

\* Release files "must NOT also live in the generic artifacts table" (index.go:487-491), and
\* what is no artifact is skipped: at rest a row has an artifact behind it.  It does not
\* hold, even without overtaken copies and restarts (README, section 4).
RowsHaveArtifacts ==
  Quiet => \A f \in RowFiles \ astray : text[f].kind = "artifact"

\* "Only the first caller for a given pre-state advances; concurrent losers see the
\* new on-disk status and bail out": a transition changes the status it was granted
\* for, unless one of the writers that do not take the mutex came in between.
TransitionsFromGrantedStatus ==
  [][\A c \in FileClients :
       WriteStatus(c) /\ c \notin raced =>
         text[job[c].file] # None /\ text[job[c].file].status = job[c].from]_artVars

=============================================================================

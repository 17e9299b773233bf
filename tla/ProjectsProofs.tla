--------------------------- MODULE ProjectsProofs ---------------------------
(***************************************************************************)
(* Proofs about Projects, for any names, directories and requests.         *)
(*                                                                         *)
(* A request that has made a directory is the only one that has, and the   *)
(* directory is not people's as long as the request is at work (MadeInv).  *)
(* A runtime is in the map or held by one request, never both, and in      *)
(* either case it is open and of the project in question (HeldInv).        *)
(* A request that is alone with its project knows, at every point of its   *)
(* way, what the registry and the map say of it (RestInv, Work).           *)
(***************************************************************************)
EXTENDS Projects, FiniteSetTheorems, FunctionTheorems, TLAPS

\* Projects by itself; MCProject puts it beside other components.
ProjSpec == ProjInit /\ [][ProjNext]_projVars

\* handleCreateProject's path, and the directories made on it.
MadeInv ==
  /\ \A r \in Requests : req[r].pc = "mkdir" => req[r].op = "create"
  /\ \A r \in Requests : req[r].pc = "scaffold" => req[r].op \in {"create", "init"}
  /\ \A r \in Requests : req[r].op = "create" =>
       /\ req[r].pc \in {"mkdir", "scaffold", "save", "open", "publish", "unsave", "rollback"}
       /\ req[r].at \in Dirs
  /\ \A r \in Requests : req[r].made => req[r].op = "create" /\ dir[req[r].at] = "request"
  /\ \A r, q \in Requests : r # q /\ req[r].made /\ req[q].made => req[r].at # req[q].at

\* A request that is about to publish or to close a runtime.
Holds(r) == req[r].pc \in {"publish", "close"}

HeldInv ==
  /\ \A r \in Requests : Holds(r) =>
       /\ req[r].rt \in Runtimes
       /\ runtime[req[r].rt].open /\ runtime[req[r].rt].name = req[r].name
       /\ \A n \in ProjNames : projects[n] # req[r].rt
  /\ \A r, q \in Requests : r # q /\ Holds(r) /\ Holds(q) => req[r].rt # req[q].rt

\* A request at work is about a project.
Named == \A r \in Requests : req[r].pc # "idle" => req[r].name \in ProjNames

ProjInv == ProjTypeOK /\ Named /\ MadeInv /\ LiveRuntimeIsOpen /\ HeldInv

---------------------------------------------------------------------------
(* Groups of steps.                                                        *)

\* A request begins: Stat, the registry and the map are only read.
Begin(r) ==
  \/ \E n \in ProjNames : handleInitProject(r, n) \/ handleDeleteProject(r, n)
  \/ \E n \in ProjNames, d \in Dirs :
       CreateExisting(r, n, d) \/ CreateNew(r, n, d) \/ handleUpdateProject(r, n, d)

PCs == {"idle", "mkdir", "scaffold", "save", "open", "publish", "unsave", "rollback",
        "delete", "unregister", "close"}
CreatePCs == {"mkdir", "scaffold", "save", "open", "publish", "unsave", "rollback"}

RequestType ==
  [op : {"none", "create", "init", "edit", "update", "delete"},
   pc : PCs,
   name : ProjNames \cup {NoName}, at : Dirs \cup {NoDir}, made : BOOLEAN,
   rt : Runtimes \cup {NoRuntime}]

LEMMA IdleType == Idle \in RequestType
  BY DEF Idle, RequestType, PCs

\* What the beginning of a request does: a new request, and nothing else.
BeginEffects(r) ==
  /\ req[r] = Idle
  /\ UNCHANGED <<entryAt, projects, runtime, dir, serverRestarts>>
  /\ overlapped' \in SUBSET ProjNames
  /\ \E op \in {"create", "init", "edit", "update", "delete"},
        pc \in {"mkdir", "scaffold", "save", "delete"}, n \in ProjNames,
        d \in Dirs \cup {NoDir} :
       /\ req' = [req EXCEPT ![r] = [Idle EXCEPT !.op = op, !.pc = pc, !.name = n, !.at = d]]
       /\ op = "create" => pc \in {"mkdir", "scaffold"} /\ d \in Dirs
       /\ pc = "mkdir" => op = "create"
       /\ pc = "scaffold" => op \in {"create", "init"}

LEMMA BeginsFacts ==
  ASSUME overlapped \subseteq ProjNames, NEW r \in Requests,
         NEW op \in {"create", "init", "edit", "update", "delete"},
         NEW pc \in {"mkdir", "scaffold", "save", "delete"}, NEW n \in ProjNames,
         NEW d \in Dirs \cup {NoDir}, Begins(r, op, pc, n, d),
         op = "create" => pc \in {"mkdir", "scaffold"} /\ d \in Dirs,
         pc = "mkdir" => op = "create", pc = "scaffold" => op \in {"create", "init"}
  PROVE  BeginEffects(r)
  <1>1. overlapped' \in SUBSET ProjNames
    BY DEF Begins
  <1> QED
    BY <1>1 DEF Begins, BeginEffects

LEMMA BeginFacts ==
  ASSUME ProjTypeOK, NEW r \in Requests, Begin(r)
  PROVE  BeginEffects(r)
  <1>1. overlapped \subseteq ProjNames /\ projects \in [ProjNames -> Runtimes \cup {NoRuntime}]
          /\ runtime \in [Runtimes -> [open : BOOLEAN, name : ProjNames \cup {NoName}, at : Dirs \cup {NoDir}]]
    BY DEF ProjTypeOK
  <1>2. CASE \E n \in ProjNames : handleInitProject(r, n)
    <2>1. PICK n \in ProjNames : handleInitProject(r, n)
      BY <1>2
    <2>2. projects[n] \in Runtimes
      BY <1>1, <2>1 DEF handleInitProject
    <2>3. runtime[projects[n]].at \in Dirs \cup {NoDir}
      BY <1>1, <2>2
    <2>4. Begins(r, "init", "scaffold", n, runtime[projects[n]].at)
      BY <2>1 DEF handleInitProject
    <2> QED
      BY <1>1, <2>3, <2>4, BeginsFacts
  <1>3. CASE \E n \in ProjNames : handleDeleteProject(r, n)
    <2>1. PICK n \in ProjNames : handleDeleteProject(r, n)
      BY <1>3
    <2>2. projects[n] \in Runtimes
      BY <1>1, <2>1 DEF handleDeleteProject
    <2>3. runtime[projects[n]].at \in Dirs \cup {NoDir}
      BY <1>1, <2>2
    <2>4. Begins(r, "delete", "delete", n, runtime[projects[n]].at)
      BY <2>1 DEF handleDeleteProject
    <2> QED
      BY <1>1, <2>3, <2>4, BeginsFacts
  <1>4. CASE \E n \in ProjNames, d \in Dirs : CreateExisting(r, n, d) \/ CreateNew(r, n, d)
    BY <1>1, <1>4, BeginsFacts DEF CreateExisting, CreateNew
  <1>5. CASE \E n \in ProjNames, d \in Dirs : handleUpdateProject(r, n, d)
    BY <1>1, <1>5, BeginsFacts DEF handleUpdateProject
  <1> QED
    BY <1>2, <1>3, <1>4, <1>5 DEF Begin

LEMMA BeginInv ==
  ASSUME ProjInv, NEW r \in Requests, Begin(r)
  PROVE  ProjInv'
  <1> USE DEF ProjInv
  <1>1. /\ req[r] = Idle /\ overlapped' \in SUBSET ProjNames
        /\ UNCHANGED <<entryAt, projects, runtime, dir, serverRestarts>>
    BY BeginFacts DEF BeginEffects
  <1>2. PICK op \in {"create", "init", "edit", "update", "delete"},
             pc \in {"mkdir", "scaffold", "save", "delete"}, n \in ProjNames,
             d \in Dirs \cup {NoDir} :
          /\ req' = [req EXCEPT ![r] = [Idle EXCEPT !.op = op, !.pc = pc, !.name = n, !.at = d]]
          /\ op = "create" => pc \in {"mkdir", "scaffold"} /\ d \in Dirs
          /\ pc = "mkdir" => op = "create"
          /\ pc = "scaffold" => op \in {"create", "init"}
    BY BeginFacts DEF BeginEffects
  <1> DEFINE new == [Idle EXCEPT !.op = op, !.pc = pc, !.name = n, !.at = d]
  <1>3. /\ new \in RequestType /\ new.op = op /\ new.pc = pc /\ new.name = n /\ new.at = d
        /\ new.made = FALSE
    BY DEF Idle, RequestType, PCs
  <1>4. req \in [Requests -> RequestType]
    BY DEF ProjTypeOK, RequestType, PCs
  <1>5. /\ req' \in [Requests -> RequestType]
        /\ req'[r] = new /\ \A q \in Requests \ {r} : req'[q] = req[q]
    BY <1>2, <1>3, <1>4
  <1> HIDE DEF new
  <1>6. ProjTypeOK'
    BY <1>1, <1>5 DEF ProjTypeOK, RequestType, PCs
  <1>7. Named'
    BY <1>3, <1>5 DEF Named
  <1>8. MadeInv'
    <2>1. \A q \in Requests : req'[q].made => q # r /\ req'[q] = req[q]
      BY <1>3, <1>5
    <2>2. \A q \in Requests : req'[q].op = "create" =>
            (req'[q].pc \in {"mkdir", "scaffold"} /\ req'[q].at \in Dirs) \/ req'[q] = req[q]
      BY <1>2, <1>3, <1>5
    <2> QED
      BY <1>1, <1>2, <1>3, <1>5, <2>1, <2>2 DEF MadeInv
  <1>9. LiveRuntimeIsOpen'
    BY <1>1 DEF LiveRuntimeIsOpen
  <1>10. HeldInv'
    BY <1>1, <1>3, <1>5 DEF HeldInv, Holds
  <1> QED
    BY <1>6, <1>7, <1>8, <1>9, <1>10

---------------------------------------------------------------------------
(* What a step does to the request that takes it.                          *)

Moved(r, pc, rt, made) ==
  /\ req' \in [Requests -> RequestType]
  /\ req'[r].pc = pc /\ req'[r].rt = rt /\ req'[r].made = made
  /\ req'[r].op = req[r].op /\ req'[r].name = req[r].name /\ req'[r].at = req[r].at
  /\ \A q \in Requests \ {r} : req'[q] = req[q]

Ended(r) ==
  /\ req' \in [Requests -> RequestType]
  /\ req'[r].pc = "idle" /\ req'[r].op = "none" /\ ~req'[r].made
  /\ \A q \in Requests \ {r} : req'[q] = req[q]

LEMMA RequestTypes == ProjTypeOK => req \in [Requests -> RequestType]
  BY DEF ProjTypeOK, RequestType, PCs

LEMMA GoesMoves ==
  ASSUME ProjTypeOK, NEW r \in Requests, NEW pc \in PCs, Goes(r, pc)
  PROVE  Moved(r, pc, req[r].rt, req[r].made)
  BY RequestTypes DEF Goes, Moved, RequestType

LEMMA RuntimeMoves ==
  ASSUME ProjTypeOK, NEW r \in Requests, NEW pc \in PCs, NEW rt \in Runtimes \cup {NoRuntime},
         req' = [req EXCEPT ![r].pc = pc, ![r].rt = rt]
  PROVE  Moved(r, pc, rt, req[r].made)
  BY RequestTypes DEF Moved, RequestType

LEMMA MadeMoves ==
  ASSUME ProjTypeOK, NEW r \in Requests, NEW pc \in PCs, NEW made \in BOOLEAN,
         req' = [req EXCEPT ![r].pc = pc, ![r].made = made]
  PROVE  Moved(r, pc, req[r].rt, made)
  BY RequestTypes DEF Moved, RequestType

LEMMA EndsEnded ==
  ASSUME ProjTypeOK, NEW r \in Requests, Ends(r)
  PROVE  Ended(r)
  <1>1. Idle.pc = "idle" /\ Idle.op = "none" /\ ~Idle.made
    BY DEF Idle
  <1> QED
    BY <1>1, RequestTypes, IdleType DEF Ends, Ended

\* A request moves on, and directories made by requests stay what they are.
LEMMA MovedInv ==
  ASSUME ProjInv, NEW r \in Requests, NEW pc \in PCs, NEW rt,
         Moved(r, pc, rt, req[r].made),
         req[r].pc # "idle", req[r].op = "create" => pc \in CreatePCs, pc \notin {"mkdir", "scaffold"},
         \A d \in Dirs : dir[d] = "request" => dir'[d] = "request"
  PROVE  Named' /\ MadeInv'
  <1>1. Named'
    BY DEF ProjInv, Named, Moved
  <1>2. \A q \in Requests : /\ req'[q].op = req[q].op /\ req'[q].at = req[q].at
                            /\ req'[q].made = req[q].made
                            /\ req'[q].pc = req[q].pc \/ (q = r /\ req'[q].pc = pc)
    BY DEF Moved
  <1>3. MadeInv'
    BY <1>2 DEF ProjInv, MadeInv, CreatePCs
  <1> QED
    BY <1>1, <1>3

\* A request ends, and so may what it has made.
LEMMA EndedInv ==
  ASSUME ProjInv, NEW r \in Requests, Ended(r),
         \A d \in Dirs : dir[d] = "request" =>
           dir'[d] = "request" \/ (req[r].made /\ d = req[r].at)
  PROVE  Named' /\ MadeInv'
  <1>1. Named'
    BY DEF ProjInv, Named, Ended
  <1>2. \A q \in Requests : q # r => req'[q] = req[q]
    BY DEF Ended
  <1>3. req'[r].op # "create" /\ ~req'[r].made
    BY DEF Ended
  <1>4. \A q \in Requests : req'[q].op = "create" => q # r /\ req[q].op = "create"
    BY <1>2, <1>3
  <1>5. \A q \in Requests : req'[q].made => q # r /\ req[q].made
    BY <1>2, <1>3
  <1>6. \A q \in Requests : req'[q].made => dir'[req[q].at] = "request"
    <2> SUFFICES ASSUME NEW q \in Requests, req'[q].made
                 PROVE  dir'[req[q].at] = "request"
      OBVIOUS
    <2>1. q # r /\ req[q].made /\ req[q].at \in Dirs /\ dir[req[q].at] = "request"
      BY <1>5 DEF ProjInv, MadeInv
    <2>2. req[r].made => req[r].at # req[q].at
      BY <2>1 DEF ProjInv, MadeInv
    <2> QED
      BY <2>1, <2>2
  <1>7. MadeInv'
    <2>1. req'[r].pc = "idle"
      BY DEF Ended
    <2>2. \A q \in Requests : req'[q].pc \in {"mkdir", "scaffold"} => q # r /\ req'[q] = req[q]
      BY <1>2, <2>1
    <2>3. \A q \in Requests : req'[q].op = "create" =>
            /\ req'[q].pc \in {"mkdir", "scaffold", "save", "open", "publish", "unsave", "rollback"}
            /\ req'[q].at \in Dirs
      BY <1>2, <1>4 DEF ProjInv, MadeInv
    <2>4. \A q \in Requests : req'[q].made => req'[q] = req[q]
      BY <1>2, <1>5
    <2> QED
      BY <1>5, <1>6, <2>2, <2>3, <2>4 DEF ProjInv, MadeInv
  <1> QED
    BY <1>1, <1>7

\* The map and the runtimes are left alone, and the request holds none.
LEMMA QuietInv ==
  ASSUME ProjInv, NEW r \in Requests, UNCHANGED <<projects, runtime>>,
         \A q \in Requests \ {r} : req'[q] = req[q], ~Holds(r)'
  PROVE  LiveRuntimeIsOpen' /\ HeldInv'
  BY DEF ProjInv, LiveRuntimeIsOpen, HeldInv, Holds

\* A request that ends and has touched neither the map nor a runtime.
LEMMA EndCase ==
  ASSUME ProjInv, NEW r \in Requests, Ends(r),
         UNCHANGED <<projects, runtime, overlapped, serverRestarts>>,
         entryAt' \in [ProjNames -> Dirs \cup {NoDir}],
         dir' \in [Dirs -> {"absent", "people", "request"}],
         \A d \in Dirs : dir[d] = "request" =>
           dir'[d] = "request" \/ (req[r].made /\ d = req[r].at)
  PROVE  ProjInv'
  <1>1. Ended(r)
    BY EndsEnded DEF ProjInv
  <1>2. Named' /\ MadeInv'
    BY <1>1, EndedInv
  <1>3. LiveRuntimeIsOpen' /\ HeldInv'
    BY <1>1, QuietInv DEF Ended, Holds
  <1>4. ProjTypeOK'
    BY <1>1 DEF ProjInv, ProjTypeOK, Ended, RequestType, PCs
  <1> QED
    BY <1>2, <1>3, <1>4 DEF ProjInv

\* One that goes on, likewise.
LEMMA GoCase ==
  ASSUME ProjInv, NEW r \in Requests, NEW pc \in PCs \ {"mkdir", "scaffold", "publish", "close"}, Goes(r, pc),
         req[r].pc # "idle", req[r].op = "create" => pc \in CreatePCs,
         UNCHANGED <<projects, runtime, overlapped, serverRestarts>>,
         entryAt' \in [ProjNames -> Dirs \cup {NoDir}],
         dir' \in [Dirs -> {"absent", "people", "request"}],
         \A d \in Dirs : dir[d] = "request" => dir'[d] = "request"
  PROVE  ProjInv'
  <1>1. Moved(r, pc, req[r].rt, req[r].made)
    BY GoesMoves DEF ProjInv
  <1>2. Named' /\ MadeInv'
    BY <1>1, MovedInv
  <1>3. LiveRuntimeIsOpen' /\ HeldInv'
    BY <1>1, QuietInv DEF Moved, Holds
  <1>4. ProjTypeOK'
    BY <1>1 DEF ProjInv, ProjTypeOK, Moved, RequestType, PCs
  <1> QED
    BY <1>2, <1>3, <1>4 DEF ProjInv

---------------------------------------------------------------------------
(* Steps on the directory and on the registry.                             *)

LEMMA PresentFacts ==
  ASSUME ProjTypeOK, NEW d
  PROVE  /\ Present(d) \in [Dirs -> {"absent", "people", "request"}]
         /\ \A e \in Dirs : dir[e] # "absent" => Present(d)[e] = dir[e]
  BY DEF ProjTypeOK, Present

LEMMA MakeTargetInv ==
  ASSUME ProjInv, NEW r \in Requests, MakeTarget(r)
  PROVE  ProjInv'
  <1>1. ProjTypeOK /\ req[r].pc = "mkdir" /\ UNCHANGED <<entryAt, projects, runtime, overlapped, serverRestarts>>
          /\ dir \in [Dirs -> {"absent", "people", "request"}]
    BY DEF ProjInv, MakeTarget, ProjTypeOK
  <1>2. CASE Ends(r) /\ UNCHANGED dir
    <2>1. Ended(r)
      BY <1>1, <1>2, EndsEnded
    <2>2. Named' /\ MadeInv'
      BY <1>2, <2>1, EndedInv
    <2>3. LiveRuntimeIsOpen' /\ HeldInv'
      BY <1>1, <2>1, QuietInv DEF Ended, Holds
    <2>4. ProjTypeOK'
      BY <1>1, <1>2, <2>1 DEF ProjTypeOK, Ended, RequestType, PCs
    <2> QED
      BY <2>2, <2>3, <2>4 DEF ProjInv
  <1>3. CASE /\ ResolveNewTarget(req[r].at) /\ dir' = Present(req[r].at)
             /\ req' = [req EXCEPT ![r].pc = "scaffold", ![r].made = TRUE]
    <2>1. Moved(r, "scaffold", req[r].rt, TRUE)
      BY <1>1, <1>3, MadeMoves DEF PCs
    <2>2. Named'
      BY <1>1, <2>1 DEF ProjInv, Named, Moved
    <2>3. LiveRuntimeIsOpen' /\ HeldInv'
      BY <1>1, <2>1, QuietInv DEF Moved, Holds
    <2>4. ProjTypeOK'
      BY <1>1, <1>3, <2>1, PresentFacts DEF ProjTypeOK, Moved, RequestType, PCs
    <2>5. MadeInv'
      <3>1. \A q \in Requests \ {r} : req'[q] = req[q]
        BY <2>1 DEF Moved
      <3>2. req'[r].at = req[r].at /\ req'[r].op = req[r].op /\ req'[r].pc = "scaffold"
        BY <2>1 DEF Moved
      <3>3. ASSUME req[r].op = "create" PROVE req[r].at \in Dirs
        BY <3>3 DEF ProjInv, MadeInv
      <3>4. req[r].op = "create"
        BY <1>1 DEF ProjInv, MadeInv
      <3>5. dir[req[r].at] = "absent" /\ dir'[req[r].at] = "request"
        BY <1>1, <1>3, <3>3, <3>4 DEF ResolveNewTarget, Present
      <3>6. \A q \in Requests \ {r} : req[q].made => req[q].at # req[r].at /\ dir'[req[q].at] = "request"
        <4> SUFFICES ASSUME NEW q \in Requests \ {r}, req[q].made
                     PROVE  req[q].at # req[r].at /\ dir'[req[q].at] = "request"
          OBVIOUS
        <4>1. req[q].at \in Dirs /\ dir[req[q].at] = "request"
          BY DEF ProjInv, MadeInv
        <4> QED
          BY <1>1, <1>3, <3>5, <4>1, PresentFacts
      <3> QED
        BY <3>1, <3>2, <3>3, <3>4, <3>5, <3>6 DEF ProjInv, MadeInv
    <2> QED
      BY <2>2, <2>3, <2>4, <2>5 DEF ProjInv
  <1> QED
    BY <1>2, <1>3 DEF MakeTarget

LEMMA ScaffoldProjectInv ==
  ASSUME ProjInv, NEW r \in Requests, NEW ok \in BOOLEAN, ScaffoldProject(r, ok)
  PROVE  ProjInv'
  <1>1. /\ ProjTypeOK /\ req[r].pc = "scaffold" /\ dir' = Present(req[r].at)
        /\ UNCHANGED <<entryAt, projects, runtime, overlapped, serverRestarts>>
    BY DEF ProjInv, ScaffoldProject
  <1>2. /\ dir' \in [Dirs -> {"absent", "people", "request"}]
        /\ \A d \in Dirs : dir[d] = "request" => dir'[d] = "request"
    BY <1>1, PresentFacts
  <1>3. CASE Ends(r)
    BY <1>1, <1>2, <1>3, EndCase DEF ProjTypeOK
  <1>4. ASSUME NEW pc \in {"save", "rollback", "unregister"}, Goes(r, pc),
               req[r].op = "create" => pc # "unregister"
        PROVE  ProjInv'
    BY <1>1, <1>2, <1>4, GoCase DEF PCs, CreatePCs, ProjTypeOK
  <1>5. req[r].op = "create" \/ req[r].op = "init" \/ req[r].op \notin {"create", "init"}
    OBVIOUS
  <1>6. CASE req[r].op = "create"
    BY <1>4, <1>6 DEF ScaffoldProject
  <1>7. CASE req[r].op = "init"
    BY <1>3, <1>4, <1>7 DEF ScaffoldProject
  <1>8. req[r].op \in {"create", "init"}
    BY <1>1 DEF ProjInv, MadeInv
  <1> QED
    BY <1>6, <1>7, <1>8

LEMMA rollbackDirInv ==
  ASSUME ProjInv, NEW r \in Requests, rollbackDir(r)
  PROVE  ProjInv'
  <1>1. /\ ProjTypeOK /\ Ends(r) /\ UNCHANGED <<entryAt, projects, runtime, overlapped, serverRestarts>>
        /\ dir \in [Dirs -> {"absent", "people", "request"}]
        /\ req[r].pc = "rollback"
    BY DEF ProjInv, rollbackDir, ProjTypeOK
  <1>2. /\ dir' \in [Dirs -> {"absent", "people", "request"}]
        /\ \A d \in Dirs : dir[d] = "request" =>
             dir'[d] = "request" \/ (req[r].made /\ d = req[r].at)
    BY <1>1 DEF rollbackDir
  <1> QED
    BY <1>1, <1>2, EndCase DEF ProjTypeOK

LEMMA SaveProjectEntryInv ==
  ASSUME ProjInv, NEW r \in Requests, NEW ok \in BOOLEAN, SaveProjectEntry(r, ok)
  PROVE  ProjInv'
  <1>1. /\ ProjTypeOK /\ req[r].pc = "save"
        /\ UNCHANGED <<projects, runtime, dir, overlapped, serverRestarts>>
        /\ entryAt \in [ProjNames -> Dirs \cup {NoDir}]
    BY DEF ProjInv, SaveProjectEntry, ProjTypeOK
  <1>2. entryAt' \in [ProjNames -> Dirs \cup {NoDir}]
    <2>1. req[r].at \in Dirs \cup {NoDir}
      BY <1>1, RequestTypes DEF RequestType
    <2> QED
      BY <1>1, <2>1 DEF SaveProjectEntry
  <1>3. CASE Ends(r)
    BY <1>1, <1>2, <1>3, EndCase DEF ProjTypeOK
  <1>4. ASSUME NEW pc \in {"open", "rollback", "unregister"}, Goes(r, pc),
               req[r].op = "create" => pc # "unregister"
        PROVE  ProjInv'
    BY <1>1, <1>2, <1>4, GoCase DEF PCs, CreatePCs, ProjTypeOK
  <1>5. CASE req[r].op = "create"
    BY <1>4, <1>5 DEF SaveProjectEntry
  <1>6. CASE req[r].op = "update"
    BY <1>3, <1>4, <1>6 DEF SaveProjectEntry
  <1>7. CASE req[r].op \notin {"create", "update"}
    BY <1>3, <1>7 DEF SaveProjectEntry
  <1> QED
    BY <1>5, <1>6, <1>7

LEMMA DeleteProjectEntryInv ==
  ASSUME ProjInv, NEW r \in Requests, NEW ok \in BOOLEAN, DeleteProjectEntry(r, ok)
  PROVE  ProjInv'
  <1>1. /\ ProjTypeOK /\ req[r].pc \in {"delete", "unsave"}
        /\ UNCHANGED <<projects, runtime, dir, overlapped, serverRestarts>>
        /\ entryAt \in [ProjNames -> Dirs \cup {NoDir}]
    BY DEF ProjInv, DeleteProjectEntry, ProjTypeOK
  <1>2. entryAt' \in [ProjNames -> Dirs \cup {NoDir}]
    BY <1>1 DEF DeleteProjectEntry
  <1>3. CASE Ends(r)
    BY <1>1, <1>2, <1>3, EndCase DEF ProjTypeOK
  <1>4. ASSUME NEW pc \in {"rollback", "unregister"}, Goes(r, pc),
               req[r].op = "create" => pc # "unregister"
        PROVE  ProjInv'
    BY <1>1, <1>2, <1>4, GoCase DEF PCs, CreatePCs, ProjTypeOK
  <1>5. CASE req[r].pc = "unsave"
    <2>1. Goes(r, "rollback")
      BY <1>5 DEF DeleteProjectEntry
    <2> QED
      BY <1>4, <2>1
  <1>6. CASE req[r].pc = "delete"
    <2>1. req[r].op # "create"
      BY <1>6 DEF ProjInv, MadeInv
    <2> QED
      BY <1>3, <1>4, <1>6, <2>1 DEF DeleteProjectEntry
  <1> QED
    BY <1>1, <1>5, <1>6

---------------------------------------------------------------------------
(* Steps on runtimes and the map.                                          *)

RuntimeType == [open : BOOLEAN, name : ProjNames \cup {NoName}, at : Dirs \cup {NoDir}]

LEMMA UnregisterProjectInv ==
  ASSUME ProjInv, NEW r \in Requests, UnregisterProject(r)
  PROVE  ProjInv'
  <1> DEFINE n == req[r].name
  <1>1. /\ ProjTypeOK /\ req[r].pc = "unregister" /\ n \in ProjNames
        /\ projects' = [projects EXCEPT ![n] = NoRuntime]
        /\ projects \in [ProjNames -> Runtimes \cup {NoRuntime}]
        /\ UNCHANGED <<entryAt, runtime, dir, overlapped, serverRestarts>>
        /\ req[r].op # "create"
    BY DEF ProjInv, UnregisterProject, ProjTypeOK, Named, MadeInv
  <1>2. /\ projects' \in [ProjNames -> Runtimes \cup {NoRuntime}]
        /\ projects'[n] = NoRuntime /\ \A m \in ProjNames \ {n} : projects'[m] = projects[m]
    BY <1>1
  <1>3. LiveRuntimeIsOpen'
    BY <1>1, <1>2 DEF ProjInv, LiveRuntimeIsOpen
  <1>4. \A q \in Requests : Holds(q) => \A m \in ProjNames : projects'[m] # req[q].rt
    BY <1>2 DEF ProjInv, HeldInv, NoRuntime, Runtimes
  <1>5. CASE projects[n] # NoRuntime
    <2>1. projects[n] \in Runtimes
      BY <1>1, <1>5
    <2>2. Moved(r, "close", projects[n], req[r].made)
      BY <1>1, <1>5, <2>1, RuntimeMoves DEF UnregisterProject, PCs
    <2>3. Named' /\ MadeInv'
      BY <1>1, <2>2, MovedInv DEF PCs
    <2>4. ProjTypeOK'
      BY <1>1, <1>2, <2>2 DEF ProjTypeOK, Moved, RequestType, PCs
    <2>5. \A m \in ProjNames : projects'[m] # projects[n]
      BY <1>1, <1>2, <1>5 DEF ProjInv, LiveRuntimeIsOpen
    <2>6. HeldInv'
      <3>1. req'[r].rt = projects[n] /\ req'[r].name = n
              /\ runtime[projects[n]].open /\ runtime[projects[n]].name = n
        BY <1>1, <1>5, <2>2 DEF Moved, ProjInv, LiveRuntimeIsOpen
      <3>2. \A q \in Requests \ {r} : req'[q] = req[q] /\ (Holds(q) => req[q].rt # projects[n])
        BY <1>1, <2>2 DEF Moved, ProjInv, HeldInv
      <3> QED
        BY <1>1, <1>4, <2>1, <2>5, <3>1, <3>2 DEF ProjInv, HeldInv, Holds
    <2> QED
      BY <1>3, <2>3, <2>4, <2>6 DEF ProjInv
  <1>6. CASE projects[n] = NoRuntime
    <2>1. projects' = projects
      BY <1>1, <1>6
    <2>2. CASE Ends(r)
      BY <1>1, <2>1, <2>2, EndCase DEF ProjTypeOK
    <2>3. CASE Goes(r, "open")
      BY <1>1, <2>1, <2>3, GoCase DEF ProjTypeOK, PCs, CreatePCs
    <2> QED
      BY <1>6, <2>2, <2>3 DEF UnregisterProject
  <1> QED
    BY <1>5, <1>6

LEMMA CloseProjectInv ==
  ASSUME ProjInv, NEW r \in Requests, NEW ok \in BOOLEAN, CloseProject(r, ok)
  PROVE  ProjInv'
  <1> DEFINE k == req[r].rt
  <1>1. /\ ProjTypeOK /\ req[r].pc = "close" /\ k \in Runtimes
        /\ runtime' = [runtime EXCEPT ![k] = Closed]
        /\ runtime \in [Runtimes -> RuntimeType]
        /\ UNCHANGED <<entryAt, projects, dir, overlapped, serverRestarts>>
        /\ req[r].op # "create"
    BY DEF ProjInv, CloseProject, ProjTypeOK, HeldInv, Holds, MadeInv, RuntimeType
  <1>2. /\ runtime' \in [Runtimes -> RuntimeType]
        /\ \A i \in Runtimes \ {k} : runtime'[i] = runtime[i]
    BY <1>1 DEF Closed, RuntimeType
  <1>3. projects \in [ProjNames -> Runtimes \cup {NoRuntime}]
          /\ \A m \in ProjNames : projects[m] # k
    BY <1>1 DEF ProjTypeOK, ProjInv, HeldInv, Holds
  <1>4. LiveRuntimeIsOpen'
    BY <1>1, <1>2, <1>3 DEF ProjInv, LiveRuntimeIsOpen
  <1>5. \A q \in Requests \ {r} : Holds(q) => req[q].rt # k
    BY <1>1 DEF ProjInv, HeldInv, Holds
  <1>6. ASSUME \A q \in Requests \ {r} : req'[q] = req[q], ~Holds(r)'
        PROVE  HeldInv'
    BY <1>1, <1>2, <1>5, <1>6 DEF ProjInv, HeldInv, Holds
  <1>7. ASSUME req' \in [Requests -> RequestType]
        PROVE  ProjTypeOK'
    BY <1>1, <1>2, <1>7 DEF ProjTypeOK, RequestType, RuntimeType, PCs
  <1>8. CASE Ends(r)
    <2>1. Ended(r)
      BY <1>1, <1>8, EndsEnded
    <2>2. Named' /\ MadeInv'
      BY <1>1, <2>1, EndedInv
    <2> QED
      BY <1>4, <1>6, <1>7, <2>1, <2>2 DEF ProjInv, Ended, Holds
  <1>9. CASE req' = [req EXCEPT ![r].pc = "open", ![r].rt = NoRuntime]
    <2>1. Moved(r, "open", NoRuntime, req[r].made)
      BY <1>1, <1>9, RuntimeMoves DEF PCs
    <2>2. Named' /\ MadeInv'
      BY <1>1, <2>1, MovedInv DEF PCs
    <2> QED
      BY <1>4, <1>6, <1>7, <2>1, <2>2 DEF ProjInv, Moved, Holds
  <1> QED
    BY <1>8, <1>9 DEF CloseProject

LEMMA RegisterProjectInv ==
  ASSUME ProjInv, NEW r \in Requests, RegisterProject(r)
  PROVE  ProjInv'
  <1> DEFINE n == req[r].name
             k == req[r].rt
  <1>1. /\ ProjTypeOK /\ req[r].pc = "publish" /\ k \in Runtimes /\ n \in ProjNames
        /\ projects' = [projects EXCEPT ![n] = k]
        /\ projects \in [ProjNames -> Runtimes \cup {NoRuntime}]
        /\ runtime[k].open /\ runtime[k].name = n
        /\ dir \in [Dirs -> {"absent", "people", "request"}]
        /\ UNCHANGED <<entryAt, runtime, overlapped, serverRestarts>>
    BY DEF ProjInv, RegisterProject, ProjTypeOK, HeldInv, Holds, Named
  <1>2. Ended(r)
    BY <1>1, EndsEnded DEF RegisterProject
  <1>3. /\ dir' \in [Dirs -> {"absent", "people", "request"}]
        /\ \A d \in Dirs : dir[d] = "request" =>
             dir'[d] = "request" \/ (req[r].made /\ d = req[r].at)
    BY <1>1 DEF RegisterProject
  <1>4. Named' /\ MadeInv'
    BY <1>2, <1>3, EndedInv
  <1>5. projects' \in [ProjNames -> Runtimes \cup {NoRuntime}]
          /\ \A m \in ProjNames : (projects'[m] = k /\ m = n) \/ projects'[m] = projects[m]
    BY <1>1
  <1>6. ProjTypeOK'
    BY <1>1, <1>2, <1>3, <1>5 DEF ProjTypeOK, Ended, RequestType, PCs
  <1>7. LiveRuntimeIsOpen'
    BY <1>1, <1>5 DEF ProjInv, LiveRuntimeIsOpen
  <1>8. \A q \in Requests \ {r} : Holds(q) => req[q].rt # k
    BY <1>1 DEF ProjInv, HeldInv, Holds
  <1>9. HeldInv'
    BY <1>1, <1>2, <1>5, <1>8 DEF ProjInv, HeldInv, Holds, Ended
  <1> QED
    BY <1>4, <1>6, <1>7, <1>9 DEF ProjInv

LEMMA OpenProjectInv ==
  ASSUME ProjInv, NEW r \in Requests, NEW ok \in BOOLEAN, OpenProject(r, ok)
  PROVE  ProjInv'
  <1>1. /\ ProjTypeOK /\ req[r].pc = "open" /\ FreeRuntimes # {}
        /\ UNCHANGED <<entryAt, projects, overlapped, serverRestarts>>
        /\ dir \in [Dirs -> {"absent", "people", "request"}]
        /\ runtime \in [Runtimes -> RuntimeType] /\ req[r].name \in ProjNames
        /\ req[r].at \in Dirs \cup {NoDir}
    <2>1. req[r].at \in Dirs \cup {NoDir}
      BY RequestTypes DEF ProjInv, RequestType
    <2> QED
      BY <2>1 DEF ProjInv, OpenProject, ProjTypeOK, Named, RuntimeType
  <1>2. CASE ~ok
    <2>1. dir' = dir /\ runtime' = runtime
      BY <1>2 DEF OpenProject
    <2>2. CASE req[r].op = "create"
      <3>1. Goes(r, "unsave")
        BY <1>2, <2>2 DEF OpenProject
      <3> QED
        BY <1>1, <2>1, <3>1, GoCase DEF ProjTypeOK, PCs, CreatePCs
    <2>3. CASE req[r].op # "create"
      <3>1. Ends(r)
        BY <1>2, <2>3 DEF OpenProject
      <3> QED
        BY <1>1, <2>1, <3>1, EndCase DEF ProjTypeOK
    <2> QED
      BY <2>2, <2>3
  <1>3. CASE ok
    <2> DEFINE k == CHOOSE i \in FreeRuntimes : TRUE
               new == [open |-> TRUE, name |-> req[r].name, at |-> req[r].at]
    <2>1. k \in FreeRuntimes
      BY <1>1
    <2>2. /\ dir' = Present(req[r].at)
          /\ runtime' = [runtime EXCEPT ![k] = new]
          /\ req' = [req EXCEPT ![r].pc = "publish", ![r].rt = k]
      BY <1>3 DEF OpenProject
    <2> HIDE DEF k
    <2>3. k \in Runtimes /\ ~runtime[k].open
      BY <2>1 DEF FreeRuntimes
    <2>4. /\ dir' \in [Dirs -> {"absent", "people", "request"}]
          /\ \A d \in Dirs : dir[d] = "request" => dir'[d] = "request"
      BY <1>1, <2>2, PresentFacts
    <2>5. /\ runtime' \in [Runtimes -> RuntimeType]
          /\ runtime'[k].open /\ runtime'[k].name = req[r].name
          /\ \A i \in Runtimes \ {k} : runtime'[i] = runtime[i]
      BY <1>1, <2>2, <2>3 DEF RuntimeType
    <2>6. Moved(r, "publish", k, req[r].made)
      BY <1>1, <2>2, <2>3, RuntimeMoves DEF PCs
    <2>7. Named' /\ MadeInv'
      BY <1>1, <2>4, <2>6, MovedInv DEF PCs, CreatePCs
    <2>8. ProjTypeOK'
      BY <1>1, <2>4, <2>5, <2>6 DEF ProjTypeOK, Moved, RequestType, RuntimeType, PCs
    <2>9. projects \in [ProjNames -> Runtimes \cup {NoRuntime}] /\ NoRuntime \notin Runtimes
      BY <1>1 DEF ProjTypeOK, NoRuntime, Runtimes
    <2>10. \A m \in ProjNames : projects[m] # k
      BY <2>3, <2>9 DEF ProjInv, LiveRuntimeIsOpen
    <2>11. LiveRuntimeIsOpen'
      BY <1>1, <2>5, <2>9, <2>10 DEF ProjInv, LiveRuntimeIsOpen
    <2>12. \A q \in Requests \ {r} : req'[q] = req[q] /\ (Holds(q) => req[q].rt # k)
      BY <2>3, <2>6 DEF ProjInv, HeldInv, Moved
    <2>13. HeldInv'
      BY <1>1, <2>3, <2>5, <2>6, <2>10, <2>12 DEF ProjInv, HeldInv, Holds, Moved
    <2> QED
      BY <2>7, <2>8, <2>11, <2>13 DEF ProjInv
  <1> QED
    BY <1>2, <1>3

---------------------------------------------------------------------------
(* The server and people.                                                  *)

\* There are enough runtimes for the projects of a restart.
LEMMA RuntimesSuffice ==
  ASSUME NEW S \in SUBSET ProjNames
  PROVE  \E f \in [S -> Runtimes] : \A m, n \in S : m # n => f[m] # f[n]
  <1>1. IsFiniteSet(S) /\ Cardinality(S) <= Cardinality(ProjNames)
    BY ProjectsAssumption, FS_Subset
  <1>2. Cardinality(S) \in Nat /\ Cardinality(ProjNames) \in Nat
          /\ ExistsBijection(1..Cardinality(S), S)
    BY <1>1, ProjectsAssumption, FS_CardinalityType
  <1>3. ExistsBijection(S, 1..Cardinality(S))
    BY <1>2, Fun_ExistsBijSymmetric
  <1>4. PICK f \in [S -> 1..Cardinality(S)] : \A m, n \in S : m # n => f[m] # f[n]
    BY <1>3 DEF ExistsBijection, Bijection, Injection, Surjection, IsInjective
  <1>5. 1..Cardinality(S) \subseteq Runtimes
    BY <1>1, <1>2, ProjectsAssumption DEF Runtimes
  <1>6. f \in [S -> Runtimes]
    BY <1>4, <1>5
  <1> QED
    BY <1>4, <1>6

LEMMA RestartServerInv ==
  ASSUME ProjInv, RestartServer
  PROVE  ProjInv'
  <1>1. PICK opened \in SUBSET {n \in ProjNames : entryAt[n] # NoDir} :
          LET k == CHOOSE f \in [opened -> Runtimes] : \A m, n \in opened : m # n => f[m] # f[n]
          IN
          /\ projects' = [n \in ProjNames |-> IF n \in opened THEN k[n] ELSE NoRuntime]
          /\ runtime' = [i \in Runtimes |->
               IF \E n \in opened : k[n] = i
               THEN LET n == CHOOSE m \in opened : k[m] = i
                    IN [open |-> TRUE, name |-> n, at |-> entryAt[n]]
               ELSE Closed]
          /\ dir' = [d \in Dirs |->
               IF dir[d] # "absent" \/ \E n \in opened : entryAt[n] = d THEN "people" ELSE "absent"]
    BY DEF RestartServer
  <1> DEFINE k == CHOOSE f \in [opened -> Runtimes] : \A m, n \in opened : m # n => f[m] # f[n]
  <1>2. k \in [opened -> Runtimes] /\ \A m, n \in opened : m # n => k[m] # k[n]
    BY RuntimesSuffice
  <1>3. /\ projects' = [n \in ProjNames |-> IF n \in opened THEN k[n] ELSE NoRuntime]
        /\ runtime' = [i \in Runtimes |->
             IF \E n \in opened : k[n] = i
             THEN [open |-> TRUE, name |-> CHOOSE m \in opened : k[m] = i,
                   at |-> entryAt[CHOOSE m \in opened : k[m] = i]]
             ELSE Closed]
        /\ dir' = [d \in Dirs |->
             IF dir[d] # "absent" \/ \E n \in opened : entryAt[n] = d THEN "people" ELSE "absent"]
    BY <1>1
  <1> HIDE DEF k
  <1>4. /\ req' = [r \in Requests |-> Idle] /\ overlapped' = {} /\ entryAt' = entryAt
        /\ serverRestarts' = serverRestarts + 1 /\ serverRestarts < MaxServerRestarts
        /\ ProjTypeOK /\ MaxServerRestarts \in Nat
    BY ProjectsAssumption DEF RestartServer, ProjInv
  <1>5. /\ serverRestarts' \in 0..MaxServerRestarts
        /\ entryAt \in [ProjNames -> Dirs \cup {NoDir}]
    BY <1>4 DEF ProjTypeOK
  <1>6. \A n \in opened : /\ n \in ProjNames /\ k[n] \in Runtimes
                          /\ (CHOOSE m \in opened : k[m] = k[n]) = n
    <2> SUFFICES ASSUME NEW n \in opened
                 PROVE  (CHOOSE m \in opened : k[m] = k[n]) = n
      BY <1>2
    <2>1. \A m \in opened : k[m] = k[n] => m = n
      BY <1>2
    <2> QED
      BY <2>1
  <1>7. \A n \in opened : runtime'[k[n]] = [open |-> TRUE, name |-> n, at |-> entryAt[n]]
    BY <1>3, <1>6
  <1>8. runtime' \in [Runtimes -> RuntimeType]
    <2>1. \A i \in Runtimes : runtime'[i] \in RuntimeType
      <3> SUFFICES ASSUME NEW i \in Runtimes
                   PROVE  runtime'[i] \in RuntimeType
        OBVIOUS
      <3>1. CASE \E n \in opened : k[n] = i
        <4>1. PICK n \in opened : k[n] = i
          BY <3>1
        <4>2. runtime'[i] = [open |-> TRUE, name |-> n, at |-> entryAt[n]]
          BY <1>7, <4>1
        <4>3. n \in ProjNames /\ entryAt[n] \in Dirs \cup {NoDir}
          BY <1>5
        <4> QED
          BY <4>2, <4>3 DEF RuntimeType
      <3>2. CASE ~\E n \in opened : k[n] = i
        BY <1>3, <3>2 DEF RuntimeType, Closed
      <3> QED
        BY <3>1, <3>2
    <2> QED
      BY <1>3, <2>1
  <1>9. /\ projects' \in [ProjNames -> Runtimes \cup {NoRuntime}]
        /\ dir' \in [Dirs -> {"absent", "people", "request"}]
    BY <1>3, <1>6
  <1>10. /\ req' \in [Requests -> RequestType]
         /\ \A r \in Requests : /\ req'[r].pc = "idle" /\ req'[r].op = "none" /\ ~req'[r].made
    BY <1>4, IdleType DEF Idle
  <1>11. ProjTypeOK'
    BY <1>4, <1>5, <1>8, <1>9, <1>10 DEF ProjTypeOK, RequestType, RuntimeType, PCs
  <1>12. Named' /\ MadeInv' /\ HeldInv'
    BY <1>10 DEF Named, MadeInv, HeldInv, Holds
  <1>13. LiveRuntimeIsOpen'
    <2> SUFFICES ASSUME NEW n \in ProjNames, projects'[n] # NoRuntime
                 PROVE  runtime'[projects'[n]].open /\ runtime'[projects'[n]].name = n
      BY DEF LiveRuntimeIsOpen
    <2>1. n \in opened /\ projects'[n] = k[n]
      BY <1>3
    <2>2. runtime'[projects'[n]] = [open |-> TRUE, name |-> n, at |-> entryAt[n]]
      BY <1>7, <2>1
    <2> QED
      BY <2>2
  <1> QED
    BY <1>11, <1>12, <1>13 DEF ProjInv

LEMMA PeopleMakeDirInv ==
  ASSUME ProjInv, NEW d \in Dirs, PeopleMakeDir(d)
  PROVE  ProjInv'
  <1>1. /\ dir \in [Dirs -> {"absent", "people", "request"}]
        /\ dir[d] = "absent" /\ dir' = [dir EXCEPT ![d] = "people"]
        /\ UNCHANGED <<entryAt, projects, runtime, req, overlapped, serverRestarts>>
    BY DEF ProjInv, ProjTypeOK, PeopleMakeDir
  <1>2. dir' \in [Dirs -> {"absent", "people", "request"}]
          /\ \A e \in Dirs : dir[e] = "request" => dir'[e] = "request"
    BY <1>1
  <1>3. ProjTypeOK'
    BY <1>1, <1>2 DEF ProjInv, ProjTypeOK
  <1>4. \A r \in Requests : req[r].op = "create" => req[r].at \in Dirs
    BY DEF ProjInv, MadeInv
  <1>5. Named' /\ MadeInv' /\ HeldInv' /\ LiveRuntimeIsOpen'
    BY <1>1, <1>2, <1>4 DEF ProjInv, Named, MadeInv, HeldInv, Holds, LiveRuntimeIsOpen
  <1> QED
    BY <1>3, <1>5 DEF ProjInv

---------------------------------------------------------------------------
(* What the registry, the map and the runtimes say of a project.           *)

Busy(r, n) == req[r].pc # "idle" /\ req[r].name = n

Agree(n) == projects[n] # NoRuntime => entryAt[n] = runtime[projects[n]].at

\* A runtime of n that somebody can close: it is in the map, or a request is about to.
Known(k, n) == projects[n] = k \/ \E r \in Requests : Holds(r) /\ req[r].rt = k

\* Which requests get where.
OpsInv ==
  \A r \in Requests :
    /\ req[r].pc = "save" => req[r].op \in {"create", "edit", "update"}
    /\ req[r].pc = "delete" => req[r].op = "delete"
    /\ req[r].pc \in {"unregister", "close"} => req[r].op \in {"init", "update", "delete"}

\* What a request knows of its project when no other is at work on it.
Work(r) ==
  LET n == req[r].name IN
  /\ req[r].op = "create" \/ req[r].pc \in {"open", "publish", "close", "unsave", "rollback"} =>
       projects[n] = NoRuntime
  /\ req[r].pc \in {"open", "publish"} => entryAt[n] = req[r].at
  /\ req[r].pc = "publish" => runtime[req[r].rt].at = req[r].at
  /\ req[r].pc \in {"scaffold", "unregister", "close"} /\ req[r].op \in {"init", "update"} =>
       entryAt[n] = req[r].at
  /\ req[r].pc \in {"scaffold", "save", "delete"} => Agree(n)
  /\ req[r].pc = "save" /\ req[r].op = "edit" /\ projects[n] # NoRuntime =>
       req[r].at = runtime[projects[n]].at

RestInv ==
  \A n \in ProjNames \ overlapped :
    /\ \A r, q \in Requests : Busy(r, n) /\ Busy(q, n) => r = q
    /\ \A r \in Requests : Busy(r, n) => Work(r)
    /\ (\A r \in Requests : ~Busy(r, n)) => Agree(n)
    /\ \A k \in Runtimes : runtime[k].open /\ runtime[k].name = n => Known(k, n)

\* A step of a request about n: it may write what belongs to n, end, open a runtime for
\* itself, or change one that is neither in the map nor held by anybody else.
LEMMA StepRest ==
  ASSUME ProjInv, RestInv, NEW r \in Requests, req[r].pc # "idle", NEW n, n = req[r].name,
         overlapped' = overlapped,
         \A q \in Requests \ {r} : req'[q] = req[q],
         req'[r].pc = "idle" \/ req'[r].name = n,
         \A m \in ProjNames \ {n} : entryAt'[m] = entryAt[m] /\ projects'[m] = projects[m],
         \A k \in Runtimes : runtime'[k] = runtime[k]
           \/ /\ \A m \in ProjNames : projects[m] # k
              /\ \A q \in Requests \ {r} : Holds(q) => req[q].rt # k,
         n \notin overlapped => IF req'[r].pc = "idle" THEN Agree(n)' ELSE Work(r)',
         n \notin overlapped =>
           \A k \in Runtimes : runtime'[k].open => Known(k, n)' \/ (runtime'[k] = runtime[k] /\ ~Known(k, n)),
         \A m \in ProjNames \ {n}, k \in Runtimes :
           runtime'[k].open /\ runtime'[k].name = m => runtime'[k] = runtime[k]
  PROVE  RestInv'
  <1>1. n \in ProjNames /\ projects \in [ProjNames -> Runtimes \cup {NoRuntime}]
    BY DEF ProjInv, Named, ProjTypeOK
  <1> SUFFICES ASSUME NEW m \in ProjNames \ overlapped
               PROVE  /\ \A s, q \in Requests : Busy(s, m)' /\ Busy(q, m)' => s = q
                      /\ \A s \in Requests : Busy(s, m)' => Work(s)'
                      /\ (\A s \in Requests : ~Busy(s, m)') => Agree(m)'
                      /\ \A k \in Runtimes : runtime'[k].open /\ runtime'[k].name = m => Known(k, m)'
    BY DEF RestInv
  <1>2. /\ \A s, q \in Requests : Busy(s, m) /\ Busy(q, m) => s = q
        /\ \A s \in Requests : Busy(s, m) => Work(s)
        /\ (\A s \in Requests : ~Busy(s, m)) => Agree(m)
        /\ \A k \in Runtimes : runtime[k].open /\ runtime[k].name = m => Known(k, m)
    BY DEF RestInv
  <1>3. \A s \in Requests : Busy(s, m)' => Busy(s, m)
    BY DEF Busy
  <1>4. \A s, q \in Requests : Busy(s, m)' /\ Busy(q, m)' => s = q
    BY <1>2, <1>3
  <1>5. CASE m = n
    <2>1. Busy(r, m)
      BY <1>5 DEF Busy
    <2>2. \A s \in Requests : Busy(s, m)' => s = r
      BY <1>2, <1>3, <2>1
    <2>3. Busy(r, m)' <=> req'[r].pc # "idle"
      BY <1>5 DEF Busy
    <2>4. \A k \in Runtimes : runtime'[k].open /\ runtime'[k].name = m => Known(k, m)'
      BY <1>2, <1>5
    <2>5. (\A s \in Requests : Busy(s, m)' => Work(s)') /\ ((\A s \in Requests : ~Busy(s, m)') => Agree(m)')
      BY <1>5, <2>2, <2>3
    <2> QED
      BY <1>4, <2>4, <2>5
  <1>6. CASE m # n
    <2>1. entryAt'[m] = entryAt[m] /\ projects'[m] = projects[m]
      BY <1>6
    <2>2. projects[m] # NoRuntime => runtime'[projects[m]] = runtime[projects[m]]
      BY <1>1
    <2>3. Agree(m)' <=> Agree(m)
      BY <2>1, <2>2 DEF Agree
    <2>4. \A s \in Requests : (Busy(s, m)' <=> Busy(s, m)) /\ (Busy(s, m)' => s # r /\ req'[s] = req[s])
      BY <1>6 DEF Busy
    <2>5. ASSUME NEW s \in Requests, Busy(s, m)'
          PROVE  Work(s)'
      <3>1. Work(s) /\ s # r /\ req'[s] = req[s] /\ req[s].name = m
        BY <1>2, <2>4, <2>5 DEF Busy
      <3>2. req[s].pc = "publish" => runtime'[req[s].rt] = runtime[req[s].rt]
        BY <3>1 DEF ProjInv, HeldInv, Holds
      <3> QED
        BY <2>1, <2>2, <2>3, <3>1, <3>2 DEF Work
    <2>6. ASSUME NEW k \in Runtimes, runtime'[k].open, runtime'[k].name = m
          PROVE  Known(k, m)'
      <3>1. runtime'[k] = runtime[k]
        BY <1>6, <2>6
      <3>2. Known(k, m)
        BY <1>2, <2>6, <3>1
      <3>3. CASE projects[m] = k
        BY <2>1, <3>3 DEF Known
      <3>4. ASSUME NEW s \in Requests, Holds(s), req[s].rt = k
            PROVE  Known(k, m)'
        <4>1. req[s].name = m
          BY <2>6, <3>1, <3>4 DEF ProjInv, HeldInv
        <4>2. s # r
          BY <1>6, <4>1
        <4> QED
          BY <3>4, <4>2 DEF Known, Holds
      <3> QED
        BY <3>2, <3>3, <3>4 DEF Known
    <2> QED
      BY <1>2, <1>4, <2>3, <2>4, <2>5, <2>6
  <1> QED
    BY <1>5, <1>6

LEMMA WorkNow ==
  ASSUME ProjInv, RestInv, NEW r \in Requests, req[r].pc # "idle", req[r].name \notin overlapped
  PROVE  Work(r)
  BY DEF ProjInv, Named, RestInv, Busy

\* Neither the map nor a runtime changes, and the request holds none.
LEMMA QuietRest ==
  ASSUME ProjInv, RestInv, NEW r \in Requests, req[r].pc # "idle", NEW n, n = req[r].name,
         UNCHANGED <<projects, runtime, overlapped>>, ~Holds(r),
         \A m \in ProjNames \ {n} : entryAt'[m] = entryAt[m],
         \A q \in Requests \ {r} : req'[q] = req[q],
         req'[r].pc = "idle" \/ req'[r].name = n,
         n \notin overlapped => IF req'[r].pc = "idle" THEN Agree(n)' ELSE Work(r)'
  PROVE  RestInv'
  <1>1. \A k \in Runtimes : Known(k, n) => Known(k, n)'
    BY DEF Known, Holds
  <1> QED
    BY <1>1, StepRest

\* A request that ends, or goes on, likewise.
LEMMA EndRest ==
  ASSUME ProjInv, RestInv, NEW r \in Requests, Ends(r), req[r].pc # "idle", ~Holds(r),
         NEW n, n = req[r].name, UNCHANGED <<projects, runtime, overlapped>>,
         \A m \in ProjNames \ {n} : entryAt'[m] = entryAt[m],
         n \notin overlapped => Agree(n)'
  PROVE  RestInv'
  <1>1. Ended(r)
    BY EndsEnded DEF ProjInv
  <1> QED
    BY <1>1, QuietRest DEF Ended

LEMMA GoRest ==
  ASSUME ProjInv, RestInv, NEW r \in Requests, NEW pc \in PCs \ {"idle", "publish", "close"}, Goes(r, pc),
         req[r].pc # "idle", ~Holds(r), UNCHANGED <<projects, runtime, overlapped>>,
         \A m \in ProjNames \ {req[r].name} : entryAt'[m] = entryAt[m],
         req[r].name \notin overlapped => Work(r)'
  PROVE  RestInv'
  <1>1. Moved(r, pc, req[r].rt, req[r].made)
    BY GoesMoves DEF ProjInv
  <1> QED
    BY <1>1, QuietRest DEF Moved

LEMMA MakeTargetRest ==
  ASSUME ProjInv, RestInv, NEW r \in Requests, MakeTarget(r)
  PROVE  RestInv'
  <1>1. /\ req[r].pc = "mkdir" /\ req[r].op = "create" /\ ~Holds(r)
        /\ UNCHANGED <<entryAt, projects, runtime, overlapped>>
    BY DEF MakeTarget, ProjInv, MadeInv, Holds
  <1>2. req[r].name \notin overlapped => projects[req[r].name] = NoRuntime
    BY <1>1, WorkNow DEF Work
  <1>3. CASE Ends(r)
    BY <1>1, <1>2, <1>3, EndRest DEF Agree
  <1>4. CASE req' = [req EXCEPT ![r].pc = "scaffold", ![r].made = TRUE]
    <2>1. Moved(r, "scaffold", req[r].rt, TRUE)
      BY <1>4, MadeMoves DEF ProjInv, PCs
    <2>2. req[r].name \notin overlapped => Work(r)'
      BY <1>1, <1>2, <2>1 DEF Moved, Work, Agree
    <2> QED
      BY <1>1, <2>1, <2>2, QuietRest DEF Moved
  <1> QED
    BY <1>3, <1>4 DEF MakeTarget

LEMMA ScaffoldRest ==
  ASSUME ProjInv, RestInv, NEW r \in Requests, NEW ok \in BOOLEAN, ScaffoldProject(r, ok)
  PROVE  RestInv'
  <1>1. /\ req[r].pc = "scaffold" /\ req[r].op \in {"create", "init"} /\ ~Holds(r)
        /\ UNCHANGED <<entryAt, projects, runtime, overlapped>>
    BY DEF ScaffoldProject, ProjInv, MadeInv, Holds
  <1>2. req[r].name \notin overlapped => Work(r)
    BY <1>1, WorkNow
  <1>3. CASE Ends(r)
    BY <1>1, <1>2, <1>3, EndRest DEF Work, Agree
  <1>4. ASSUME NEW pc \in {"save", "rollback", "unregister"}, Goes(r, pc),
               req[r].op = "create" <=> pc # "unregister"
        PROVE  RestInv'
    <2>1. Moved(r, pc, req[r].rt, req[r].made)
      BY <1>4, GoesMoves DEF ProjInv, PCs
    <2>2. req[r].name \notin overlapped => Work(r)'
      BY <1>1, <1>2, <1>4, <2>1 DEF Moved, Work, Agree
    <2> QED
      BY <1>1, <1>4, <2>2, GoRest DEF PCs
  <1>5. CASE req[r].op = "create"
    BY <1>4, <1>5 DEF ScaffoldProject
  <1>6. CASE req[r].op = "init"
    BY <1>3, <1>4, <1>6 DEF ScaffoldProject
  <1> QED
    BY <1>1, <1>5, <1>6

LEMMA rollbackRest ==
  ASSUME ProjInv, RestInv, NEW r \in Requests, rollbackDir(r)
  PROVE  RestInv'
  <1>1. /\ req[r].pc = "rollback" /\ ~Holds(r) /\ Ends(r)
        /\ UNCHANGED <<entryAt, projects, runtime, overlapped>>
    BY DEF rollbackDir, Holds
  <1> QED
    BY <1>1, WorkNow, EndRest DEF Work, Agree

LEMMA SaveRest ==
  ASSUME ProjInv, RestInv, OpsInv, NEW r \in Requests, NEW ok \in BOOLEAN, SaveProjectEntry(r, ok)
  PROVE  RestInv'
  <1> PICK n : n = req[r].name
    OBVIOUS
  <1>1. /\ req[r].pc = "save" /\ req[r].op \in {"create", "edit", "update"} /\ ~Holds(r)
        /\ UNCHANGED <<projects, runtime, overlapped>> /\ n \in ProjNames
        /\ entryAt' = IF ok THEN [entryAt EXCEPT ![n] = req[r].at] ELSE entryAt
        /\ entryAt \in [ProjNames -> Dirs \cup {NoDir}]
    BY DEF SaveProjectEntry, OpsInv, Holds, ProjInv, Named, ProjTypeOK
  <1>2. /\ \A m \in ProjNames \ {n} : entryAt'[m] = entryAt[m]
        /\ ok => entryAt'[n] = req[r].at
        /\ ~ok => entryAt'[n] = entryAt[n]
    BY <1>1
  <1>3. n \notin overlapped => Work(r)
    BY <1>1, WorkNow
  <1>4. n \notin overlapped => Agree(n) /\ (req[r].op = "edit" => Agree(n)')
    <2>1. n \notin overlapped => Agree(n)
      BY <1>1, <1>3 DEF Work
    <2> QED
      BY <1>1, <1>2, <1>3, <2>1 DEF Work, Agree
  <1>5. CASE req[r].op = "edit"
    BY <1>1, <1>2, <1>4, <1>5, EndRest DEF SaveProjectEntry
  <1>6. CASE req[r].op = "create"
    <2>1. PICK pc \in {"open", "rollback"} : Goes(r, pc) /\ (ok <=> pc = "open")
      BY <1>6 DEF SaveProjectEntry
    <2>2. Moved(r, pc, req[r].rt, req[r].made)
      BY <2>1, GoesMoves DEF ProjInv, PCs
    <2>3. n \notin overlapped => Work(r)'
      BY <1>1, <1>2, <1>3, <1>6, <2>1, <2>2 DEF Moved, Work
    <2> QED
      BY <1>1, <1>2, <2>1, <2>3, GoRest DEF PCs
  <1>7. CASE req[r].op = "update" /\ ok
    <2>1. Goes(r, "unregister")
      BY <1>7 DEF SaveProjectEntry
    <2>2. Moved(r, "unregister", req[r].rt, req[r].made)
      BY <2>1, GoesMoves DEF ProjInv, PCs
    <2>3. n \notin overlapped => Work(r)'
      BY <1>1, <1>2, <1>7, <2>2 DEF Moved, Work
    <2> QED
      BY <1>1, <1>2, <2>1, <2>3, GoRest DEF PCs
  <1>8. CASE req[r].op = "update" /\ ~ok
    <2>1. Ends(r) /\ (Agree(n)' <=> Agree(n))
      BY <1>1, <1>2, <1>8 DEF SaveProjectEntry, Agree
    <2> QED
      BY <1>1, <1>2, <1>4, <2>1, EndRest
  <1> QED
    BY <1>1, <1>5, <1>6, <1>7, <1>8

LEMMA DeleteRest ==
  ASSUME ProjInv, RestInv, OpsInv, NEW r \in Requests, NEW ok \in BOOLEAN, DeleteProjectEntry(r, ok)
  PROVE  RestInv'
  <1> PICK n : n = req[r].name
    OBVIOUS
  <1>1. /\ req[r].pc \in {"delete", "unsave"} /\ ~Holds(r)
        /\ UNCHANGED <<projects, runtime, overlapped>> /\ n \in ProjNames
        /\ entryAt' = IF ok THEN [entryAt EXCEPT ![n] = NoDir] ELSE entryAt
        /\ entryAt \in [ProjNames -> Dirs \cup {NoDir}]
    BY DEF DeleteProjectEntry, Holds, ProjInv, Named, ProjTypeOK
  <1>2. /\ ok => entryAt'[n] = NoDir
        /\ ~ok => entryAt' = entryAt
        /\ \A m \in ProjNames \ {n} : entryAt'[m] = entryAt[m]
    BY <1>1
  <1>3. n \notin overlapped => Work(r)
    BY <1>1, WorkNow
  <1>4. CASE req[r].pc = "unsave"
    <2>1. Goes(r, "rollback")
      BY <1>4 DEF DeleteProjectEntry
    <2>2. Moved(r, "rollback", req[r].rt, req[r].made)
      BY <2>1, GoesMoves DEF ProjInv, PCs
    <2>3. n \notin overlapped => Work(r)'
      BY <1>1, <1>3, <1>4, <2>2 DEF Moved, Work
    <2> QED
      BY <1>1, <1>2, <2>1, <2>3, GoRest DEF PCs
  <1>5. CASE req[r].pc = "delete" /\ ~(ok /\ entryAt[n] # NoDir)
    <2>1. Ends(r)
      BY <1>5 DEF DeleteProjectEntry
    <2>2. n \notin overlapped => Agree(n)'
      BY <1>1, <1>2, <1>3, <1>5 DEF Work, Agree
    <2> QED
      BY <1>1, <1>2, <2>1, <2>2, EndRest
  <1>6. CASE req[r].pc = "delete" /\ ok /\ entryAt[n] # NoDir
    <2>1. Goes(r, "unregister")
      BY <1>6 DEF DeleteProjectEntry
    <2>2. Moved(r, "unregister", req[r].rt, req[r].made)
      BY <2>1, GoesMoves DEF ProjInv, PCs
    <2>3. req[r].op = "delete"
      BY <1>6 DEF OpsInv
    <2>4. n \notin overlapped => Work(r)'
      BY <2>2, <2>3 DEF Moved, Work
    <2> QED
      BY <1>1, <1>2, <2>1, <2>4, GoRest DEF PCs
  <1> QED
    BY <1>1, <1>4, <1>5, <1>6

LEMMA UnregisterRest ==
  ASSUME ProjInv, RestInv, OpsInv, NEW r \in Requests, UnregisterProject(r)
  PROVE  RestInv'
  <1> PICK n : n = req[r].name
    OBVIOUS
  <1>1. /\ req[r].pc = "unregister" /\ req[r].op \in {"init", "update", "delete"} /\ ~Holds(r)
        /\ UNCHANGED <<entryAt, runtime, overlapped>> /\ n \in ProjNames
        /\ projects' = [projects EXCEPT ![n] = NoRuntime]
        /\ projects \in [ProjNames -> Runtimes \cup {NoRuntime}]
    BY DEF UnregisterProject, OpsInv, Holds, ProjInv, Named, ProjTypeOK
  <1>2. projects'[n] = NoRuntime /\ \A m \in ProjNames \ {n} : projects'[m] = projects[m]
    BY <1>1
  <1>3. n \notin overlapped => Work(r)
    BY <1>1, WorkNow
  <1>4. CASE projects[n] # NoRuntime
    <2>1. projects[n] \in Runtimes
      BY <1>1, <1>4
    <2>2. Moved(r, "close", projects[n], req[r].made)
      BY <1>1, <1>4, <2>1, RuntimeMoves DEF UnregisterProject, PCs, ProjInv
    <2>3. n \notin overlapped => Work(r)'
      BY <1>1, <1>2, <1>3, <2>2 DEF Moved, Work
    <2>4. \A k \in Runtimes : Known(k, n) => Known(k, n)'
      BY <1>1, <2>2 DEF Known, Holds, Moved
    <2> QED
      BY <1>1, <1>2, <2>2, <2>3, <2>4, StepRest DEF Moved
  <1>5. CASE projects[n] = NoRuntime
    <2>1. projects' = projects
      BY <1>1, <1>5
    <2>2. CASE Ends(r)
      BY <1>1, <1>5, <2>1, <2>2, EndRest DEF Agree
    <2>3. CASE req[r].op = "init" /\ Goes(r, "open")
      <3>1. Moved(r, "open", req[r].rt, req[r].made)
        BY <2>3, GoesMoves DEF ProjInv, PCs
      <3>2. n \notin overlapped => Work(r)'
        BY <1>1, <1>2, <1>3, <2>3, <3>1 DEF Moved, Work
      <3> QED
        BY <1>1, <2>1, <2>3, <3>2, GoRest DEF PCs
    <2> QED
      BY <1>5, <2>2, <2>3 DEF UnregisterProject
  <1> QED
    BY <1>4, <1>5

LEMMA CloseRest ==
  ASSUME ProjInv, RestInv, OpsInv, NEW r \in Requests, NEW ok \in BOOLEAN, CloseProject(r, ok)
  PROVE  RestInv'
  <1> PICK n : n = req[r].name
    OBVIOUS
  <1> PICK k : k = req[r].rt
    OBVIOUS
  <1>1. /\ req[r].pc = "close" /\ req[r].op \in {"init", "update", "delete"} /\ Holds(r)
        /\ UNCHANGED <<entryAt, projects, overlapped>> /\ n \in ProjNames
        /\ k \in Runtimes /\ (\A m \in ProjNames : projects[m] # k)
        /\ runtime' = [runtime EXCEPT ![k] = Closed] /\ runtime \in [Runtimes -> RuntimeType]
    BY DEF CloseProject, OpsInv, Holds, ProjInv, Named, HeldInv, ProjTypeOK, RuntimeType
  <1>2. \A i \in Runtimes \ {k} : runtime'[i] = runtime[i]
    BY <1>1
  <1>3. ~runtime'[k].open
    BY <1>1 DEF Closed
  <1>4. \A q \in Requests \ {r} : Holds(q) => req[q].rt # k
    BY <1>1 DEF ProjInv, HeldInv
  <1>5. n \notin overlapped => projects[n] = NoRuntime /\ (req[r].op \in {"init", "update"} => entryAt[n] = req[r].at)
    BY <1>1, WorkNow DEF Work
  <1>6. /\ \A q \in Requests \ {r} : req'[q] = req[q]
        /\ req'[r].pc = "idle" \/ req'[r].name = n
        /\ n \notin overlapped => IF req'[r].pc = "idle" THEN Agree(n)' ELSE Work(r)'
    <2>1. CASE req[r].op = "delete" \/ (req[r].op = "update" /\ ~ok)
      <3>1. Ended(r)
        BY <1>1, <2>1, EndsEnded DEF CloseProject, ProjInv
      <3> QED
        BY <1>1, <1>5, <3>1 DEF Ended, Agree
    <2>2. CASE ~(req[r].op = "delete" \/ (req[r].op = "update" /\ ~ok))
      <3>1. Moved(r, "open", NoRuntime, req[r].made)
        BY <1>1, <2>2, RuntimeMoves DEF CloseProject, ProjInv, PCs
      <3> QED
        BY <1>1, <1>5, <2>2, <3>1 DEF Moved, Work, Agree
    <2> QED
      BY <2>1, <2>2
  <1>7. \A i \in Runtimes : runtime'[i].open => Known(i, n)' \/ (runtime'[i] = runtime[i] /\ ~Known(i, n))
    <2> SUFFICES ASSUME NEW i \in Runtimes, i # k, Known(i, n)
                 PROVE  Known(i, n)'
      BY <1>2, <1>3
    <2>1. \A s \in Requests : Holds(s) /\ req[s].rt = i => s # r
      OBVIOUS
    <2> QED
      BY <1>1, <1>6, <2>1 DEF Known, Holds
  <1> QED
    BY <1>1, <1>2, <1>3, <1>4, <1>6, <1>7, StepRest

LEMMA OpenRest ==
  ASSUME ProjInv, RestInv, OpsInv, NEW r \in Requests, NEW ok \in BOOLEAN, OpenProject(r, ok)
  PROVE  RestInv'
  <1> PICK n : n = req[r].name
    OBVIOUS
  <1>1. /\ req[r].pc = "open" /\ ~Holds(r) /\ FreeRuntimes # {}
        /\ UNCHANGED <<entryAt, projects, overlapped>> /\ n \in ProjNames
        /\ runtime \in [Runtimes -> RuntimeType]
    BY DEF OpenProject, Holds, ProjInv, Named, ProjTypeOK, RuntimeType
  <1>2. n \notin overlapped => projects[n] = NoRuntime /\ entryAt[n] = req[r].at
    BY <1>1, WorkNow DEF Work
  <1>3. CASE ~ok /\ req[r].op = "create"
    <2>1. Goes(r, "unsave") /\ runtime' = runtime
      BY <1>3 DEF OpenProject
    <2>2. Moved(r, "unsave", req[r].rt, req[r].made)
      BY <2>1, GoesMoves DEF ProjInv, PCs
    <2>3. n \notin overlapped => Work(r)'
      BY <1>1, <1>2, <2>2 DEF Moved, Work
    <2> QED
      BY <1>1, <2>1, <2>3, GoRest DEF PCs
  <1>4. CASE ~ok /\ req[r].op # "create"
    <2>1. Ends(r) /\ runtime' = runtime
      BY <1>4 DEF OpenProject
    <2> QED
      BY <1>1, <1>2, <2>1, EndRest DEF Agree
  <1>5. CASE ok
    <2> DEFINE new == [open |-> TRUE, name |-> req[r].name, at |-> req[r].at]
    <2> PICK k : k = CHOOSE i \in FreeRuntimes : TRUE
      OBVIOUS
    <2>1. k \in FreeRuntimes
      BY <1>1
    <2>2. /\ runtime' = [runtime EXCEPT ![k] = new]
          /\ req' = [req EXCEPT ![r].pc = "publish", ![r].rt = k]
      BY <1>5 DEF OpenProject
    <2>3. k \in Runtimes /\ ~runtime[k].open
      BY <2>1 DEF FreeRuntimes
    <2>4. /\ runtime'[k].name = n /\ runtime'[k].at = req[r].at
          /\ \A i \in Runtimes \ {k} : runtime'[i] = runtime[i]
      BY <1>1, <2>2, <2>3
    <2>5. Moved(r, "publish", k, req[r].made)
      BY <2>2, <2>3, RuntimeMoves DEF ProjInv, PCs
    <2>6. projects \in [ProjNames -> Runtimes \cup {NoRuntime}] /\ NoRuntime \notin Runtimes
      BY DEF ProjInv, ProjTypeOK, NoRuntime, Runtimes
    <2>7. \A m \in ProjNames : projects[m] # k
      BY <2>3, <2>6 DEF ProjInv, LiveRuntimeIsOpen
    <2>8. \A q \in Requests : Holds(q) => req[q].rt # k
      BY <2>3 DEF ProjInv, HeldInv
    <2>9. n \notin overlapped => Work(r)'
      BY <1>1, <1>2, <2>4, <2>5 DEF Moved, Work
    <2>10. \A i \in Runtimes : runtime'[i].open => Known(i, n)' \/ (runtime'[i] = runtime[i] /\ ~Known(i, n))
      <3>1. Known(k, n)'
        BY <2>5 DEF Known, Holds, Moved
      <3>2. \A i \in Runtimes \ {k} : Known(i, n) => Known(i, n)'
        <4>1. \A s \in Requests : Holds(s) => s # r /\ req'[s] = req[s]
          BY <1>1, <2>5 DEF Moved
        <4> QED
          BY <1>1, <4>1 DEF Known, Holds
      <3> QED
        BY <2>4, <3>1, <3>2
    <2>11. /\ \A q \in Requests \ {r} : req'[q] = req[q]
           /\ req'[r].pc = "publish" /\ req'[r].name = n
      BY <2>5 DEF Moved
    <2>12. \A i \in Runtimes : runtime'[i] = runtime[i]
             \/ /\ \A m \in ProjNames : projects[m] # i
                /\ \A q \in Requests \ {r} : Holds(q) => req[q].rt # i
      BY <2>4, <2>7, <2>8
    <2>13. \A m \in ProjNames \ {n}, i \in Runtimes :
             runtime'[i].open /\ runtime'[i].name = m => runtime'[i] = runtime[i]
      BY <2>4
    <2>14. \A m \in ProjNames \ {n} : entryAt'[m] = entryAt[m] /\ projects'[m] = projects[m]
      BY <1>1
    <2>15. n \notin overlapped => IF req'[r].pc = "idle" THEN Agree(n)' ELSE Work(r)'
      BY <2>9, <2>11
    <2> QED
      BY <1>1, <2>10, <2>11, <2>12, <2>13, <2>14, <2>15, StepRest
  <1> QED
    BY <1>3, <1>4, <1>5

LEMMA RegisterRest ==
  ASSUME ProjInv, RestInv, OpsInv, NEW r \in Requests, RegisterProject(r)
  PROVE  RestInv'
  <1> PICK n : n = req[r].name
    OBVIOUS
  <1> PICK k : k = req[r].rt
    OBVIOUS
  <1>1. /\ req[r].pc = "publish" /\ k \in Runtimes /\ n \in ProjNames
        /\ projects' = [projects EXCEPT ![n] = k]
        /\ projects \in [ProjNames -> Runtimes \cup {NoRuntime}]
        /\ UNCHANGED <<entryAt, runtime, overlapped>>
    BY DEF ProjInv, RegisterProject, ProjTypeOK, HeldInv, Holds, Named
  <1>2. Ended(r)
    BY EndsEnded DEF RegisterProject, ProjInv
  <1>3. projects'[n] = k /\ \A m \in ProjNames \ {n} : projects'[m] = projects[m]
    BY <1>1
  <1>4. n \notin overlapped => /\ projects[n] = NoRuntime /\ entryAt[n] = req[r].at
                               /\ runtime[k].at = req[r].at
    BY <1>1, WorkNow DEF Work
  <1>5. n \notin overlapped => Agree(n)'
    BY <1>1, <1>3, <1>4 DEF Agree
  <1>6. n \notin overlapped => \A i \in Runtimes : Known(i, n) => Known(i, n)'
    <2> SUFFICES ASSUME n \notin overlapped, NEW i \in Runtimes, Known(i, n)
                 PROVE  Known(i, n)'
      OBVIOUS
    <2>1. i # NoRuntime
      BY DEF Runtimes, NoRuntime
    <2>2. PICK s \in Requests : Holds(s) /\ req[s].rt = i
      BY <1>4, <2>1 DEF Known
    <2>3. CASE s = r
      BY <1>3, <2>2, <2>3 DEF Known
    <2>4. CASE s # r
      <3>1. req'[s] = req[s]
        BY <1>2, <2>4 DEF Ended
      <3> QED
        BY <2>2, <3>1 DEF Known, Holds
    <2> QED
      BY <2>3, <2>4
  <1>7. (\A q \in Requests \ {r} : req'[q] = req[q]) /\ req'[r].pc = "idle"
    BY <1>2 DEF Ended
  <1> QED
    BY <1>1, <1>3, <1>5, <1>6, <1>7, StepRest

\* A request begins with the path that the map and the registry have for its project.
BeginsRight(r, op, pc, n, d) ==
  \/ op = "create" /\ pc \in {"mkdir", "scaffold"} /\ projects[n] = NoRuntime
  \/ op = "init" /\ pc = "scaffold" /\ projects[n] # NoRuntime /\ d = runtime[projects[n]].at
  \/ op = "delete" /\ pc = "delete"
  \/ op = "edit" /\ pc = "save" /\ projects[n] # NoRuntime /\ d = runtime[projects[n]].at
  \/ op = "update" /\ pc = "save"

LEMMA BeginsRest ==
  ASSUME ProjInv, RestInv, OpsInv, NEW r \in Requests, NEW op, NEW pc, NEW n \in ProjNames, NEW d,
         Begins(r, op, pc, n, d), BeginsRight(r, op, pc, n, d)
  PROVE  RestInv'
  <1> DEFINE new == [Idle EXCEPT !.op = op, !.pc = pc, !.name = n, !.at = d]
  <1>1. /\ req[r] = Idle /\ req' = [req EXCEPT ![r] = new]
        /\ UNCHANGED <<entryAt, projects, runtime>>
        /\ overlapped' = IF AtWorkOn(n) # {} THEN overlapped \cup {n} ELSE overlapped
    BY DEF Begins
  <1>2. Idle.pc = "idle"
    BY DEF Idle
  <1>3. new.op = op /\ new.pc = pc /\ new.name = n /\ new.at = d
    BY DEF Idle
  <1>4. req'[r] = new /\ \A q \in Requests \ {r} : req'[q] = req[q]
    BY <1>1, RequestTypes DEF ProjInv
  <1> HIDE DEF new
  <1>5. \A m \in ProjNames \ overlapped' : m \notin overlapped /\ (m = n => \A s \in Requests : ~Busy(s, n))
    BY <1>1 DEF AtWorkOn, Busy
  <1>6. ~Holds(r)
    BY <1>1, <1>2 DEF Holds
  <1>7. \A m : Agree(m)' <=> Agree(m)
    BY <1>1 DEF Agree
  <1>8. \A k \in Runtimes : \A m : Known(k, m) => Known(k, m)'
    <2> SUFFICES ASSUME NEW k \in Runtimes, NEW m, Known(k, m)
                 PROVE  Known(k, m)'
      OBVIOUS
    <2>1. \A s \in Requests : Holds(s) => s # r /\ req'[s] = req[s]
      BY <1>4, <1>6
    <2> QED
      BY <1>1, <2>1 DEF Known, Holds
  <1> SUFFICES ASSUME NEW m \in ProjNames \ overlapped'
               PROVE  /\ \A s, q \in Requests : Busy(s, m)' /\ Busy(q, m)' => s = q
                      /\ \A s \in Requests : Busy(s, m)' => Work(s)'
                      /\ (\A s \in Requests : ~Busy(s, m)') => Agree(m)'
                      /\ \A k \in Runtimes : runtime'[k].open /\ runtime'[k].name = m => Known(k, m)'
    BY DEF RestInv
  <1>9. /\ \A s, q \in Requests : Busy(s, m) /\ Busy(q, m) => s = q
        /\ \A s \in Requests : Busy(s, m) => Work(s)
        /\ (\A s \in Requests : ~Busy(s, m)) => Agree(m)
        /\ \A k \in Runtimes : runtime[k].open /\ runtime[k].name = m => Known(k, m)
    BY <1>5 DEF RestInv
  <1>10. \A k \in Runtimes : runtime'[k].open /\ runtime'[k].name = m => Known(k, m)'
    BY <1>1, <1>8, <1>9
  <1>11. ~Busy(r, m)
    BY <1>1, <1>2 DEF Busy
  <1>12. \A s \in Requests \ {r} : Busy(s, m)' <=> Busy(s, m)
    BY <1>4 DEF Busy
  <1>13. \A s \in Requests \ {r} : Work(s)' <=> Work(s)
    <2> SUFFICES ASSUME NEW s \in Requests \ {r}
                 PROVE  Work(s)' <=> Work(s)
      OBVIOUS
    <2>1. req'[s] = req[s]
      BY <1>4
    <2> QED
      BY <1>1, <2>1, <1>7 DEF Work
  <1>14. CASE m = n
    <2>1. \A s \in Requests : ~Busy(s, n)
      BY <1>5, <1>14
    <2>2. Agree(n)
      BY <1>9, <1>14, <2>1
    <2>3. \A s \in Requests : Busy(s, m)' => s = r
      BY <1>12, <1>14, <2>1
    <2>4. Work(r)'
      <3>1. req'[r].op = op /\ req'[r].pc = pc /\ req'[r].name = n /\ req'[r].at = d
        BY <1>3, <1>4
      <3>2. Agree(n)'
        BY <1>7, <2>2
      <3>3. projects' = projects /\ entryAt' = entryAt /\ runtime' = runtime
        BY <1>1
      <3> QED
        BY <2>2, <3>1, <3>2, <3>3 DEF Work, Agree, BeginsRight
    <2> QED
      BY <1>7, <1>10, <1>14, <2>2, <2>3, <2>4
  <1>15. CASE m # n
    <2>1. ~Busy(r, m)'
      BY <1>3, <1>4, <1>15 DEF Busy
    <2>2. \A s \in Requests : (Busy(s, m)' <=> Busy(s, m)) /\ (Busy(s, m)' => s # r)
      BY <1>11, <1>12, <2>1
    <2> QED
      BY <1>7, <1>9, <1>10, <1>13, <2>2
  <1> QED
    BY <1>14, <1>15

LEMMA BeginsWell ==
  ASSUME NEW r \in Requests, Begin(r)
  PROVE  \E n \in ProjNames : \E op, pc, d : Begins(r, op, pc, n, d) /\ BeginsRight(r, op, pc, n, d)
  <1>1. ASSUME NEW n \in ProjNames, handleInitProject(r, n)
        PROVE  /\ Begins(r, "init", "scaffold", n, runtime[projects[n]].at)
               /\ BeginsRight(r, "init", "scaffold", n, runtime[projects[n]].at)
    BY <1>1 DEF handleInitProject, BeginsRight
  <1>2. ASSUME NEW n \in ProjNames, handleDeleteProject(r, n)
        PROVE  /\ Begins(r, "delete", "delete", n, runtime[projects[n]].at)
               /\ BeginsRight(r, "delete", "delete", n, runtime[projects[n]].at)
    BY <1>2 DEF handleDeleteProject, BeginsRight
  <1>3. ASSUME NEW n \in ProjNames, NEW d \in Dirs, CreateExisting(r, n, d)
        PROVE  Begins(r, "create", "scaffold", n, d) /\ BeginsRight(r, "create", "scaffold", n, d)
    BY <1>3 DEF CreateExisting, BeginsRight
  <1>4. ASSUME NEW n \in ProjNames, NEW d \in Dirs, CreateNew(r, n, d)
        PROVE  Begins(r, "create", "mkdir", n, d) /\ BeginsRight(r, "create", "mkdir", n, d)
    BY <1>4 DEF CreateNew, BeginsRight
  <1>5. ASSUME NEW n \in ProjNames, NEW d \in Dirs, handleUpdateProject(r, n, d)
        PROVE  \/ Begins(r, "edit", "save", n, d) /\ BeginsRight(r, "edit", "save", n, d)
               \/ Begins(r, "update", "save", n, d) /\ BeginsRight(r, "update", "save", n, d)
    BY <1>5 DEF handleUpdateProject, BeginsRight
  <1> QED
    BY <1>1, <1>2, <1>3, <1>4, <1>5 DEF Begin

LEMMA BeginRest ==
  ASSUME ProjInv, RestInv, OpsInv, NEW r \in Requests, Begin(r)
  PROVE  RestInv'
  BY BeginsWell, BeginsRest

LEMMA RestartRest ==
  ASSUME ProjInv, RestartServer
  PROVE  RestInv'
  <1>1. PICK opened \in SUBSET {n \in ProjNames : entryAt[n] # NoDir} :
          LET k == CHOOSE f \in [opened -> Runtimes] : \A m, n \in opened : m # n => f[m] # f[n]
          IN
          /\ projects' = [n \in ProjNames |-> IF n \in opened THEN k[n] ELSE NoRuntime]
          /\ runtime' = [i \in Runtimes |->
               IF \E n \in opened : k[n] = i
               THEN LET n == CHOOSE m \in opened : k[m] = i
                    IN [open |-> TRUE, name |-> n, at |-> entryAt[n]]
               ELSE Closed]
    BY DEF RestartServer
  <1> DEFINE k == CHOOSE f \in [opened -> Runtimes] : \A m, n \in opened : m # n => f[m] # f[n]
  <1>2. k \in [opened -> Runtimes] /\ \A m, n \in opened : m # n => k[m] # k[n]
    BY RuntimesSuffice
  <1>3. /\ projects' = [n \in ProjNames |-> IF n \in opened THEN k[n] ELSE NoRuntime]
        /\ runtime' = [i \in Runtimes |->
             IF \E n \in opened : k[n] = i
             THEN [open |-> TRUE, name |-> CHOOSE m \in opened : k[m] = i,
                   at |-> entryAt[CHOOSE m \in opened : k[m] = i]]
             ELSE Closed]
    BY <1>1
  <1> HIDE DEF k
  <1>4. entryAt' = entryAt /\ \A r \in Requests : req'[r].pc = "idle"
    BY DEF RestartServer, Idle
  <1>5. \A n \in opened : (CHOOSE m \in opened : k[m] = k[n]) = n
    <2> SUFFICES ASSUME NEW n \in opened
                 PROVE  (CHOOSE m \in opened : k[m] = k[n]) = n
      OBVIOUS
    <2>1. \A m \in opened : k[m] = k[n] => m = n
      BY <1>2
    <2> QED
      BY <2>1
  <1>6. \A n \in opened : /\ runtime'[k[n]] = [open |-> TRUE, name |-> n, at |-> entryAt[n]]
                          /\ projects'[n] = k[n]
    BY <1>2, <1>3, <1>5
  <1>7. \A n \in opened : runtime'[k[n]].at = entryAt[n] /\ runtime'[k[n]].name = n
    <2> SUFFICES ASSUME NEW n \in opened
                 PROVE  runtime'[k[n]].at = entryAt[n] /\ runtime'[k[n]].name = n
      OBVIOUS
    <2>1. runtime'[k[n]] = [open |-> TRUE, name |-> n, at |-> entryAt[n]]
      BY <1>6
    <2> QED
      BY <2>1
  <1>8. \A n \in ProjNames : Agree(n)'
    <2> SUFFICES ASSUME NEW n \in ProjNames, projects'[n] # NoRuntime
                 PROVE  entryAt'[n] = runtime'[projects'[n]].at
      BY DEF Agree
    <2>1. n \in opened
      BY <1>3
    <2> QED
      BY <1>4, <1>6, <1>7, <2>1
  <1>9. \A n \in ProjNames, i \in Runtimes : runtime'[i].open /\ runtime'[i].name = n => Known(i, n)'
    <2> SUFFICES ASSUME NEW n \in ProjNames, NEW i \in Runtimes, runtime'[i].open, runtime'[i].name = n
                 PROVE  projects'[n] = i
      BY DEF Known
    <2>1. PICK m \in opened : k[m] = i
      BY <1>3 DEF Closed
    <2>2. m = n
      BY <1>7, <2>1
    <2> QED
      BY <1>6, <2>1, <2>2
  <1> QED
    BY <1>4, <1>8, <1>9 DEF RestInv, Busy

---------------------------------------------------------------------------
(* The whole of it.                                                        *)

LEMMA PeopleRest ==
  ASSUME RestInv, OpsInv, UNCHANGED <<entryAt, projects, runtime, req, overlapped>>
  PROVE  RestInv' /\ OpsInv'
  <1>1. OpsInv'
    BY DEF OpsInv
  <1>2. \A m : (Agree(m)' <=> Agree(m)) /\ \A r \in Requests : Busy(r, m)' <=> Busy(r, m)
    BY DEF Agree, Busy
  <1>3. \A m, k : Known(k, m)' <=> Known(k, m)
    BY DEF Known, Holds
  <1>4. \A r \in Requests : Work(r)' <=> Work(r)
    BY <1>2 DEF Work
  <1> QED
    BY <1>1, <1>2, <1>3, <1>4 DEF RestInv

\* A request goes on to a place its kind gets to, or ends.
LEMMA MovedOps ==
  ASSUME OpsInv, NEW r \in Requests, \A q \in Requests \ {r} : req'[q] = req[q],
         /\ req'[r].pc = "save" => req'[r].op \in {"create", "edit", "update"}
         /\ req'[r].pc = "delete" => req'[r].op = "delete"
         /\ req'[r].pc \in {"unregister", "close"} => req'[r].op \in {"init", "update", "delete"}
  PROVE  OpsInv'
  BY DEF OpsInv

LEMMA InvParts == ProjInv => ProjTypeOK /\ MadeInv /\ Named
  BY DEF ProjInv

LEMMA StepOps ==
  ASSUME ProjInv, OpsInv, NEW r \in Requests, ProjStep(r)
  PROVE  OpsInv'
  <1> USE InvParts
  <1>1. CASE Ends(r)
    BY <1>1, EndsEnded, MovedOps DEF Ended
  <1>2. ASSUME NEW pc \in PCs, NEW rt, NEW made, Moved(r, pc, rt, made),
               /\ pc = "save" => req[r].op \in {"create", "edit", "update"}
               /\ pc # "delete"
               /\ pc \in {"unregister", "close"} => req[r].op \in {"init", "update", "delete"}
        PROVE  OpsInv'
    BY <1>2, MovedOps DEF Moved
  <1>3. CASE Begin(r)
    <2>1. PICK n \in ProjNames : \E op, pc, d : Begins(r, op, pc, n, d) /\ BeginsRight(r, op, pc, n, d)
      BY <1>3, BeginsWell
    <2>2. PICK op, pc, d : Begins(r, op, pc, n, d) /\ BeginsRight(r, op, pc, n, d)
      BY <2>1
    <2> DEFINE new == [Idle EXCEPT !.op = op, !.pc = pc, !.name = n, !.at = d]
    <2>3. new.op = op /\ new.pc = pc
      BY DEF Idle
    <2>4. req' = [req EXCEPT ![r] = new]
      BY <2>2 DEF Begins
    <2> HIDE DEF new
    <2>5. req'[r].op = op /\ req'[r].pc = pc /\ \A q \in Requests \ {r} : req'[q] = req[q]
      BY <2>3, <2>4, RequestTypes
    <2> QED
      BY <2>2, <2>5, MovedOps DEF BeginsRight
  <1>4. CASE MakeTarget(r)
    <2>1. Ends(r) \/ req' = [req EXCEPT ![r].pc = "scaffold", ![r].made = TRUE]
      BY <1>4 DEF MakeTarget
    <2>2. CASE req' = [req EXCEPT ![r].pc = "scaffold", ![r].made = TRUE]
      <3>1. Moved(r, "scaffold", req[r].rt, TRUE)
        BY <2>2, MadeMoves DEF PCs
      <3> QED
        BY <1>2, <3>1 DEF PCs
    <2> QED
      BY <1>1, <2>1, <2>2
  <1>5. ASSUME NEW pc \in PCs, Goes(r, pc),
               /\ pc = "save" => req[r].op \in {"create", "edit", "update"}
               /\ pc # "delete"
               /\ pc \in {"unregister", "close"} => req[r].op \in {"init", "update", "delete"}
        PROVE  OpsInv'
    BY <1>2, <1>5, GoesMoves
  <1>6. ASSUME NEW ok \in BOOLEAN, ScaffoldProject(r, ok)
        PROVE  OpsInv'
    <2>1. req[r].op \in {"create", "init"}
      BY <1>6 DEF ScaffoldProject, MadeInv
    <2> QED
      BY <1>1, <1>5, <1>6, <2>1 DEF ScaffoldProject, PCs
  <1>7. ASSUME NEW ok \in BOOLEAN, SaveProjectEntry(r, ok)
        PROVE  OpsInv'
    <2>1. req[r].op \in {"create", "edit", "update"}
      BY <1>7 DEF SaveProjectEntry, OpsInv
    <2> QED
      BY <1>1, <1>5, <1>7, <2>1 DEF SaveProjectEntry, PCs
  <1>8. ASSUME NEW ok \in BOOLEAN, DeleteProjectEntry(r, ok)
        PROVE  OpsInv'
    BY <1>1, <1>5, <1>8 DEF DeleteProjectEntry, OpsInv, PCs
  <1>9. CASE rollbackDir(r) \/ RegisterProject(r)
    BY <1>1, <1>9 DEF rollbackDir, RegisterProject
  <1>10. CASE UnregisterProject(r)
    <2>1. req[r].op \in {"init", "update", "delete"} /\ req[r].name \in ProjNames
      BY <1>10 DEF UnregisterProject, OpsInv, Named
    <2>2. projects[req[r].name] \in Runtimes \cup {NoRuntime}
      BY <2>1 DEF ProjTypeOK
    <2>3. CASE projects[req[r].name] # NoRuntime
      <3>1. req' = [req EXCEPT ![r].pc = "close", ![r].rt = projects[req[r].name]]
        BY <1>10, <2>3 DEF UnregisterProject
      <3>2. Moved(r, "close", projects[req[r].name], req[r].made)
        BY <2>2, <3>1, RuntimeMoves DEF PCs
      <3> QED
        BY <1>2, <2>1, <3>2 DEF PCs
    <2>4. CASE projects[req[r].name] = NoRuntime
      BY <1>1, <1>5, <1>10, <2>1, <2>4 DEF UnregisterProject, PCs
    <2> QED
      BY <2>3, <2>4
  <1>11. ASSUME NEW ok \in BOOLEAN, CloseProject(r, ok)
         PROVE  OpsInv'
    <2>1. Ends(r) \/ req' = [req EXCEPT ![r].pc = "open", ![r].rt = NoRuntime]
      BY <1>11 DEF CloseProject
    <2>2. CASE req' = [req EXCEPT ![r].pc = "open", ![r].rt = NoRuntime]
      <3>1. Moved(r, "open", NoRuntime, req[r].made)
        BY <2>2, RuntimeMoves DEF PCs
      <3> QED
        BY <1>2, <3>1 DEF PCs
    <2> QED
      BY <1>1, <2>1, <2>2
  <1>12. ASSUME NEW ok \in BOOLEAN, OpenProject(r, ok)
         PROVE  OpsInv'
    <2>1. CASE ok
      <3> PICK k : k = CHOOSE i \in FreeRuntimes : TRUE
        OBVIOUS
      <3>1. k \in Runtimes /\ req' = [req EXCEPT ![r].pc = "publish", ![r].rt = k]
        BY <1>12, <2>1 DEF OpenProject, FreeRuntimes
      <3>2. Moved(r, "publish", k, req[r].made)
        BY <3>1, RuntimeMoves DEF PCs
      <3> QED
        BY <1>2, <3>2 DEF PCs
    <2>2. CASE ~ok
      BY <1>1, <1>5, <1>12, <2>2 DEF OpenProject, PCs
    <2> QED
      BY <2>1, <2>2
  <1> QED
    BY <1>3, <1>4, <1>6, <1>7, <1>8, <1>9, <1>10, <1>11, <1>12 DEF ProjStep, Begin

LEMMA NextRest ==
  ASSUME ProjInv, RestInv, OpsInv, [ProjNext]_projVars
  PROVE  RestInv' /\ OpsInv'
  <1>1. ASSUME NEW r \in Requests, ProjStep(r)
        PROVE  RestInv'
    BY <1>1, BeginRest, MakeTargetRest, ScaffoldRest, rollbackRest, SaveRest, DeleteRest,
       UnregisterRest, CloseRest, OpenRest, RegisterRest
       DEF ProjStep, Begin
  <1>2. CASE RestartServer
    <2>1. \A r \in Requests : req'[r].pc = "idle"
      BY <1>2 DEF RestartServer, Idle
    <2> QED
      BY <1>2, <2>1, RestartRest DEF OpsInv
  <1>3. ASSUME NEW d \in Dirs, PeopleMakeDir(d)
        PROVE  RestInv' /\ OpsInv'
    BY <1>3, PeopleRest DEF PeopleMakeDir
  <1>4. CASE UNCHANGED projVars
    BY <1>4, PeopleRest DEF projVars
  <1> QED
    BY <1>1, <1>2, <1>3, <1>4, StepOps DEF ProjNext

LEMMA InitRest == ProjInit => RestInv /\ OpsInv
  <1> SUFFICES ASSUME ProjInit PROVE RestInv /\ OpsInv
    OBVIOUS
  <1>1. \A r \in Requests : req[r].pc = "idle"
    BY DEF ProjInit, Idle
  <1>2. /\ \A k \in Runtimes : ~runtime[k].open
        /\ \A n \in ProjNames : projects[n] = NoRuntime
    BY DEF ProjInit, Closed
  <1> QED
    BY <1>1, <1>2 DEF RestInv, OpsInv, Busy, Agree

LEMMA AtRest ==
  ASSUME ProjInv, RestInv
  PROVE  RestIsConsistent
  <1> SUFFICES ASSUME NEW n \in ProjNames \ overlapped, AtWorkOn(n) = {}
               PROVE  /\ \A k \in Runtimes : runtime[k].open /\ runtime[k].name = n => projects[n] = k
                      /\ projects[n] # NoRuntime => entryAt[n] = runtime[projects[n]].at
    BY DEF RestIsConsistent
  <1>1. \A r \in Requests : req[r].name # n
    BY DEF AtWorkOn
  <1>2. Agree(n) /\ \A k \in Runtimes : runtime[k].open /\ runtime[k].name = n => Known(k, n)
    BY <1>1 DEF RestInv, Busy
  <1>3. ASSUME NEW k \in Runtimes, runtime[k].open, runtime[k].name = n
        PROVE  projects[n] = k
    <2>1. \A r \in Requests : Holds(r) => req[r].rt # k
      BY <1>1, <1>3 DEF ProjInv, HeldInv
    <2> QED
      BY <1>2, <1>3, <2>1 DEF Known
  <1> QED
    BY <1>2, <1>3 DEF Agree

---------------------------------------------------------------------------
(* The theorems.                                                           *)

LEMMA InitInv == ProjInit => ProjInv
  <1> SUFFICES ASSUME ProjInit PROVE ProjInv
    OBVIOUS
  <1>1. Idle.pc = "idle" /\ Idle.op = "none" /\ ~Idle.made
    BY DEF Idle
  <1>2. req \in [Requests -> RequestType] /\ \A r \in Requests : req[r] = Idle
    BY IdleType DEF ProjInit
  <1>3. ProjTypeOK
    BY <1>2, ProjectsAssumption DEF ProjInit, ProjTypeOK, RequestType, PCs, Closed
  <1>4. Named /\ MadeInv /\ HeldInv /\ LiveRuntimeIsOpen
    BY <1>1, <1>2 DEF ProjInit, Named, MadeInv, HeldInv, Holds, LiveRuntimeIsOpen
  <1> QED
    BY <1>3, <1>4 DEF ProjInv

LEMMA NextInv ==
  ASSUME ProjInv, [ProjNext]_projVars
  PROVE  ProjInv'
  <1>1. ASSUME NEW r \in Requests, ProjStep(r)
        PROVE  ProjInv'
    BY <1>1, BeginInv, MakeTargetInv, ScaffoldProjectInv, rollbackDirInv, SaveProjectEntryInv,
       DeleteProjectEntryInv, UnregisterProjectInv, CloseProjectInv, RegisterProjectInv,
       OpenProjectInv
       DEF ProjStep, Begin
  <1>2. CASE UNCHANGED projVars
    BY <1>2 DEF projVars, ProjInv, ProjTypeOK, Named, MadeInv, LiveRuntimeIsOpen, HeldInv, Holds
  <1> QED
    BY <1>1, <1>2, RestartServerInv, PeopleMakeDirInv DEF ProjNext

\* The invariant of handleCreateProject, handleInitProject, handleUpdateProject and
\* handleDeleteProject, whatever they interleave with.
THEOREM ProjInvariance == ProjSpec => []ProjInv
  <1>1. ProjInv /\ [ProjNext]_projVars => ProjInv'
    BY NextInv
  <1> QED
    BY <1>1, InitInv, PTL DEF ProjSpec

\* The registry, the map, the runtimes, the directories and the requests keep their types.
THEOREM ProjTypes == ProjSpec => []ProjTypeOK
  <1>1. ProjInv => ProjTypeOK
    BY DEF ProjInv
  <1> QED
    BY <1>1, ProjInvariance, PTL

\* What RegisterProject has put into s.projects is open and of that project until
\* UnregisterProject has taken it out.
THEOREM LiveRuntimeIsOpenHolds == ProjSpec => []LiveRuntimeIsOpen
  <1>1. ProjInv => LiveRuntimeIsOpen
    BY DEF ProjInv
  <1> QED
    BY <1>1, ProjInvariance, PTL

\* Once a request has ended, whichever of its steps failed, and no other was at work on its
\* project meanwhile, the registry has the path at which the project in s.projects was
\* opened, and no runtime is open that is not in s.projects: what the rollbacks of
\* handleCreateProject and the order in handleUpdateProject are for.
THEOREM RegistryAgreesHolds == ProjSpec => []RegistryAgrees
  <1>1. ProjInv /\ RestInv /\ OpsInv /\ [ProjNext]_projVars => RestInv' /\ OpsInv'
    BY NextRest
  <1>2. ProjInv /\ RestInv => RegistryAgrees
    BY AtRest DEF ProjInv, RegistryAgrees
  <1> QED
    BY <1>1, <1>2, InitRest, ProjInvariance, PTL DEF ProjSpec

\* rollbackDir removes what handleCreateProject has made itself, never a directory of people.
THEOREM PeopleDirsSurviveHolds == ProjSpec => PeopleDirsSurvive
  <1>1. ASSUME ProjInv, [ProjNext]_projVars, NEW d \in Dirs, dir[d] = "people"
        PROVE  dir'[d] = "people"
    <2>1. dir \in [Dirs -> {"absent", "people", "request"}]
      BY <1>1 DEF ProjInv, ProjTypeOK
    <2>2. ASSUME NEW r \in Requests, ProjStep(r)
          PROVE  dir'[d] = "people"
      <3>1. CASE Begin(r)
        BY <1>1, <3>1, BeginFacts DEF ProjInv, BeginEffects
      <3>2. CASE rollbackDir(r)
        <4>1. req[r].made => req[r].at # d
          BY <1>1 DEF ProjInv, MadeInv
        <4> QED
          BY <1>1, <2>1, <3>2, <4>1 DEF rollbackDir
      <3>3. ASSUME NEW ok \in BOOLEAN, ScaffoldProject(r, ok) \/ OpenProject(r, ok)
            PROVE  dir'[d] = "people"
        <4>1. dir' = Present(req[r].at) \/ dir' = dir
          BY <3>3 DEF ScaffoldProject, OpenProject
        <4> QED
          BY <1>1, <4>1, PresentFacts DEF ProjInv
      <3>4. CASE MakeTarget(r)
        <4>1. dir' = Present(req[r].at) \/ dir' = dir
          BY <3>4 DEF MakeTarget
        <4> QED
          BY <1>1, <4>1, PresentFacts DEF ProjInv
      <3>5. CASE RegisterProject(r)
        BY <1>1, <2>1, <3>5 DEF RegisterProject
      <3>6. ASSUME NEW ok \in BOOLEAN,
                   \/ SaveProjectEntry(r, ok) \/ DeleteProjectEntry(r, ok)
                   \/ UnregisterProject(r) \/ CloseProject(r, ok)
            PROVE  dir'[d] = "people"
        BY <1>1, <3>6 DEF SaveProjectEntry, DeleteProjectEntry, UnregisterProject, CloseProject
      <3> QED
        BY <2>2, <3>1, <3>2, <3>3, <3>4, <3>5, <3>6 DEF ProjStep, Begin
    <2>3. CASE RestartServer
      BY <1>1, <2>3 DEF RestartServer
    <2>4. ASSUME NEW e \in Dirs, PeopleMakeDir(e)
          PROVE  dir'[d] = "people"
      BY <1>1, <2>1, <2>4 DEF PeopleMakeDir
    <2>5. CASE UNCHANGED projVars
      BY <1>1, <2>5 DEF projVars
    <2> QED
      BY <1>1, <2>2, <2>3, <2>4, <2>5 DEF ProjNext
  <1>2. ProjInv /\ [ProjNext]_projVars =>
          [\A d \in Dirs : dir[d] = "people" => dir'[d] = "people"]_projVars
    BY <1>1
  <1> QED
    BY <1>2, ProjInvariance, PTL DEF ProjSpec, PeopleDirsSurvive

=============================================================================

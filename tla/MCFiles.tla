------------------------------ MODULE MCFiles ------------------------------
(***************************************************************************)
(* The parts of the server that keep files and their cached rows together, *)
(* in one run.  They share no state, so each behaviour takes the steps of  *)
(* one of them only: `focus' says of which, and their state spaces add up  *)
(* instead of multiplying.  Of the artifact files there are two views: two *)
(* concurrent requests; and one request at a time, with renames, people    *)
(* who edit the files, and a restart of the server.                        *)
(***************************************************************************)
EXTENDS Releases, FileWatcher, ArtifactFiles

VARIABLE focus

MCSlugify == <<1, 2>>
MCIndexOf == [f \in Artifacts |-> IF f = "p-2" THEN 2 ELSE 0]
MCTransitions == <<plain("draft", "clarifying", {"reviewer"})>>
MCParent  == [f \in Artifacts |-> IF f = "p-2" THEN "p" ELSE f]

filesVars == <<relVars, fwVars, artVars, focus>>

FilesInit ==
  /\ focus \in {"releases", "watcher", "requests", "restart"}
  /\ RelInit /\ FwInit /\ ArtInit
  /\ focus # "releases" => table = {}
  /\ text["q"] = None
  /\ text["p-2"] # None <=> focus = "restart"

\* The client whose requests are made when there is one client only.
Single == CHOOSE c \in FileClients : TRUE

ReleasesStep == focus = "releases" /\ RelNext /\ UNCHANGED <<fwVars, artVars, focus>>
WatcherStep(A) == focus = "watcher" /\ A /\ UNCHANGED <<relVars, artVars, focus>>
ArtifactStep ==
  /\ focus \in {"requests", "restart"} /\ ArtNext
  /\ focus = "requests" => /\ crashes' = 0 /\ text'["q"] = None
                           /\ text' = text \/ stage' # stage
  /\ focus = "restart" => (text'["q"] = text["q"] \/ stage' # stage \/ crashes' # crashes)
  /\ focus = "restart" => \A c \in FileClients : stage'[c] # "idle" => c = Single
  /\ UNCHANGED <<relVars, fwVars, focus>>

FilesNext == ReleasesStep \/ WatcherStep(FwNext) \/ ArtifactStep

\* FwFairness, while it is the watcher that runs.
FilesSpec ==
  /\ FilesInit /\ [][FilesNext]_filesVars
  /\ WF_filesVars(WatcherStep(AddFolder \/ WalkFolder)) /\ WF_filesVars(WatcherStep(Return))
  /\ \A p \in Paths : /\ WF_filesVars(WatcherStep(ReadEvent(p)))
                      /\ WF_filesVars(WatcherStep(Callback(p)))

\* Every component's variables keep their types.
FilesTypeOK == RelTypeOK /\ FwTypeOK /\ ArtTypeOK

=============================================================================

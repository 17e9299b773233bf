----------------------------- MODULE MCProject -----------------------------
(***************************************************************************)
(* Agent runs, the directive files, the projects of a server and the       *)
(* architecture zone, in one run.  They share no state, so each behaviour  *)
(* takes the steps of one of them only: `focus' says of which and in which *)
(* view, and the state spaces of the views add up.                         *)
(***************************************************************************)
EXTENDS MCAgentRuns, Directives, Projects, Architecture

VARIABLE focus

CONSTANTS
  here, there,     \* the directories of projects
  req1, req2,       \* the concurrent requests
  mono, micro      \* the sources in the catalogue

MCRequests == {req1, req2}
MCDirs     == {here, there}
MCSources  == {mono, micro}

projectVars == <<vars, dirVars, projVars, archVars, focus>>

RunViews          == {"three runs", "moves"}
DirectiveViews    == {"two directives", "two notes", "config"}
ProjectViews      == {"two projects", "project restart"}
ArchitectureViews == {"two promotions", "decisions", "selections"}

ProjectInit ==
  /\ focus \in RunViews \cup DirectiveViews \cup ProjectViews \cup ArchitectureViews
  /\ Init /\ DirInit /\ ProjInit /\ ArchInit
  /\ focus \notin RunViews => \A t \in Targets : status[t] = "approved"
  /\ focus \notin DirectiveViews => ~conf.gemini
  /\ focus \notin ProjectViews => dir = [d \in Dirs |-> "absent"]
  /\ focus = "two projects" => dir[there] = "people"

\* Three runs; or two, of a test that a product owner moves at any time.
RunStep ==
  /\ focus \in RunViews /\ Next
  /\ focus = "three runs" => moved' = moved
  /\ focus = "moves" => \E r \in Runs : pc'[r] = "new"
  /\ UNCHANGED <<dirVars, projVars, archVars, focus>>

\* Two requests and one text of people; or one request and two texts; or one request, no
\* texts, and a config and a stack that change.
DirectiveStep ==
  /\ focus \in DirectiveViews /\ DirNext
  /\ focus # "config" =>
       /\ stack' = stack /\ conf' = conf /\ live' = live /\ roster' = roster
       /\ \A s \in Scaffolders : job'[s].kind # "reload"
  /\ focus = "two directives" => Cardinality(written') < 2
  /\ focus = "config" => written' = {}
  /\ focus # "two directives" => job'[req2] = NoJob
  /\ UNCHANGED <<vars, projVars, archVars, focus>>

\* Two requests about one project, which may be created here or there and moves to and fro;
\* or one at a time, with a restart of the server in the middle.
ProjectStep ==
  /\ focus \in ProjectViews /\ ProjNext
  /\ focus = "two projects" => serverRestarts' = 0
  /\ focus = "project restart" => req'[req2] = Idle
  /\ UNCHANGED <<vars, dirVars, archVars, focus>>

\* Two requests that promote, one of them the same always; or one that commits or writes an
\* ADR, the same choice for both kinds; or one that commits or promotes, with a hand-written
\* artefact and a tech stack that stays while the architecture changes.
ArchitectureStep ==
  /\ focus \in ArchitectureViews /\ ArchNext
  /\ focus = "two promotions" =>
       /\ \A d \in Deciders : act'[d].op \in {"none", "promote"}
       /\ act'[req2].sel["architecture"] # mono
  /\ focus # "two promotions" => act'[req2].op = "none"
  /\ focus = "decisions" => act'[req1].op # "promote"
  /\ focus = "selections" => act'[req1].op # "adr" /\ act'[req1].sel["tech-stack"] # micro
  /\ focus # "selections" =>
       ~edited' /\ \A d \in Deciders : act'[d].sel["tech-stack"] = act'[d].sel["architecture"]
  /\ UNCHANGED <<vars, dirVars, projVars, focus>>

ProjectNext == RunStep \/ DirectiveStep \/ ProjectStep \/ ArchitectureStep

ProjectSpec == ProjectInit /\ [][ProjectNext]_projectVars

\* Every component's variables keep their types.
ProjectTypeOK == TypeOK /\ DirTypeOK /\ ProjTypeOK /\ ArchTypeOK

=============================================================================

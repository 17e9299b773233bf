----------------------------- MODULE Directives -----------------------------
(***************************************************************************)
(* The directive files in the root of a project and the agents' part of    *)
(* its lifecycle/config.yaml: internal/directives (Generate, Migrate,      *)
(* writeFile, mergeManaged, PatchAgentConfig), the handlers that call them *)
(* in internal/http/projects.go, handleUpdateConfig of                     *)
(* internal/http/config.go and ReloadConfig of internal/project.           *)
(*                                                                         *)
(* AGENTS.md has a region between markers, which belongs to the generator; *)
(* CLAUDE.md and GEMINI.md are pointers to it.  People write in all three. *)
(* Of a file the model keeps whether it has markers, what the region was   *)
(* generated from, and the texts of people outside and inside the region.  *)
(* A file is read in one step and replaced (by a rename) in another; both  *)
(* may fail, which ends the request.                                       *)
(***************************************************************************)
EXTENDS Integers, FiniteSets

CONSTANTS
  Notes,              \* texts that people write
  Scaffolders,        \* concurrent requests (init, create, refresh, migrate, wizard)
  MaxScaffoldCrashes  \* bound on crashes

ASSUME DirectivesAssumption == MaxScaffoldCrashes \in Nat

DirectiveFiles == {"AGENTS.md", "CLAUDE.md", "GEMINI.md"}
Gens == {"none", "pointer", "generic", "stack"}

VARIABLES
  text,      \* file -> its content
  owed,      \* history: texts nobody has given leave to drop
  migrated,     \* history: texts that migrate has put into the region of AGENTS.md
  written,   \* texts that have been written so far
  stack,     \* what BuildModel makes of lifecycle/architecture: "generic" or "stack"
  conf,      \* config.yaml: valid, with a gemini driver, what its agents are tuned to
  live,      \* the project's Cfg
  roster,    \* the agents of its Manager, as the config they come from
  job,       \* scaffolder -> the request it serves
  scaffoldCrashes

dirFiles == <<text, owed, migrated, written>>
dirConf  == <<conf, live, roster>>
dirVars  == <<dirFiles, dirConf, stack, job, scaffoldCrashes>>

Content == [exists : BOOLEAN, markers : BOOLEAN, outside : SUBSET Notes,
            inside : SUBSET Notes, gen : Gens]
Config  == [valid : BOOLEAN, gemini : BOOLEAN, tuned : {"generic", "stack"}]

NoFile == [exists |-> FALSE, markers |-> FALSE, outside |-> {}, inside |-> {}, gen |-> "none"]
NoJob  == [kind |-> "none", pc |-> "rest", file |-> "none", force |-> FALSE, gemini |-> FALSE,
           body |-> NoFile, seen |-> NoFile, conf |-> [valid |-> TRUE, gemini |-> FALSE, tuned |-> "generic"]]

DirTypeOK ==
  /\ text \in [DirectiveFiles -> Content]
  /\ owed \subseteq written /\ migrated \subseteq written /\ written \subseteq Notes
  /\ stack \in {"generic", "stack"}
  /\ conf \in Config /\ live \in Config /\ roster \in Config
  /\ live.valid /\ roster.valid
  /\ \A s \in Scaffolders :
       /\ job[s].kind \in {"none", "generate", "migrate", "reload"}
       /\ job[s].pc \in {"rest", "read", "write", "drivers", "patch", "writeConfig",
                         "load", "setConfig", "setAgents"}
       /\ job[s].file \in DirectiveFiles \cup {"none"}
       /\ job[s].body \in Content /\ job[s].seen \in Content /\ job[s].conf \in Config
  /\ scaffoldCrashes \in 0..MaxScaffoldCrashes

TextsOf(c) == c.outside \cup c.inside

\* RenderAgents, GenericAgents: a file of one region; RenderPointer: one line.
Rendered(g) == [NoFile EXCEPT !.exists = TRUE, !.markers = TRUE, !.gen = g]
RenderPointer == [NoFile EXCEPT !.exists = TRUE, !.gen = "pointer"]

\* Legacy text goes into a region, unless it has one.
wrapLegacyBody(c) ==
  IF c.markers THEN c
  ELSE [c EXCEPT !.markers = TRUE, !.inside = c.outside, !.outside = {}, !.gen = "none"]

---------------------------------------------------------------------------
(* Writing one file. *)

\* The region of the new content goes in the place of the old; a file without
\* markers is replaced as a whole.
mergeManaged(old, new) ==
  IF old.markers THEN [old EXCEPT !.inside = new.inside, !.gen = new.gen] ELSE new

MergeFails(old, new) == old.markers /\ ~new.markers
Withheld(old, new, force) ==
  old.exists /\ ~old.markers /\ ~force /\ mergeManaged(old, new) # old

\* writeFile: what is in the file afterwards.
Outcome(old, new, force) ==
  IF ~old.exists THEN new
  ELSE IF MergeFails(old, new) \/ Withheld(old, new, force) THEN old
  ELSE mergeManaged(old, new)

\* The texts a request has leave to drop: told to, all of a file without markers.  What
\* migrate is told of force is not about CLAUDE.md, and nobody is asked about a region.
MayDrop(s, f, old, new) ==
  IF job[s].force /\ ~old.markers /\ ~(job[s].kind = "migrate" /\ f = "CLAUDE.md")
  THEN TextsOf(old) \ TextsOf(new) ELSE {}

Sets(s, j) == job' = [job EXCEPT ![s] = j]
Turns(s, pc, f) == Sets(s, [job[s] EXCEPT !.pc = pc, !.file = f, !.seen = NoFile])

ReadFile(s, f) ==
  /\ job[s].pc = "read" /\ job[s].file = f
  /\ Sets(s, [job[s] EXCEPT !.pc = "write", !.seen = text[f]])
  /\ UNCHANGED <<dirFiles, dirConf, stack, scaffoldCrashes>>

\* os.ReadFile or writeAtomic fails; so does the request.
FileFails(s) ==
  /\ job[s].pc \in {"read", "write"}
  /\ Sets(s, NoJob)
  /\ UNCHANGED <<dirFiles, dirConf, stack, scaffoldCrashes>>

\* The request's turn for f, with the new content and the request's idea of force.
WriteFile(s, f, new, force) ==
  LET old == job[s].seen
      out == Outcome(old, new, force)
  IN /\ job[s].pc = "write" /\ job[s].file = f
     /\ text' = IF out = old THEN text ELSE [text EXCEPT ![f] = out]
     /\ owed' = IF out = old THEN owed ELSE owed \ MayDrop(s, f, old, new)
     /\ UNCHANGED written

---------------------------------------------------------------------------
(* Generate: AGENTS.md, CLAUDE.md, GEMINI.md, then the config. *)

\* No request of the other kind is at work (see the README on what happens else).
Alone(kind) == \A s \in Scaffolders : job[s].kind \in {"none", "reload", kind}

\* configuredDrivers fails on a config that does not load; BuildModel.  `include' is
\* set by init and create, `force' by whoever asks.
StartGenerate(s, force, include) ==
  /\ job[s].kind = "none" /\ conf.valid /\ Alone("generate")
  /\ Sets(s, [NoJob EXCEPT !.kind = "generate", !.pc = "read", !.file = "AGENTS.md", !.force = force,
                           !.gemini = conf.gemini \/ include, !.body = Rendered(stack)])
  /\ UNCHANGED <<dirFiles, dirConf, stack, scaffoldCrashes>>

GenerateFile(s, f) ==
  LET new == IF f = "AGENTS.md" THEN job[s].body ELSE RenderPointer
  IN /\ job[s].kind = "generate"
     /\ WriteFile(s, f, new, job[s].force)
     /\ IF MergeFails(job[s].seen, new) THEN Sets(s, NoJob)
        ELSE CASE f = "AGENTS.md"                  -> Turns(s, "read", "CLAUDE.md")
               [] f = "CLAUDE.md" /\ job[s].gemini -> Turns(s, "read", "GEMINI.md")
               [] OTHER                            -> Turns(s, "patch", "none")
     /\ UNCHANGED <<migrated, dirConf, stack, scaffoldCrashes>>

\* With a stack, PatchAgentConfig reads the config, and writes it, if that changes it,
\* and if the result loads.
PatchAgentConfig(s) ==
  /\ job[s].pc = "patch"
  /\ IF job[s].body.gen = "stack" /\ conf.valid /\ conf.tuned # "stack"
     THEN Sets(s, [job[s] EXCEPT !.pc = "writeConfig", !.conf = conf])
     ELSE Turns(s, "load", "none")
  /\ UNCHANGED <<dirFiles, dirConf, stack, scaffoldCrashes>>

\* Its agents enabled, disabled and instructed as the stack asks for.
Tuned(c) == [c EXCEPT !.tuned = "stack"]

WritePatched(s) ==
  /\ job[s].pc = "writeConfig"
  /\ conf' = Tuned(job[s].conf)
  /\ Turns(s, "load", "none")
  /\ UNCHANGED <<dirFiles, live, roster, stack, scaffoldCrashes>>

---------------------------------------------------------------------------
(* Migrate: the text of CLAUDE.md moves to AGENTS.md. *)

\* There is a CLAUDE.md, and more in it than the pointer; whether there is an AGENTS.md, as
\* NeedsMigration asks before migrate is offered, migrate does not ask.
HasLegacy == text["CLAUDE.md"].exists /\ text["CLAUDE.md"] # RenderPointer

StartMigrate(s, force) ==
  /\ job[s].kind = "none" /\ Alone("migrate") /\ HasLegacy
  /\ Sets(s, [NoJob EXCEPT !.kind = "migrate", !.pc = "read", !.file = "AGENTS.md", !.force = force,
                           !.body = wrapLegacyBody(text["CLAUDE.md"])])
  /\ UNCHANGED <<dirFiles, dirConf, stack, scaffoldCrashes>>

\* What is in the region of AGENTS.md, unless its replacement was withheld.
Migrates(s) ==
  migrated' = IF Withheld(job[s].seen, job[s].body, job[s].force) THEN migrated ELSE migrated \cup job[s].body.inside

\* Mutant: a withheld AGENTS.md does not stop the migration.
MigrateAgentsBug(s) ==
  /\ job[s].kind = "migrate"
  /\ WriteFile(s, "AGENTS.md", job[s].body, job[s].force) /\ Migrates(s)
  /\ Turns(s, "read", "CLAUDE.md")
  /\ UNCHANGED <<dirConf, stack, scaffoldCrashes>>

\* An AGENTS.md that may not be replaced stops the migration.
MigrateAgents(s) ==
  /\ job[s].kind = "migrate"
  /\ WriteFile(s, "AGENTS.md", job[s].body, job[s].force) /\ Migrates(s)
  /\ IF Withheld(job[s].seen, job[s].body, job[s].force) THEN Sets(s, NoJob)
     ELSE Turns(s, "read", "CLAUDE.md")
  /\ UNCHANGED <<dirConf, stack, scaffoldCrashes>>

\* The pointer replaces CLAUDE.md whatever the request said of force.
MigrateClaude(s) ==
  /\ job[s].kind = "migrate"
  /\ WriteFile(s, "CLAUDE.md", RenderPointer, TRUE)
  /\ IF MergeFails(job[s].seen, RenderPointer) THEN Sets(s, NoJob) ELSE Turns(s, "drivers", "none")
  /\ UNCHANGED <<migrated, dirConf, stack, scaffoldCrashes>>

MigrateDrivers(s) ==
  /\ job[s].pc = "drivers"
  /\ IF conf.valid /\ conf.gemini THEN Turns(s, "read", "GEMINI.md") ELSE Sets(s, NoJob)
  /\ UNCHANGED <<dirFiles, dirConf, stack, scaffoldCrashes>>

MigrateGemini(s) ==
  /\ job[s].kind = "migrate"
  /\ WriteFile(s, "GEMINI.md", RenderPointer, job[s].force)
  /\ Sets(s, NoJob)
  /\ UNCHANGED <<migrated, dirConf, stack, scaffoldCrashes>>

---------------------------------------------------------------------------
(* The config. *)

\* handleUpdateConfig writes whatever parses as YAML, then reloads; so does, through
\* the watcher, an edit of the file by hand.
handleUpdateConfig(s, c) ==
  /\ job[s].kind = "none"
  /\ conf' = c
  /\ Sets(s, [NoJob EXCEPT !.kind = "reload", !.pc = "load"])
  /\ UNCHANGED <<dirFiles, live, roster, stack, scaffoldCrashes>>

\* ReloadConfig: LoadProject (a config that is not valid leaves the old one),
LoadConfig(s) ==
  /\ job[s].pc = "load"
  /\ IF conf.valid THEN Sets(s, [job[s] EXCEPT !.pc = "setConfig", !.conf = conf]) ELSE Sets(s, NoJob)
  /\ UNCHANGED <<dirFiles, dirConf, stack, scaffoldCrashes>>

\* SetConfig,
SetConfig(s) ==
  /\ job[s].pc = "setConfig"
  /\ live' = job[s].conf
  /\ Sets(s, [job[s] EXCEPT !.pc = "setAgents"])
  /\ UNCHANGED <<dirFiles, conf, roster, stack, scaffoldCrashes>>

\* SetAgents.
SetAgents(s) ==
  /\ job[s].pc = "setAgents"
  /\ roster' = job[s].conf
  /\ Sets(s, NoJob)
  /\ UNCHANGED <<dirFiles, conf, live, stack, scaffoldCrashes>>

---------------------------------------------------------------------------
(* People, the wizard, crashes. *)

Edited(f, n) ==
  LET c == [text[f] EXCEPT !.exists = TRUE] IN
  {[c EXCEPT !.outside = @ \cup {n}],
   [c EXCEPT !.markers = FALSE, !.gen = "none", !.outside = TextsOf(c) \cup {n}, !.inside = {}]}
  \cup (IF c.markers THEN {[c EXCEPT !.inside = @ \cup {n}]}
        ELSE {[c EXCEPT !.markers = TRUE, !.outside = @ \cup {n}]})

\* Somebody writes a text into a file, outside the region or in it, adds markers or takes
\* them away; not while a request is at work.  What is outside is people's from then on,
\* also if it was in the region before.
EditDirectives(f) ==
  /\ Alone("none")
  /\ \E n \in Notes \ written :
       \E c \in Edited(f, n) :
         /\ text' = [text EXCEPT ![f] = c]
         /\ written' = written \cup {n}
         /\ owed' = owed \cup c.outside
         /\ migrated' = migrated \ c.outside
  /\ UNCHANGED <<dirConf, stack, job, scaffoldCrashes>>

\* The Architecture Wizard promotes a stack.
PromoteStack ==
  /\ stack = "generic" /\ stack' = "stack"
  /\ UNCHANGED <<dirFiles, dirConf, job, scaffoldCrashes>>

\* Open loads the config; a project whose config is not valid stays closed.
ScaffoldCrash ==
  /\ scaffoldCrashes < MaxScaffoldCrashes /\ scaffoldCrashes' = scaffoldCrashes + 1
  /\ job' = [s \in Scaffolders |-> NoJob]
  /\ conf.valid /\ live' = conf /\ roster' = conf
  /\ UNCHANGED <<dirFiles, conf, stack>>

DirInit ==
  /\ text = [f \in DirectiveFiles |-> NoFile]
  /\ owed = {} /\ migrated = {} /\ written = {} /\ stack = "generic"
  /\ \E g \in BOOLEAN : conf = [valid |-> TRUE, gemini |-> g, tuned |-> "generic"]
  /\ live = conf /\ roster = conf
  /\ job = [s \in Scaffolders |-> NoJob]
  /\ scaffoldCrashes = 0

DirStep(s) ==
  \/ \E f \in DirectiveFiles : ReadFile(s, f) \/ GenerateFile(s, f)
  \/ FileFails(s)
  \/ \E force, include \in BOOLEAN : StartGenerate(s, force, include)
  \/ \E force \in BOOLEAN : StartMigrate(s, force)
  \/ \E c \in Config : handleUpdateConfig(s, c)
  \/ PatchAgentConfig(s) \/ WritePatched(s)
  \/ MigrateAgents(s) \/ MigrateClaude(s) \/ MigrateDrivers(s) \/ MigrateGemini(s)
  \/ LoadConfig(s) \/ SetConfig(s) \/ SetAgents(s)

DirNext ==
  \/ \E s \in Scaffolders : DirStep(s)
  \/ \E f \in DirectiveFiles : EditDirectives(f)
  \/ PromoteStack \/ ScaffoldCrash

---------------------------------------------------------------------------
(* Properties. *)

\* "An existing file with no markers (tampered or legacy) is only replaced when force is
\* true", and from one with markers nothing goes but the region: whatever requests of one
\* kind run, together, failing or cut off by a crash, a text somebody wrote outside the
\* region stands outside it in one of the files, until a request with force has replaced
\* the file, or migrate has put the text into the region of AGENTS.md: it must be there
\* before CLAUDE.md, which migrate replaces whatever it was told of force, goes.  In the
\* region it is the generator's: that it survives, too, is said in the requirements, and
\* does not hold (NoProseIsLost).
HandTextIsKept ==
  \A n \in owed \ migrated : \E f \in DirectiveFiles : n \in text[f].outside

\* "The command never destroys content ... no user prose outside the managed region is
\* lost on any path" (lifecycle/requirements/agents-md-primary-directives-2.md, NFR-3).
\* Does not hold, and no run checks it: migrate puts the text of CLAUDE.md into the region,
\* and the next generate, with no force, puts its own text there.
NoProseIsLost ==
  owed \subseteq UNION {TextsOf(text[f]) : f \in DirectiveFiles}

=============================================================================

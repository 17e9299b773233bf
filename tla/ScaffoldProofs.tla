--------------------------- MODULE ScaffoldProofs ---------------------------
(***************************************************************************)
(* Proofs about what requests write into a project while nothing locks it, *)
(* for any values of the constants.                                        *)
(*                                                                         *)
(* Directive files: of the texts people are owed, a request about to       *)
(* replace a file has seen those that stand outside the region of it; and  *)
(* what migrate takes from CLAUDE.md is in the region of AGENTS.md before  *)
(* anybody puts the pointer in its place, however many migrate at once.    *)
(*                                                                         *)
(* Architecture zone: a request that has had the zone to itself from its   *)
(* begin is traced, point by point, from whatever state it has found.      *)
(*                                                                         *)
(* With the theorems about agent runs and projects, of modules of their    *)
(* own, what is proved of the four is true of their composition.           *)
(***************************************************************************)
EXTENDS MCProject, AgentRunsProofs, ProjectsProofs

---------------------------------------------------------------------------
(* Directive files: what people write outside the region stays there.      *)

DirSpec == DirInit /\ [][DirNext]_dirVars

Points == {"rest", "read", "write", "drivers", "patch", "writeConfig", "load", "setConfig", "setAgents"}
DirJobs ==
  [kind : {"none", "generate", "migrate", "reload"}, pc : Points,
   file : DirectiveFiles \cup {"none"}, force : BOOLEAN, gemini : BOOLEAN,
   body : Content, seen : Content, conf : Config]

\* A content is made of texts somebody wrote; without markers nothing is inside them,
\* and a file that has markers is there.
Sound(c) ==
  /\ c \in Content /\ TextsOf(c) \subseteq written
  /\ ~c.exists => TextsOf(c) = {}
  /\ ~c.markers => c.inside = {}
  /\ c.markers => c.exists

\* What a request is at, and with what.
DirPlan(j) ==
  /\ Sound(j.body) /\ Sound(j.seen)
  /\ j.kind = "none" => j.pc = "rest"
  /\ j.pc \in {"read", "write"} => j.file \in DirectiveFiles
  /\ j.pc = "drivers" => j.file = "none"
  /\ j.kind = "reload" => j.pc \in {"load", "setConfig", "setAgents"}
  /\ j.kind = "migrate" => j.pc \in {"read", "write", "drivers"}
  /\ j.kind = "generate" => TextsOf(j.body) = {}
  /\ j.pc \in {"setConfig", "setAgents"} => j.conf.valid

\* The texts that are to stand outside the region of a file.
Protected == owed \ migrated

\* Of those, a request about to replace a file has seen the ones that stand there now, and no
\* others; of AGENTS.md migrate need not know what still stands in CLAUDE.md.
Excused(j) ==
  IF j.kind = "migrate" /\ j.file = "AGENTS.md" THEN text["CLAUDE.md"].outside ELSE {}

HasSeen(j) ==
  j.pc = "write" =>
    \A n \in Protected \ Excused(j) : n \in text[j.file].outside <=> n \in j.seen.outside

\* What migrate carries is what CLAUDE.md has, or had before the pointer; a CLAUDE.md with
\* markers stays.  Who turns to CLAUDE.md has put it into AGENTS.md, and sees the text of
\* CLAUDE.md, or somebody has replaced it meanwhile.
Migrating(j) ==
  j.kind = "migrate" =>
    /\ j.body.exists /\ j.body.markers
    /\ text["CLAUDE.md"] = RenderPointer \/ j.body = wrapLegacyBody(text["CLAUDE.md"])
    /\ j.body.outside # {} => text["CLAUDE.md"] = j.body
    /\ j.pc \in {"read", "write"} /\ j.file = "CLAUDE.md" => Protected \cap j.body.inside = {}
    /\ j.pc = "write" /\ j.file = "CLAUDE.md" =>
         j.seen = text["CLAUDE.md"] \/ text["CLAUDE.md"] = RenderPointer

\* Requests of two kinds do not meet.
Meet(j, k) ==
  ~(j.kind = "generate" /\ k.kind = "migrate") /\ ~(j.kind = "migrate" /\ k.kind = "generate")

ConfType ==
  /\ stack \in {"generic", "stack"}
  /\ conf \in Config /\ live \in Config /\ roster \in Config /\ live.valid /\ roster.valid
  /\ scaffoldCrashes \in 0..MaxScaffoldCrashes

DirData ==
  /\ ConfType
  /\ owed \subseteq written /\ migrated \subseteq written /\ written \subseteq Notes
  /\ text \in [DirectiveFiles -> Content] /\ job \in [Scaffolders -> DirJobs]
  /\ \A f \in DirectiveFiles : Sound(text[f])
  /\ \A s \in Scaffolders : DirPlan(job[s])

DirInv ==
  /\ DirData /\ HandTextIsKept
  /\ \A s, t \in Scaffolders : Meet(job[s], job[t])
  /\ \A s \in Scaffolders : HasSeen(job[s]) /\ Migrating(job[s])

---------------------------------------------------------------------------
(* Contents and jobs.                                                      *)

LEMMA ContentFacts ==
  /\ NoFile \in Content /\ RenderPointer \in Content /\ \A g \in Gens : Rendered(g) \in Content
  /\ Sound(NoFile) /\ Sound(RenderPointer) /\ TextsOf(RenderPointer) = {}
  /\ ~RenderPointer.markers /\ RenderPointer.exists
  /\ \A g \in Gens : Sound(Rendered(g)) /\ TextsOf(Rendered(g)) = {}
  <1>1. /\ NoFile \in Content /\ NoFile.inside = {} /\ NoFile.outside = {} /\ NoFile.markers = FALSE
    BY DEF NoFile, Content, Gens
  <1>2. /\ RenderPointer \in Content /\ RenderPointer.inside = {} /\ RenderPointer.outside = {}
        /\ RenderPointer.exists = TRUE /\ RenderPointer.markers = FALSE
    BY DEF RenderPointer, NoFile, Content, Gens
  <1>3. ASSUME NEW g \in Gens
        PROVE  /\ Rendered(g) \in Content /\ Rendered(g).inside = {} /\ Rendered(g).outside = {}
               /\ Rendered(g).exists = TRUE
    BY <1>3 DEF Rendered, NoFile, Content, Gens
  <1> QED
    BY <1>1, <1>2, <1>3 DEF Sound, TextsOf

LEMMA NoJobFacts ==
  /\ NoJob \in DirJobs /\ NoJob.kind = "none" /\ NoJob.pc = "rest"
  /\ NoJob.body = NoFile /\ NoJob.seen = NoFile
  BY ContentFacts DEF NoJob, DirJobs, Points, Config

LEMMA Wrapped ==
  ASSUME NEW c, Sound(c), c.exists
  PROVE  LET w == wrapLegacyBody(c)
         IN  /\ Sound(w) /\ w.exists /\ w.markers /\ TextsOf(w) = TextsOf(c)
             /\ c.markers => w = c
             /\ ~c.markers => w.outside = {} /\ w.inside = c.outside
  <1>1. CASE c.markers
    BY <1>1 DEF wrapLegacyBody
  <1>2. CASE ~c.markers
    <2>1. wrapLegacyBody(c) = [c EXCEPT !.markers = TRUE, !.inside = c.outside, !.outside = {}, !.gen = "none"]
      BY <1>2 DEF wrapLegacyBody
    <2>2. PICK w : w = wrapLegacyBody(c)
      OBVIOUS
    <2>3. /\ w \in Content /\ w.markers = TRUE /\ w.inside = c.outside /\ w.outside = {} /\ w.exists = TRUE
      BY <2>1, <2>2 DEF Sound, Content, Gens
    <2>4. TextsOf(w) = TextsOf(c)
      BY <1>2, <2>3 DEF Sound, TextsOf
    <2>5. Sound(w)
      BY <2>3, <2>4 DEF Sound
    <2> QED
      BY <1>2, <2>2, <2>3, <2>4, <2>5
  <1> QED
    BY <1>1, <1>2

\* What writeFile leaves in a file: outside the region what was there, if there is one; all
\* that is new, if there was no file; of a file without markers what force says.
LEMMA OutcomeFacts ==
  ASSUME NEW old, NEW new, NEW force \in BOOLEAN, Sound(old), Sound(new)
  PROVE  LET out == Outcome(old, new, force)
         IN  /\ Sound(out)
             /\ ~old.exists => out = new
             /\ old.markers => out.outside = old.outside
             /\ old.exists /\ ~old.markers => out = IF force THEN new ELSE old
             /\ MergeFails(old, new) => out = old
  <1> DEFINE out    == Outcome(old, new, force)
             merged == [old EXCEPT !.inside = new.inside, !.gen = new.gen]
  <1>1. CASE ~old.exists
    <2>1. out = new /\ ~old.markers
      BY <1>1 DEF Outcome, Sound
    <2> QED
      BY <1>1, <2>1 DEF MergeFails
  <1>2. CASE old.exists /\ old.markers
    <2>1. mergeManaged(old, new) = merged /\ ~Withheld(old, new, force)
      BY <1>2 DEF mergeManaged, Withheld
    <2>2. /\ merged \in Content /\ merged.inside = new.inside /\ merged.outside = old.outside
          /\ merged.exists = old.exists /\ merged.markers = old.markers
      BY DEF Sound, Content
    <2>3. TextsOf(merged) = old.outside \cup new.inside
      BY <2>2 DEF TextsOf
    <2>4. Sound(merged)
      BY <1>2, <2>2, <2>3 DEF Sound, TextsOf
    <2> HIDE DEF merged
    <2>5. out = IF new.markers THEN merged ELSE old
      BY <1>2, <2>1 DEF Outcome, MergeFails
    <2> QED
      BY <1>2, <2>2, <2>4, <2>5 DEF MergeFails
  <1>3. CASE old.exists /\ ~old.markers
    <2>1. mergeManaged(old, new) = new /\ ~MergeFails(old, new)
      BY <1>3 DEF mergeManaged, MergeFails
    <2>2. out = IF force THEN new ELSE old
      BY <1>3, <2>1 DEF Outcome, Withheld
    <2> QED
      BY <1>3, <2>1, <2>2
  <1> QED
    BY <1>1, <1>2, <1>3

---------------------------------------------------------------------------
(* The shapes of the steps.                                                *)

\* The data after a step of one request, whose job becomes j.
LEMMA DataKept ==
  ASSUME DirInv, NEW s \in Scaffolders, NEW j \in DirJobs, Sets(s, j), DirPlan(j),
         written' = written, owed' \subseteq owed, migrated' \subseteq written, ConfType',
         text' \in [DirectiveFiles -> Content], \A f \in DirectiveFiles : Sound(text'[f]),
         \A t \in Scaffolders \ {s} : Meet(job[t], j)
  PROVE  /\ DirData' /\ \A t, u \in Scaffolders : Meet(job[t], job[u])'
         /\ job'[s] = j /\ \A t \in Scaffolders \ {s} : job'[t] = job[t]
  <1>1. /\ job' \in [Scaffolders -> DirJobs] /\ job'[s] = j
        /\ \A t \in Scaffolders \ {s} : job'[t] = job[t]
    BY DEF Sets, DirInv, DirData
  <1>2. \A c : Sound(c)' <=> Sound(c)
    BY DEF Sound
  <1>3. \A k : DirPlan(k) => DirPlan(k)'
    BY <1>2 DEF DirPlan
  <1>4. \A t \in Scaffolders : DirPlan(job[t])'
    <2>1. \A t \in Scaffolders \ {s} : DirPlan(job[t])
      BY DEF DirInv, DirData
    <2> QED
      BY <1>1, <1>2, <2>1 DEF DirPlan
  <1>5. \A f \in DirectiveFiles : Sound(text[f])'
    BY DEF Sound
  <1>6. DirData'
    BY <1>1, <1>4, <1>5 DEF DirInv, DirData
  <1>7. \A t, u \in Scaffolders : Meet(job[t], job[u])'
    BY <1>1 DEF Meet, DirInv
  <1> QED
    BY <1>1, <1>6, <1>7

\* A request moves on without touching a file.
LEMMA FilesUntouched ==
  ASSUME DirInv, NEW s \in Scaffolders, NEW j \in DirJobs, Sets(s, j), DirPlan(j),
         UNCHANGED dirFiles, ConfType', HasSeen(j), Migrating(j),
         \A t \in Scaffolders \ {s} : Meet(job[t], j)
  PROVE  DirInv'
  <1>1. text' = text /\ owed' = owed /\ migrated' = migrated /\ written' = written
    BY DEF dirFiles
  <1>2. /\ DirData' /\ \A t, u \in Scaffolders : Meet(job[t], job[u])'
        /\ job'[s] = j /\ \A t \in Scaffolders \ {s} : job'[t] = job[t]
    BY <1>1, DataKept DEF DirInv, DirData
  <1>3. HandTextIsKept'
    BY <1>1 DEF DirInv, HandTextIsKept
  <1>4. ASSUME NEW t \in Scaffolders
        PROVE  HasSeen(job[t])' /\ Migrating(job[t])'
    <2>1. CASE t = s
      BY <1>1, <1>2, <2>1 DEF HasSeen, Migrating, Protected, Excused
    <2>2. CASE t # s
      BY <1>1, <1>2, <2>2 DEF HasSeen, Migrating, Protected, Excused, DirInv
    <2> QED
      BY <2>1, <2>2
  <1> QED
    BY <1>2, <1>3, <1>4 DEF DirInv

\* A request lets go of its job.
LEMMA LetGo ==
  /\ DirPlan(NoJob) /\ \A k : Meet(k, NoJob) /\ Meet(NoJob, k)
  /\ HasSeen(NoJob) /\ HasSeen(NoJob)' /\ Migrating(NoJob) /\ Migrating(NoJob)'
  <1>1. NoJob.pc # "write" /\ NoJob.kind # "migrate"
    BY NoJobFacts
  <1> QED
    BY <1>1, NoJobFacts, ContentFacts DEF DirPlan, Meet, HasSeen, Migrating

\* The request writes f: of the protected texts it does not bring itself, those that stand
\* outside the region afterwards are the ones it has seen there.
LEMMA Replaced ==
  ASSUME DirInv, NEW s \in Scaffolders, NEW f \in DirectiveFiles, NEW new, NEW force \in BOOLEAN,
         Sound(new), WriteFile(s, f, new, force), migrated \subseteq migrated'
  PROVE  /\ text' \in [DirectiveFiles -> Content] /\ \A g \in DirectiveFiles : Sound(text'[g])
         /\ written' = written /\ owed' \subseteq owed /\ Protected' \subseteq Protected
         /\ \A g \in DirectiveFiles \ {f} : text'[g] = text[g]
         /\ job[s].pc = "write" /\ job[s].file = f
         /\ text'[f] = text[f] \/ text'[f] = Outcome(job[s].seen, new, force)
         /\ force = job[s].force /\ ~(job[s].kind = "migrate" /\ f = "CLAUDE.md") =>
              \/ text' = text
              \/ \A n \in Protected' \ TextsOf(new) :
                   n \in text'[f].outside <=> n \in job[s].seen.outside
         /\ Withheld(job[s].seen, new, force) => text' = text
  <1> DEFINE old == job[s].seen
             out == Outcome(old, new, force)
             dropped == MayDrop(s, f, old, new)
  <1>1. /\ job[s] \in DirJobs /\ Sound(old) /\ job[s].force \in BOOLEAN
        /\ text \in [DirectiveFiles -> Content] /\ \A g \in DirectiveFiles : Sound(text[g])
    BY DEF DirInv, DirData, DirPlan, DirJobs
  <1>2. /\ job[s].pc = "write" /\ job[s].file = f /\ written' = written
        /\ text' = IF out = old THEN text ELSE [text EXCEPT ![f] = out]
        /\ owed' = IF out = old THEN owed ELSE owed \ dropped
    BY DEF WriteFile
  <1>3. /\ Sound(out)
        /\ ~old.exists => out = new
        /\ old.markers => out.outside = old.outside
        /\ old.exists /\ ~old.markers => out = IF force THEN new ELSE old
    BY <1>1, OutcomeFacts
  <1>4. owed' \subseteq owed /\ Protected' \subseteq Protected
    BY <1>2 DEF Protected
  <1>5. Withheld(old, new, force) => out = old
    BY DEF Withheld, Outcome
  <1>6. ASSUME force = job[s].force, ~(job[s].kind = "migrate" /\ f = "CLAUDE.md"), out # old,
               NEW n \in Protected' \ TextsOf(new)
        PROVE  n \in out.outside <=> n \in old.outside
    <2>1. n \in owed \ dropped /\ n \notin new.outside
      BY <1>2, <1>6 DEF Protected, TextsOf
    <2>2. CASE old.markers
      BY <1>3, <2>2
    <2>3. CASE ~old.exists
      BY <1>1, <1>3, <2>1, <2>3 DEF Sound, TextsOf
    <2>4. CASE old.exists /\ ~old.markers
      <3>1. force /\ out = new
        BY <1>3, <1>6, <2>4
      <3>2. dropped = TextsOf(old) \ TextsOf(new)
        BY <1>6, <2>4, <3>1 DEF MayDrop
      <3> QED
        BY <1>6, <2>1, <3>1, <3>2 DEF TextsOf
    <2> QED
      BY <2>2, <2>3, <2>4
  <1> HIDE DEF old, out, dropped
  <1>7. CASE out = old
    BY <1>1, <1>2, <1>4, <1>7 DEF old, out
  <1>8. CASE out # old
    <2>1. /\ text' \in [DirectiveFiles -> Content] /\ text'[f] = out
          /\ \A g \in DirectiveFiles \ {f} : text'[g] = text[g]
      BY <1>1, <1>2, <1>3, <1>8 DEF Sound
    <2>2. \A g \in DirectiveFiles : Sound(text'[g])
      BY <1>1, <1>3, <2>1
    <2> QED
      BY <1>2, <1>4, <1>5, <1>6, <1>8, <2>1, <2>2 DEF old, out
  <1> QED
    BY <1>7, <1>8

\* The job of a request, and what a turn makes of it.
LEMMA JobFacts ==
  ASSUME DirInv, NEW s \in Scaffolders
  PROVE  /\ job[s] \in DirJobs /\ DirPlan(job[s]) /\ HasSeen(job[s]) /\ Migrating(job[s])
         /\ ConfType /\ \A f \in DirectiveFiles : Sound(text[f]) /\ text[f] \in Content
         /\ text \in [DirectiveFiles -> Content] /\ owed \subseteq written /\ migrated \subseteq written
         /\ \A t \in Scaffolders : Meet(job[t], job[s])
  BY DEF DirInv, DirData

LEMMA TurnFacts ==
  ASSUME DirInv, NEW s \in Scaffolders, NEW place \in Points, NEW f \in DirectiveFiles \cup {"none"},
         Turns(s, place, f), job[s].kind # "none", place \in {"read", "write"} => f \in DirectiveFiles,
         job[s].kind = "reload" => place = "load",
         job[s].kind = "migrate" => place \in {"read", "drivers"},
         place \notin {"write", "setConfig", "setAgents"}, place = "drivers" => f = "none"
  PROVE  \E j \in DirJobs :
           /\ Sets(s, j) /\ j.pc = place /\ j.file = f /\ j.kind = job[s].kind /\ j.body = job[s].body
           /\ DirPlan(j) /\ HasSeen(j) /\ HasSeen(j)' /\ \A t \in Scaffolders : Meet(job[t], j)
  <1>1. PICK j : j = [job[s] EXCEPT !.pc = place, !.file = f, !.seen = NoFile]
    OBVIOUS
  <1>2. /\ j \in DirJobs /\ j.pc = place /\ j.file = f /\ j.seen = NoFile
        /\ j.kind = job[s].kind /\ j.body = job[s].body
    <2>1. job[s] \in DirJobs /\ NoFile \in Content
      BY JobFacts, ContentFacts
    <2> QED
      BY <1>1, <2>1 DEF DirJobs
  <1>3. Sets(s, j)
    BY <1>1 DEF Turns
  <1>4. DirPlan(j)
    BY <1>2, JobFacts, ContentFacts DEF DirPlan
  <1>5. HasSeen(j) /\ HasSeen(j)'
    BY <1>2 DEF HasSeen
  <1>6. \A t \in Scaffolders : Meet(job[t], j)
    BY <1>2, JobFacts DEF Meet
  <1> QED
    BY <1>2, <1>3, <1>4, <1>5, <1>6

---------------------------------------------------------------------------
(* The steps.                                                              *)

LEMMA ReadFileInv ==
  ASSUME DirInv, NEW s \in Scaffolders, NEW f \in DirectiveFiles, ReadFile(s, f)
  PROVE  DirInv'
  <1>1. PICK j : j = [job[s] EXCEPT !.pc = "write", !.seen = text[f]]
    OBVIOUS
  <1>2. /\ job[s].pc = "read" /\ job[s].file = f /\ Sets(s, j)
        /\ UNCHANGED <<dirFiles, dirConf, stack, scaffoldCrashes>>
    BY <1>1 DEF ReadFile
  <1>3. /\ j \in DirJobs /\ j.pc = "write" /\ j.file = f /\ j.seen = text[f]
        /\ j.kind = job[s].kind /\ j.body = job[s].body
    BY <1>1, <1>2, JobFacts DEF DirJobs, Points
  <1>4. DirPlan(j) /\ \A t \in Scaffolders : Meet(job[t], j)
    BY <1>2, <1>3, JobFacts DEF DirPlan, Meet
  <1>5. HasSeen(j)
    BY <1>3 DEF HasSeen
  <1>6. Migrating(j)
    BY <1>2, <1>3, JobFacts DEF Migrating
  <1>7. ConfType'
    BY <1>2, JobFacts DEF ConfType, dirConf
  <1> QED
    BY <1>2, <1>3, <1>4, <1>5, <1>6, <1>7, FilesUntouched DEF dirFiles

LEMMA StartGenerateInv ==
  ASSUME DirInv, NEW s \in Scaffolders, NEW force \in BOOLEAN, NEW include \in BOOLEAN,
         StartGenerate(s, force, include)
  PROVE  DirInv'
  <1>1. PICK b : b = Rendered(stack)
    OBVIOUS
  <1>2. PICK g \in BOOLEAN : g = (conf.gemini \/ include)
    OBVIOUS
  <1>3. PICK j : j = [NoJob EXCEPT !.kind = "generate", !.pc = "read", !.file = "AGENTS.md", !.force = force,
                                   !.gemini = g, !.body = b]
    OBVIOUS
  <1>4. Sets(s, j) /\ Alone("generate") /\ UNCHANGED <<dirFiles, dirConf, stack, scaffoldCrashes>>
    BY <1>1, <1>2, <1>3 DEF StartGenerate
  <1>5. b \in Content /\ Sound(b) /\ TextsOf(b) = {}
    BY <1>1, JobFacts, ContentFacts DEF ConfType, Gens
  <1>6. /\ j \in DirJobs /\ j.pc = "read" /\ j.file = "AGENTS.md" /\ j.kind = "generate" /\ j.body = b
        /\ j.seen = NoFile
    BY <1>3, <1>5, NoJobFacts DEF DirJobs, DirectiveFiles, Points
  <1>7. DirPlan(j) /\ HasSeen(j) /\ Migrating(j)
    BY <1>5, <1>6, ContentFacts DEF DirPlan, HasSeen, Migrating, DirectiveFiles
  <1>8. \A t \in Scaffolders : Meet(job[t], j)
    BY <1>4, <1>6 DEF Alone, Meet
  <1>9. ConfType'
    BY <1>4, JobFacts DEF ConfType, dirConf
  <1> QED
    BY <1>4, <1>6, <1>7, <1>8, <1>9, FilesUntouched DEF dirFiles

LEMMA StartMigrateInv ==
  ASSUME DirInv, NEW s \in Scaffolders, NEW force \in BOOLEAN, StartMigrate(s, force)
  PROVE  DirInv'
  <1> DEFINE claude == text["CLAUDE.md"]
  <1>1. PICK b : b = wrapLegacyBody(claude)
    OBVIOUS
  <1>3. PICK j : j = [NoJob EXCEPT !.kind = "migrate", !.pc = "read", !.file = "AGENTS.md", !.force = force,
                                   !.body = b]
    OBVIOUS
  <1>4. /\ Sets(s, j) /\ Alone("migrate") /\ UNCHANGED <<dirFiles, dirConf, stack, scaffoldCrashes>>
        /\ claude.exists /\ claude # RenderPointer
    BY <1>1, <1>3 DEF StartMigrate, HasLegacy
  <1>5. "CLAUDE.md" \in DirectiveFiles /\ "AGENTS.md" \in DirectiveFiles
    BY DEF DirectiveFiles
  <1>6. /\ Sound(b) /\ b.exists /\ b.markers /\ b \in Content
        /\ claude.markers => b = claude
        /\ ~claude.markers => b.outside = {}
    BY <1>1, <1>4, <1>5, JobFacts, Wrapped DEF Sound
  <1>7. /\ j \in DirJobs /\ j.pc = "read" /\ j.file = "AGENTS.md" /\ j.kind = "migrate" /\ j.body = b
        /\ j.seen = NoFile
    BY <1>3, <1>5, <1>6, NoJobFacts DEF DirJobs, Points
  <1>8. DirPlan(j) /\ HasSeen(j)
    BY <1>5, <1>6, <1>7, ContentFacts DEF DirPlan, HasSeen
  <1>9. Migrating(j)
    BY <1>1, <1>4, <1>6, <1>7 DEF Migrating
  <1>10. \A t \in Scaffolders : Meet(job[t], j)
    BY <1>4, <1>7 DEF Alone, Meet
  <1>11. ConfType'
    BY <1>4, JobFacts DEF ConfType, dirConf
  <1> QED
    BY <1>4, <1>7, <1>8, <1>9, <1>10, <1>11, FilesUntouched DEF dirFiles

\* The steps about the config.
LEMMA ConfigInv ==
  ASSUME DirInv, NEW s \in Scaffolders,
         \/ PatchAgentConfig(s) \/ WritePatched(s) \/ LoadConfig(s) \/ SetConfig(s) \/ SetAgents(s)
         \/ \E c \in Config : handleUpdateConfig(s, c)
  PROVE  DirInv'
  <1>1. /\ job[s] \in DirJobs /\ DirPlan(job[s]) /\ ConfType /\ job[s].conf \in Config
        /\ \A t \in Scaffolders : Meet(job[t], job[s])
    BY JobFacts DEF DirJobs
  <1>2. ASSUME NEW j \in DirJobs, Sets(s, j), DirPlan(j), j.kind \in {"none", "reload", "generate"},
               j.pc # "write", j.kind = "generate" => job[s].kind = "generate",
               UNCHANGED dirFiles, ConfType'
        PROVE  DirInv'
    <2>1. HasSeen(j) /\ Migrating(j)
      BY <1>2 DEF HasSeen, Migrating
    <2>2. \A t \in Scaffolders : Meet(job[t], j)
      BY <1>1, <1>2 DEF Meet
    <2> QED
      BY <1>2, <2>1, <2>2, FilesUntouched
  <1>3. ASSUME Sets(s, NoJob), UNCHANGED dirFiles, ConfType'
        PROVE  DirInv'
    BY <1>2, <1>3, LetGo, NoJobFacts
  <1>4. ASSUME Turns(s, "load", "none"), job[s].kind \in {"generate", "reload"}, UNCHANGED dirFiles, ConfType'
        PROVE  DirInv'
    <2>1. PICK j \in DirJobs : /\ Sets(s, j) /\ j.pc = "load" /\ j.kind = job[s].kind /\ DirPlan(j)
      BY <1>4, TurnFacts DEF Points
    <2> QED
      BY <1>2, <1>4, <2>1
  <1>5. ASSUME NEW place \in {"writeConfig", "setConfig"}, NEW c \in Config, c.valid,
               Sets(s, [job[s] EXCEPT !.pc = place, !.conf = c]),
               job[s].kind = "generate" \/ (job[s].kind = "reload" /\ place = "setConfig"),
               UNCHANGED dirFiles, ConfType'
        PROVE  DirInv'
    <2>1. PICK j : j = [job[s] EXCEPT !.pc = place, !.conf = c]
      OBVIOUS
    <2>2. /\ j \in DirJobs /\ Sets(s, j) /\ j.pc = place /\ j.conf = c /\ j.kind = job[s].kind
          /\ j.body = job[s].body /\ j.seen = job[s].seen
      BY <1>1, <1>5, <2>1 DEF DirJobs, Points
    <2>3. DirPlan(j)
      BY <1>1, <1>5, <2>2 DEF DirPlan
    <2> QED
      BY <1>2, <1>5, <2>2, <2>3
  <1>6. job[s].pc \in {"patch", "writeConfig"} => job[s].kind = "generate"
    BY <1>1 DEF DirPlan, DirJobs
  <1>7. job[s].pc \in {"load", "setConfig", "setAgents"} => job[s].kind \in {"generate", "reload"}
    BY <1>1 DEF DirPlan, DirJobs
  <1>8. CASE PatchAgentConfig(s)
    <2>1. /\ job[s].pc = "patch" /\ UNCHANGED <<dirFiles, dirConf, stack, scaffoldCrashes>>
      BY <1>8 DEF PatchAgentConfig
    <2>2. ConfType'
      BY <1>1, <2>1 DEF ConfType, dirConf
    <2>3. \/ conf.valid /\ Sets(s, [job[s] EXCEPT !.pc = "writeConfig", !.conf = conf])
          \/ Turns(s, "load", "none")
      BY <1>8 DEF PatchAgentConfig
    <2>4. conf \in Config
      BY <1>1 DEF ConfType
    <2> QED
      BY <1>4, <1>5, <1>6, <2>1, <2>2, <2>3, <2>4 DEF dirFiles
  <1>9. CASE WritePatched(s)
    <2>1. /\ job[s].pc = "writeConfig" /\ UNCHANGED <<dirFiles, live, roster, stack, scaffoldCrashes>>
          /\ conf' = Tuned(job[s].conf) /\ Turns(s, "load", "none")
      BY <1>9 DEF WritePatched
    <2>2. ConfType'
      BY <1>1, <2>1 DEF ConfType, Tuned, Config
    <2> QED
      BY <1>4, <1>6, <2>1, <2>2 DEF dirFiles
  <1>10. CASE LoadConfig(s)
    <2>1. /\ job[s].pc = "load" /\ UNCHANGED <<dirFiles, dirConf, stack, scaffoldCrashes>>
      BY <1>10 DEF LoadConfig
    <2>2. ConfType' /\ conf \in Config
      BY <1>1, <2>1 DEF ConfType, dirConf
    <2>3. \/ conf.valid /\ Sets(s, [job[s] EXCEPT !.pc = "setConfig", !.conf = conf])
          \/ Sets(s, NoJob)
      BY <1>10 DEF LoadConfig
    <2> QED
      BY <1>3, <1>5, <1>7, <2>1, <2>2, <2>3 DEF dirFiles
  <1>11. CASE SetConfig(s)
    <2>1. /\ job[s].pc = "setConfig" /\ live' = job[s].conf
          /\ UNCHANGED <<dirFiles, conf, roster, stack, scaffoldCrashes>>
      BY <1>11 DEF SetConfig
    <2>2. job[s].conf.valid
      BY <1>1, <2>1 DEF DirPlan
    <2>3. ConfType'
      BY <1>1, <2>1, <2>2 DEF ConfType
    <2>4. PICK j : j = [job[s] EXCEPT !.pc = "setAgents"]
      OBVIOUS
    <2>5. /\ j \in DirJobs /\ Sets(s, j) /\ j.pc = "setAgents" /\ j.conf = job[s].conf /\ j.kind = job[s].kind
          /\ j.body = job[s].body /\ j.seen = job[s].seen
      BY <1>1, <1>11, <2>4 DEF DirJobs, Points, SetConfig
    <2>6. DirPlan(j)
      BY <1>1, <1>7, <2>1, <2>2, <2>5 DEF DirPlan
    <2> QED
      BY <1>2, <1>7, <2>1, <2>3, <2>5, <2>6 DEF dirFiles
  <1>12. CASE SetAgents(s)
    <2>1. /\ job[s].pc = "setAgents" /\ roster' = job[s].conf /\ Sets(s, NoJob)
          /\ UNCHANGED <<dirFiles, conf, live, stack, scaffoldCrashes>>
      BY <1>12 DEF SetAgents
    <2>2. job[s].conf.valid
      BY <1>1, <2>1 DEF DirPlan
    <2>3. ConfType'
      BY <1>1, <2>1, <2>2 DEF ConfType
    <2> QED
      BY <1>3, <2>1, <2>3 DEF dirFiles
  <1>13. ASSUME NEW c \in Config, handleUpdateConfig(s, c)
         PROVE  DirInv'
    <2>1. PICK j : j = [NoJob EXCEPT !.kind = "reload", !.pc = "load"]
      OBVIOUS
    <2>2. /\ Sets(s, j) /\ conf' = c /\ UNCHANGED <<dirFiles, live, roster, stack, scaffoldCrashes>>
      BY <1>13, <2>1 DEF handleUpdateConfig
    <2>3. /\ j \in DirJobs /\ j.pc = "load" /\ j.kind = "reload" /\ j.body = NoFile /\ j.seen = NoFile
      BY <2>1, NoJobFacts DEF DirJobs, Points
    <2>4. DirPlan(j)
      BY <2>3, ContentFacts DEF DirPlan
    <2>5. ConfType'
      BY <1>1, <2>2 DEF ConfType
    <2> QED
      BY <1>2, <2>2, <2>3, <2>4, <2>5 DEF dirFiles
  <1> QED
    BY <1>8, <1>9, <1>10, <1>11, <1>12, <1>13

LEMMA MigrateDriversInv ==
  ASSUME DirInv, NEW s \in Scaffolders, MigrateDrivers(s)
  PROVE  DirInv'
  <1>1. /\ job[s].pc = "drivers" /\ UNCHANGED <<dirFiles, dirConf, stack, scaffoldCrashes>>
        /\ Turns(s, "read", "GEMINI.md") \/ Sets(s, NoJob)
    BY DEF MigrateDrivers
  <1>2. ConfType'
    BY <1>1, JobFacts DEF ConfType, dirConf
  <1>3. CASE Sets(s, NoJob)
    BY <1>1, <1>2, <1>3, LetGo, NoJobFacts, FilesUntouched DEF dirFiles
  <1>4. CASE Turns(s, "read", "GEMINI.md")
    <2>1. job[s].kind \in {"migrate", "generate"} /\ job[s].kind # "none" /\ job[s].kind # "reload"
      BY <1>1, JobFacts DEF DirPlan, DirJobs
    <2>2. PICK j \in DirJobs :
           /\ Sets(s, j) /\ j.pc = "read" /\ j.file = "GEMINI.md" /\ j.kind = job[s].kind /\ j.body = job[s].body
           /\ DirPlan(j) /\ HasSeen(j) /\ \A t \in Scaffolders : Meet(job[t], j)
      BY <1>4, <2>1, TurnFacts DEF Points, DirectiveFiles
    <2>3. Migrating(j)
      BY <1>1, <2>1, <2>2, JobFacts DEF DirPlan, Migrating
    <2> QED
      BY <1>1, <1>2, <2>2, <2>3, FilesUntouched DEF dirFiles
  <1> QED
    BY <1>1, <1>3, <1>4

\* A request stops because a file cannot be read or written.
LEMMA FileFailsInv ==
  ASSUME DirInv, NEW s \in Scaffolders, FileFails(s)
  PROVE  DirInv'
  <1>1. Sets(s, NoJob) /\ UNCHANGED <<dirFiles, dirConf, stack, scaffoldCrashes>>
    BY DEF FileFails
  <1>2. ConfType'
    BY <1>1, JobFacts DEF ConfType, dirConf
  <1> QED
    BY <1>1, <1>2, LetGo, NoJobFacts, FilesUntouched DEF dirFiles

\* A request other than a migration at CLAUDE.md has written f, and its job is j.
LEMMA Wrote ==
  ASSUME DirInv, NEW s \in Scaffolders, NEW f \in DirectiveFiles, NEW new, NEW j \in DirJobs,
         job[s].kind = "generate" \/ (job[s].kind = "migrate" /\ f # "CLAUDE.md"),
         Sound(new), WriteFile(s, f, new, job[s].force),
         migrated \subseteq migrated', migrated' \subseteq written,
         text' = text \/ \A n \in Protected' \ Excused(job[s]) : n \notin TextsOf(new),
         Sets(s, j), DirPlan(j), HasSeen(j)', Migrating(j)', \A t \in Scaffolders \ {s} : Meet(job[t], j),
         ConfType'
  PROVE  DirInv'
  <1> DEFINE old == job[s].seen
  <1>1. /\ text' \in [DirectiveFiles -> Content] /\ \A g \in DirectiveFiles : Sound(text'[g])
        /\ written' = written /\ owed' \subseteq owed /\ Protected' \subseteq Protected
        /\ \A g \in DirectiveFiles \ {f} : text'[g] = text[g]
        /\ job[s].pc = "write" /\ job[s].file = f
        /\ \/ text' = text
           \/ \A n \in Protected' \ TextsOf(new) : n \in text'[f].outside <=> n \in old.outside
    BY JobFacts, Replaced DEF DirJobs
  <1>2. /\ DirData' /\ \A t, u \in Scaffolders : Meet(job[t], job[u])'
        /\ job'[s] = j /\ \A t \in Scaffolders \ {s} : job'[t] = job[t]
    BY <1>1, DataKept
  <1>3. \A n \in Protected' \ Excused(job[s]) : n \in text'[f].outside <=> n \in text[f].outside
    <2>1. \A n \in Protected \ Excused(job[s]) : n \in text[f].outside <=> n \in old.outside
      BY <1>1, JobFacts DEF HasSeen
    <2> QED
      BY <1>1, <2>1
  <1>4. Excused(job[s]) \subseteq text["CLAUDE.md"].outside
         /\ (Excused(job[s]) # {} => f # "CLAUDE.md")
    BY <1>1 DEF Excused
  <1>5. HandTextIsKept'
    <2>1. SUFFICES ASSUME NEW n \in Protected'
                   PROVE  \E g \in DirectiveFiles : n \in text'[g].outside
      BY DEF HandTextIsKept, Protected
    <2>2. CASE n \in Excused(job[s])
      BY <1>1, <1>4, <2>2 DEF DirectiveFiles
    <2>3. CASE n \notin Excused(job[s])
      <3>1. PICK g \in DirectiveFiles : n \in text[g].outside
        BY <1>1 DEF DirInv, HandTextIsKept, Protected
      <3> QED
        BY <1>1, <1>3, <2>3, <3>1
    <2> QED
      BY <2>2, <2>3
  <1>6. ASSUME NEW t \in Scaffolders \ {s}
        PROVE  HasSeen(job[t])' /\ Migrating(job[t])'
    <2>1. PICK k \in DirJobs : k = job[t]
      BY JobFacts
    <2>2. DirPlan(k) /\ HasSeen(k) /\ Migrating(k) /\ Meet(k, job[s]) /\ job'[t] = k
      BY <1>2, <2>1, JobFacts
    <2>3. k.kind = "migrate" => job[s].kind = "migrate" /\ text'["CLAUDE.md"] = text["CLAUDE.md"]
      BY <1>1, <2>2 DEF Meet, DirectiveFiles
    <2>4. HasSeen(k)'
      <3>1. SUFFICES ASSUME k.pc = "write", NEW n \in Protected', n \notin Excused(k)'
                     PROVE  n \in text'[k.file].outside <=> n \in k.seen.outside
        BY DEF HasSeen
      <3>2. k.kind \in {"generate", "migrate"} /\ k.file \in DirectiveFiles
        BY <2>2, <3>1 DEF DirPlan, DirJobs
      <3>3. n \notin Excused(k)
        BY <2>3, <3>1 DEF Excused
      <3>4. n \in text[k.file].outside <=> n \in k.seen.outside
        BY <1>1, <2>2, <3>1, <3>3 DEF HasSeen
      <3>5. CASE k.file = f
        <4>1. n \notin Excused(job[s])
          BY <1>1, <2>2, <3>2, <3>3, <3>5 DEF Excused, Meet
        <4> QED
          BY <1>3, <3>1, <3>4, <3>5, <4>1
      <3>6. CASE k.file # f
        BY <1>1, <3>2, <3>4, <3>6
      <3> QED
        BY <3>5, <3>6
    <2>5. Migrating(k)'
      BY <1>1, <2>2, <2>3 DEF Migrating
    <2> QED
      BY <2>2, <2>4, <2>5 DEF HasSeen, Migrating, Excused, Protected
  <1>7. HasSeen(job[s])' /\ Migrating(job[s])'
    BY <1>2 DEF HasSeen, Migrating, Excused, Protected
  <1> QED
    BY <1>2, <1>5, <1>6, <1>7 DEF DirInv

LEMMA GenerateFileInv ==
  ASSUME DirInv, NEW s \in Scaffolders, NEW f \in DirectiveFiles, GenerateFile(s, f)
  PROVE  DirInv'
  <1>1. PICK new : new = IF f = "AGENTS.md" THEN job[s].body ELSE RenderPointer
    OBVIOUS
  <1>2. /\ job[s].kind = "generate" /\ WriteFile(s, f, new, job[s].force)
        /\ UNCHANGED <<migrated, dirConf, stack, scaffoldCrashes>>
    BY <1>1 DEF GenerateFile
  <1>3. Sound(new) /\ TextsOf(new) = {}
    BY <1>1, <1>2, JobFacts, ContentFacts DEF DirPlan
  <1>4. ConfType' /\ migrated' = migrated /\ migrated \subseteq written
    BY <1>2, JobFacts DEF ConfType, dirConf
  <1>5. ASSUME NEW j \in DirJobs, Sets(s, j), DirPlan(j), HasSeen(j)', j.kind # "migrate",
               \A t \in Scaffolders : Meet(job[t], j)
        PROVE  DirInv'
    <2>1. Migrating(j)'
      BY <1>5 DEF Migrating
    <2> QED
      BY <1>2, <1>3, <1>4, <1>5, <2>1, Wrote
  <1>6. CASE Sets(s, NoJob)
    BY <1>5, <1>6, LetGo, NoJobFacts
  <1>7. ASSUME NEW place \in {"read", "patch"}, NEW g \in DirectiveFiles \cup {"none"}, Turns(s, place, g),
               place = "read" => g \in DirectiveFiles
        PROVE  DirInv'
    <2>1. PICK j \in DirJobs :
           /\ Sets(s, j) /\ j.kind = "generate"
           /\ DirPlan(j) /\ HasSeen(j)' /\ \A t \in Scaffolders : Meet(job[t], j)
      BY <1>2, <1>7, TurnFacts DEF Points
    <2> QED
      BY <1>5, <2>1
  <1>8. \/ Sets(s, NoJob) \/ Turns(s, "read", "CLAUDE.md") \/ Turns(s, "read", "GEMINI.md")
        \/ Turns(s, "patch", "none")
    BY DEF GenerateFile
  <1> QED
    BY <1>6, <1>7, <1>8 DEF DirectiveFiles

\* What migrate brings to AGENTS.md goes into its region, and out of protection; what is
\* outside the markers of a CLAUDE.md stays there.
LEMMA MigrateAgentsInv ==
  ASSUME DirInv, NEW s \in Scaffolders, MigrateAgents(s)
  PROVE  DirInv'
  <1> DEFINE f == "AGENTS.md"
  <1>1. PICK new : new = job[s].body
    OBVIOUS
  <1>2. /\ job[s].kind = "migrate" /\ WriteFile(s, f, new, job[s].force)
        /\ job[s].pc = "write" /\ job[s].file = f
        /\ UNCHANGED <<dirConf, stack, scaffoldCrashes>>
    BY <1>1 DEF MigrateAgents, WriteFile
  <1>3. /\ f \in DirectiveFiles /\ "CLAUDE.md" \in DirectiveFiles /\ f # "CLAUDE.md"
        /\ Sound(new) /\ Migrating(job[s]) /\ job[s].force \in BOOLEAN
    BY <1>1, <1>2, JobFacts DEF DirPlan, DirectiveFiles, DirJobs
  <1>4. ConfType'
    BY <1>2, JobFacts DEF ConfType, dirConf
  <1>5. /\ migrated \subseteq migrated' /\ migrated' \subseteq written
        /\ ~Withheld(job[s].seen, new, job[s].force) => new.inside \subseteq migrated'
    <2>1. migrated' = IF Withheld(job[s].seen, new, job[s].force) THEN migrated ELSE migrated \cup new.inside
      BY <1>1 DEF MigrateAgents, Migrates
    <2> QED
      BY <1>3, <2>1, JobFacts DEF Sound, TextsOf
  <1>6. /\ text'["CLAUDE.md"] = text["CLAUDE.md"] /\ Protected' \subseteq Protected
        /\ Withheld(job[s].seen, new, job[s].force) => text' = text
    BY <1>2, <1>3, <1>5, Replaced
  <1>7. text' = text \/ \A n \in Protected' \ Excused(job[s]) : n \notin TextsOf(new)
    <2>1. SUFFICES ASSUME ~Withheld(job[s].seen, new, job[s].force), NEW n \in Protected' \ Excused(job[s])
                   PROVE  n \notin TextsOf(new)
      BY <1>6
    <2>2. n \notin new.inside
      BY <1>5, <2>1 DEF Protected
    <2>3. n \notin new.outside
      BY <1>1, <1>2, <1>3, <2>1 DEF Migrating, Excused
    <2> QED
      BY <2>2, <2>3 DEF TextsOf
  <1>8. CASE Withheld(job[s].seen, new, job[s].force)
    <2>1. Sets(s, NoJob)
      BY <1>1, <1>8 DEF MigrateAgents
    <2> QED
      BY <1>2, <1>3, <1>4, <1>5, <1>7, <2>1, LetGo, NoJobFacts, Wrote
  <1>9. CASE ~Withheld(job[s].seen, new, job[s].force)
    <2>1. Turns(s, "read", "CLAUDE.md")
      BY <1>1, <1>9 DEF MigrateAgents
    <2>2. PICK j \in DirJobs :
           /\ Sets(s, j) /\ j.pc = "read" /\ j.file = "CLAUDE.md" /\ j.kind = "migrate" /\ j.body = new
           /\ DirPlan(j) /\ HasSeen(j)' /\ \A t \in Scaffolders : Meet(job[t], j)
      BY <1>1, <1>2, <1>3, <2>1, TurnFacts DEF Points
    <2>3. Protected' \cap new.inside = {}
      BY <1>5, <1>9 DEF Protected
    <2>4. Migrating(j)'
      BY <1>1, <1>2, <1>3, <1>6, <2>2, <2>3 DEF Migrating
    <2> QED
      BY <1>2, <1>3, <1>4, <1>5, <1>7, <2>2, <2>4, Wrote
  <1> QED
    BY <1>8, <1>9

LEMMA MigrateGeminiInv ==
  ASSUME DirInv, NEW s \in Scaffolders, MigrateGemini(s)
  PROVE  DirInv'
  <1> DEFINE f == "GEMINI.md"
  <1>1. /\ job[s].kind = "migrate" /\ WriteFile(s, f, RenderPointer, job[s].force) /\ Sets(s, NoJob)
        /\ UNCHANGED <<migrated, dirConf, stack, scaffoldCrashes>>
    BY DEF MigrateGemini
  <1>2. /\ f \in DirectiveFiles /\ Sound(RenderPointer) /\ TextsOf(RenderPointer) = {} /\ f # "CLAUDE.md"
    BY ContentFacts DEF DirectiveFiles
  <1>3. ConfType' /\ migrated' = migrated /\ migrated \subseteq written
    BY <1>1, JobFacts DEF ConfType, dirConf
  <1> QED
    BY <1>1, <1>2, <1>3, LetGo, NoJobFacts, Wrote

\* The pointer replaces CLAUDE.md: no protected text stands outside a region there, or it has
\* markers and stays.
LEMMA MigrateClaudeInv ==
  ASSUME DirInv, NEW s \in Scaffolders, MigrateClaude(s)
  PROVE  DirInv'
  <1> DEFINE f      == "CLAUDE.md"
             claude == text[f]
             old    == job[s].seen
  <1>1. /\ job[s].kind = "migrate" /\ WriteFile(s, f, RenderPointer, TRUE)
        /\ job[s].pc = "write" /\ job[s].file = f
        /\ UNCHANGED <<migrated, dirConf, stack, scaffoldCrashes>>
        /\ Sets(s, NoJob) \/ Turns(s, "drivers", "none")
    BY DEF MigrateClaude, WriteFile
  <1>2. /\ f \in DirectiveFiles /\ job[s] \in DirJobs /\ DirPlan(job[s]) /\ Migrating(job[s]) /\ HasSeen(job[s])
        /\ Sound(old) /\ Sound(RenderPointer) /\ RenderPointer.outside = {} /\ ~RenderPointer.markers
    BY <1>1, JobFacts, ContentFacts DEF DirectiveFiles, DirPlan, TextsOf
  <1>3. ConfType' /\ migrated' = migrated /\ migrated \subseteq written
    BY <1>1, JobFacts DEF ConfType, dirConf
  <1>4. /\ text' \in [DirectiveFiles -> Content] /\ \A g \in DirectiveFiles : Sound(text'[g])
        /\ written' = written /\ owed' \subseteq owed /\ Protected' \subseteq Protected
        /\ \A g \in DirectiveFiles \ {f} : text'[g] = text[g]
    BY <1>1, <1>2, <1>3, Replaced
  <1>5. text' = text \/ (~old.markers /\ text'[f] = RenderPointer)
    <2>1. old.markers => Outcome(old, RenderPointer, TRUE) = old
      BY <1>2, OutcomeFacts DEF MergeFails
    <2>2. ~old.markers => Outcome(old, RenderPointer, TRUE) = RenderPointer
      BY <1>2, OutcomeFacts
    <2>3. text \in [DirectiveFiles -> Content]
      BY JobFacts
    <2> QED
      BY <1>1, <1>2, <2>1, <2>2, <2>3 DEF WriteFile
  <1>6. \/ text'[f] = claude
        \/ /\ text'[f] = RenderPointer /\ ~claude.markers
           /\ \A n \in Protected : n \notin claude.outside
    <2>1. SUFFICES ASSUME ~old.markers, claude # RenderPointer
                   PROVE  ~claude.markers /\ \A n \in Protected : n \notin claude.outside
      BY <1>2, <1>5
    <2>2. old = claude /\ job[s].body = wrapLegacyBody(claude) /\ Protected \cap job[s].body.inside = {}
      BY <1>1, <1>2, <2>1 DEF Migrating
    <2>3. claude.exists => job[s].body.inside = claude.outside
      BY <2>1, <2>2, <1>2, Wrapped
    <2>4. ~claude.exists => claude.outside = {}
      BY <1>2, <2>2 DEF Sound, TextsOf
    <2> QED
      BY <2>1, <2>2, <2>3, <2>4
  <1>7. HandTextIsKept'
    <2>1. SUFFICES ASSUME NEW n \in Protected'
                   PROVE  \E g \in DirectiveFiles : n \in text'[g].outside
      BY DEF HandTextIsKept, Protected
    <2>2. PICK g \in DirectiveFiles : n \in text[g].outside
      BY <1>4 DEF DirInv, HandTextIsKept, Protected
    <2> QED
      BY <1>4, <1>6, <2>2
  <1>8. ASSUME NEW k \in DirJobs, DirPlan(k), HasSeen(k), Migrating(k), k.kind # "generate"
        PROVE  HasSeen(k)' /\ Migrating(k)'
    <2>1. HasSeen(k)'
      <3>1. SUFFICES ASSUME k.pc = "write", NEW n \in Protected', n \notin Excused(k)'
                     PROVE  n \in text'[k.file].outside <=> n \in k.seen.outside
        BY DEF HasSeen
      <3>2. n \notin Excused(k)
        BY <1>4, <1>6, <3>1 DEF Excused
      <3>3. n \in text[k.file].outside <=> n \in k.seen.outside
        BY <1>4, <1>8, <3>1, <3>2 DEF HasSeen
      <3> QED
        BY <1>2, <1>4, <1>6, <1>8, <3>1, <3>3 DEF DirPlan
    <2>2. Migrating(k)'
      <3>1. SUFFICES ASSUME k.kind = "migrate"
                     PROVE  Migrating(k)'
        BY DEF Migrating
      <3>2. CASE text'[f] = claude
        BY <1>4, <1>8, <3>1, <3>2 DEF Migrating
      <3>3. CASE text'[f] = RenderPointer /\ ~claude.markers
        BY <1>4, <1>8, <3>1, <3>3 DEF Migrating
      <3> QED
        BY <1>6, <3>2, <3>3
    <2> QED
      BY <2>1, <2>2
  <1>9. ASSUME NEW j \in DirJobs, Sets(s, j), DirPlan(j), HasSeen(j)', Migrating(j)',
               \A t \in Scaffolders : Meet(job[t], j)
        PROVE  DirInv'
    <2>1. /\ DirData' /\ \A t, u \in Scaffolders : Meet(job[t], job[u])'
          /\ job'[s] = j /\ \A t \in Scaffolders \ {s} : job'[t] = job[t]
      BY <1>3, <1>4, <1>9, DataKept
    <2>2. ASSUME NEW t \in Scaffolders
          PROVE  HasSeen(job[t])' /\ Migrating(job[t])'
      <3>1. PICK k \in DirJobs : k = job'[t]
        BY <2>1 DEF DirData
      <3>2. CASE t = s
        BY <1>9, <2>1, <3>2 DEF HasSeen, Migrating, Excused, Protected
      <3>3. CASE t # s
        <4>1. HasSeen(k)' /\ Migrating(k)'
          BY <1>1, <1>8, <2>1, <3>1, <3>3, JobFacts DEF Meet
        <4> QED
          BY <3>1, <4>1 DEF HasSeen, Migrating, Excused, Protected
      <3> QED
        BY <3>2, <3>3
    <2> QED
      BY <1>7, <2>1, <2>2 DEF DirInv
  <1>10. CASE Sets(s, NoJob)
    BY <1>9, <1>10, LetGo, NoJobFacts
  <1>11. CASE Turns(s, "drivers", "none")
    <2>1. PICK j \in DirJobs :
           /\ Sets(s, j) /\ j.pc = "drivers" /\ j.file = "none" /\ j.kind = "migrate" /\ j.body = job[s].body
           /\ DirPlan(j) /\ HasSeen(j) /\ HasSeen(j)' /\ \A t \in Scaffolders : Meet(job[t], j)
      BY <1>1, <1>11, TurnFacts DEF Points
    <2>2. Migrating(j)
      BY <1>1, <1>2, <2>1 DEF Migrating
    <2>3. Migrating(j)'
      BY <1>8, <2>1, <2>2
    <2> QED
      BY <1>9, <2>1, <2>3
  <1> QED
    BY <1>1, <1>10, <1>11

\* Whoever edits a file adds a text to those it has.
LEMMA EditedFacts ==
  ASSUME DirInv, NEW f \in DirectiveFiles, NEW n \in Notes, NEW c \in Edited(f, n)
  PROVE  /\ c \in Content /\ c.exists /\ (~c.markers => c.inside = {})
         /\ TextsOf(c) = TextsOf(text[f]) \cup {n} /\ text[f].outside \subseteq c.outside
  <1>1. PICK o : o = [text[f] EXCEPT !.exists = TRUE]
    OBVIOUS
  <1>2. /\ o \in Content /\ o.exists = TRUE /\ o.markers = text[f].markers
        /\ o.outside = text[f].outside /\ o.inside = text[f].inside /\ (~o.markers => o.inside = {})
    BY <1>1, JobFacts DEF Content, Sound, DirInv, DirData
  <1>3. \/ c = [o EXCEPT !.outside = @ \cup {n}]
        \/ c = [o EXCEPT !.markers = FALSE, !.gen = "none", !.outside = TextsOf(o) \cup {n}, !.inside = {}]
        \/ o.markers /\ c = [o EXCEPT !.inside = @ \cup {n}]
        \/ ~o.markers /\ c = [o EXCEPT !.markers = TRUE, !.outside = @ \cup {n}]
    BY <1>1 DEF Edited
  <1>4. TextsOf(o) = o.outside \cup o.inside /\ TextsOf(o) = TextsOf(text[f]) /\ TextsOf(o) \subseteq Notes
    BY <1>2 DEF TextsOf, Content
  <1>5. CASE c = [o EXCEPT !.outside = @ \cup {n}]
    <2>1. /\ c \in Content /\ c.exists = TRUE /\ c.markers = o.markers /\ c.outside = o.outside \cup {n}
          /\ c.inside = o.inside
      BY <1>2, <1>5 DEF Content
    <2>2. TextsOf(c) = TextsOf(o) \cup {n}
      BY <1>4, <2>1 DEF TextsOf
    <2> QED
      BY <1>2, <1>4, <2>1, <2>2
  <1>6. CASE c = [o EXCEPT !.markers = FALSE, !.gen = "none", !.outside = TextsOf(o) \cup {n}, !.inside = {}]
    <2>1. /\ c \in Content /\ c.exists = TRUE /\ c.markers = FALSE /\ c.outside = TextsOf(o) \cup {n}
          /\ c.inside = {}
      BY <1>2, <1>4, <1>6 DEF Content, Gens
    <2>2. TextsOf(c) = TextsOf(o) \cup {n}
      BY <1>4, <2>1 DEF TextsOf
    <2> QED
      BY <1>2, <1>4, <2>1, <2>2
  <1>7. CASE o.markers /\ c = [o EXCEPT !.inside = @ \cup {n}]
    <2>1. /\ c \in Content /\ c.exists = TRUE /\ c.markers = o.markers /\ c.outside = o.outside
          /\ c.inside = o.inside \cup {n}
      BY <1>2, <1>7 DEF Content
    <2>2. TextsOf(c) = TextsOf(o) \cup {n}
      BY <1>4, <2>1 DEF TextsOf
    <2> QED
      BY <1>2, <1>4, <1>7, <2>1, <2>2
  <1>8. CASE ~o.markers /\ c = [o EXCEPT !.markers = TRUE, !.outside = @ \cup {n}]
    <2>1. /\ c \in Content /\ c.exists = TRUE /\ c.markers = TRUE /\ c.outside = o.outside \cup {n}
          /\ c.inside = o.inside
      BY <1>2, <1>8 DEF Content
    <2>2. TextsOf(c) = TextsOf(o) \cup {n}
      BY <1>4, <2>1 DEF TextsOf
    <2> QED
      BY <1>2, <1>4, <2>1, <2>2
  <1> QED
    BY <1>3, <1>5, <1>6, <1>7, <1>8

\* Somebody edits a file while no request is at work on one.
LEMMA EditDirectivesInv ==
  ASSUME DirInv, NEW f \in DirectiveFiles, EditDirectives(f)
  PROVE  DirInv'
  <1>0. PICK n \in Notes \ written : \E c \in Edited(f, n) :
          /\ text' = [text EXCEPT ![f] = c] /\ written' = written \cup {n} /\ owed' = owed \cup c.outside
          /\ migrated' = migrated \ c.outside
    BY DEF EditDirectives
  <1>1. PICK c \in Edited(f, n) :
          /\ text' = [text EXCEPT ![f] = c] /\ written' = written \cup {n} /\ owed' = owed \cup c.outside
          /\ migrated' = migrated \ c.outside
    BY <1>0
  <1>2. Alone("none") /\ UNCHANGED <<dirConf, stack, job, scaffoldCrashes>>
    BY DEF EditDirectives
  <1>3. /\ c \in Content /\ c.exists /\ (~c.markers => c.inside = {})
        /\ TextsOf(c) = TextsOf(text[f]) \cup {n} /\ text[f].outside \subseteq c.outside
    BY <1>1, EditedFacts
  <1>4. /\ text' \in [DirectiveFiles -> Content] /\ text'[f] = c
        /\ \A g \in DirectiveFiles \ {f} : text'[g] = text[g]
    BY <1>1, <1>3 DEF DirInv, DirData
  <1>5. TextsOf(text[f]) \subseteq written /\ c.outside \subseteq TextsOf(c)
    BY DEF DirInv, DirData, Sound, TextsOf
  <1>6. owed' \subseteq written' /\ migrated' \subseteq written' /\ written' \subseteq Notes /\ written \subseteq written'
    BY <1>1, <1>3, <1>5 DEF DirInv, DirData
  <1>7. \A g \in DirectiveFiles : Sound(text[g])'
    <2>1. \A g \in DirectiveFiles : Sound(text[g])
      BY DEF DirInv, DirData
    <2>2. Sound(c)'
      BY <1>1, <1>3, <1>5 DEF Sound
    <2>3. ASSUME NEW g \in DirectiveFiles \ {f}
          PROVE  Sound(text[g])'
      BY <1>4, <1>6, <2>1 DEF Sound
    <2> QED
      BY <1>4, <2>2, <2>3 DEF Sound
  <1>8. ASSUME NEW s \in Scaffolders
        PROVE  /\ DirPlan(job[s])' /\ job'[s] = job[s]
               /\ job[s].kind # "migrate" /\ job[s].pc # "write"
    <2>1. /\ job[s].kind \in {"none", "reload"} /\ DirPlan(job[s]) /\ job'[s] = job[s]
      BY <1>2, JobFacts DEF Alone
    <2>2. Sound(job[s].body)' /\ Sound(job[s].seen)'
      BY <1>2, <1>6, <2>1 DEF DirPlan, Sound
    <2> QED
      BY <1>2, <2>1, <2>2 DEF DirPlan
  <1>9. DirData'
    BY <1>2, <1>4, <1>6, <1>7, <1>8 DEF DirInv, DirData, ConfType, dirConf
  <1>10. HandTextIsKept'
    <2>1. SUFFICES ASSUME NEW m \in owed' \ migrated'
                   PROVE  \E g \in DirectiveFiles : m \in text'[g].outside
      BY DEF HandTextIsKept
    <2>2. CASE m \in c.outside
      BY <1>4, <2>2
    <2>3. CASE m \notin c.outside
      <3>1. PICK g \in DirectiveFiles : m \in text[g].outside
        BY <1>1, <2>1, <2>3 DEF DirInv, HandTextIsKept
      <3> QED
        BY <1>3, <1>4, <3>1
    <2> QED
      BY <2>2, <2>3
  <1>11. \A s, t \in Scaffolders : Meet(job[s], job[t])'
    BY <1>2 DEF DirInv, Meet
  <1>12. \A s \in Scaffolders : HasSeen(job[s])' /\ Migrating(job[s])'
    BY <1>8 DEF HasSeen, Migrating
  <1> QED
    BY <1>9, <1>10, <1>11, <1>12 DEF DirInv

LEMMA PromoteStackInv ==
  ASSUME DirInv, PromoteStack
  PROVE  DirInv'
  <1>1. stack' = "stack" /\ UNCHANGED <<text, owed, migrated, written, conf, live, roster, job, scaffoldCrashes>>
    BY DEF PromoteStack, dirFiles, dirConf
  <1>2. DirData'
    BY <1>1 DEF DirInv, DirData, ConfType, DirPlan, Sound
  <1> QED
    BY <1>1, <1>2 DEF DirInv, HandTextIsKept, Meet, HasSeen, Migrating, Excused, Protected

\* A crash leaves the files and forgets the requests.
LEMMA ScaffoldCrashInv ==
  ASSUME DirInv, ScaffoldCrash
  PROVE  DirInv'
  <1>1. /\ job' = [s \in Scaffolders |-> NoJob] /\ scaffoldCrashes < MaxScaffoldCrashes
        /\ scaffoldCrashes' = scaffoldCrashes + 1 /\ conf.valid /\ live' = conf /\ roster' = conf
        /\ UNCHANGED <<text, owed, migrated, written, conf, stack>>
    BY DEF ScaffoldCrash, dirFiles
  <1>2. ConfType'
    BY <1>1, DirectivesAssumption DEF DirInv, DirData, ConfType
  <1>3. job' \in [Scaffolders -> DirJobs] /\ \A s \in Scaffolders : job'[s] = NoJob
    BY <1>1, NoJobFacts
  <1>4. DirPlan(NoJob)'
    BY <1>1, LetGo DEF DirPlan, Sound
  <1>5. DirData'
    BY <1>1, <1>2, <1>3, <1>4 DEF DirInv, DirData, DirPlan, Sound
  <1>6. \A s \in Scaffolders : HasSeen(job[s])' /\ Migrating(job[s])'
    BY <1>3, NoJobFacts DEF HasSeen, Migrating
  <1>7. \A s, t \in Scaffolders : Meet(job[s], job[t])'
    BY <1>3, NoJobFacts DEF Meet
  <1> QED
    BY <1>1, <1>5, <1>6, <1>7 DEF DirInv, HandTextIsKept

LEMMA DirStutter ==
  ASSUME DirInv, UNCHANGED dirVars
  PROVE  DirInv'
  <1>1. UNCHANGED <<text, owed, migrated, written, conf, live, roster, stack, job, scaffoldCrashes>>
    BY DEF dirVars, dirFiles, dirConf
  <1>2. DirData'
    BY <1>1 DEF DirInv, DirData, ConfType, DirPlan, Sound
  <1> QED
    BY <1>1, <1>2 DEF DirInv, HandTextIsKept, Meet, HasSeen, Migrating, Excused, Protected

LEMMA DirNextInv ==
  ASSUME DirInv, [DirNext]_dirVars
  PROVE  DirInv'
  <1>1. ASSUME NEW s \in Scaffolders, DirStep(s)
        PROVE  DirInv'
    BY <1>1, ReadFileInv, FileFailsInv, GenerateFileInv, StartGenerateInv, StartMigrateInv, ConfigInv, MigrateAgentsInv,
       MigrateClaudeInv, MigrateDriversInv, MigrateGeminiInv DEF DirStep
  <1> QED
    BY <1>1, EditDirectivesInv, PromoteStackInv, ScaffoldCrashInv, DirStutter DEF DirNext

LEMMA DirInitInv == DirInit => DirInv
  <1> SUFFICES ASSUME DirInit
               PROVE  DirInv
    OBVIOUS
  <1>1. /\ text = [f \in DirectiveFiles |-> NoFile] /\ owed = {} /\ migrated = {} /\ written = {} /\ stack = "generic"
        /\ live = conf /\ roster = conf /\ job = [s \in Scaffolders |-> NoJob] /\ scaffoldCrashes = 0
    BY DEF DirInit
  <1>2. PICK g \in BOOLEAN : conf = [valid |-> TRUE, gemini |-> g, tuned |-> "generic"]
    BY DEF DirInit
  <1>3. ConfType
    BY <1>1, <1>2, DirectivesAssumption DEF ConfType, Config
  <1>4. DirData
    BY <1>1, <1>3, NoJobFacts, ContentFacts, LetGo DEF DirData
  <1>5. \A s \in Scaffolders : job[s] = NoJob
    BY <1>1
  <1> QED
    BY <1>1, <1>4, <1>5, LetGo DEF DirInv, HandTextIsKept

\* DirInv is inductive: what requests of generate and migrate have read, carry and still have
\* to write, for any number of requests and texts, with crashes between any two steps.
THEOREM DirInvariance == DirSpec => []DirInv
  <1>1. DirInit => DirInv
    BY DirInitInv
  <1>2. DirInv /\ [DirNext]_dirVars => DirInv'
    BY DirNextInv
  <1> QED
    BY <1>1, <1>2, PTL DEF DirSpec

\* The files, the config and the requests keep their types.
THEOREM DirTypes == DirSpec => []DirTypeOK
  <1>1. DirInv => DirTypeOK
    BY DEF DirInv, DirData, ConfType, DirTypeOK, DirJobs, Points
  <1> QED
    BY <1>1, DirInvariance, PTL

\* "An existing file with no markers (tampered or legacy) is only replaced when force is
\* true": whatever requests of one kind overlap, fail or are cut off by a crash, every text
\* written outside the generated region stands outside the region of one of the files, until
\* a request with force drops it or migrate has put it into the region of AGENTS.md; what
\* becomes of it there is not said (NoProseIsLost does not hold).
THEOREM HandTextIsKeptHolds == DirSpec => []HandTextIsKept
  <1>1. DirInv => HandTextIsKept
    BY DEF DirInv
  <1> QED
    BY <1>1, DirInvariance, PTL

---------------------------------------------------------------------------
(* The architecture zone: a request alone in it puts it right.             *)

ArchSpec == ArchInit /\ [][ArchNext]_archVars

Artefacts == Sources \cup {Own}
Acts ==
  [op : {"none", "commit", "promote", "adr"},
   pc : {"rest", "prior", "changed", "scan", "archive", "copy", "record", "number", "author", "supersede",
         "summary", "done"},
   sel : Selections \cup {NoSelection}, kind : Kinds \cup {"none"}, old : SUBSET Artefacts, prior : SUBSET ADR,
   changed : BOOLEAN, n : 0..MaxADRs, alone : BOOLEAN, stood : SUBSET (Kinds \X Artefacts)]

ZoneType ==
  /\ roots \in [Kinds -> SUBSET Artefacts] /\ archive \in [Kinds -> SUBSET Artefacts]
  /\ decisions \subseteq ADR /\ summary \subseteq Selections /\ edited \in BOOLEAN

\* What a request is about at each point, whoever else is at work.  An ADR that it has found
\* to be an earlier choice has number 1, and so its own has another.
Course(a) ==
  /\ a.op = "none" => a.pc = "rest"
  /\ a.op # "none" => a.sel \in Selections /\ a.kind \in Kinds /\ a.pc # "rest"
  /\ a.op = "promote" => a.pc \in {"scan", "archive", "done"}
  /\ a.op = "adr" => a.pc \in {"number", "author", "done"}
  /\ \A p \in a.prior : p.n = 1
  /\ a.prior # {} => decisions # {}
  /\ a.op = "commit" /\ a.pc \in {"number", "author", "supersede"} => a.prior # {}
  /\ a.pc = "author" => a.n > 0 /\ (a.op = "commit" => a.n > 1)

\* How far a request that has the zone to itself has come.
After == {"record", "number", "author", "supersede", "summary", "done"}

Promoting(a) ==
  /\ \A k \in Kinds, c \in Artefacts : <<k, c>> \in a.stood => c \in roots[k] \cup archive[k]
  /\ a.pc = "archive" => a.old = roots[a.kind] \ {a.sel[a.kind]}
  /\ a.kind = "tech-stack" => roots["architecture"] = {a.sel["architecture"]}
  /\ a.op \in {"commit", "promote"} /\ a.pc \in After =>
       a.kind = "tech-stack" /\ roots["tech-stack"] = {a.sel["tech-stack"]}

Recording(a) ==
  a.op = "commit" =>
    /\ a.pc \in {"supersede", "summary", "done"} =>
         \E b \in decisions : /\ b.adopts = a.sel["architecture"] /\ b.status = "approved"
                              /\ a.pc = "supersede" => b.n > 1
    /\ a.pc = "done" => summary = {a.sel}

\* A request that has had the zone to itself from its begin.
Solo(a) == a.alone /\ a.op # "none"

ArchInv ==
  /\ ZoneType /\ act \in [Deciders -> Acts]
  /\ \A d \in Deciders :
       /\ Course(act[d])
       /\ Solo(act[d]) => Promoting(act[d]) /\ Recording(act[d])
  /\ \A d, e \in Deciders : Solo(act[d]) /\ e # d => act[e].op = "none"

---------------------------------------------------------------------------
(* Numbers of ADRs.                                                        *)

\* A set of numbers up to a bound has a greatest one.
LEMMA GreatestExists ==
  ASSUME NEW N \in Nat, NEW S \in SUBSET (1..N), S # {}
  PROVE  Max(S) \in S /\ \A x \in S : Max(S) >= x
  <1> DEFINE R == OpToRel(<, Nat)
             T == {N - x : x \in S}
  <1>1. IsWellFoundedOn(R, Nat)
    BY NatLessThanWellFounded
  <1>2. T \subseteq Nat /\ T # {}
    <2>1. \A x \in S : N - x \in Nat
      OBVIOUS
    <2> QED
      BY <2>1
  <1>3. \A i, j \in Nat : i < j => <<i, j>> \in R
    BY DEF OpToRel
  <1> HIDE DEF R
  <1>4. PICK m \in T : \A y \in T : <<y, m>> \notin R
    BY <1>1, <1>2, WFMin
  <1>5. PICK x \in S : m = N - x
    BY <1>4
  <1>6. \A y \in S : x >= y
    <2>1. SUFFICES ASSUME NEW y \in S, y > x
                   PROVE  FALSE
      OBVIOUS
    <2>2. N - y \in T /\ N - y < m /\ N - y \in Nat /\ m \in Nat
      BY <1>5, <2>1
    <2> QED
      BY <1>3, <1>4, <2>2
  <1> QED
    BY <1>6 DEF Max

\* NextADRNumber gives a number above 1 when there is an ADR.
LEMMA NumberIsNew ==
  ASSUME ZoneType, decisions # {}
  PROVE  /\ Max({a.n : a \in decisions}) \in Nat
         /\ 1 + Max({a.n : a \in decisions}) > 1
  <1> DEFINE S == {a.n : a \in decisions}
  <1>1. S \in SUBSET (1..MaxADRs) /\ S # {}
    BY DEF ZoneType, ADR
  <1>2. MaxADRs \in Nat
    BY ArchitectureAssumption
  <1> HIDE DEF S
  <1>3. Max(S) \in 1..MaxADRs
    BY <1>1, <1>2, GreatestExists
  <1> QED
    BY <1>2, <1>3 DEF S

---------------------------------------------------------------------------
(* The shapes of the steps.                                                *)

LEMMA RestingFacts ==
  /\ Resting \in Acts /\ Resting.op = "none" /\ Resting.pc = "rest" /\ Resting.prior = {}
  /\ ~Solo(Resting) /\ Course(Resting) /\ Course(Resting)'
  BY ArchitectureAssumption DEF Resting, Acts, Solo, Course

LEMMA ActFacts ==
  ASSUME ArchInv, NEW d \in Deciders
  PROVE  /\ act[d] \in Acts /\ ZoneType /\ Course(act[d])
         /\ act[d].pc # "rest" => act[d].op # "none"
         /\ act[d].op # "none" => act[d].sel \in Selections /\ act[d].kind \in Kinds
         /\ Solo(act[d]) => Promoting(act[d]) /\ Recording(act[d])
         /\ \A e \in Deciders : Solo(act[e]) /\ e # d => act[d].op = "none"
  BY DEF ArchInv, Course

\* A request at work becomes a: the others are not alone.
LEMMA Proceeds ==
  ASSUME ArchInv, NEW d \in Deciders, act[d].op # "none", NEW a \in Acts, Becomes(d, a),
         ZoneType', decisions # {} => decisions' # {}, Course(a)',
         Solo(a) => Solo(act[d]) /\ Promoting(a)' /\ Recording(a)'
  PROVE  ArchInv'
  <1>1. /\ act' \in [Deciders -> Acts] /\ act'[d] = a
        /\ \A e \in Deciders \ {d} : act'[e] = act[e]
    BY DEF ArchInv, Becomes
  <1>2. \A e \in Deciders \ {d} : ~Solo(act[e]) /\ Course(act[e])
    BY DEF ArchInv
  <1>3. ASSUME NEW e \in Deciders
        PROVE  /\ Course(act[e])'
               /\ Solo(act[e])' => Promoting(act[e])' /\ Recording(act[e])'
    <2>1. CASE e = d
      <3>1. Course(act[e])'
        BY <1>1, <2>1 DEF Course
      <3>2. Solo(act[e])' => Solo(a)
        BY <1>1, <2>1 DEF Solo
      <3>3. Solo(a) => Promoting(act[e])'
        BY <1>1, <2>1 DEF Promoting
      <3>4. Solo(a) => Recording(act[e])'
        BY <1>1, <2>1 DEF Recording
      <3> QED
        BY <3>1, <3>2, <3>3, <3>4
    <2>2. CASE e # d
      <3>1. ~Solo(act[e])'
        BY <1>1, <1>2, <2>2 DEF Solo
      <3>2. Course(act[e])'
        BY <1>1, <1>2, <2>2 DEF Course
      <3> QED
        BY <3>1, <3>2
    <2> QED
      BY <2>1, <2>2
  <1>4. ASSUME NEW e \in Deciders, NEW g \in Deciders, Solo(act[e])', g # e
        PROVE  act'[g].op = "none"
    <2>1. CASE e = d
      BY <1>1, <1>4, <2>1 DEF Solo, ArchInv
    <2>2. CASE e # d
      BY <1>1, <1>2, <1>4, <2>2 DEF Solo
    <2> QED
      BY <2>1, <2>2
  <1> QED
    BY <1>1, <1>3, <1>4 DEF ArchInv

\* A request at work looks at something: the zone stays as it is.
LEMMA LooksAt ==
  ASSUME ArchInv, NEW d \in Deciders, act[d].op # "none", NEW a \in Acts, Becomes(d, a),
         UNCHANGED <<roots, archive, decisions, summary, edited>>, Course(a),
         Solo(a) => Solo(act[d]) /\ Promoting(a) /\ Recording(a)
  PROVE  ArchInv'
  <1>1. ZoneType'
    BY ActFacts DEF ZoneType
  <1>2. Course(a)'
    BY DEF Course
  <1>3. Solo(a) => Promoting(a)' /\ Recording(a)'
    BY DEF Promoting, Recording
  <1> QED
    BY <1>1, <1>2, <1>3, Proceeds

---------------------------------------------------------------------------
(* The steps.                                                              *)

LEMMA BeginRequestInv ==
  ASSUME ArchInv, NEW d \in Deciders, NEW op \in {"commit", "promote", "adr"}, NEW sel \in Selections,
         BeginRequest(d, op, sel)
  PROVE  ArchInv'
  <1> DEFINE others == {e \in Deciders : act[e].op # "none"}
  <1>1. PICK place : place = CASE op = "commit" -> "prior" [] op = "promote" -> "scan" [] op = "adr" -> "number"
    OBVIOUS
  <1>2. PICK st : st = {kc \in Kinds \X Artefacts : kc[2] \in roots[kc[1]]}
    OBVIOUS
  <1>3. PICK al \in BOOLEAN : al = (others = {})
    OBVIOUS
  <1>4. PICK a : a = [Resting EXCEPT !.op = op, !.pc = place, !.sel = sel, !.kind = "architecture",
                                     !.alone = al, !.stood = st]
    OBVIOUS
  <1>5. /\ act[d].op = "none" /\ UNCHANGED <<roots, archive, decisions, summary, edited>>
        /\ act' = [e \in Deciders |-> IF e = d THEN a ELSE [act[e] EXCEPT !.alone = @ /\ e \notin others]]
    BY <1>1, <1>2, <1>3, <1>4 DEF BeginRequest, Artefacts
  <1>6. place \in {"prior", "scan", "number"} /\ (op = "commit" => place = "prior") /\ (op = "promote" => place = "scan")
        /\ (op = "adr" => place = "number")
    BY <1>1
  <1>7. /\ a \in Acts /\ a.op = op /\ a.pc = place /\ a.sel = sel /\ a.kind = "architecture" /\ a.alone = al
        /\ a.stood = st /\ a.prior = {}
    BY <1>2, <1>4, <1>6, RestingFacts DEF Acts, Kinds
  <1>8. Course(a)'
    BY <1>6, <1>7 DEF Course, Kinds
  <1>9. Promoting(a)' /\ Recording(a)'
    BY <1>2, <1>5, <1>6, <1>7 DEF Promoting, Recording, After
  <1>10. ASSUME NEW e \in Deciders \ {d}
         PROVE  /\ act'[e] \in Acts /\ Course(act[e])' /\ act'[e].op = act[e].op
                /\ ~Solo(act[e])'
    <2>1. PICK g \in BOOLEAN : g = (act[e].alone /\ e \notin others)
      OBVIOUS
    <2>2. act[e] \in Acts /\ Course(act[e])
      BY ActFacts
    <2>3. act'[e] = [act[e] EXCEPT !.alone = g]
      BY <1>5, <1>10, <2>1
    <2>4. /\ act'[e] \in Acts /\ act'[e].op = act[e].op /\ act'[e].pc = act[e].pc /\ act'[e].sel = act[e].sel
          /\ act'[e].kind = act[e].kind /\ act'[e].prior = act[e].prior /\ act'[e].n = act[e].n
          /\ act'[e].alone = g
      BY <2>2, <2>3 DEF Acts
    <2>5. Course(act[e])'
      BY <1>5, <2>2, <2>4 DEF Course
    <2>6. ~Solo(act[e])'
      BY <2>1, <2>4 DEF Solo
    <2> QED
      BY <2>4, <2>5, <2>6
  <1>11. act' \in [Deciders -> Acts] /\ act'[d] = a
    BY <1>5, <1>7, <1>10
  <1>12. ZoneType'
    BY <1>5, ActFacts DEF ZoneType
  <1>13. ASSUME NEW e \in Deciders
         PROVE  /\ Course(act[e])'
                /\ Solo(act[e])' => Promoting(act[e])' /\ Recording(act[e])'
    BY <1>8, <1>9, <1>10, <1>11 DEF Course, Promoting, Recording
  <1>14. ASSUME NEW e \in Deciders, NEW g \in Deciders, Solo(act[e])', g # e
         PROVE  act'[g].op = "none"
    <2>1. e = d
      BY <1>10, <1>14
    <2>2. al
      BY <1>7, <1>11, <1>14, <2>1 DEF Solo
    <2> QED
      BY <1>3, <1>10, <1>14, <2>1, <2>2
  <1> QED
    BY <1>11, <1>12, <1>13, <1>14 DEF ArchInv

\* An end, and what a request has looked at.
LEMMA LookingInv ==
  ASSUME ArchInv, NEW d \in Deciders,
         \/ EndRequest(d) \/ detectPriorRun(d) \/ SelectionChanged(d) \/ currentlyPromoted(d)
         \/ Readopt(d) \/ NextADRNumber(d)
  PROVE  ArchInv'
  <1>0. /\ act[d] \in Acts /\ ZoneType /\ Course(act[d]) /\ act[d].op \in {"none", "commit", "promote", "adr"}
        /\ act[d].pc # "rest" => act[d].op # "none"
        /\ Solo(act[d]) => Promoting(act[d]) /\ Recording(act[d])
    BY ActFacts DEF Acts
  <1>1. CASE EndRequest(d)
    BY <1>1, RestingFacts, LooksAt DEF EndRequest
  <1>2. CASE detectPriorRun(d)
    <2>1. /\ act[d].pc = "prior" /\ UNCHANGED <<roots, archive, decisions, summary, edited>>
      BY <1>2 DEF detectPriorRun
    <2>2. CASE Becomes(d, [act[d] EXCEPT !.pc = "changed"])
      <3>1. PICK a : a = [act[d] EXCEPT !.pc = "changed"]
        OBVIOUS
      <3>2. /\ a \in Acts /\ a.pc = "changed" /\ a.op = act[d].op /\ a.sel = act[d].sel /\ a.kind = act[d].kind
            /\ a.prior = act[d].prior /\ a.alone = act[d].alone /\ a.stood = act[d].stood /\ a.n = act[d].n
        BY <1>0, <3>1 DEF Acts
      <3> QED
        BY <1>0, <2>1, <2>2, <3>1, <3>2, LooksAt DEF Course, Solo, Promoting, Recording, After
    <2>3. ASSUME NEW b \in decisions, b.n = 1, Becomes(d, [act[d] EXCEPT !.pc = "changed", !.prior = {b}])
          PROVE  ArchInv'
      <3>1. PICK a : a = [act[d] EXCEPT !.pc = "changed", !.prior = {b}]
        OBVIOUS
      <3>2. /\ a \in Acts /\ a.pc = "changed" /\ a.op = act[d].op /\ a.sel = act[d].sel /\ a.kind = act[d].kind
            /\ a.prior = {b} /\ a.alone = act[d].alone /\ a.stood = act[d].stood /\ a.n = act[d].n
        BY <1>0, <2>3, <3>1 DEF Acts, ZoneType
      <3> QED
        BY <1>0, <2>1, <2>3, <3>1, <3>2, LooksAt DEF Course, Solo, Promoting, Recording, After
    <2> QED
      BY <1>2, <2>2, <2>3 DEF detectPriorRun
  <1>3. CASE SelectionChanged(d)
    <2>1. PICK ch \in BOOLEAN : ch = \E k \in Kinds : act[d].sel[k] \notin roots[k]
      OBVIOUS
    <2>2. PICK a : a = [act[d] EXCEPT !.pc = "scan", !.changed = ch]
      OBVIOUS
    <2>3. /\ act[d].pc = "changed" /\ UNCHANGED <<roots, archive, decisions, summary, edited>> /\ Becomes(d, a)
      BY <1>3, <2>1, <2>2 DEF SelectionChanged
    <2>4. /\ a \in Acts /\ a.pc = "scan" /\ a.op = act[d].op /\ a.sel = act[d].sel /\ a.kind = act[d].kind
          /\ a.prior = act[d].prior /\ a.alone = act[d].alone /\ a.stood = act[d].stood /\ a.n = act[d].n
      BY <1>0, <2>2 DEF Acts
    <2> QED
      BY <1>0, <2>3, <2>4, LooksAt DEF Course, Solo, Promoting, Recording, After
  <1>4. CASE currentlyPromoted(d)
    <2>2. PICK a : a = [act[d] EXCEPT !.pc = "archive", !.old = Others(d)]
      OBVIOUS
    <2>3. /\ act[d].pc = "scan" /\ UNCHANGED <<roots, archive, decisions, summary, edited>> /\ Becomes(d, a)
      BY <1>4, <2>2 DEF currentlyPromoted
    <2>4. act[d].kind \in Kinds
      BY <1>0, <2>3 DEF Course
    <2>5. Others(d) \in SUBSET Artefacts /\ Others(d) = roots[act[d].kind] \ {act[d].sel[act[d].kind]}
      BY <1>0, <2>4 DEF Others, ZoneType
    <2>6. /\ a \in Acts /\ a.pc = "archive" /\ a.op = act[d].op /\ a.sel = act[d].sel /\ a.kind = act[d].kind
          /\ a.prior = act[d].prior /\ a.alone = act[d].alone /\ a.stood = act[d].stood /\ a.n = act[d].n
          /\ a.old = Others(d)
      BY <1>0, <2>2, <2>5 DEF Acts
    <2> QED
      BY <1>0, <2>3, <2>5, <2>6, LooksAt DEF Course, Solo, Promoting, Recording, After
  <1>5. CASE Readopt(d)
    <2>2. PICK a : a = [act[d] EXCEPT !.pc = "number"]
      OBVIOUS
    <2>3. /\ act[d].pc = "record" /\ act[d].prior # {} /\ UNCHANGED <<roots, archive, decisions, summary, edited>>
          /\ Becomes(d, a)
      BY <1>5, <2>2 DEF Readopt, MovesTo
    <2>4. /\ a \in Acts /\ a.pc = "number" /\ a.op = act[d].op /\ a.sel = act[d].sel /\ a.kind = act[d].kind
          /\ a.prior = act[d].prior /\ a.alone = act[d].alone /\ a.stood = act[d].stood /\ a.n = act[d].n
      BY <1>0, <2>2 DEF Acts
    <2>5. act[d].op = "commit"
      BY <1>0, <2>3 DEF Course
    <2> QED
      BY <1>0, <2>3, <2>4, <2>5, LooksAt DEF Course, Solo, Promoting, Recording, After
  <1>6. CASE NextADRNumber(d)
    <2>1. PICK n : n = 1 + (IF decisions = {} THEN 0 ELSE Max({b.n : b \in decisions}))
      OBVIOUS
    <2>2. PICK a : a = [act[d] EXCEPT !.pc = "author", !.n = n]
      OBVIOUS
    <2>3. /\ act[d].pc = "number" /\ UNCHANGED <<roots, archive, decisions, summary, edited>>
          /\ n <= MaxADRs /\ Becomes(d, a)
      BY <1>6, <2>1, <2>2 DEF NextADRNumber
    <2>4. n \in 0..MaxADRs /\ n > 0 /\ (decisions # {} => n > 1)
      BY <1>0, <2>1, <2>3, NumberIsNew, ArchitectureAssumption
    <2>5. /\ a \in Acts /\ a.pc = "author" /\ a.op = act[d].op /\ a.sel = act[d].sel /\ a.kind = act[d].kind
          /\ a.prior = act[d].prior /\ a.alone = act[d].alone /\ a.stood = act[d].stood /\ a.n = n
      BY <1>0, <2>2, <2>4 DEF Acts
    <2>6. act[d].op = "commit" => n > 1
      BY <1>0, <2>3, <2>4 DEF Course
    <2>7. Course(a)
      BY <1>0, <2>3, <2>4, <2>5, <2>6 DEF Course
    <2>8. Solo(a) => Solo(act[d]) /\ Promoting(a) /\ Recording(a)
      BY <1>0, <2>3, <2>5 DEF Course, Solo, Promoting, Recording, After
    <2> QED
      BY <1>0, <2>3, <2>5, <2>7, <2>8, LooksAt
  <1> QED
    BY <1>1, <1>2, <1>3, <1>4, <1>5, <1>6

\* Earlier copies go to the archive.
LEMMA ArchiveFileInv ==
  ASSUME ArchInv, NEW d \in Deciders, archiveFile(d)
  PROVE  ArchInv'
  <1>0. /\ act[d] \in Acts /\ ZoneType /\ Course(act[d])
        /\ act[d].pc # "rest" => act[d].op # "none"
        /\ Solo(act[d]) => Promoting(act[d]) /\ Recording(act[d])
    BY ActFacts
  <1>1. PICK k : k = act[d].kind
    OBVIOUS
  <1>2. PICK c \in act[d].old :
          IF c \in roots[k]
          THEN /\ roots' = [roots EXCEPT ![k] = @ \ {c}]
               /\ archive' = [archive EXCEPT ![k] = @ \cup {c}]
               /\ Becomes(d, [act[d] EXCEPT !.old = @ \ {c}])
          ELSE /\ Becomes(d, Resting) \/ Becomes(d, [act[d] EXCEPT !.old = @ \ {c}])
               /\ UNCHANGED <<roots, archive>>
    BY <1>1 DEF archiveFile
  <1>3. act[d].pc = "archive" /\ UNCHANGED <<decisions, summary, edited>>
    BY DEF archiveFile
  <1>4. k \in Kinds /\ c \in Artefacts /\ act[d].op \in {"commit", "promote"}
    BY <1>0, <1>1, <1>2, <1>3 DEF Course, Acts
  <1>5. PICK a : a = [act[d] EXCEPT !.old = @ \ {c}]
    OBVIOUS
  <1>6. /\ a \in Acts /\ a.pc = "archive" /\ a.op = act[d].op /\ a.sel = act[d].sel /\ a.kind = act[d].kind
        /\ a.prior = act[d].prior /\ a.alone = act[d].alone /\ a.stood = act[d].stood /\ a.n = act[d].n
        /\ a.old = act[d].old \ {c}
    BY <1>0, <1>3, <1>5 DEF Acts
  <1>7. Course(a) /\ Course(a)'
    BY <1>0, <1>3, <1>6 DEF Course
  <1>8. CASE c \in roots[k]
    <2>1. /\ roots' = [roots EXCEPT ![k] = roots[k] \ {c}]
          /\ archive' = [archive EXCEPT ![k] = archive[k] \cup {c}] /\ Becomes(d, a)
      BY <1>2, <1>5, <1>8
    <2>2. /\ roots'[k] = roots[k] \ {c} /\ archive'[k] = archive[k] \cup {c}
          /\ \A j \in Kinds \ {k} : roots'[j] = roots[j] /\ archive'[j] = archive[j]
          /\ roots' \in [Kinds -> SUBSET Artefacts] /\ archive' \in [Kinds -> SUBSET Artefacts]
      BY <1>0, <1>4, <2>1 DEF ZoneType
    <2>3. ZoneType'
      BY <1>0, <1>3, <2>2 DEF ZoneType
    <2>4. Promoting(act[d]) => Promoting(a)'
      <3>1. SUFFICES ASSUME Promoting(act[d])
                     PROVE  Promoting(a)'
        OBVIOUS
      <3>2. \A j \in Kinds, x \in Artefacts : <<j, x>> \in a.stood => x \in roots'[j] \cup archive'[j]
        <4>1. SUFFICES ASSUME NEW j \in Kinds, NEW x \in Artefacts, <<j, x>> \in a.stood
                       PROVE  x \in roots'[j] \cup archive'[j]
          OBVIOUS
        <4>2. x \in roots[j] \cup archive[j]
          BY <1>6, <3>1, <4>1 DEF Promoting
        <4> QED
          BY <2>2, <4>2
      <3>3. a.old = roots'[k] \ {a.sel[k]}
        BY <1>1, <1>3, <1>6, <2>2, <3>1 DEF Promoting
      <3>4. k = "tech-stack" => roots'["architecture"] = roots["architecture"]
        BY <2>2 DEF Kinds
      <3> QED
        BY <1>1, <1>6, <3>1, <3>2, <3>3, <3>4 DEF Promoting, After
    <2>5. Recording(a)'
      BY <1>6 DEF Recording
    <2>6. Solo(a) => Solo(act[d])
      BY <1>6 DEF Solo
    <2> QED
      BY <1>0, <1>3, <1>4, <1>6, <1>7, <2>1, <2>3, <2>4, <2>5, <2>6, Proceeds
  <1>9. CASE c \notin roots[k]
    <2>1. UNCHANGED <<roots, archive>> /\ (Becomes(d, Resting) \/ Becomes(d, a))
      BY <1>2, <1>5, <1>9
    <2>2. ~Solo(act[d])
      BY <1>0, <1>1, <1>2, <1>3, <1>9 DEF Promoting
    <2>3. ~Solo(a)
      BY <1>6, <2>2 DEF Solo
    <2>4. act[d].op # "none"
      BY <1>4
    <2>5. CASE Becomes(d, Resting)
      BY <1>3, <2>1, <2>4, <2>5, RestingFacts, LooksAt
    <2>6. CASE Becomes(d, a)
      BY <1>3, <1>6, <1>7, <2>1, <2>3, <2>4, <2>6, LooksAt
    <2> QED
      BY <2>1, <2>5, <2>6
  <1> QED
    BY <1>8, <1>9

\* The copy takes its place.
LEMMA PromoteOneInv ==
  ASSUME ArchInv, NEW d \in Deciders, promoteOne(d)
  PROVE  ArchInv'
  <1>0. /\ act[d] \in Acts /\ ZoneType /\ Course(act[d])
        /\ act[d].pc # "rest" => act[d].op # "none"
        /\ Solo(act[d]) => Promoting(act[d]) /\ Recording(act[d])
    BY ActFacts
  <1>1. PICK k : k = act[d].kind
    OBVIOUS
  <1>2. /\ act[d].pc = "archive" /\ act[d].old = {} /\ UNCHANGED <<archive, decisions, summary, edited>>
        /\ roots' = [roots EXCEPT ![k] = roots[k] \cup {act[d].sel[k]}]
    BY <1>1 DEF promoteOne
  <1>3. k \in Kinds /\ act[d].op \in {"commit", "promote"} /\ act[d].sel \in Selections
    BY <1>0, <1>1, <1>2 DEF Course, Acts
  <1>4. act[d].sel[k] \in Artefacts
    BY <1>3 DEF Selections, Artefacts
  <1>5. /\ roots'[k] = roots[k] \cup {act[d].sel[k]} /\ \A j \in Kinds \ {k} : roots'[j] = roots[j]
        /\ roots' \in [Kinds -> SUBSET Artefacts]
    BY <1>0, <1>2, <1>3, <1>4 DEF ZoneType
  <1>6. ZoneType'
    BY <1>0, <1>2, <1>5 DEF ZoneType
  <1>7. Solo(act[d]) => roots'[k] = {act[d].sel[k]}
    BY <1>0, <1>1, <1>2, <1>5 DEF Promoting
  <1>8. \A j \in Kinds, x \in Artefacts :
          Solo(act[d]) /\ <<j, x>> \in act[d].stood => x \in roots'[j] \cup archive'[j]
    <2>1. SUFFICES ASSUME NEW j \in Kinds, NEW x \in Artefacts, Solo(act[d]), <<j, x>> \in act[d].stood
                   PROVE  x \in roots'[j] \cup archive'[j]
      OBVIOUS
    <2>2. x \in roots[j] \cup archive[j]
      BY <1>0, <2>1 DEF Promoting
    <2> QED
      BY <1>2, <1>5, <2>2
  <1>9. CASE k = "architecture"
    <2>1. PICK a : a = [act[d] EXCEPT !.pc = "scan", !.kind = "tech-stack"]
      OBVIOUS
    <2>2. /\ a \in Acts /\ a.pc = "scan" /\ a.op = act[d].op /\ a.sel = act[d].sel /\ a.kind = "tech-stack"
          /\ a.prior = act[d].prior /\ a.alone = act[d].alone /\ a.stood = act[d].stood /\ a.n = act[d].n
      BY <1>0, <2>1 DEF Acts, Kinds
    <2>3. Becomes(d, a)
      BY <1>1, <1>9, <2>1 DEF promoteOne
    <2>4. Course(a)'
      BY <1>0, <1>2, <1>3, <2>2 DEF Course, Kinds
    <2>5. Solo(a) => Solo(act[d]) /\ Promoting(a)' /\ Recording(a)'
      BY <1>7, <1>8, <1>9, <2>2 DEF Solo, Promoting, Recording, After
    <2> QED
      BY <1>2, <1>3, <1>6, <2>2, <2>3, <2>4, <2>5, Proceeds
  <1>10. CASE k # "architecture"
    <2>0. k = "tech-stack"
      BY <1>3, <1>10 DEF Kinds
    <2>1. PICK place : place = IF act[d].op = "promote" THEN "done" ELSE "record"
      OBVIOUS
    <2>2. PICK a : a = [act[d] EXCEPT !.pc = place]
      OBVIOUS
    <2>3. /\ a \in Acts /\ a.pc = place /\ a.op = act[d].op /\ a.sel = act[d].sel /\ a.kind = act[d].kind
          /\ a.prior = act[d].prior /\ a.alone = act[d].alone /\ a.stood = act[d].stood /\ a.n = act[d].n
      BY <1>0, <2>1, <2>2 DEF Acts
    <2>4. Becomes(d, a)
      BY <1>1, <1>10, <2>1, <2>2 DEF promoteOne, MovesTo
    <2>5. Course(a)'
      BY <1>0, <1>2, <1>3, <2>1, <2>3 DEF Course
    <2>6. Solo(a) => Solo(act[d]) /\ Promoting(a)' /\ Recording(a)'
      <3>1. SUFFICES ASSUME Solo(a)
                     PROVE  Solo(act[d]) /\ Promoting(a)' /\ Recording(a)'
        OBVIOUS
      <3>2. Solo(act[d])
        BY <2>3, <3>1 DEF Solo
      <3>3. roots'["architecture"] = {a.sel["architecture"]}
        BY <1>0, <1>1, <1>5, <2>0, <2>3, <3>2 DEF Promoting, Kinds
      <3>4. Promoting(a)'
        BY <1>1, <1>7, <1>8, <2>0, <2>1, <2>3, <3>2, <3>3 DEF Promoting
      <3>5. Recording(a)'
        BY <1>3, <2>1, <2>3 DEF Recording
      <3> QED
        BY <3>2, <3>4, <3>5
    <2> QED
      BY <1>2, <1>3, <1>6, <2>3, <2>4, <2>5, <2>6, Proceeds
  <1> QED
    BY <1>9, <1>10

LEMMA PutADRFacts ==
  ASSUME ZoneType, NEW b \in ADR, PutADR(b)
  PROVE  /\ decisions' \subseteq ADR /\ decisions' # {} /\ b \in decisions'
         /\ \A x \in decisions : x.n # b.n => x \in decisions'
  BY DEF PutADR, ZoneType

\* A request that has written its record, or the summary, moves on.
LEMMA RecordsAndMoves ==
  ASSUME ArchInv, NEW d \in Deciders, act[d].pc \in After \ {"done"}, NEW place \in After, MovesTo(d, place),
         UNCHANGED <<roots, archive, edited>>,
         decisions' \subseteq ADR, decisions # {} => decisions' # {}, summary' \subseteq Selections,
         act[d].op = "promote" => place = "done", act[d].op = "adr" => place \in {"number", "done"},
         place # "author", act[d].op = "commit" /\ place \in {"number", "supersede"} => act[d].prior # {},
         Solo(act[d]) /\ act[d].op = "commit" =>
           /\ place \in {"supersede", "summary", "done"} =>
                \E b \in decisions' : /\ b.adopts = act[d].sel["architecture"] /\ b.status = "approved"
                                      /\ place = "supersede" => b.n > 1
           /\ place = "done" => summary' = {act[d].sel}
  PROVE  ArchInv'
  <1>0. /\ act[d] \in Acts /\ ZoneType /\ Course(act[d])
        /\ act[d].pc # "rest" => act[d].op # "none"
        /\ Solo(act[d]) => Promoting(act[d]) /\ Recording(act[d])
    BY ActFacts
  <1>1. PICK a : a = [act[d] EXCEPT !.pc = place]
    OBVIOUS
  <1>2. /\ a \in Acts /\ a.pc = place /\ a.op = act[d].op /\ a.sel = act[d].sel /\ a.kind = act[d].kind
        /\ a.prior = act[d].prior /\ a.alone = act[d].alone /\ a.stood = act[d].stood /\ a.n = act[d].n
    BY <1>0, <1>1 DEF Acts, After
  <1>3. Becomes(d, a) /\ act[d].op # "none"
    BY <1>0, <1>1 DEF MovesTo, After
  <1>4. ZoneType'
    BY <1>0 DEF ZoneType
  <1>5. Course(a)'
    BY <1>0, <1>2 DEF Course, After
  <1>6. Solo(a) => Solo(act[d])
    BY <1>2 DEF Solo
  <1>7. Promoting(act[d]) => Promoting(a)'
    BY <1>2 DEF Promoting, After
  <1>8. Solo(act[d]) => Recording(a)'
    BY <1>2 DEF Recording
  <1> QED
    BY <1>0, <1>2, <1>3, <1>4, <1>5, <1>6, <1>7, <1>8, Proceeds

LEMMA WriteADR0001Inv ==
  ASSUME ArchInv, NEW d \in Deciders, WriteADR0001(d)
  PROVE  ArchInv'
  <1>0. /\ act[d] \in Acts /\ ZoneType /\ Course(act[d])
    BY ActFacts
  <1>1. /\ act[d].pc = "record" /\ MovesTo(d, "summary") /\ UNCHANGED <<roots, archive, summary, edited>>
    BY DEF WriteADR0001
  <1>2. act[d].op = "commit" /\ act[d].sel \in Selections
    BY <1>0, <1>1 DEF Course, Acts
  <1>3. Adopted(d) \in Sources /\ Adopted(d) = act[d].sel["architecture"]
    BY <1>2 DEF Adopted, Selections, Kinds
  <1>4. PICK b \in ADR : b.adopts = Adopted(d) /\ b.status = "approved" /\ PutADR(b)
    <2>1. CASE PutADR([n |-> 1, slug |-> "adopt", of |-> Adopted(d), adopts |-> Adopted(d), status |-> "approved"])
      BY <1>3, <2>1, ArchitectureAssumption DEF ADR, Slugs
    <2>2. CASE \E b \in decisions : PutADR([b EXCEPT !.adopts = Adopted(d), !.status = "approved"])
      <3>1. PICK b \in decisions : PutADR([b EXCEPT !.adopts = Adopted(d), !.status = "approved"])
        BY <2>2
      <3>2. PICK x : x = [b EXCEPT !.adopts = Adopted(d), !.status = "approved"]
        OBVIOUS
      <3>3. x \in ADR /\ x.adopts = Adopted(d) /\ x.status = "approved"
        BY <1>0, <1>3, <3>2 DEF ADR, ZoneType
      <3> QED
        BY <3>1, <3>2, <3>3
    <2> QED
      BY <2>1, <2>2 DEF WriteADR0001
  <1>5. /\ decisions' \subseteq ADR /\ decisions' # {} /\ b \in decisions'
    BY <1>0, <1>4, PutADRFacts
  <1>6. summary' \subseteq Selections
    BY <1>0, <1>1 DEF ZoneType
  <1> QED
    BY <1>1, <1>2, <1>3, <1>4, <1>5, <1>6, RecordsAndMoves DEF After

LEMMA CreateADRInv ==
  ASSUME ArchInv, NEW d \in Deciders, CreateADR(d)
  PROVE  ArchInv'
  <1>0. /\ act[d] \in Acts /\ ZoneType /\ Course(act[d])
    BY ActFacts
  <1>1. act[d].pc = "author" /\ UNCHANGED <<roots, archive, summary, edited>>
    BY DEF CreateADR
  <1>2. act[d].op \in {"commit", "adr"} /\ act[d].sel \in Selections /\ (act[d].op = "commit" => act[d].prior # {})
    BY <1>0, <1>1 DEF Course, Acts
  <1>3. Adopted(d) \in Sources /\ Adopted(d) = act[d].sel["architecture"]
    BY <1>2 DEF Adopted, Selections, Kinds
  <1>4. PICK asked \in BOOLEAN : asked = (act[d].op = "adr")
    OBVIOUS
  <1>5. PICK stands \in {"draft", "approved"} :
          /\ ~asked => stands = "approved"
          /\ LET a == [n |-> act[d].n, slug |-> IF asked THEN "other" ELSE "readopt", of |-> Adopted(d),
                       adopts |-> IF asked THEN Own ELSE Adopted(d), status |-> stands]
             IN \/ MovesTo(d, "number") /\ UNCHANGED decisions
                \/ PutADR(a) /\ MovesTo(d, IF asked THEN "done" ELSE "supersede")
    BY <1>4 DEF CreateADR
  <1>6. summary' \subseteq Selections
    BY <1>0, <1>1 DEF ZoneType
  <1>7. CASE MovesTo(d, "number") /\ UNCHANGED decisions
    <2>1. decisions' \subseteq ADR
      BY <1>0, <1>7 DEF ZoneType
    <2> QED
      BY <1>1, <1>2, <1>6, <1>7, <2>1, RecordsAndMoves DEF After
  <1>8. ASSUME NEW a, a = [n |-> act[d].n, slug |-> IF asked THEN "other" ELSE "readopt", of |-> Adopted(d),
                           adopts |-> IF asked THEN Own ELSE Adopted(d), status |-> stands],
               PutADR(a), MovesTo(d, IF asked THEN "done" ELSE "supersede")
        PROVE  ArchInv'
    <2>1. a.n = act[d].n /\ (~asked => a.adopts = Adopted(d) /\ a.status = "approved")
      BY <1>5, <1>8
    <2>2. act[d].n \in 1..MaxADRs /\ (~asked => a.n > 1)
      <3>1. ~asked => act[d].op = "commit"
        BY <1>2, <1>4
      <3>2. act[d].n > 0 /\ (act[d].op = "commit" => act[d].n > 1)
        BY <1>0, <1>1 DEF Course
      <3>3. act[d].n \in 0..MaxADRs /\ MaxADRs \in Nat
        BY <1>0, ArchitectureAssumption DEF Acts
      <3>4. act[d].n \in 1..MaxADRs
        BY <3>2, <3>3
      <3> QED
        BY <2>1, <3>1, <3>2, <3>4
    <2>3. a \in ADR
      BY <1>3, <1>5, <1>8, <2>2 DEF ADR, Slugs
    <2>4. decisions' \subseteq ADR /\ decisions' # {} /\ a \in decisions'
      BY <1>0, <1>8, <2>3, PutADRFacts
    <2>5. CASE asked
      BY <1>1, <1>2, <1>4, <1>6, <1>8, <2>4, <2>5, RecordsAndMoves DEF After
    <2>6. CASE ~asked
      BY <1>1, <1>2, <1>3, <1>4, <1>6, <1>8, <2>1, <2>2, <2>4, <2>6, RecordsAndMoves DEF After
    <2> QED
      BY <2>5, <2>6
  <1> QED
    BY <1>5, <1>7, <1>8

\* The record that is superseded has number 1, and the new one another.
LEMMA SupersedeInv ==
  ASSUME ArchInv, NEW d \in Deciders, Supersede(d)
  PROVE  ArchInv'
  <1>0. /\ act[d] \in Acts /\ ZoneType /\ Course(act[d])
        /\ Solo(act[d]) => Promoting(act[d]) /\ Recording(act[d])
    BY ActFacts
  <1>1. /\ act[d].pc = "supersede" /\ MovesTo(d, "summary") /\ UNCHANGED <<roots, archive, summary, edited>>
    BY DEF Supersede
  <1>2. act[d].op = "commit"
    BY <1>0, <1>1 DEF Course, Acts
  <1>3. PICK a \in decisions, p \in act[d].prior : a.n = p.n /\ PutADR([a EXCEPT !.status = "superseded"])
    BY DEF Supersede
  <1>4. PICK x : x = [a EXCEPT !.status = "superseded"]
    OBVIOUS
  <1>5. x \in ADR /\ x.n = 1 /\ PutADR(x)
    BY <1>0, <1>3, <1>4 DEF Course, ADR, ZoneType
  <1>6. /\ decisions' \subseteq ADR /\ decisions' # {} /\ \A b \in decisions : b.n # 1 => b \in decisions'
    BY <1>0, <1>5, PutADRFacts
  <1>7. summary' \subseteq Selections
    BY <1>0, <1>1 DEF ZoneType
  <1>8. ASSUME Solo(act[d])
        PROVE  \E b \in decisions' : b.adopts = act[d].sel["architecture"] /\ b.status = "approved"
    <2>1. PICK b \in decisions : b.adopts = act[d].sel["architecture"] /\ b.status = "approved" /\ b.n > 1
      BY <1>0, <1>1, <1>2, <1>8 DEF Recording
    <2> QED
      BY <1>6, <2>1
  <1> QED
    BY <1>1, <1>2, <1>6, <1>7, <1>8, RecordsAndMoves DEF After

LEMMA WriteSummaryInv ==
  ASSUME ArchInv, NEW d \in Deciders, WriteSummary(d)
  PROVE  ArchInv'
  <1>0. /\ act[d] \in Acts /\ ZoneType /\ Course(act[d])
        /\ Solo(act[d]) => Promoting(act[d]) /\ Recording(act[d])
    BY ActFacts
  <1>1. /\ act[d].pc = "summary" /\ MovesTo(d, "done") /\ UNCHANGED <<roots, archive, decisions, edited>>
        /\ summary' = {act[d].sel}
    BY DEF WriteSummary
  <1>2. act[d].op = "commit" /\ act[d].sel \in Selections
    BY <1>0, <1>1 DEF Course, Acts
  <1>3. decisions' \subseteq ADR /\ summary' \subseteq Selections
    BY <1>0, <1>1, <1>2 DEF ZoneType
  <1>4. Solo(act[d]) => \E b \in decisions' : b.adopts = act[d].sel["architecture"] /\ b.status = "approved"
    BY <1>0, <1>1, <1>2 DEF Recording
  <1> QED
    BY <1>1, <1>2, <1>3, <1>4, RecordsAndMoves DEF After

\* Somebody writes an artefact while nobody is at work; a stutter.
LEMMA NobodyInv ==
  ASSUME ArchInv, (\E k \in Kinds : EditRoot(k)) \/ UNCHANGED archVars
  PROVE  ArchInv'
  <1>1. CASE UNCHANGED archVars
    BY <1>1 DEF archVars, ArchInv, ZoneType, Course, Solo, Promoting, Recording
  <1>2. ASSUME NEW k \in Kinds, EditRoot(k)
        PROVE  ArchInv'
    <2>1. /\ edited' = TRUE /\ \A d \in Deciders : act[d].op = "none"
          /\ roots' = [roots EXCEPT ![k] = roots[k] \cup {Own}]
          /\ UNCHANGED <<archive, decisions, summary, act>>
      BY <1>2 DEF EditRoot
    <2>2. ZoneType'
      BY <2>1 DEF ArchInv, ZoneType, Artefacts
    <2>3. \A d \in Deciders : ~Solo(act[d])' /\ Course(act[d])'
      BY <2>1 DEF ArchInv, Solo, Course
    <2> QED
      BY <2>1, <2>2, <2>3 DEF ArchInv
  <1> QED
    BY <1>1, <1>2

LEMMA ArchNextInv ==
  ASSUME ArchInv, [ArchNext]_archVars
  PROVE  ArchInv'
  <1>1. ASSUME NEW d \in Deciders, ArchStep(d)
        PROVE  ArchInv'
    BY <1>1, BeginRequestInv, LookingInv, ArchiveFileInv, PromoteOneInv, WriteADR0001Inv, CreateADRInv,
       SupersedeInv, WriteSummaryInv DEF ArchStep
  <1> QED
    BY <1>1, NobodyInv DEF ArchNext

LEMMA ArchInitInv == ArchInit => ArchInv
  <1> SUFFICES ASSUME ArchInit
               PROVE  ArchInv
    OBVIOUS
  <1>1. ZoneType
    BY DEF ArchInit, ZoneType
  <1>2. act \in [Deciders -> Acts] /\ \A d \in Deciders : act[d] = Resting
    BY RestingFacts DEF ArchInit
  <1> QED
    BY <1>1, <1>2, RestingFacts DEF ArchInv, Solo

\* ArchInv is inductive: how far a request that has the zone to itself has come, in whatever
\* state earlier requests have left the root, the archive and the decisions.
THEOREM ArchInvariance == ArchSpec => []ArchInv
  <1>1. ArchInit => ArchInv
    BY ArchInitInv
  <1>2. ArchInv /\ [ArchNext]_archVars => ArchInv'
    BY ArchNextInv
  <1> QED
    BY <1>1, <1>2, PTL DEF ArchSpec

\* The zone and its requests keep their types.
THEOREM ArchTypes == ArchSpec => []ArchTypeOK
  <1>1. ArchInv => ArchTypeOK
    BY DEF ArchInv, ZoneType, ArchTypeOK, Acts, Artefacts
  <1> QED
    BY <1>1, ArchInvariance, PTL

\* Whatever earlier requests that failed, were cut off or ran together have left behind, one
\* request of Promote or of the wizard that has the zone to itself ends with exactly its
\* selection promoted, nothing lost that stood there, and a commit on record.
THEOREM CommitHealsHolds == ArchSpec => []CommitHeals
  <1>1. ArchInv => CommitHeals
    <2>1. SUFFICES ASSUME ArchInv, NEW d \in Deciders, act[d].pc = "done", act[d].alone
                   PROVE  /\ act[d].op \in {"commit", "promote"} => IsPromoted(act[d])
                          /\ act[d].op = "commit" => IsOnRecord(act[d])
      BY DEF CommitHeals
    <2>2. Solo(act[d]) /\ Promoting(act[d]) /\ Recording(act[d])
      BY <2>1, ActFacts DEF Solo
    <2>3. act[d].op \in {"commit", "promote"} => IsPromoted(act[d])
      BY <2>1, <2>2 DEF Promoting, After, IsPromoted, Kinds, Artefacts
    <2>4. act[d].op = "commit" => IsOnRecord(act[d])
      BY <2>1, <2>2 DEF Recording, IsOnRecord
    <2> QED
      BY <2>3, <2>4
  <1> QED
    BY <1>1, ArchInvariance, PTL

---------------------------------------------------------------------------
(* The composition.                                                        *)

\* A step of the composition is a step of one of its parts, and the others stand still.
LEMMA ProjectStepIs ==
  ASSUME [ProjectNext]_projectVars
  PROVE  [Next]_vars /\ [DirNext]_dirVars /\ [ProjNext]_projVars /\ [ArchNext]_archVars
  <1>1. CASE UNCHANGED projectVars
    BY <1>1 DEF projectVars
  <1>2. CASE RunStep
    BY <1>2 DEF RunStep
  <1>3. CASE DirectiveStep
    BY <1>3 DEF DirectiveStep
  <1>4. CASE ProjectStep
    BY <1>4 DEF ProjectStep
  <1>5. CASE ArchitectureStep
    BY <1>5 DEF ArchitectureStep
  <1> QED
    BY <1>1, <1>2, <1>3, <1>4, <1>5 DEF ProjectNext

\* The composition of agent runs, directive files, projects and the architecture zone adds no
\* behaviour to any of them.
THEOREM ProjectImplements == ProjectSpec => Spec /\ DirSpec /\ ProjSpec /\ ArchSpec
  <1>1. ProjectInit => Init /\ DirInit /\ ProjInit /\ ArchInit
    BY DEF ProjectInit
  <1>2. [ProjectNext]_projectVars => [Next]_vars /\ [DirNext]_dirVars /\ [ProjNext]_projVars /\ [ArchNext]_archVars
    BY ProjectStepIs
  <1> QED
    BY <1>1, <1>2, PTL DEF ProjectSpec, Spec, DirSpec, ProjSpec, ArchSpec

\* In the composition every variable of the four keeps its type.
THEOREM ProjectTypes == ProjectSpec => []ProjectTypeOK
  <1>1. TypeOK /\ DirTypeOK /\ ProjTypeOK /\ ArchTypeOK => ProjectTypeOK
    BY DEF ProjectTypeOK
  <1> QED
    BY <1>1, ProjectImplements, TypeCorrect, DirTypes, ProjTypes, ArchTypes, PTL

\* So the specification the run checks has its properties for every value of the constants.
THEOREM ProjectProperties ==
  ProjectSpec => /\ [](SlotsExact /\ LockKept /\ AnnouncedLast /\ RunningTestIsInQa)
                 /\ [](HandTextIsKept /\ RegistryAgrees /\ CommitHeals)
                 /\ PeopleDirsSurvive
  BY ProjectImplements, SlotsExactHolds, LockKeptHolds, AnnouncedLastHolds, RunningTestIsInQaHolds,
     HandTextIsKeptHolds, RegistryAgreesHolds, CommitHealsHolds, PeopleDirsSurviveHolds, PTL

=============================================================================

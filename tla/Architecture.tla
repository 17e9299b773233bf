---------------------------- MODULE Architecture ----------------------------
(***************************************************************************)
(* The architecture zone of a project, lifecycle/architecture:             *)
(* internal/architecture (Promote, SelectionChanged, CreateADR,            *)
(* WriteADR0001, Supersede, WriteSummary) and its handlers in              *)
(* internal/http/architecture.go and architecture_wizard.go.               *)
(*                                                                         *)
(* A selection names a source in the catalogue for each kind of artefact.  *)
(* Promotion puts a copy of the source in the root of the zone, under the  *)
(* source's name, with the source as its parent; copies of other sources   *)
(* go to the archive first (numbered, if need be: the model keeps which    *)
(* sources have an archived copy, not how many).  The files are looked at  *)
(* and written one by one and nothing is locked, so that requests          *)
(* interleave, and one that fails or is cut off by the end of the process  *)
(* leaves what it has done.                                                *)
(***************************************************************************)
EXTENDS Integers, FiniteSets, FiniteSetsExt

CONSTANTS
  Sources,   \* sources in the catalogue, of either kind
  Own,       \* a root artefact somebody wrote by hand, with no parent in the catalogue
  Deciders,  \* concurrent requests
  MaxADRs    \* bound on ADR numbers

ASSUME ArchitectureAssumption == Own \notin Sources /\ MaxADRs \in Nat \ {0}

Kinds      == {"architecture", "tech-stack"}
Selections == [Kinds -> Sources]
Slugs      == {"adopt", "readopt", "other"}

VARIABLES
  roots,      \* kind -> the sources that have a copy in the root
  archive,    \* kind -> the sources that have a copy in the archive
  decisions,  \* the ADRs in decisions/
  summary,    \* what architecture-summary.md says is selected; {} or {selection}
  act,        \* decider -> its request
  edited      \* somebody has written an artefact by hand

archVars == <<roots, archive, decisions, summary, act, edited>>

\* An ADR's file name is its number and slug (with the architecture in it).
\* What it adopts is Own in an ADR somebody asked for.
ADR == [n : 1..MaxADRs, slug : Slugs, of : Sources, adopts : Sources \cup {Own},
        status : {"draft", "approved", "superseded"}]

NoSelection == [k \in Kinds |-> Own]
Resting == [op |-> "none", pc |-> "rest", sel |-> NoSelection, kind |-> "none", old |-> {},
            prior |-> {}, changed |-> FALSE, n |-> 0, alone |-> TRUE, stood |-> {}]

ArchTypeOK ==
  /\ roots \in [Kinds -> SUBSET (Sources \cup {Own})]
  /\ archive \in [Kinds -> SUBSET (Sources \cup {Own})]
  /\ decisions \subseteq ADR /\ summary \subseteq Selections
  /\ \A d \in Deciders :
       /\ act[d].op \in {"none", "commit", "promote", "adr"}
       /\ act[d].pc \in {"rest", "prior", "changed", "scan", "archive", "copy", "record",
                         "number", "author", "supersede", "summary", "done"}
       /\ act[d].sel \in Selections \cup {NoSelection}
       /\ act[d].prior \subseteq ADR /\ act[d].n \in 0..MaxADRs
  /\ edited \in BOOLEAN

Becomes(d, a) == act' = [act EXCEPT ![d] = a]
MovesTo(d, pc) == Becomes(d, [act[d] EXCEPT !.pc = pc])

---------------------------------------------------------------------------
(* The requests. *)

\* handlePromoteArchitecture, handleCommitArchitectureWizard (after it has found both
\* sources in the catalogue), handleCreateADR.  History: whether it has the zone to itself,
\* and what stands in the root.
BeginRequest(d, op, sel) ==
  LET others == {e \in Deciders : act[e].op # "none"}
      pc == CASE op = "commit" -> "prior" [] op = "promote" -> "scan" [] op = "adr" -> "number"
  IN
  /\ act[d].op = "none"
  /\ act' = [e \in Deciders |->
       IF e = d THEN [Resting EXCEPT !.op = op, !.pc = pc, !.sel = sel, !.kind = "architecture",
                        !.alone = others = {},
                        !.stood = {kc \in Kinds \X (Sources \cup {Own}) : kc[2] \in roots[kc[1]]}]
       ELSE [act[e] EXCEPT !.alone = @ /\ e \notin others]]
  /\ UNCHANGED <<roots, archive, decisions, summary, edited>>

\* The answer, or an error in the middle, or the end of the process.
EndRequest(d) ==
  /\ act[d].op # "none" /\ Becomes(d, Resting)
  /\ UNCHANGED <<roots, archive, decisions, summary, edited>>

\* detectPriorRun: the first of the files named adr-0001-*.
detectPriorRun(d) ==
  /\ act[d].pc = "prior"
  /\ LET first == {a \in decisions : a.n = 1} IN
     IF first = {} THEN Becomes(d, [act[d] EXCEPT !.pc = "changed"])
     ELSE \E a \in first : Becomes(d, [act[d] EXCEPT !.pc = "changed", !.prior = {a}])
  /\ UNCHANGED <<roots, archive, decisions, summary, edited>>

\* SelectionChanged.
SelectionChanged(d) ==
  /\ act[d].pc = "changed"
  /\ Becomes(d, [act[d] EXCEPT !.pc = "scan", !.changed = \E k \in Kinds : act[d].sel[k] \notin roots[k]])
  /\ UNCHANGED <<roots, archive, decisions, summary, edited>>

---------------------------------------------------------------------------
(* Promote: promoteOne for the architecture, then for the tech stack. *)

Others(d) == roots[act[d].kind] \ {act[d].sel[act[d].kind]}

\* Mutant: there is only one earlier copy.
currentlyPromotedBug(d) ==
  /\ act[d].pc = "scan"
  /\ \E old \in SUBSET Others(d) :
       /\ Cardinality(old) <= 1 /\ (old = {} <=> Others(d) = {})
       /\ Becomes(d, [act[d] EXCEPT !.pc = "archive", !.old = old])
  /\ UNCHANGED <<roots, archive, decisions, summary, edited>>

\* The copies in the root, but for those of the source itself.
currentlyPromoted(d) ==
  /\ act[d].pc = "scan"
  /\ Becomes(d, [act[d] EXCEPT !.pc = "archive", !.old = Others(d)])
  /\ UNCHANGED <<roots, archive, decisions, summary, edited>>

\* One after the other; a copy somebody else has moved away is passed over, or, when that
\* happens between the read and the rename, an error.
archiveFile(d) ==
  LET k == act[d].kind IN
  /\ act[d].pc = "archive" /\ act[d].old # {}
  /\ \E c \in act[d].old :
       IF c \in roots[k]
       THEN /\ roots' = [roots EXCEPT ![k] = @ \ {c}]
            /\ archive' = [archive EXCEPT ![k] = @ \cup {c}]
            /\ Becomes(d, [act[d] EXCEPT !.old = @ \ {c}])
       ELSE /\ Becomes(d, Resting) \/ Becomes(d, [act[d] EXCEPT !.old = @ \ {c}])
            /\ UNCHANGED <<roots, archive>>
  /\ UNCHANGED <<decisions, summary, edited>>

\* The copy, with its parent stamped, replaces what has its name.
promoteOne(d) ==
  LET k == act[d].kind IN
  /\ act[d].pc = "archive" /\ act[d].old = {}
  /\ roots' = [roots EXCEPT ![k] = @ \cup {act[d].sel[k]}]
  /\ IF k = "architecture" THEN Becomes(d, [act[d] EXCEPT !.pc = "scan", !.kind = "tech-stack"])
     ELSE MovesTo(d, IF act[d].op = "promote" THEN "done" ELSE "record")
  /\ UNCHANGED <<archive, decisions, summary, edited>>

---------------------------------------------------------------------------
(* The record of the decision. *)

PutADR(a) == decisions' = {b \in decisions : b.n # a.n \/ b.slug # a.slug \/ b.of # a.of} \cup {a}

Adopted(d) == act[d].sel["architecture"]

\* handleCommitArchitectureWizard's switch: a first run, or the same selection, or another.
\* WriteADR0001 looks for the file again, and writes it as approved (in one step here, as
\* the reading and writing of Supersede).
WriteADR0001(d) ==
  LET first == {a \in decisions : a.n = 1} IN
  /\ act[d].pc = "record" /\ (act[d].prior = {} \/ ~act[d].changed)
  /\ IF first = {}
     THEN PutADR([n |-> 1, slug |-> "adopt", of |-> Adopted(d), adopts |-> Adopted(d), status |-> "approved"])
     ELSE \E a \in first : PutADR([a EXCEPT !.adopts = Adopted(d), !.status = "approved"])
  /\ MovesTo(d, "summary")
  /\ UNCHANGED <<roots, archive, summary, edited>>

Readopt(d) ==
  /\ act[d].pc = "record" /\ act[d].prior # {} /\ act[d].changed
  /\ MovesTo(d, "number")
  /\ UNCHANGED <<roots, archive, decisions, summary, edited>>

\* One more than the highest number; 1 without ADRs.
NextADRNumber(d) ==
  /\ act[d].pc = "number"
  /\ LET n == 1 + (IF decisions = {} THEN 0 ELSE Max({a.n : a \in decisions})) IN
     n <= MaxADRs /\ Becomes(d, [act[d] EXCEPT !.pc = "author", !.n = n])
  /\ UNCHANGED <<roots, archive, decisions, summary, edited>>

\* CreateADR: a file of this very name sends it back for another number (twice is an error,
\* see EndRequest); one with the same number and another slug does not.
CreateADR(d) ==
  LET asked == act[d].op = "adr" IN
  /\ act[d].pc = "author"
  /\ \E status \in IF asked THEN {"draft", "approved"} ELSE {"approved"} :
       LET a == [n |-> act[d].n, slug |-> IF asked THEN "other" ELSE "readopt", of |-> Adopted(d),
                 adopts |-> IF asked THEN Own ELSE Adopted(d), status |-> status]
       IN IF \E b \in decisions : b.n = a.n /\ b.slug = a.slug /\ b.of = a.of
          THEN MovesTo(d, "number") /\ UNCHANGED decisions
          ELSE PutADR(a) /\ MovesTo(d, IF asked THEN "done" ELSE "supersede")
  /\ UNCHANGED <<roots, archive, summary, edited>>

\* Supersede: the prior ADR is read, patched and written.
Supersede(d) ==
  /\ act[d].pc = "supersede"
  /\ \E a \in decisions, p \in act[d].prior :
       /\ a.n = p.n /\ a.slug = p.slug /\ a.of = p.of
       /\ PutADR([a EXCEPT !.status = "superseded"])
  /\ MovesTo(d, "summary")
  /\ UNCHANGED <<roots, archive, summary, edited>>

\* WriteSummary; then the index learns of all the files, and the wizard's draft is cleared.
WriteSummary(d) ==
  /\ act[d].pc = "summary"
  /\ summary' = {act[d].sel}
  /\ MovesTo(d, "done")
  /\ UNCHANGED <<roots, archive, decisions, edited>>

---------------------------------------------------------------------------

\* Somebody writes an artefact of the kind by hand.
EditRoot(k) ==
  /\ ~edited /\ edited' = TRUE
  /\ \A d \in Deciders : act[d].op = "none"
  /\ roots' = [roots EXCEPT ![k] = @ \cup {Own}]
  /\ UNCHANGED <<archive, decisions, summary, act>>

ArchInit ==
  /\ roots = [k \in Kinds |-> {}] /\ archive = [k \in Kinds |-> {}]
  /\ decisions = {} /\ summary = {} /\ edited = FALSE
  /\ act = [d \in Deciders |-> Resting]

ArchStep(d) ==
  \/ \E op \in {"commit", "promote", "adr"}, sel \in Selections : BeginRequest(d, op, sel)
  \/ EndRequest(d)
  \/ detectPriorRun(d) \/ SelectionChanged(d)
  \/ currentlyPromoted(d) \/ archiveFile(d) \/ promoteOne(d)
  \/ WriteADR0001(d) \/ Readopt(d) \/ NextADRNumber(d) \/ CreateADR(d) \/ Supersede(d)
  \/ WriteSummary(d)

ArchNext ==
  \/ \E d \in Deciders : ArchStep(d)
  \/ \E k \in Kinds : EditRoot(k)

---------------------------------------------------------------------------
(* Properties. *)

\* The selection alone is promoted, and what stood in the root is in the archive.
IsPromoted(a) ==
  \A k \in Kinds :
    /\ roots[k] = {a.sel[k]}
    /\ \A c \in Sources \cup {Own} : <<k, c>> \in a.stood => c \in roots[k] \cup archive[k]

\* An approved ADR adopts the architecture, and the summary names the selection.
IsOnRecord(a) ==
  /\ \E b \in decisions : b.adopts = a.sel["architecture"] /\ b.status = "approved"
  /\ summary = {a.sel}

\* Whatever earlier requests that failed, were cut off or ran together have left behind, one
\* request that has the zone to itself puts it right: exactly its selection is promoted,
\* nothing that stood there is lost, and a commit is on record.
CommitHeals ==
  \A d \in Deciders : act[d].pc = "done" /\ act[d].alone =>
    /\ act[d].op \in {"commit", "promote"} => IsPromoted(act[d])
    /\ act[d].op = "commit" => IsOnRecord(act[d])

\* A statement the code does not keep.  Requirement onboarding-architecture-selection-2: a
\* changed selection is recorded "as a new ADR that supersedes the prior choice's ADR".
\* (Of the ADRs that adopt a selection one is in force.)
OneChoiceInForce ==
  \A d \in Deciders : act[d].pc = "done" /\ act[d].alone /\ act[d].op = "commit" =>
    Cardinality({a \in decisions : a.slug # "other" /\ a.status = "approved"}) = 1

=============================================================================

----------------------------- MODULE MCServices -----------------------------
(***************************************************************************)
(* DevOps pipelines and the triage of ideas, in one run.  They share no    *)
(* state, so each behaviour takes the steps of one of them only: `focus'   *)
(* says of which and in which view, and the state spaces of the views add  *)
(* up.                                                                     *)
(***************************************************************************)
EXTENDS DevOps, Triage

VARIABLE focus

CONSTANTS build, deploy   \* the pipelines

MCPipelines == {build, deploy}
MCSecond == <<1, 1>>   \* both runs start in the same second

servicesVars == <<devVars, triageVars, focus>>

ServicesInit ==
  /\ focus \in {"two pipelines", "crash", "triage"}
  /\ DevInit /\ TriageInit

\* Two pipelines, of which the second starts the second run; or one and a crash, where
\* the first run may hang or fail to write its record before there is a second.
PipelineStep(A) ==
  /\ focus # "triage" /\ A
  /\ focus = "two pipelines" \/ at'[2] # "absent" =>
       unwritten' = {} /\ \A r \in Runs : at'[r] # "hung"
  /\ focus = "two pipelines" => pipeCrashes' = 0 /\ bySlug'[deploy] # 1
  /\ focus = "crash" => bySlug'[deploy] = NoRun /\ \A c \in DevClients : scan'[c].slug # deploy
  /\ UNCHANGED <<triageVars, focus>>

\* After a crash, or where somebody edits the idea, triage makes one attempt less; who
\* edits leaves both headings, or takes "## Idea" away.
TriageStep ==
  /\ focus = "triage" /\ TriageNext
  /\ triageCrashes' + ideaEdits' = 0 \/ attempt'[Cardinality(Attempts)].pc = "new"
  /\ ideaEdits' > 0 => \A p \in Ideas : idea'[p].headings \in {{"Raw Idea"}, Sections}
  /\ UNCHANGED <<devVars, focus>>

ServicesNext == PipelineStep(DevNext) \/ TriageStep

\* Go keeps running every goroutine that does not wait for a hung step, and the service
\* manager starts the server again (RunsGetRecords is about these two).
ServicesSpec ==
  /\ ServicesInit /\ [][ServicesNext]_servicesVars
  /\ WF_servicesVars(PipelineStep(OpenPipelines))
  /\ \A t \in DevThreads : WF_servicesVars(PipelineStep(Proceeds(t)))

\* Every component's variables keep their types.
ServicesTypeOK == DevTypeOK /\ TriageTypeOK

=============================================================================

---------------------------- MODULE MCScheduler ----------------------------
(* The scheduler with a single interval job: the goroutines that meet over *)
(* one job are what matters; two executions of it can be under way.        *)
EXTENDS Scheduler

MCKind == <<"interval">>
MCPriority == <<5>>
MCAfter == <<1>>

\* Without an after_job precondition nothing tells a run that succeeded from one that
\* failed, so one execution does the one and the other does the other, if its row gets
\* its end at all.
Fates ==
  \A e \in Execs : pc[e] = "run" /\ pc'[e] = "clear" =>
    rows'[e].status # IF e[2] = 1 THEN "failure" ELSE "success"

OneJobSpec == SchInit /\ [][SchNext /\ Fates]_schVars /\ SchFairness

=============================================================================

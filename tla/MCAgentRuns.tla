--------------------------- MODULE MCAgentRuns ---------------------------
EXTENDS AgentRuns, TLC

CONSTANT l1

\* All targets belong to one lineage, the case in which locks matter.
OneLineage == [t \in Targets |-> l1]

\* Run ids are drawn at random and nothing depends on which one is drawn.
Symmetry == Permutations(Runs)

\* One run, always the same, works on a test and the others do not.  Liveness is checked
\* without symmetry, and this spares the cases that differ by the names of runs.
TestingRun == CHOOSE r \in Runs : TRUE

LocksInit == Init /\ \A r \in Runs : target[r] \in Tests <=> r = TestingRun

LocksSpec == LocksInit /\ [][Next]_vars /\ Fairness
===========================================================================

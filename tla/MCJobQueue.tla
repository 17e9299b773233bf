---------------------------- MODULE MCJobQueue ----------------------------
EXTENDS JobQueue, TLC

\* newID draws ids at random, nothing depends on which one is drawn, and
\* handlers are interchangeable as long as none of them may pause.
Symmetry == Permutations(Jobs) \cup Permutations(Clients)
===========================================================================

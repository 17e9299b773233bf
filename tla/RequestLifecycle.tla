------------------------ MODULE RequestLifecycle ------------------------
(***************************************************************************)
(* What the agent work queue promises to whoever submits work, with every  *)
(* row, retry, pause and restart hidden: a request is submitted once, is   *)
(* executed by one executor that never runs two requests at a time, may go *)
(* back to the queue any number of times, and once it is done it is never  *)
(* executed again.  JobQueue implements this specification.                *)
(***************************************************************************)
CONSTANT Requests  \* identities of the submitted requests

VARIABLE phase     \* the phase of each request

Phases == {"new", "queued", "executing", "done"}

Init == phase = [r \in Requests |-> "new"]

Become(r, from, to) ==
  /\ phase[r] = from
  /\ phase' = [phase EXCEPT ![r] = to]

Submit(r) == Become(r, "new", "queued")

\* One executor: a request starts only when no request is executing.
Start(r) ==
  /\ \A q \in Requests : phase[q] # "executing"
  /\ Become(r, "queued", "executing")

Retry(r) == Become(r, "executing", "queued")

Finish(r) == Become(r, "executing", "done")

Withdraw(r) == Become(r, "queued", "done")

Next ==
  \E r \in Requests :
    Submit(r) \/ Start(r) \/ Retry(r) \/ Finish(r) \/ Withdraw(r)

Spec == Init /\ [][Next]_phase
=========================================================================

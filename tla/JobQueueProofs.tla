-------------------------- MODULE JobQueueProofs --------------------------
(***************************************************************************)
(* Proofs about JobQueue, for any set of jobs, paths and clients and any   *)
(* bounds: type correctness, the inductive invariant Inv and with it the   *)
(* safety properties, and the refinement of RequestLifecycle.              *)
(***************************************************************************)
EXTENDS JobQueue, TLAPS

USE DEF rowVars, pauseVars, memPause, dispVars, procVars

---------------------------------------------------------------------------
(* Type correctness. *)

\* What a handler that is in the middle of an enqueue or a cancellation has
\* read is of the right type.
LEMMA ClientFacts ==
  ASSUME TypeOK, NEW c \in Clients
  PROVE  /\ client[c].op = "enqueue" =>
              client[c].path \in Paths /\ client[c].position \in Int
         /\ client[c].op = "cancel" => client[c].job \in Jobs
  BY DEF TypeOK, ClientOp

\* Inserting a row keeps the columns typed.
LEMMA InsertRowType ==
  ASSUME TypeOK, NEW j \in Jobs, NEW p \in Paths, NEW n \in Nat,
         NEW pos \in Int, NEW o \in Jobs, InsertRow(j, p, n, pos, o)
  PROVE  /\ state' \in [Jobs -> Active \cup Terminal \cup {"absent"}]
         /\ path' \in [Jobs -> Paths]
         /\ attempts' \in [Jobs -> Nat]
         /\ position' \in [Jobs -> Int]
         /\ origin' \in [Jobs -> Jobs]
  BY DEF TypeOK, InsertRow, Active, Terminal

LEMMA TypeInit == Init => TypeOK
  <1> SUFFICES ASSUME Init PROVE TypeOK
    OBVIOUS
  <1>1. (CHOOSE p \in Paths : TRUE) \in Paths
    BY ParamAssumption
  <1>2. client \in [Clients -> ClientOp]
    BY DEF Init, Idle, ClientOp
  <1>3. path \in [Jobs -> Paths]
    BY <1>1 DEF Init
  <1>4. /\ state \in [Jobs -> Active \cup Terminal \cup {"absent"}]
        /\ attempts \in [Jobs -> Nat]
        /\ position \in [Jobs -> Int]
        /\ origin \in [Jobs -> Jobs]
    BY DEF Init
  <1>5. QED
    BY <1>2, <1>3, <1>4 DEF Init, TypeOK, Pc

\* A dispatcher step that marks the held job and lets go of it.
LEMMA ConcludeType ==
  ASSUME TypeOK, up, pc \in OwnPc, OwnerInv, NEW s \in Terminal, Conclude(s)
  PROVE  TypeOK'
  <1>1. cur \in Jobs
    BY DEF TypeOK, OwnerInv
  <1>2. QED
    BY <1>1 DEF TypeOK, Conclude, MarkTerminal, Pc

\* Every step of the dispatcher keeps the types.
LEMMA TypeDispatch ==
  ASSUME TypeOK, OwnerInv, Dispatch
  PROVE  TypeOK'
  <1>1. CASE CheckPaused
    <2>1. limited' \in BOOLEAN
      BY <1>1, Zenon DEF TypeOK, CheckPaused
    <2>2. autoWrites' = autoWrites + 1 \/ autoWrites' = autoWrites
      BY <1>1, Zenon DEF CheckPaused
    <2>3. autoWrites' \in Nat
      BY <2>2 DEF TypeOK
    <2>4. QED
      BY <1>1, <2>1, <2>3 DEF TypeOK, CheckPaused, Pc
  <1>2. CASE Dequeue
    BY <1>2 DEF TypeOK, Dequeue, Pc, OwnPc, Active
  <1>3. CASE StartFails
    BY <1>3, ConcludeType DEF StartFails, OwnPc, Terminal
  <1>4. CASE SkipNotApproved
    BY <1>4, ConcludeType DEF SkipNotApproved, OwnPc, Terminal
  <1>5. CASE StartRun
    BY <1>5 DEF TypeOK, StartRun, Pc, OwnPc
  <1>6. CASE RunCompletes
    BY <1>6, ConcludeType DEF RunCompletes, OwnPc, Terminal
  <1>7. CASE RunFails
    BY <1>7, ConcludeType DEF RunFails, OwnPc, Terminal
  <1>8. CASE RunRateLimited
    BY <1>8 DEF TypeOK, RunRateLimited, MarkTerminal, Pc, OwnPc, Terminal
  <1>9. CASE RunAuthFails
    BY <1>9 DEF TypeOK, RunAuthFails, MarkTerminal, Pc, OwnPc, Terminal
  <1>10. CASE Requeue
    <2>1. cur \in Jobs /\ attempts[cur] + 1 \in Nat
      BY <1>10 DEF TypeOK, OwnerInv, Requeue, OwnPc
    <2>2. CASE UNCHANGED rowVars
      BY <1>10, <2>2 DEF TypeOK, Requeue, Pc
    <2>3. ASSUME NEW j \in Jobs, NEW pos \in {position[k] - 1 : k \in Rows},
                 InsertRow(j, path[cur], attempts[cur] + 1, pos, origin[cur])
          PROVE  TypeOK'
      <3>1. pos \in Int /\ path[cur] \in Paths /\ origin[cur] \in Jobs
        BY <2>1 DEF TypeOK, Rows
      <3>2. QED
        BY <1>10, <2>1, <2>3, <3>1, InsertRowType DEF TypeOK, Requeue, Pc
    <2>4. QED
      BY <1>10, <2>2, <2>3 DEF Requeue
  <1>11. CASE PauseStore
    BY <1>11 DEF TypeOK, PauseStore, Pc
  <1>12. CASE PauseMem
    BY <1>12 DEF TypeOK, PauseMem, Pc
  <1>13. QED
    BY <1>1, <1>2, <1>3, <1>4, <1>5, <1>6, <1>7, <1>8, <1>9, <1>10, <1>11,
       <1>12 DEF Dispatch, RunOutcome

\* Every step of a handler keeps the types.
LEMMA TypeHandle ==
  ASSUME TypeOK, NEW c \in Clients, Handle(c)
  PROVE  TypeOK'
  <1>1. ASSUME NEW p \in Paths, EnqueueRead(c, p)
        PROVE  TypeOK'
    <2>1. PICK pos \in {1} \cup {position[k] + 1 : k \in Rows} :
            client' = [client EXCEPT ![c] =
                         [op |-> "enqueue", path |-> p, position |-> pos]]
      BY <1>1 DEF EnqueueRead
    <2>2. pos \in Int
      BY DEF TypeOK, Rows
    <2>3. [op |-> "enqueue", path |-> p, position |-> pos] \in ClientOp
      BY <2>2 DEF ClientOp
    <2>4. client' \in [Clients -> ClientOp]
      BY <2>1, <2>3 DEF TypeOK
    <2>5. QED
      BY <1>1, <2>4 DEF TypeOK, EnqueueRead
  <1> Idle \in ClientOp
    BY DEF Idle, ClientOp
  <1>2. CASE EnqueueInsert(c)
    <2>1. client' \in [Clients -> ClientOp]
      BY <1>2 DEF TypeOK, EnqueueInsert
    <2>2. CASE UNCHANGED rowVars
      BY <1>2, <2>1, <2>2 DEF TypeOK, EnqueueInsert
    <2>3. ASSUME NEW j \in Jobs,
                 InsertRow(j, client[c].path, 1, client[c].position, j)
          PROVE  TypeOK'
      BY <1>2, <2>1, <2>3, ClientFacts, InsertRowType DEF TypeOK, EnqueueInsert
    <2>4. QED
      BY <1>2, <2>2, <2>3 DEF EnqueueInsert
  <1>3. ASSUME NEW j \in Jobs, CancelRead(c, j)
        PROVE  TypeOK'
    <2>1. [op |-> "cancel", job |-> j] \in ClientOp
      BY DEF ClientOp
    <2>2. QED
      BY <1>3, <2>1 DEF TypeOK, CancelRead
  <1>4. CASE CancelWrite(c)
    BY <1>4, ClientFacts DEF TypeOK, CancelWrite, MarkTerminal, Terminal
  <1>5. CASE PauseByHand(c)
    <2>1. [op |-> "pauseStore"] \in ClientOp
      BY DEF ClientOp
    <2>2. QED
      BY <1>5, <2>1 DEF TypeOK, PauseByHand
  <1>6. CASE ResumeByHand(c)
    <2>1. [op |-> "resumeStore"] \in ClientOp
      BY DEF ClientOp
    <2>2. QED
      BY <1>6, <2>1 DEF TypeOK, ResumeByHand
  <1>7. CASE StorePauseState(c)
    BY <1>7 DEF TypeOK, StorePauseState
  <1>8. QED
    BY <1>1, <1>2, <1>3, <1>4, <1>5, <1>6, <1>7 DEF Handle

LEMMA TypeNext ==
  ASSUME TypeOK, OwnerInv, [Next]_vars
  PROVE  TypeOK'
  <1>1. CASE Dispatch
    BY <1>1, TypeDispatch
  <1>2. CASE AutoResumeWrites
    BY <1>2 DEF TypeOK, AutoResumeWrites
  <1>3. ASSUME NEW c \in Clients, Handle(c)
        PROVE  TypeOK'
    BY <1>3, TypeHandle
  <1>4. CASE Exit
    BY <1>4 DEF TypeOK, Exit, Pc, Idle, ClientOp
  <1>5. CASE Restart
    BY <1>5 DEF TypeOK, Restart, RestartWith, Active
  <1>6. CASE UNCHANGED vars
    BY <1>6 DEF TypeOK, vars
  <1>7. QED
    BY <1>1, <1>2, <1>3, <1>4, <1>5, <1>6 DEF Next

---------------------------------------------------------------------------
(* The steps, by what they do to the rows and to the dispatcher's job.     *)

\* Nothing happens to rows and the held job.
Quiet == UNCHANGED <<rowVars, cur, up, restarts>>

\* The held job is marked terminal, and kept for a retry or let go.
Mark ==
  /\ up /\ UNCHANGED <<up, restarts, client>>
  /\ pc \in {"gate", "await"}
  /\ \E s \in Terminal : MarkTerminal(cur, s)
  /\ \/ cur' = NoJob /\ pc' \in {"idle", "pauseStore"}
     \/ /\ cur' = cur
        /\ pc' \in {"rateRequeue", "authRequeue"}
        /\ attempts[cur] < MaxAttempts
        /\ state'[cur] = "failed"

Take(j) ==
  /\ up /\ UNCHANGED <<up, restarts, client>>
  /\ pc = "checked" /\ pc' = "gate"
  /\ state[j] = "pending"
  /\ \A k \in Jobs : state[k] = "pending" => position[j] <= position[k]
  /\ state' = [state EXCEPT ![j] = "running"]
  /\ cur' = j
  /\ UNCHANGED <<path, attempts, position, origin>>

Retry(j, pos) ==
  /\ up /\ UNCHANGED <<up, restarts, client>>
  /\ pc \in {"rateRequeue", "authRequeue"} /\ pc' \in {"idle", "pauseStore"}
  /\ cur' = NoJob
  /\ IsHeadPosition(pos)
  /\ InsertRow(j, path[cur], attempts[cur] + 1, pos, origin[cur])

Drop ==
  /\ up /\ UNCHANGED <<up, restarts, client>>
  /\ pc \in {"rateRequeue", "authRequeue"} /\ pc' \in {"idle", "pauseStore"}
  /\ cur' = NoJob
  /\ UNCHANGED rowVars

Submit(c, j) ==
  /\ up /\ UNCHANGED <<up, restarts, pc, cur>>
  /\ client[c].op = "enqueue"
  /\ client' = [client EXCEPT ![c] = Idle]
  /\ \A i \in Jobs : ~(IsActive(i) /\ path[i] = client[c].path)
  /\ InsertRow(j, client[c].path, 1, client[c].position, j)

\* Every step of the specification is of one of these shapes.
LEMMA StepShape ==
  ASSUME TypeOK, OwnerInv, Next
  PROVE  \/ Quiet /\ (up' => up)
              /\ (pc' \in OwnPc <=> pc \in OwnPc)
              /\ (pc' \in {"rateRequeue", "authRequeue"} => pc' = pc)
              /\ (pc' \in {"gate", "await"} => pc \in {"gate", "await"})
              /\ \A c \in Clients : client'[c].op = "cancel" =>
                   \/ client'[c] = client[c]
                   \/ client'[c].job \in Rows
         \/ Mark
         \/ \E j \in Jobs : Take(j)
         \/ \E j \in Jobs, pos \in Int : Retry(j, pos)
         \/ Drop
         \/ \E c \in Clients, j \in Jobs : Submit(c, j)
         \/ \E c \in Clients : CancelWrite(c)
         \/ Exit
         \/ Restart
  <1> DEFINE Still == /\ Quiet /\ (up' => up)
                      /\ (pc' \in OwnPc <=> pc \in OwnPc)
                      /\ (pc' \in {"rateRequeue", "authRequeue"} => pc' = pc)
                      /\ (pc' \in {"gate", "await"} => pc \in {"gate", "await"})
                      /\ \A c \in Clients : client'[c].op = "cancel" =>
                           \/ client'[c] = client[c]
                           \/ client'[c].job \in Rows
  <1>1. CASE CheckPaused
    <2>1. Still
      BY <1>1 DEF CheckPaused, Quiet, OwnPc
    <2>2. QED
      BY <2>1
  <1>2. CASE Dequeue
    <2>1. CASE /\ pc' = "idle"
               /\ UNCHANGED <<rowVars, cur>>
      <3>1. Still
        BY <1>2, <2>1 DEF Dequeue, Quiet, OwnPc
      <3>2. QED
        BY <3>1
    <2>2. ASSUME NEW j \in Jobs,
                 /\ state[j] = "pending"
                 /\ \A k \in Jobs : state[k] = "pending"
                                       => position[j] <= position[k]
                 /\ state' = [state EXCEPT ![j] = "running"]
                 /\ cur' = j
                 /\ pc' = "gate"
                 /\ UNCHANGED <<path, attempts, position, origin>>
          PROVE  Take(j)
      BY <1>2, <2>2 DEF Dequeue, Take
    <2>3. QED
      BY <1>2, <2>1, <2>2 DEF Dequeue
  <1>3. ASSUME pc \in {"gate", "await"}, up,
               NEW s \in Terminal, Conclude(s)
        PROVE  Mark
    BY <1>3 DEF Mark, Conclude
  <1>4. CASE StartFails \/ SkipNotApproved \/ RunCompletes \/ RunFails
    BY <1>3, <1>4 DEF StartFails, SkipNotApproved, RunCompletes, RunFails,
       Terminal
  <1>5. CASE StartRun
    <2>1. Still
      BY <1>5 DEF StartRun, Quiet, OwnPc
    <2>2. QED
      BY <2>1
  <1>6. CASE RunRateLimited \/ RunAuthFails
    <2>1. "failed" \in Terminal
      BY DEF Terminal
    <2>2. CASE attempts[cur] >= MaxAttempts
      BY <1>6, <2>1, <2>2 DEF RunRateLimited, RunAuthFails, Mark
    <2>3. CASE ~(attempts[cur] >= MaxAttempts)
      <3>1. cur' = cur /\ pc' \in {"rateRequeue", "authRequeue"}
        BY <1>6, <2>3 DEF RunRateLimited, RunAuthFails
      <3>2. cur \in Jobs
        BY <1>6 DEF TypeOK, OwnerInv, OwnPc, RunRateLimited, RunAuthFails
      <3>3. state'[cur] = "failed" /\ attempts[cur] < MaxAttempts
        BY <1>6, <2>3, <3>2, ParamAssumption
           DEF TypeOK, RunRateLimited, RunAuthFails, MarkTerminal
      <3>4. QED
        BY <1>6, <2>1, <3>1, <3>3 DEF RunRateLimited, RunAuthFails, Mark
    <2>4. QED
      BY <2>2, <2>3
  <1>7. CASE Requeue
    <2>1. CASE UNCHANGED rowVars
      BY <1>7, <2>1 DEF Requeue, Drop
    <2>2. ASSUME NEW j \in Jobs, NEW pos \in {position[k] - 1 : k \in Rows},
                 IsHeadPosition(pos),
                 InsertRow(j, path[cur], attempts[cur] + 1, pos, origin[cur])
          PROVE  pos \in Int /\ Retry(j, pos)
      BY <1>7, <2>2 DEF TypeOK, Rows, Requeue, Retry
    <2>3. QED
      BY <1>7, <2>1, <2>2 DEF Requeue
  <1>8. CASE PauseStore \/ PauseMem \/ AutoResumeWrites
    <2>1. Still
      BY <1>8 DEF PauseStore, PauseMem, AutoResumeWrites, Quiet, OwnPc
    <2>2. QED
      BY <2>1
  <1>9. ASSUME NEW c \in Clients, NEW p \in Paths, EnqueueRead(c, p)
        PROVE  Still
    BY <1>9 DEF TypeOK, EnqueueRead, Quiet
  <1>10. ASSUME NEW c \in Clients, EnqueueInsert(c)
         PROVE  Still \/ \E j \in Jobs : Submit(c, j)
    <2>1. CASE UNCHANGED rowVars
      BY <1>10, <2>1 DEF TypeOK, EnqueueInsert, Quiet, Idle
    <2>2. CASE ~UNCHANGED rowVars
      BY <1>10, <2>2 DEF EnqueueInsert, Submit
    <2>3. QED
      BY <2>1, <2>2
  <1>11. ASSUME NEW c \in Clients, NEW j \in Jobs, CancelRead(c, j)
         PROVE  Still
    BY <1>11 DEF TypeOK, CancelRead, Quiet, Rows
  <1>12. ASSUME NEW c \in Clients,
                PauseByHand(c) \/ ResumeByHand(c) \/ StorePauseState(c)
         PROVE  Still
    BY <1>12 DEF TypeOK, PauseByHand, ResumeByHand, StorePauseState, Quiet, Idle
  <1>13. QED
    BY <1>1, <1>2, <1>4, <1>5, <1>6, <1>7, <1>8, <1>9, <1>10, <1>11, <1>12
       DEF Next, Dispatch, RunOutcome, Handle

---------------------------------------------------------------------------
(* The inductive invariant, shape by shape. *)

\* Inv without the type correctness that TypeNext preserves.
CoreInv ==
  /\ SingleExecution
  /\ OwnerInv
  /\ OriginInv
  /\ OneIncarnation
  /\ DuplicatesAreRetries
  /\ NewcomersBehind
  /\ RowInv
  /\ AttemptsBounded

LEMMA InvInit == Init => Inv
  <1> SUFFICES ASSUME Init PROVE Inv
    OBVIOUS
  <1>1. TypeOK
    BY TypeInit
  <1>2. \A j \in Jobs : state[j] = "absent" /\ attempts[j] = 0
    BY DEF Init
  <1>3. \A c \in Clients : client[c].op = "none"
    BY DEF Init, Idle
  <1>4. SingleExecution /\ OneIncarnation /\ DuplicatesAreRetries
    BY <1>2, ParamAssumption
       DEF Init, SingleExecution, OneIncarnation, DuplicatesAreRetries, Live,
           IsActive, Active
  <1>5. OwnerInv /\ OriginInv /\ NewcomersBehind /\ RowInv
    BY <1>2, <1>3 DEF Init, OwnerInv, OwnPc, OriginInv, Rows, NewcomersBehind,
       RowInv
  <1>6. AttemptsBounded
    BY <1>2, ParamAssumption DEF Init, AttemptsBounded
  <1>7. QED
    BY <1>1, <1>4, <1>5, <1>6 DEF Inv

LEMMA QuietInv ==
  ASSUME Inv, TypeOK', Quiet, up' => up,
         pc' \in OwnPc <=> pc \in OwnPc,
         pc' \in {"rateRequeue", "authRequeue"} => pc' = pc,
         pc' \in {"gate", "await"} => pc \in {"gate", "await"},
         \A c \in Clients : client'[c].op = "cancel" =>
           client'[c] = client[c] \/ client'[c].job \in Rows
  PROVE  CoreInv'
  <1>1. SingleExecution'
    BY DEF Inv, Quiet, SingleExecution
  <1>2. OwnerInv'
    BY DEF Inv, Quiet, OwnerInv
  <1>3. OriginInv' /\ OneIncarnation'
    BY DEF Inv, Quiet, OriginInv, Rows, OneIncarnation, Live, IsActive
  <1>4. DuplicatesAreRetries' /\ NewcomersBehind'
    BY DEF Inv, Quiet, DuplicatesAreRetries, RetryAhead, NewcomersBehind,
       IsActive
  <1>5. RowInv'
    <2>1. Rows' = Rows
      BY DEF Quiet, Rows
    <2>2. QED
      BY <2>1 DEF Inv, Quiet, RowInv
  <1>6. AttemptsBounded'
    BY DEF Inv, Quiet, AttemptsBounded
  <1>7. QED
    BY <1>1, <1>2, <1>3, <1>4, <1>5, <1>6 DEF CoreInv

\* Marking a row terminal, whoever does it, disturbs nothing that is said of
\* the active rows.
LEMMA MarkedRow ==
  ASSUME Inv, NEW j \in Rows, NEW s \in Terminal, MarkTerminal(j, s)
  PROVE  /\ OriginInv' /\ Rows' = Rows
         /\ \A i \in Jobs : /\ state'[i] = IF i = j THEN s ELSE state[i]
                            /\ IsActive(i)' <=> IsActive(i) /\ i # j
         /\ DuplicatesAreRetries'
         /\ UNCHANGED <<path, attempts, position, origin>>
  <1>1. /\ j \in Jobs
        /\ \A i \in Jobs : state'[i] = IF i = j THEN s ELSE state[i]
    BY DEF Inv, TypeOK, MarkTerminal, Rows
  <1>2. \A i \in Jobs : IsActive(i)' <=> IsActive(i) /\ i # j
    BY <1>1 DEF IsActive, Active, Terminal
  <1>3. Rows' = Rows
    BY <1>1 DEF Rows, Terminal
  <1>4. UNCHANGED <<path, attempts, position, origin>>
    BY DEF MarkTerminal
  <1>5. OriginInv'
    BY <1>3, <1>4 DEF Inv, OriginInv
  <1>6. DuplicatesAreRetries'
    <2> SUFFICES ASSUME NEW a \in Jobs, NEW b \in Jobs, IsActive(a)',
                        IsActive(b)', path'[a] = path'[b], a # b
                 PROVE  (RetryAhead(a, b) \/ RetryAhead(b, a))'
      BY DEF DuplicatesAreRetries
    <2>1. RetryAhead(a, b) \/ RetryAhead(b, a)
      BY <1>2, <1>4 DEF Inv, DuplicatesAreRetries
    <2>2. state'[a] = state[a] /\ state'[b] = state[b]
      BY <1>1, <1>2
    <2>3. QED
      BY <1>4, <2>1, <2>2 DEF RetryAhead
  <1>7. QED
    BY <1>1, <1>2, <1>3, <1>4, <1>5, <1>6

LEMMA MarkInv ==
  ASSUME Inv, TypeOK', Mark
  PROVE  CoreInv'
  <1>1. cur \in Rows
    BY DEF Inv, TypeOK, OwnerInv, OwnPc, Mark, Rows
  <1>2. PICK s \in Terminal : MarkTerminal(cur, s)
    BY DEF Mark
  <1>3. /\ OriginInv' /\ Rows' = Rows
        /\ \A i \in Jobs : /\ state'[i] = IF i = cur THEN s ELSE state[i]
                           /\ IsActive(i)' <=> IsActive(i) /\ i # cur
        /\ DuplicatesAreRetries'
        /\ UNCHANGED <<path, attempts, position, origin>>
    BY <1>1, <1>2, MarkedRow
  <1>4. SingleExecution'
    BY <1>3 DEF Inv, SingleExecution, Mark, Terminal
  <1>5. OwnerInv'
    BY <1>1, <1>3 DEF Inv, OwnerInv, OwnPc, Mark, Terminal, Rows
  <1>6. OneIncarnation'
    <2>1. \A i \in Jobs : Live(i)' => Live(i)
      BY <1>3, ParamAssumption DEF Live, Mark
    <2>2. QED
      BY <1>3, <2>1 DEF Inv, OneIncarnation
  <1>7. NewcomersBehind'
    BY <1>3 DEF Inv, NewcomersBehind, Mark
  <1>8. RowInv'
    BY <1>3 DEF Inv, RowInv, Mark
  <1>9. AttemptsBounded'
    BY <1>3 DEF Inv, AttemptsBounded, Mark
  <1>10. QED
    BY <1>3, <1>4, <1>5, <1>6, <1>7, <1>8, <1>9 DEF CoreInv

LEMMA TakeInv ==
  ASSUME Inv, TypeOK', NEW j \in Jobs, Take(j)
  PROVE  CoreInv'
  <1>1. /\ cur = NoJob /\ up
        /\ \A i \in Jobs : state[i] # "running"
    BY ParamAssumption DEF Inv, OwnerInv, OwnPc, SingleExecution, Take
  <1>2. /\ state'[j] = "running"
        /\ \A i \in Jobs : i # j => state'[i] = state[i]
        /\ \A i \in Jobs : IsActive(i)' <=> IsActive(i)
    <2>1. /\ state'[j] = "running"
          /\ \A i \in Jobs : i # j => state'[i] = state[i]
      BY DEF Inv, TypeOK, Take
    <2>2. QED
      BY <2>1 DEF Take, IsActive, Active
  <1>3. Rows' = Rows
    BY <1>2 DEF Rows, Take
  <1>4. SingleExecution'
    BY <1>1, <1>2 DEF SingleExecution, Take
  <1>5. OwnerInv'
    <2>1. state'[j] = "running" /\ cur' = j /\ j # NoJob
      BY <1>2, ParamAssumption DEF Take
    <2>2. pc' = "gate" /\ up'
      BY DEF Take
    <2>3. QED
      BY <2>1, <2>2 DEF OwnerInv, OwnPc
  <1>6. OriginInv'
    BY <1>3 DEF Inv, OriginInv, Take
  <1>7. OneIncarnation'
    <2>1. \A i \in Jobs : Live(i)' => Live(i)
      BY <1>2 DEF Live, Take, IsActive, Active
    <2>2. QED
      BY <2>1 DEF Inv, OneIncarnation, Take
  \* The row taken is not behind another active row of its path.
  <1>8. ASSUME NEW k \in Jobs, k # j, IsActive(k), path[k] = path[j]
        PROVE  RetryAhead(j, k)
    <2>1. IsActive(j)
      BY DEF Take, IsActive, Active
    <2>2. RetryAhead(j, k) \/ RetryAhead(k, j)
      BY <1>8, <2>1 DEF Inv, DuplicatesAreRetries
    <2>3. state[k] = "pending"
      BY <1>1, <1>8 DEF IsActive, Active
    <2>4. position[j] <= position[k] /\ position[j] \in Int /\ position[k] \in Int
      BY <2>3 DEF Inv, TypeOK, Take
    <2>5. QED
      BY <2>2, <2>4 DEF RetryAhead
  <1>9. DuplicatesAreRetries'
    <2> SUFFICES ASSUME NEW a \in Jobs, NEW b \in Jobs, IsActive(a)',
                        IsActive(b)', path'[a] = path'[b], a # b
                 PROVE  (RetryAhead(a, b) \/ RetryAhead(b, a))'
      BY DEF DuplicatesAreRetries
    <2>1. IsActive(a) /\ IsActive(b) /\ path[a] = path[b]
      <3>1. path' = path
        BY DEF Take
      <3>2. QED
        BY <1>2, <3>1
    <2>2. CASE a = j
      BY <1>2, <1>8, <2>1, <2>2 DEF RetryAhead, Take
    <2>3. CASE b = j
      BY <1>2, <1>8, <2>1, <2>3 DEF RetryAhead, Take
    <2>4. CASE a # j /\ b # j
      BY <1>2, <2>1, <2>4 DEF Inv, DuplicatesAreRetries, RetryAhead, Take
    <2>5. QED
      BY <2>2, <2>3, <2>4
  <1>10. NewcomersBehind'
    BY <1>2, <1>8 DEF NewcomersBehind, RetryAhead, Take
  <1>11. RowInv'
    BY <1>3 DEF Inv, RowInv, Take
  <1>12. AttemptsBounded'
    BY DEF Inv, AttemptsBounded, Take
  <1>13. QED
    BY <1>4, <1>5, <1>6, <1>7, <1>9, <1>10, <1>11, <1>12 DEF CoreInv

SameRow(i) ==
  /\ state'[i] = state[i] /\ path'[i] = path[i] /\ attempts'[i] = attempts[i]
  /\ position'[i] = position[i] /\ origin'[i] = origin[i]

\* A new pending row: what it does to the active rows.
LEMMA InsertedRow ==
  ASSUME Inv, NEW j \in Jobs, NEW p \in Paths, NEW n \in Nat \ {0},
         NEW pos \in Int, NEW o \in Rows \cup {j}, o # j => origin[o] = o,
         InsertRow(j, p, n, pos, o)
  PROVE  /\ j \notin Rows /\ Rows' = Rows \cup {j} /\ OriginInv'
         /\ state'[j] = "pending" /\ path'[j] = p /\ attempts'[j] = n
         /\ position'[j] = pos /\ origin'[j] = o
         /\ \A i \in Jobs : i # j => SameRow(i)
         /\ \A i \in Jobs : IsActive(i)' <=> IsActive(i) \/ i = j
         /\ \A i \in Rows' : attempts'[i] >= 1
  <1>1. /\ state'[j] = "pending" /\ path'[j] = p /\ attempts'[j] = n
        /\ position'[j] = pos /\ origin'[j] = o
        /\ \A i \in Jobs : i # j => SameRow(i)
    <2>1. state'[j] = "pending" /\ path'[j] = p /\ attempts'[j] = n
      BY DEF Inv, TypeOK, InsertRow
    <2>2. position'[j] = pos /\ origin'[j] = o
      BY DEF Inv, TypeOK, InsertRow
    <2>3. \A i \in Jobs : i # j => SameRow(i)
      BY DEF Inv, TypeOK, InsertRow, SameRow
    <2>4. QED
      BY <2>1, <2>2, <2>3
  <1>2. j \notin Rows /\ Rows' = Rows \cup {j}
    BY <1>1 DEF Rows, InsertRow, SameRow
  <1>3. \A i \in Jobs : IsActive(i)' <=> IsActive(i) \/ i = j
    BY <1>1 DEF IsActive, Active, SameRow
  <1>4. OriginInv'
    <2>1. \A i \in Rows : i # j /\ i \in Jobs /\ origin[i] \in Rows
                         /\ origin[i] # j /\ origin[i] \in Jobs
                         /\ origin[origin[i]] = origin[i]
      BY <1>2 DEF Inv, OriginInv, Rows
    <2>2. origin'[j] = o /\ \A i \in Jobs : i # j => origin'[i] = origin[i]
      BY <1>1 DEF SameRow
    <2>3. o \in Jobs /\ o \in Rows' /\ origin'[o] = o
      BY <1>2, <2>2 DEF Rows
    <2>4. ASSUME NEW i \in Rows'
          PROVE  origin'[i] \in Rows' /\ origin'[origin'[i]] = origin'[i]
      <3>1. CASE i = j
        BY <2>2, <2>3, <3>1
      <3>2. CASE i # j
        BY <1>2, <2>1, <2>2, <3>2
      <3>3. QED
        BY <3>1, <3>2
    <2>5. QED
      BY <2>4 DEF OriginInv
  <1>5. \A i \in Rows' : attempts'[i] >= 1
    <2>1. \A i \in Rows : i \in Jobs /\ attempts[i] >= 1
      BY DEF Inv, RowInv, Rows
    <2>2. QED
      BY <1>1, <1>2, <2>1 DEF SameRow
  <1>6. QED
    BY <1>1, <1>2, <1>3, <1>4, <1>5

LEMMA RetryInv ==
  ASSUME Inv, TypeOK', NEW j \in Jobs, NEW pos \in Int, Retry(j, pos)
  PROVE  CoreInv'
  <1>1. /\ cur \in Rows /\ cur \in Jobs /\ cur # NoJob
        /\ attempts[cur] \in Nat /\ attempts[cur] >= 1
        /\ attempts[cur] < MaxAttempts
        /\ state[cur] \in {"failed", "cancelled"}
        /\ path[cur] \in Paths
    BY DEF Inv, TypeOK, OwnerInv, OwnPc, RowInv, Rows, Retry
  <1>2. /\ origin[cur] \in Rows /\ origin[origin[cur]] = origin[cur]
        /\ attempts[cur] + 1 \in Nat \ {0}
    BY <1>1 DEF Inv, OriginInv
  <1>3. /\ j \notin Rows /\ Rows' = Rows \cup {j} /\ OriginInv'
        /\ state'[j] = "pending" /\ path'[j] = path[cur]
        /\ attempts'[j] = attempts[cur] + 1
        /\ position'[j] = pos /\ origin'[j] = origin[cur]
        /\ \A i \in Jobs : i # j => SameRow(i)
        /\ \A i \in Jobs : IsActive(i)' <=> IsActive(i) \/ i = j
        /\ \A i \in Rows' : attempts'[i] >= 1
    BY <1>1, <1>2, InsertedRow DEF Retry
  <1>4. \A i \in Jobs : state[i] # "running" /\ state'[i] # "running"
    BY <1>1, <1>3 DEF Inv, SingleExecution, Retry, SameRow
  <1>5. SingleExecution' /\ OwnerInv'
    BY <1>4, ParamAssumption DEF SingleExecution, OwnerInv, OwnPc, Retry
  <1>6. OneIncarnation'
    <2>1. \A i \in Jobs : Live(i)' => IsActive(i) \/ i = j
      BY <1>3, ParamAssumption DEF Live, Retry
    <2>2. \A i \in Jobs : IsActive(i) => i # cur /\ origin[i] # origin[cur]
      BY <1>1 DEF Inv, OneIncarnation, Live, IsActive, Active
    <2>3. QED
      BY <1>3, <2>1, <2>2 DEF Inv, OneIncarnation, Live, SameRow
  \* The new row is ahead of every row, and what is active on its path is new.
  <1>7. ASSUME NEW k \in Jobs, k # j, IsActive(k), path[k] = path[cur]
        PROVE  RetryAhead(j, k)'
    <2>1. k \in Rows /\ k # cur
      BY <1>1, <1>7 DEF IsActive, Active, Rows
    <2>2. attempts[k] = 1 /\ state[k] = "pending"
      BY <1>1, <1>7, <2>1 DEF Inv, NewcomersBehind
    <2>3. pos < position[k]
      BY <2>1 DEF Inv, TypeOK, Rows, IsHeadPosition, Retry
    <2>4. attempts[cur] + 1 > 1
      BY <1>1
    <2>5. QED
      BY <1>3, <1>7, <2>2, <2>3, <2>4 DEF RetryAhead, SameRow
  <1>8. DuplicatesAreRetries'
    <2> SUFFICES ASSUME NEW a \in Jobs, NEW b \in Jobs, IsActive(a)',
                        IsActive(b)', path'[a] = path'[b], a # b
                 PROVE  (RetryAhead(a, b) \/ RetryAhead(b, a))'
      BY DEF DuplicatesAreRetries
    <2>1. CASE a = j
      BY <1>3, <1>7, <2>1 DEF SameRow
    <2>2. CASE b = j
      BY <1>3, <1>7, <2>2 DEF SameRow
    <2>3. CASE a # j /\ b # j
      BY <1>3, <2>3 DEF Inv, DuplicatesAreRetries, RetryAhead, SameRow
    <2>4. QED
      BY <2>1, <2>2, <2>3
  <1>9. NewcomersBehind'
    BY DEF NewcomersBehind, Retry
  <1>10. RowInv'
    BY <1>3 DEF Inv, RowInv, Retry
  <1>11. AttemptsBounded'
    BY <1>1, <1>3, ParamAssumption DEF Inv, TypeOK, AttemptsBounded, Retry,
       SameRow
  <1>12. QED
    BY <1>3, <1>5, <1>6, <1>8, <1>9, <1>10, <1>11 DEF CoreInv

\* The dispatcher lets go of a failed job, by dropping the retry or by ending.
LEMMA LetGoInv ==
  ASSUME Inv, TypeOK', UNCHANGED <<rowVars, restarts>>, cur' = NoJob,
         pc' \notin OwnPc,
         \/ pc \in {"rateRequeue", "authRequeue"} /\ UNCHANGED <<up, client>>
         \/ ~up' /\ \A c \in Clients : client'[c].op # "cancel"
  PROVE  CoreInv'
  <1>1. Rows' = Rows
    BY DEF Rows
  <1>2. \A i, j \in Jobs : state[i] = "running" /\ state[j] = "running" => i = j
    BY DEF Inv, SingleExecution
  <1>3. SingleExecution'
    <2>1. CASE ~up'
      BY <1>2, <2>1 DEF SingleExecution
    <2>2. CASE pc \in {"rateRequeue", "authRequeue"} /\ UNCHANGED <<up, client>>
      <3>1. up => \A j \in Jobs : state[j] # "running"
        BY <2>2 DEF Inv, SingleExecution, OwnerInv
      <3>2. QED
        BY <1>2, <2>2, <3>1 DEF SingleExecution
    <2>3. QED
      BY <2>1, <2>2
  <1>4. OwnerInv'
    BY DEF OwnerInv, OwnPc
  <1>5. OriginInv'
    BY <1>1 DEF Inv, OriginInv
  <1>6. OneIncarnation'
    BY ParamAssumption DEF Inv, OneIncarnation, Live, IsActive
  <1>7. DuplicatesAreRetries'
    BY DEF Inv, DuplicatesAreRetries, RetryAhead, IsActive
  <1>8. NewcomersBehind'
    BY DEF NewcomersBehind
  <1>9. RowInv'
    BY <1>1 DEF Inv, RowInv
  <1>10. AttemptsBounded'
    BY DEF Inv, AttemptsBounded
  <1>11. QED
    BY <1>3, <1>4, <1>5, <1>6, <1>7, <1>8, <1>9, <1>10 DEF CoreInv

LEMMA SubmitInv ==
  ASSUME Inv, TypeOK', NEW c \in Clients, NEW j \in Jobs, Submit(c, j)
  PROVE  CoreInv'
  <1>1. client[c].path \in Paths /\ client[c].position \in Int
    BY ClientFacts DEF Inv, Submit
  <1>2. /\ j \notin Rows /\ Rows' = Rows \cup {j} /\ OriginInv'
        /\ state'[j] = "pending" /\ path'[j] = client[c].path
        /\ attempts'[j] = 1 /\ origin'[j] = j
        /\ \A i \in Jobs : i # j => SameRow(i)
        /\ \A i \in Jobs : IsActive(i)' <=> IsActive(i) \/ i = j
        /\ \A i \in Rows' : attempts'[i] >= 1
    BY <1>1, InsertedRow DEF Submit
  <1>3. state[j] = "absent" /\ cur # j /\ cur' = cur
    BY ParamAssumption DEF Inv, OwnerInv, Submit, InsertRow
  <1>4. SingleExecution'
    <2>1. \A i \in Jobs : state'[i] = "running" => state[i] = "running"
      BY <1>2 DEF SameRow
    <2>2. QED
      BY <1>3, <2>1 DEF Inv, SingleExecution, Submit
  <1>5. OwnerInv'
    <2>1. cur # NoJob => cur \in Jobs /\ SameRow(cur)
      BY <1>2, <1>3 DEF Inv, TypeOK
    <2>2. cur # NoJob <=> pc \in OwnPc
      BY DEF Inv, OwnerInv
    <2>3. pc' = pc /\ up' = up
      BY DEF Submit
    <2>4. QED
      BY <1>3, <2>1, <2>2, <2>3 DEF Inv, OwnerInv, SameRow, OwnPc
  <1>6. OneIncarnation'
    <2>1. \A i \in Jobs : i # j => (Live(i)' <=> Live(i))
      BY <1>2, <1>3 DEF Live
    <2>2. \A i \in Jobs : i # j /\ Live(i) => origin[i] # j
      <3>1. \A i \in Jobs : Live(i) => i \in Rows
        BY ParamAssumption DEF Inv, OwnerInv, Live, IsActive, Active, Rows
      <3>2. QED
        BY <1>2, <3>1 DEF Inv, OriginInv
    <2>3. QED
      BY <1>2, <2>1, <2>2 DEF Inv, OneIncarnation, SameRow
  \* Nothing else is active on the path.
  <1>7. \A i \in Jobs : i # j /\ IsActive(i)' => path'[i] # path'[j]
    BY <1>2 DEF Submit, SameRow
  <1>8. DuplicatesAreRetries'
    <2> SUFFICES ASSUME NEW a \in Jobs, NEW b \in Jobs, IsActive(a)',
                        IsActive(b)', path'[a] = path'[b], a # b
                 PROVE  (RetryAhead(a, b) \/ RetryAhead(b, a))'
      BY DEF DuplicatesAreRetries
    <2>1. a # j /\ b # j
      BY <1>7
    <2>2. QED
      BY <1>2, <2>1 DEF Inv, DuplicatesAreRetries, RetryAhead, SameRow
  <1>9. NewcomersBehind'
    <2>1. cur # NoJob => cur \in Jobs /\ SameRow(cur)
      BY <1>2, <1>3 DEF Inv, TypeOK
    <2>2. QED
      BY <1>2, <1>3, <2>1 DEF Inv, NewcomersBehind, SameRow
  <1>10. RowInv'
    BY <1>2 DEF Inv, TypeOK, RowInv, Submit, Idle
  <1>11. AttemptsBounded'
    BY <1>2, ParamAssumption DEF Inv, TypeOK, AttemptsBounded, Submit, SameRow
  <1>12. QED
    BY <1>2, <1>4, <1>5, <1>6, <1>8, <1>9, <1>10, <1>11 DEF CoreInv

LEMMA CancelInv ==
  ASSUME Inv, TypeOK', NEW c \in Clients, CancelWrite(c)
  PROVE  CoreInv'
  <1> DEFINE j == client[c].job
  <1>1. j \in Rows /\ j \in Jobs /\ "cancelled" \in Terminal
    BY DEF Inv, RowInv, CancelWrite, Rows, Terminal
  <1>2. MarkTerminal(j, "cancelled") /\ UNCHANGED <<cur, pc, up, restarts>>
    BY DEF CancelWrite
  <1>3. /\ OriginInv' /\ Rows' = Rows
        /\ \A i \in Jobs :
             /\ state'[i] = IF i = j THEN "cancelled" ELSE state[i]
             /\ IsActive(i)' <=> IsActive(i) /\ i # j
        /\ DuplicatesAreRetries'
        /\ UNCHANGED <<path, attempts, position, origin>>
    BY <1>1, <1>2, MarkedRow
  <1>4. SingleExecution'
    BY <1>2, <1>3 DEF Inv, SingleExecution
  <1>5. OwnerInv'
    <2>1. cur # NoJob => cur \in Jobs
      BY DEF Inv, TypeOK
    <2>2. QED
      BY <1>2, <1>3, <2>1 DEF Inv, OwnerInv, OwnPc
  <1>6. OneIncarnation'
    BY <1>2, <1>3 DEF Inv, OneIncarnation, Live
  <1>7. NewcomersBehind'
    BY <1>2, <1>3 DEF Inv, NewcomersBehind
  <1>8. RowInv'
    BY <1>3 DEF Inv, TypeOK, RowInv, CancelWrite, Idle
  <1>9. AttemptsBounded'
    BY <1>2, <1>3 DEF Inv, AttemptsBounded
  <1>10. QED
    BY <1>3, <1>4, <1>5, <1>6, <1>7, <1>8, <1>9 DEF CoreInv

\* RecoverOrphans makes the one running row pending and counts an attempt.
LEMMA RestartInv ==
  ASSUME Inv, TypeOK', Restart
  PROVE  CoreInv'
  <1>1. /\ cur = NoJob /\ cur' = NoJob /\ pc \notin OwnPc /\ pc' = pc /\ up'
        /\ restarts' = restarts + 1 /\ client' = client
        /\ UNCHANGED <<path, position, origin>>
    BY DEF Inv, OwnerInv, Restart, RestartWith
  <1>2. /\ \A i \in Jobs : state'[i] # "running"
        /\ \A i \in Jobs : state[i] # "running"
                           => state'[i] = state[i] /\ attempts'[i] = attempts[i]
        /\ \A i \in Jobs : state[i] = "running"
                           => /\ state'[i] = "pending"
                              /\ attempts'[i] = attempts[i] + 1
    BY DEF Restart, RestartWith
  <1>3. \A i \in Jobs : (IsActive(i)' <=> IsActive(i)) /\ (i \in Rows' <=> i \in Rows)
    BY <1>2 DEF IsActive, Active, Rows
  <1>4. Rows' = Rows
    BY <1>3 DEF Rows
  <1>5. SingleExecution'
    BY <1>2 DEF SingleExecution
  <1>6. OwnerInv'
    BY <1>1 DEF OwnerInv, OwnPc
  <1>7. OriginInv'
    BY <1>1, <1>4 DEF Inv, OriginInv
  <1>8. OneIncarnation'
    BY <1>1, <1>3 DEF Inv, OneIncarnation, Live
  <1>9. DuplicatesAreRetries'
    <2> SUFFICES ASSUME NEW a \in Jobs, NEW b \in Jobs, IsActive(a)',
                        IsActive(b)', path'[a] = path'[b], a # b
                 PROVE  (RetryAhead(a, b) \/ RetryAhead(b, a))'
      BY DEF DuplicatesAreRetries
    <2>1. RetryAhead(a, b) \/ RetryAhead(b, a)
      BY <1>1, <1>3 DEF Inv, DuplicatesAreRetries
    <2>2. \A i, k \in Jobs : RetryAhead(i, k) => RetryAhead(i, k)'
      <3> SUFFICES ASSUME NEW i \in Jobs, NEW k \in Jobs, RetryAhead(i, k)
                   PROVE  RetryAhead(i, k)'
        OBVIOUS
      <3>1. state'[k] = "pending" /\ attempts'[k] = 1
        BY <1>2 DEF RetryAhead
      <3>2. attempts'[i] > 1
        <4>1. attempts[i] \in Nat /\ attempts[i] > 1
          BY DEF Inv, TypeOK, RetryAhead
        <4>2. attempts'[i] = attempts[i] \/ attempts'[i] = attempts[i] + 1
          BY <1>2
        <4> HIDE DEF RetryAhead
        <4>3. QED
          BY <4>1, <4>2
      <3>3. QED
        BY <1>1, <3>1, <3>2 DEF RetryAhead
    <2>3. QED
      BY <2>1, <2>2
  <1>10. NewcomersBehind'
    BY <1>1 DEF NewcomersBehind
  <1>11. RowInv'
    BY <1>1, <1>2, <1>4 DEF Inv, TypeOK, RowInv, Rows
  <1>12. AttemptsBounded'
    BY <1>1, <1>2, ParamAssumption DEF Inv, TypeOK, AttemptsBounded
  <1>13. QED
    BY <1>5, <1>6, <1>7, <1>8, <1>9, <1>10, <1>11, <1>12 DEF CoreInv

LEMMA InvNext ==
  ASSUME Inv, [Next]_vars
  PROVE  Inv'
  <1>1. TypeOK'
    BY TypeNext DEF Inv
  <1>2. ASSUME Next
        PROVE  CoreInv'
    <2>1. ASSUME NEW c \in Clients, NEW j \in Jobs, Submit(c, j)
          PROVE  CoreInv'
      BY <1>1, <2>1, SubmitInv
    <2>2. ASSUME NEW c \in Clients, CancelWrite(c)
          PROVE  CoreInv'
      BY <1>1, <2>2, CancelInv
    <2>3. CASE Drop
      BY <1>1, <2>3, LetGoInv DEF Drop, OwnPc
    <2>4. CASE Exit
      <3>1. \A c \in Clients : client'[c].op # "cancel"
        BY <2>4 DEF Exit, Idle
      <3>2. QED
        BY <1>1, <2>4, <3>1, LetGoInv DEF Exit, OwnPc
    <2>5. CASE Restart
      BY <1>1, <2>5, RestartInv
    <2>6. CASE Mark
      BY <1>1, <2>6, MarkInv
    <2>7. ASSUME NEW j \in Jobs, Take(j)
          PROVE  CoreInv'
      BY <1>1, <2>7, TakeInv
    <2>8. ASSUME NEW j \in Jobs, NEW pos \in Int, Retry(j, pos)
          PROVE  CoreInv'
      BY <1>1, <2>8, RetryInv
    <2>9. CASE Quiet /\ (up' => up)
                 /\ (pc' \in OwnPc <=> pc \in OwnPc)
                 /\ (pc' \in {"rateRequeue", "authRequeue"} => pc' = pc)
                 /\ (pc' \in {"gate", "await"} => pc \in {"gate", "await"})
                 /\ \A c \in Clients : client'[c].op = "cancel" =>
                      \/ client'[c] = client[c]
                      \/ client'[c].job \in Rows
      BY <1>1, <2>9, QuietInv
    <2>10. QED
      BY <1>2, <2>1, <2>2, <2>3, <2>4, <2>5, <2>6, <2>7, <2>8, <2>9, StepShape
         DEF Inv
  <1>3. ASSUME UNCHANGED vars
        PROVE  CoreInv'
    BY <1>1, <1>3, QuietInv DEF vars, Quiet
  <1>4. QED
    BY <1>1, <1>2, <1>3 DEF CoreInv, Inv

\* Inv is an invariant of the queue.
THEOREM Invariance == Spec => []Inv
  <1>1. Init => Inv
    BY InvInit
  <1>2. Inv /\ [Next]_vars => Inv'
    BY InvNext
  <1>3. QED
    BY <1>1, <1>2, PTL DEF Spec

\* The columns of table jobs, the pause state and the goroutines' local state
\* stay within their types.
THEOREM TypeCorrect == Spec => []TypeOK
  BY Invariance, PTL DEF Inv

\* At most one row is running and the dispatcher of a live server holds it,
\* whatever Cancel, the retries and RecoverOrphans do.
THEOREM SingleExecutionHolds == Spec => []SingleExecution
  BY Invariance, PTL DEF Inv

\* Two active jobs for one artifact are a retry made by EnqueueDirect, first in
\* line, and a submission that has never run.
THEOREM DuplicatesAreRetriesHolds == Spec => []DuplicatesAreRetries
  BY Invariance, PTL DEF Inv

\* Attempts exceed Config.MaxAttempts only by what RecoverOrphans added.
THEOREM AttemptsBoundedHolds == Spec => []AttemptsBounded
  BY Invariance, PTL DEF Inv

---------------------------------------------------------------------------
(* What a step may do to a terminal row. *)

\* RecoverOrphans and the dispatcher never revive a terminal row, and only a
\* cancellation that overlaps an execution rewrites one.
THEOREM TerminalStaysTerminalHolds == Spec => TerminalStaysTerminal
  <1> DEFINE Kept(j) == state[j] \in Terminal =>
                          /\ state'[j] \in Terminal
                          /\ state'[j] # state[j] =>
                               "cancelled" \in {state[j], state'[j]}
  <1>1. ASSUME Inv, [Next]_vars, NEW j \in Jobs
        PROVE  Kept(j)
    <2>1. ASSUME NEW k \in Rows, NEW s \in Terminal, MarkTerminal(k, s),
                 s = "cancelled" \/ state[k] \in {"running", "cancelled"}
          PROVE  Kept(j)
      BY <1>1, <2>1 DEF Inv, TypeOK, MarkTerminal, Rows, Terminal
    <2>2. CASE UNCHANGED state
      BY <2>2
    <2>3. CASE Mark
      <3>1. cur \in Rows /\ state[cur] \in {"running", "cancelled"}
        BY <1>1, <2>3 DEF Inv, TypeOK, OwnerInv, OwnPc, Mark, Rows
      <3>2. QED
        BY <2>1, <2>3, <3>1 DEF Mark
    <2>4. CASE \E k \in Jobs : Take(k)
      BY <1>1, <2>4 DEF Inv, TypeOK, Take, Terminal
    <2>5. CASE \E k \in Jobs, pos \in Int : Retry(k, pos)
      BY <1>1, <2>5 DEF Inv, TypeOK, Retry, InsertRow, Terminal
    <2>6. CASE \E c \in Clients, k \in Jobs : Submit(c, k)
      BY <1>1, <2>6 DEF Inv, TypeOK, Submit, InsertRow, Terminal
    <2>7. CASE \E c \in Clients : CancelWrite(c)
      <3>1. PICK c \in Clients : CancelWrite(c)
        BY <2>7
      <3>2. client[c].job \in Rows /\ "cancelled" \in Terminal
        BY <1>1, <3>1 DEF Inv, RowInv, CancelWrite, Terminal
      <3>3. QED
        BY <2>1, <3>1, <3>2 DEF CancelWrite
    <2>8. CASE Restart
      BY <1>1, <2>8 DEF Restart, RestartWith, Terminal
    <2>9. CASE Quiet \/ Drop \/ Exit \/ UNCHANGED vars
      BY <2>2, <2>9 DEF Quiet, Drop, Exit, vars
    <2>10. QED
      BY <1>1, <2>3, <2>4, <2>5, <2>6, <2>7, <2>8, <2>9, StepShape DEF Inv
  <1>2. Inv /\ [Next]_vars => [\A j \in Jobs : Kept(j)]_vars
    BY <1>1
  <1>3. QED
    BY <1>2, Invariance, PTL DEF Spec, TerminalStaysTerminal

---------------------------------------------------------------------------
(* A rate limit keeps the queue from taking jobs. *)

\* From the report to the end of the pause the dispatcher is on its way to the
\* pause, or idle under it: it never gets from a verdict to Dequeue without
\* passing paused(), and memory is set before the next tick.
LimitedInv ==
  /\ limited => \/ pc \in {"rateRequeue", "pauseStore", "pauseMem"}
                \/ pc = "idle" /\ timed
  /\ ~up => ~limited

LEMMA LimitedNext ==
  ASSUME Inv, LimitedInv, [Next]_vars
  PROVE  LimitedInv' /\ (limited => ~(cur = NoJob /\ cur' # NoJob))
  <1> USE DEF LimitedInv
  <1>1. CASE CheckPaused \/ Dequeue
    BY <1>1 DEF CheckPaused, Dequeue, pauseVars, memPause, procVars
  <1>2. CASE StartFails \/ SkipNotApproved \/ StartRun \/ RunCompletes \/ RunFails \/ RunAuthFails
    BY <1>2 DEF Inv, OwnerInv, OwnPc, StartFails, SkipNotApproved, StartRun, RunCompletes, RunFails,
                RunAuthFails, Conclude, pauseVars, memPause, procVars
  <1>3. CASE RunRateLimited
    BY <1>3 DEF RunRateLimited, procVars
  <1>4. CASE Requeue
    BY <1>4 DEF Requeue, pauseVars, memPause, procVars
  <1>5. CASE PauseStore \/ PauseMem
    BY <1>5 DEF PauseStore, PauseMem, memPause, procVars
  <1>6. CASE AutoResumeWrites
    BY <1>6 DEF AutoResumeWrites, dispVars, procVars
  <1>7. ASSUME NEW c \in Clients, Handle(c)
        PROVE  LimitedInv' /\ (limited => ~(cur = NoJob /\ cur' # NoJob))
    <2>1. CASE PauseByHand(c) \/ ResumeByHand(c)
      BY <2>1 DEF PauseByHand, ResumeByHand, dispVars, procVars
    <2>2. CASE StorePauseState(c)
      BY <2>2 DEF StorePauseState, dispVars, procVars, memPause
    <2>3. CASE (\E p \in Paths : EnqueueRead(c, p)) \/ (\E j \in Jobs : CancelRead(c, j))
               \/ EnqueueInsert(c) \/ CancelWrite(c)
      BY <2>3 DEF EnqueueRead, CancelRead, EnqueueInsert, CancelWrite, pauseVars, memPause, dispVars,
                  procVars
    <2>4. QED
      BY <1>7, <2>1, <2>2, <2>3 DEF Handle
  <1>8. CASE Exit
    BY <1>8 DEF Exit
  <1>9. CASE Restart
    BY <1>9 DEF Restart, RestartWith, dispVars
  <1>10. CASE UNCHANGED vars
    BY <1>10 DEF vars, pauseVars, memPause, dispVars, procVars
  <1>11. QED
    BY <1>1, <1>2, <1>3, <1>4, <1>5, <1>6, <1>7, <1>8, <1>9, <1>10 DEF Next, Dispatch, RunOutcome

\* Between a queue.rate_limit event and the end of its pause no job is taken,
\* whether or not the job that met the limit is tried again: handleRateLimit
\* is still busy, or paused() says so, or somebody paused or resumed by hand.
THEOREM RateLimitPauseHoldsAlways == Spec => RateLimitPauseHolds
  <1>1. Init => LimitedInv
    BY DEF Init, LimitedInv
  <1>2. Inv /\ LimitedInv /\ [Next]_vars =>
          LimitedInv' /\ [limited => ~(cur = NoJob /\ cur' # NoJob)]_vars
    BY LimitedNext
  <1>3. QED
    BY <1>1, <1>2, Invariance, PTL DEF Spec, RateLimitPauseHolds

---------------------------------------------------------------------------
(* Refinement: the queue implements RequestLifecycle. *)

LEMMA PhaseCases ==
  ASSUME NEW r
  PROVE  /\ Incarnations(r) = {} => Phase(r) = "new"
         /\ Executing(r) => Phase(r) = "executing"
         /\ ~Executing(r) /\ Waiting(r) => Phase(r) = "queued"
         /\ Incarnations(r) # {} /\ ~Executing(r) /\ ~Waiting(r)
              => Phase(r) = "done"
  <1>1. Executing(r) => Incarnations(r) # {}
    BY DEF Executing
  <1>2. Waiting(r) => Incarnations(r) # {}
    BY DEF Waiting
  <1>3. QED
    BY <1>1, <1>2 DEF Phase

\* A request keeps its phase if its incarnations, and which of them run and
\* wait, stay what they are.
LEMMA SamePhase ==
  ASSUME NEW r, Incarnations(r)' = Incarnations(r),
         \A j \in Incarnations(r) :
           /\ (state'[j] = "pending") <=> (state[j] = "pending")
           /\ (state'[j] = "running" \/ cur' = j)
                <=> (state[j] = "running" \/ cur = j)
  PROVE  Phase(r)' = Phase(r)
  <1>1. Executing(r)' <=> Executing(r)
    BY DEF Executing
  <1>2. Waiting(r)' <=> Waiting(r)
    BY DEF Waiting
  <1>3. QED
    BY <1>1, <1>2 DEF Phase

\* One request changes phase and the others do not.
LEMMA BecomeStep ==
  ASSUME NEW r \in Jobs, NEW from, NEW to, Phase(r) = from, Phase(r)' = to,
         \A q \in Jobs : q # r => Phase(q)' = Phase(q)
  PROVE  Abstract!Become(r, from, to)
  BY DEF Abstract!Become

\* At most one request executes, and it is the one whose row runs or is held.
LEMMA OneExecuting ==
  ASSUME Inv, NEW j \in Rows, state[j] = "running" \/ cur = j
  PROVE  /\ Executing(origin[j])
         /\ \A k \in Rows : state[k] = "running" \/ cur = k => k = j
  <1>1. Executing(origin[j])
    BY DEF Executing, Incarnations
  <1>2. \A k \in Rows : state[k] = "running" \/ cur = k => k = j
    BY ParamAssumption DEF Inv, TypeOK, SingleExecution, OwnerInv, Rows
  <1>3. QED
    BY <1>1, <1>2

\* A live row is the only one of its request that is live.
LEMMA OneLive ==
  ASSUME Inv, NEW j \in Rows, Live(j), NEW k \in Incarnations(origin[j]),
         k # j
  PROVE  state[k] \notin {"pending", "running"} /\ cur # k
  BY DEF Inv, OneIncarnation, Live, IsActive, Active, Incarnations, Rows

\* The held or running row stops executing and its request is done.
LEMMA FinishStep ==
  ASSUME Inv, NEW j \in Rows, state[j] = "running" \/ cur = j,
         Rows' = Rows, origin' = origin, cur' = NoJob,
         state'[j] \notin {"pending", "running"},
         \A i \in Jobs : i # j => state'[i] = state[i]
  PROVE  Abstract!Next
  <1> PICK r \in Jobs : r = origin[j]
    BY DEF Inv, TypeOK, Rows
  <1>1. j \in Jobs /\ j # NoJob /\ Live(j) /\ j \in Incarnations(r)
    BY ParamAssumption DEF Inv, OriginInv, Rows, Live, IsActive, Active,
       Incarnations
  <1>2. Phase(r) = "executing"
    BY OneExecuting, PhaseCases
  <1>3. \A q : Incarnations(q)' = Incarnations(q)
    BY DEF Incarnations
  <1>4. Phase(r)' = "done"
    <2>1. ASSUME NEW k \in Incarnations(r)
          PROVE  state'[k] \notin {"pending", "running"} /\ cur' # k
      <3>1. k \in Jobs /\ k # NoJob
        BY ParamAssumption DEF Incarnations, Rows
      <3>2. CASE k = j
        BY <3>1, <3>2
      <3>3. CASE k # j
        BY <1>1, <3>1, <3>3, OneLive
      <3>4. QED
        BY <3>2, <3>3
    <2>2. ~Executing(r)' /\ ~Waiting(r)'
      BY <1>3, <2>1 DEF Executing, Waiting
    <2>3. Incarnations(r)' # {}
      BY <1>1, <1>3
    <2>4. QED
      BY <2>2, <2>3 DEF Phase
  <1>5. ASSUME NEW q \in Jobs, q # r
        PROVE  Phase(q)' = Phase(q)
    <2>1. \A k \in Incarnations(q) :
            /\ k # j /\ k \in Rows /\ k \in Jobs /\ k # NoJob
            /\ state'[k] = state[k]
      BY <1>5, ParamAssumption DEF Incarnations, Rows
    <2>2. \A k \in Incarnations(q) : state[k] # "running" /\ cur # k
      BY <2>1, OneExecuting
    <2>3. QED
      BY <1>3, <2>1, <2>2, SamePhase
  <1>6. Abstract!Finish(r)
    BY <1>1, <1>2, <1>4, <1>5, BecomeStep DEF Abstract!Finish
  <1>7. QED
    BY <1>1, <1>6 DEF Abstract!Next

\* Taking a pending row starts its request.
LEMMA StartStep ==
  ASSUME Inv, NEW j \in Jobs, Take(j)
  PROVE  Abstract!Next
  <1> PICK r \in Jobs : r = origin[j]
    BY DEF Inv, TypeOK
  <1>1. /\ j \in Rows /\ Live(j) /\ j \in Incarnations(r)
        /\ cur = NoJob /\ \A k \in Jobs : state[k] # "running"
    BY ParamAssumption DEF Inv, OriginInv, OwnerInv, OwnPc, SingleExecution,
       Take, Rows, Live, IsActive, Active, Incarnations
  <1>2. /\ state'[j] = "running" /\ cur' = j /\ origin' = origin
        /\ \A i \in Jobs : i # j => state'[i] = state[i]
    BY DEF Inv, TypeOK, Take
  <1>3. Rows' = Rows
    BY <1>1, <1>2 DEF Rows
  <1>4. \A q : Incarnations(q)' = Incarnations(q)
    BY <1>2, <1>3 DEF Incarnations
  <1>5. \A q \in Jobs : ~Executing(q)
    BY <1>1, ParamAssumption DEF Executing, Incarnations, Rows
  <1>6. \A q \in Jobs : Phase(q) # "executing"
    BY <1>5 DEF Phase
  <1>7. Phase(r) = "queued"
    BY <1>1, <1>5, PhaseCases DEF Waiting, Take
  <1>8. Phase(r)' = "executing"
    <2>1. Executing(r)'
      BY <1>1, <1>2, <1>4 DEF Executing
    <2>2. Incarnations(r)' # {}
      BY <1>1, <1>4
    <2>3. QED
      BY <2>1, <2>2 DEF Phase
  <1>9. ASSUME NEW q \in Jobs, q # r
        PROVE  Phase(q)' = Phase(q)
    <2>1. \A k \in Incarnations(q) : k # j /\ k \in Jobs /\ k # NoJob
      BY <1>9, ParamAssumption DEF Incarnations, Rows
    <2>2. QED
      BY <1>1, <1>2, <1>4, <2>1, SamePhase
  <1>10. Abstract!Start(r)
    BY <1>1, <1>6, <1>7, <1>8, <1>9, BecomeStep DEF Abstract!Start
  <1>11. QED
    BY <1>1, <1>10 DEF Abstract!Next

\* A request that executes goes back to the queue.
LEMMA RetryStep ==
  ASSUME Inv, NEW r \in Jobs, Executing(r), Waiting(r)',
         \A k \in Jobs : state'[k] # "running", cur' = NoJob,
         \A q \in Jobs : q # r =>
           /\ Incarnations(q)' = Incarnations(q)
           /\ \A k \in Incarnations(q) : state'[k] = state[k]
  PROVE  Abstract!Next
  <1>1. Phase(r) = "executing"
    BY PhaseCases
  <1>2. ~Executing(r)' /\ Incarnations(r)' # {}
    BY ParamAssumption DEF Executing, Waiting, Incarnations, Rows
  <1>3. Phase(r)' = "queued"
    BY <1>2 DEF Phase
  <1>4. ASSUME NEW q \in Jobs, q # r
        PROVE  Phase(q)' = Phase(q)
    <2>1. \A k \in Incarnations(q) :
            /\ k \in Rows /\ k \in Jobs /\ k # NoJob /\ origin[k] # r
            /\ state'[k] = state[k]
      BY <1>4, ParamAssumption DEF Incarnations, Rows
    <2>2. PICK j \in Incarnations(r) : state[j] = "running" \/ cur = j
      BY DEF Executing
    <2>3. j \in Rows /\ origin[j] = r
      BY <2>2 DEF Incarnations
    <2>4. \A k \in Incarnations(q) : state[k] # "running" /\ cur # k
      BY <2>1, <2>2, <2>3, OneExecuting
    <2>5. QED
      BY <1>4, <2>1, <2>4, SamePhase
  <1>5. Abstract!Retry(r)
    BY <1>1, <1>3, <1>4, BecomeStep DEF Abstract!Retry
  <1>6. QED
    BY <1>5 DEF Abstract!Next

\* A new pending row whose request is new, or the one that executes.
LEMMA SubmitStep ==
  ASSUME Inv, NEW c \in Clients, NEW j \in Jobs, Submit(c, j)
  PROVE  Abstract!Next
  <1>1. client[c].path \in Paths /\ client[c].position \in Int
    BY ClientFacts DEF Inv, Submit
  <1>2. /\ j \notin Rows /\ Rows' = Rows \cup {j}
        /\ state'[j] = "pending" /\ origin'[j] = j
        /\ \A i \in Jobs : i # j => SameRow(i)
        /\ cur' = cur /\ cur # j
    <2>1. cur # j
      BY ParamAssumption DEF Inv, OwnerInv, Submit, InsertRow
    <2>2. QED
      BY <1>1, <2>1, InsertedRow DEF Submit
  <1>3. Incarnations(j) = {} /\ Incarnations(j)' = {j}
    <2>1. \A k \in Rows : origin[k] # j /\ k # j /\ k \in Jobs
      BY <1>2 DEF Inv, OriginInv, Rows
    <2>2. QED
      BY <1>2, <2>1 DEF Incarnations, SameRow
  <1>4. Phase(j) = "new"
    BY <1>3, PhaseCases
  <1>5. Phase(j)' = "queued"
    <2>1. ~Executing(j)' /\ Waiting(j)' /\ Incarnations(j)' # {}
      BY <1>2, <1>3 DEF Executing, Waiting
    <2>2. QED
      BY <2>1 DEF Phase
  <1>6. ASSUME NEW q \in Jobs, q # j
        PROVE  Phase(q)' = Phase(q)
    <2>1. Incarnations(q)' = Incarnations(q)
      BY <1>2, <1>6 DEF Incarnations, SameRow, Rows
    <2>2. \A k \in Incarnations(q) : state'[k] = state[k]
      BY <1>2 DEF Incarnations, SameRow, Rows
    <2>3. QED
      BY <1>2, <2>1, <2>2, SamePhase
  <1>7. Abstract!Submit(j)
    BY <1>4, <1>5, <1>6, BecomeStep DEF Abstract!Submit
  <1>8. QED
    BY <1>7 DEF Abstract!Next

\* Cancelling a pending row withdraws its request; any other row's phase does
\* not depend on what CancelWrite changes.
LEMMA CancelStep ==
  ASSUME Inv, NEW c \in Clients, CancelWrite(c)
  PROVE  Abstract!Next \/ \A q \in Jobs : Phase(q)' = Phase(q)
  <1> PICK j \in Rows : j = client[c].job
    BY DEF Inv, RowInv, CancelWrite
  <1> PICK r \in Jobs : r = origin[j]
    BY DEF Inv, TypeOK, Rows
  <1>1. /\ j \in Rows /\ j \in Jobs /\ j # NoJob
        /\ "cancelled" \in Terminal /\ up
    BY ParamAssumption DEF Inv, CancelWrite, Rows, Terminal
  <1>2. /\ state'[j] = "cancelled"
        /\ \A i \in Jobs : i # j => state'[i] = state[i]
        /\ UNCHANGED <<origin, cur>>
    BY <1>1 DEF Inv, TypeOK, CancelWrite, MarkTerminal
  <1>3. Rows' = Rows
    BY <1>1, <1>2 DEF Rows
  <1>4. \A q : Incarnations(q)' = Incarnations(q)
    BY <1>2, <1>3 DEF Incarnations
  <1>5. CASE state[j] # "pending"
    <2>1. state[j] = "running" => cur = j
      BY <1>1 DEF Inv, SingleExecution
    <2>2. ASSUME NEW q \in Jobs, NEW k \in Incarnations(q)
          PROVE  /\ (state'[k] = "pending") <=> (state[k] = "pending")
                 /\ (state'[k] = "running" \/ cur' = k)
                      <=> (state[k] = "running" \/ cur = k)
      <3>1. k \in Jobs
        BY DEF Incarnations, Rows
      <3>2. CASE k = j
        BY <1>2, <1>5, <2>1, <3>2
      <3>3. CASE k # j
        BY <1>2, <3>1, <3>3
      <3>4. QED
        BY <3>2, <3>3
    <2>3. QED
      BY <1>4, <2>2, SamePhase
  <1>6. CASE state[j] = "pending"
    <2>1. /\ Live(j) /\ j \in Incarnations(r) /\ cur # j
      BY <1>1, <1>6 DEF Inv, OwnerInv, Live, IsActive, Active, Incarnations
    <2>2. \A k \in Incarnations(r) : k # j =>
            state[k] \notin {"pending", "running"} /\ cur # k /\ k \in Jobs
      BY <1>1, <2>1, OneLive DEF Incarnations, Rows
    <2>3. ~Executing(r) /\ Waiting(r)
      BY <1>6, <2>1, <2>2 DEF Executing, Waiting
    <2>4. Phase(r) = "queued"
      BY <2>3, PhaseCases
    <2>5. ~Executing(r)' /\ ~Waiting(r)' /\ Incarnations(r)' # {}
      BY <1>2, <1>4, <2>1, <2>2 DEF Executing, Waiting
    <2>6. Phase(r)' = "done"
      BY <2>5 DEF Phase
    <2>7. ASSUME NEW q \in Jobs, q # r
          PROVE  Phase(q)' = Phase(q)
      <3>1. \A k \in Incarnations(q) : k # j /\ k \in Jobs
        BY <2>7 DEF Incarnations, Rows
      <3>2. QED
        BY <1>2, <1>4, <3>1, SamePhase
    <2>8. Abstract!Withdraw(r)
      BY <1>1, <2>4, <2>6, <2>7, BecomeStep DEF Abstract!Withdraw
    <2>9. QED
      BY <1>1, <2>8 DEF Abstract!Next
  <1>7. QED
    BY <1>5, <1>6

\* A step after which the same rows wait and execute.
LEMMA SameStep ==
  ASSUME Inv, Rows' = Rows, origin' = origin,
         \A k \in Rows : (state'[k] = "pending") <=> (state[k] = "pending"),
         \A k \in Rows : (state'[k] = "running" \/ cur' = k)
                            <=> (state[k] = "running" \/ cur = k)
  PROVE  \A q \in Jobs : Phase(q)' = Phase(q)
  <1> SUFFICES ASSUME NEW q \in Jobs
               PROVE  Phase(q)' = Phase(q)
    OBVIOUS
  <1>1. Incarnations(q)' = Incarnations(q) /\ Incarnations(q) \subseteq Rows
    BY DEF Incarnations
  <1>2. QED
    BY <1>1, SamePhase

\* The held job is marked: its request is done, or executes until the retry.
LEMMA MarkStep ==
  ASSUME Inv, Mark
  PROVE  Abstract!Next \/ \A q \in Jobs : Phase(q)' = Phase(q)
  <1>1. cur \in Jobs /\ cur # NoJob /\ cur \in Rows
    BY ParamAssumption DEF Inv, TypeOK, OwnerInv, OwnPc, Mark, Rows
  <1>2. PICK s \in Terminal : MarkTerminal(cur, s)
    BY DEF Mark
  <1>3. s \notin {"pending", "running", "absent"}
    BY DEF Terminal
  <1>4. /\ state'[cur] = s /\ origin' = origin
        /\ \A i \in Jobs : i # cur => state'[i] = state[i]
    BY <1>1, <1>2 DEF Inv, TypeOK, MarkTerminal
  <1>5. Rows' = Rows
    BY <1>1, <1>3, <1>4 DEF Rows
  <1>6. CASE cur' = NoJob
    <2>1. PICK j \in Rows : j = cur
      BY <1>1
    <2>2. /\ state'[j] \notin {"pending", "running"}
          /\ \A i \in Jobs : i # j => state'[i] = state[i]
      BY <1>3, <1>4, <2>1
    <2>3. QED
      BY <1>4, <1>5, <1>6, <2>1, <2>2, FinishStep
  <1>7. CASE cur' = cur
    <2>1. state[cur] # "pending"
      BY <1>1 DEF Inv, OwnerInv
    <2>2. ASSUME NEW k \in Rows
          PROVE  /\ (state'[k] = "pending") <=> (state[k] = "pending")
                 /\ (state'[k] = "running" \/ cur' = k)
                      <=> (state[k] = "running" \/ cur = k)
      <3>1. k \in Jobs
        BY DEF Rows
      <3>2. CASE k = cur
        BY <1>3, <1>4, <1>7, <2>1, <3>2
      <3>3. CASE k # cur
        BY <1>4, <1>7, <3>1, <3>3
      <3>4. QED
        BY <3>2, <3>3
    <2>3. QED
      BY <1>4, <1>5, <2>2, SameStep
  <1>8. QED
    BY <1>6, <1>7 DEF Mark

\* The dispatcher lets go of its job, and the rows stay as they are: the
\* retry could not be inserted, or the process ends.  A row that runs when the
\* process ends keeps its request executing, for orphan recovery to find.
LEMMA LetGoStep ==
  ASSUME Inv, cur' = NoJob, UNCHANGED rowVars
  PROVE  Abstract!Next \/ \A q \in Jobs : Phase(q)' = Phase(q)
  <1>1. origin' = origin /\ state' = state /\ Rows' = Rows
    BY DEF rowVars, Rows
  <1>2. NoJob \notin Rows
    BY ParamAssumption DEF Rows
  <1>3. CASE \A k \in Rows : cur = k => state[k] = "running"
    <2>1. \A k \in Rows : (state'[k] = "running" \/ cur' = k)
                             <=> (state[k] = "running" \/ cur = k)
      BY <1>1, <1>2, <1>3
    <2>2. QED
      BY <1>1, <2>1, SameStep
  <1>4. ASSUME NEW j \in Rows, cur = j, state[j] # "running"
        PROVE  Abstract!Next
    <2>1. state[j] # "pending"
      BY <1>2, <1>4 DEF Inv, OwnerInv
    <2>2. state'[j] \notin {"pending", "running"}
      BY <1>1, <1>4, <2>1
    <2>3. QED
      BY <1>1, <1>4, <2>2, FinishStep
  <1>5. QED
    BY <1>3, <1>4

\* The retry row joins the request of the job the dispatcher holds.
LEMMA RequeueStep ==
  ASSUME Inv, NEW j \in Jobs, NEW pos \in Int, Retry(j, pos)
  PROVE  Abstract!Next
  <1>1. /\ cur \in Jobs /\ cur # NoJob /\ cur \in Rows /\ origin[cur] \in Jobs
        /\ state[cur] # "running" /\ up
    BY ParamAssumption DEF Inv, TypeOK, OwnerInv, OwnPc, Retry, Rows
  <1> PICK r \in Jobs : r = origin[cur]
    BY <1>1
  <1>2. Executing(r)
    BY <1>1 DEF Executing, Incarnations
  <1>3. /\ j \notin Rows /\ Rows' = Rows \cup {j}
        /\ state'[j] = "pending" /\ origin'[j] = r
        /\ \A i \in Jobs : i # j => SameRow(i)
    <2>1. attempts[cur] + 1 \in Nat \ {0} /\ path[cur] \in Paths
      BY <1>1 DEF Inv, TypeOK
    <2>2. r \in Rows \cup {j} /\ origin[r] = r
      BY <1>1 DEF Inv, OriginInv
    <2>3. InsertRow(j, path[cur], attempts[cur] + 1, pos, r)
      BY DEF Retry
    <2>4. QED
      BY <2>1, <2>2, <2>3, InsertedRow
  <1>4. Waiting(r)'
    <2>1. j \in Incarnations(r)'
      BY <1>3 DEF Incarnations
    <2>2. QED
      BY <1>3, <2>1 DEF Waiting
  <1>5. \A k \in Jobs : state[k] # "running"
    BY <1>1 DEF Inv, SingleExecution
  <1>6. \A k \in Jobs : state'[k] # "running"
    BY <1>3, <1>5 DEF SameRow
  <1>7. ASSUME NEW q \in Jobs, q # r
        PROVE  /\ Incarnations(q)' = Incarnations(q)
               /\ \A k \in Incarnations(q) : state'[k] = state[k]
    <2>1. Incarnations(q)' = Incarnations(q)
      BY <1>3, <1>7 DEF Incarnations, SameRow, Rows
    <2>2. \A k \in Incarnations(q) : state'[k] = state[k]
      BY <1>3 DEF Incarnations, SameRow, Rows
    <2>3. QED
      BY <2>1, <2>2
  <1>8. cur' = NoJob
    BY DEF Retry
  <1>9. QED
    BY <1>2, <1>4, <1>6, <1>7, <1>8, RetryStep

\* Orphan recovery puts the request that was executing back in the queue.
LEMMA RestartStep ==
  ASSUME Inv, Restart
  PROVE  Abstract!Next \/ \A q \in Jobs : Phase(q)' = Phase(q)
  <1>1. cur = NoJob /\ cur' = NoJob /\ origin' = origin
    BY DEF Inv, OwnerInv, Restart, RestartWith
  <1>2. /\ \A k \in Jobs : state[k] = "running" => state'[k] = "pending"
        /\ \A k \in Jobs : state[k] # "running" => state'[k] = state[k]
    BY DEF Restart, RestartWith
  <1>3. Rows' = Rows
    BY <1>2 DEF Rows
  <1>4. CASE \A k \in Rows : state[k] # "running"
    <2>1. \A k \in Rows : state'[k] = state[k] /\ cur' = cur
      BY <1>1, <1>2, <1>4 DEF Rows
    <2>2. QED
      BY <1>1, <1>3, <2>1, SameStep
  <1>5. ASSUME NEW j \in Rows, state[j] = "running"
        PROVE  Abstract!Next
    <2>1. j \in Jobs
      BY DEF Rows
    <2> PICK r \in Jobs : r = origin[j]
      BY <2>1 DEF Inv, TypeOK
    <2>2. Executing(r)
      BY <1>5 DEF Executing, Incarnations
    <2>3. Waiting(r)'
      <3>1. j \in Incarnations(r)' /\ state'[j] = "pending"
        BY <1>1, <1>2, <1>3, <1>5, <2>1 DEF Incarnations
      <3>2. QED
        BY <3>1 DEF Waiting
    <2>4. \A k \in Jobs : state'[k] # "running"
      BY <1>2
    <2>5. ASSUME NEW q \in Jobs, q # r
          PROVE  /\ Incarnations(q)' = Incarnations(q)
                 /\ \A k \in Incarnations(q) : state'[k] = state[k]
      <3>1. Incarnations(q)' = Incarnations(q)
        BY <1>1, <1>3 DEF Incarnations
      <3>2. \A k \in Incarnations(q) : k \in Jobs /\ k # j
        BY <2>5 DEF Incarnations, Rows
      <3>3. \A k \in Incarnations(q) : state[k] # "running"
        BY <1>5, <2>1, <3>2 DEF Inv, SingleExecution
      <3>4. QED
        BY <1>2, <3>1, <3>2, <3>3
    <2>6. QED
      BY <1>1, <2>2, <2>3, <2>4, <2>5, RetryStep
  <1>6. QED
    BY <1>4, <1>5

\* Every step is a step of the abstract specification or leaves every phase.
LEMMA AbstractNext ==
  ASSUME Inv, [Next]_vars
  PROVE  Abstract!Next \/ \A q \in Jobs : Phase(q)' = Phase(q)
  <1>1. CASE Quiet \/ UNCHANGED vars
    <2>1. origin' = origin /\ state' = state /\ cur' = cur
      BY <1>1 DEF Quiet, rowVars, vars, dispVars
    <2>2. Rows' = Rows
      BY <2>1 DEF Rows
    <2>3. QED
      BY <2>1, <2>2, SameStep
  <1>2. CASE Mark
    BY <1>2, MarkStep
  <1>3. ASSUME NEW j \in Jobs, Take(j)
        PROVE  Abstract!Next
    BY <1>3, StartStep
  <1>4. ASSUME NEW j \in Jobs, NEW pos \in Int, Retry(j, pos)
        PROVE  Abstract!Next
    BY <1>4, RequeueStep
  <1>5. CASE Drop
    BY <1>5, LetGoStep DEF Drop
  <1>6. ASSUME NEW c \in Clients, NEW j \in Jobs, Submit(c, j)
        PROVE  Abstract!Next
    BY <1>6, SubmitStep
  <1>7. ASSUME NEW c \in Clients, CancelWrite(c)
        PROVE  Abstract!Next \/ \A q \in Jobs : Phase(q)' = Phase(q)
    BY <1>7, CancelStep
  <1>8. CASE Exit
    BY <1>8, LetGoStep DEF Exit
  <1>9. CASE Restart
    BY <1>9, RestartStep
  <1>10. TypeOK /\ OwnerInv
    BY DEF Inv
  <1>11. QED
    BY <1>1, <1>2, <1>3, <1>4, <1>5, <1>6, <1>7, <1>8, <1>9, <1>10, StepShape

\* An empty table has only new requests.
LEMMA AbstractInit ==
  ASSUME Init
  PROVE  Abstract!Init
  <1>1. Rows = {}
    BY DEF Init, Rows
  <1>2. \A r \in Jobs : Phase(r) = "new"
    BY <1>1 DEF Incarnations, Phase
  <1>3. QED
    BY <1>2 DEF Abstract!Init

\* The queue of store.go and dispatcher.go implements the lifecycle of
\* RequestLifecycle: requests execute one at a time, and a request that is
\* done stays done, through retries, cancellations, crashes and recovery.
THEOREM ImplementsLifecycleHolds == Spec => ImplementsLifecycle
  <1>1. Init => Abstract!Init
    BY AbstractInit
  <1>2. ASSUME Inv, [Next]_vars
        PROVE  [Abstract!Next]_([r \in Jobs |-> Phase(r)])
    <2>1. CASE Abstract!Next
      BY <2>1
    <2>2. CASE \A q \in Jobs : Phase(q)' = Phase(q)
      <3>1. [r \in Jobs |-> Phase(r)]' = [r \in Jobs |-> Phase(r)]
        BY <2>2
      <3>2. QED
        BY <3>1
    <2>3. QED
      BY <1>2, <2>1, <2>2, AbstractNext
  <1>3. QED
    BY <1>1, <1>2, Invariance, PTL DEF Spec, ImplementsLifecycle, Abstract!Spec
===========================================================================

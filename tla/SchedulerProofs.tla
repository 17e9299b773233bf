-------------------------- MODULE SchedulerProofs --------------------------
(***************************************************************************)
(* Proofs about Scheduler, for any jobs, callers, workers and bounds.      *)
(*                                                                         *)
(* Every state change of a goroutine is described by the place it leaves   *)
(* and the place it goes to; the invariants are about how many goroutines  *)
(* are at the places of Holding (the tokens), which executions are between *)
(* InsertRun and the deferred function (the marks, the rows), and what the *)
(* loop knows of the queue between its check and its Push.                 *)
(***************************************************************************)
EXTENDS Scheduler, FiniteSetTheorems, TLAPS

\* A goroutine at work on a job knows which one.
AtWork  == {"insert", "run", "clear"}
ItemInv ==
  /\ \A t \in Threads : pc[t] \in AtWork \cup {"decide", "push"} => item[t] \in Jobs
  /\ \A c \in Callers : pc[c] = "check" => item[c] \in Jobs

\* From CheckIdle to Push, nothing the loop has pushed waits for its job.
LoopInv ==
  pc[Loop] \in {"decide", "push"} =>
    \A i \in DOMAIN queue : queue[i].by = "tick" => queue[i].job # item[Loop]

Inv ==
  /\ SchTypeOK /\ ItemInv /\ SlotsAccounted /\ RunningMarkIsBacked
  /\ TickQueuesOnce /\ LoopInv /\ RunningRowsAreLive

---------------------------------------------------------------------------
(* Goroutines and tokens.                                                  *)

LEMMA Roles ==
  /\ Loop \in Threads /\ Callers \subseteq Threads /\ Workers \subseteq Threads
  /\ Execs \subseteq Threads
  /\ Loop \notin Execs \cup Callers \cup Workers
  /\ Execs \cap Callers = {} /\ Execs \cap Workers = {}
  /\ NoJob \notin Jobs
  BY SchedulerAssumption DEF Threads, Loop, Callers, Workers, Execs, Jobs, NoJob

LEMMA ThreadsFinite == IsFiniteSet(Threads)
  <1>1. \A n \in Nat : IsFiniteSet(1..n)
    BY FS_Interval
  <1>2. IsFiniteSet({"caller"}) /\ IsFiniteSet({"worker"}) /\ IsFiniteSet({"exec"}) /\ IsFiniteSet({Loop})
    BY FS_Singleton
  <1>3. IsFiniteSet(Callers) /\ IsFiniteSet(Workers) /\ IsFiniteSet(Execs)
    BY <1>1, <1>2, FS_Product, SchedulerAssumption DEF Callers, Workers, Execs
  <1>4. IsFiniteSet(({Loop} \cup Callers) \cup Workers)
    BY <1>2, <1>3, FS_Union
  <1> QED
    BY <1>3, <1>4, FS_Union DEF Threads

\* The goroutines that hold a token, where f says where they are.
HoldersOf(f) == {t \in Threads : f[t] \in Holding}

LEMMA HoldersCount ==
  ASSUME NEW f
  PROVE  IsFiniteSet(HoldersOf(f)) /\ Cardinality(HoldersOf(f)) \in Nat
  BY ThreadsFinite, FS_Subset, FS_CardinalityType DEF HoldersOf

LEMMA SameHolders ==
  ASSUME NEW f, NEW g, \A t \in Threads : f[t] \in Holding <=> g[t] \in Holding
  PROVE  HoldersOf(f) = HoldersOf(g)
  BY DEF HoldersOf

\* A goroutine comes to hold a token.
LEMMA HolderMore ==
  ASSUME NEW f, NEW g, NEW u \in Threads, f[u] \notin Holding, g[u] \in Holding,
         \A t \in Threads \ {u} : f[t] \in Holding <=> g[t] \in Holding
  PROVE  Cardinality(HoldersOf(g)) = Cardinality(HoldersOf(f)) + 1
  <1>1. HoldersOf(g) = HoldersOf(f) \cup {u} /\ u \notin HoldersOf(f)
    BY DEF HoldersOf
  <1> QED
    BY <1>1, HoldersCount, FS_AddElement

\* A token is handed over from one goroutine to another.
LEMMA HolderSwap ==
  ASSUME NEW f, NEW g, NEW u \in Threads, NEW v \in Threads, u # v,
         f[u] \in Holding, g[u] \notin Holding, f[v] \notin Holding, g[v] \in Holding,
         \A t \in Threads \ {u, v} : f[t] \in Holding <=> g[t] \in Holding
  PROVE  Cardinality(HoldersOf(g)) = Cardinality(HoldersOf(f))
  <1>1. /\ HoldersOf(g) = (HoldersOf(f) \ {u}) \cup {v}
        /\ u \in HoldersOf(f) /\ v \notin HoldersOf(f) \ {u}
    BY DEF HoldersOf
  <1>2. IsFiniteSet(HoldersOf(f)) /\ Cardinality(HoldersOf(f)) \in Nat
    BY HoldersCount
  <1>3. /\ IsFiniteSet(HoldersOf(f) \ {u})
        /\ Cardinality(HoldersOf(f) \ {u}) = Cardinality(HoldersOf(f)) - 1
    BY <1>1, <1>2, FS_RemoveElement
  <1>4. Cardinality(HoldersOf(g)) = Cardinality(HoldersOf(f) \ {u}) + 1
    BY <1>1, <1>3, FS_AddElement
  <1> QED
    BY <1>2, <1>3, <1>4

LEMMA Slots == SlotsAccounted <=> slots = Cardinality(HoldersOf(pc))
  BY DEF SlotsAccounted, HoldersOf

---------------------------------------------------------------------------
(* The queue.                                                              *)

Items == [job : Jobs, by : {"tick", "trigger"}]

\* Push puts an item somewhere between the others, which keep their order.
LEMMA InsertFacts ==
  ASSUME queue \in Seq(Items), NEW it \in Items
  PROVE  /\ Insert(it) \in Seq(Items)
         /\ Len(Insert(it)) = Len(queue) + 1
         /\ \E n \in 0..Len(queue) :
              /\ \A i \in 1..n : Insert(it)[i] = queue[i]
              /\ Insert(it)[n + 1] = it
              /\ \A i \in (n + 2)..(Len(queue) + 1) : Insert(it)[i] = queue[i - 1]
  <1> DEFINE ahead == {i \in DOMAIN queue : Priority[queue[i].job] >= Priority[it.job]}
             n     == Cardinality(ahead)
  <1>1. DOMAIN queue = 1..Len(queue) /\ Len(queue) \in Nat
    OBVIOUS
  <1>2. IsFiniteSet(DOMAIN queue) /\ Cardinality(DOMAIN queue) = Len(queue)
    BY <1>1, FS_Interval
  <1>3. n \in 0..Len(queue)
    BY <1>1, <1>2, FS_Subset, FS_CardinalityType
  <1>4. Insert(it) = SubSeq(queue, 1, n) \o <<it>> \o SubSeq(queue, n + 1, Len(queue))
    BY DEF Insert
  <1> HIDE DEF n
  <1>5. /\ SubSeq(queue, 1, n) \in Seq(Items) /\ Len(SubSeq(queue, 1, n)) = n
        /\ \A i \in 1..n : SubSeq(queue, 1, n)[i] = queue[i]
    BY <1>3
  <1>6. /\ SubSeq(queue, n + 1, Len(queue)) \in Seq(Items)
        /\ Len(SubSeq(queue, n + 1, Len(queue))) = Len(queue) - n
        /\ \A i \in 1..(Len(queue) - n) : SubSeq(queue, n + 1, Len(queue))[i] = queue[n + i]
    BY <1>3
  <1> DEFINE front == SubSeq(queue, 1, n)
             back  == SubSeq(queue, n + 1, Len(queue))
  <1>7. front \in Seq(Items) /\ back \in Seq(Items) /\ Len(front) = n /\ Len(back) = Len(queue) - n
    BY <1>5, <1>6
  <1>8. Insert(it) = (front \o <<it>>) \o back
    BY <1>4
  <1>9. /\ \A i \in 1..n : front[i] = queue[i]
        /\ \A i \in 1..(Len(queue) - n) : back[i] = queue[n + i]
    BY <1>5, <1>6
  <1> HIDE DEF front, back
  <1>10. /\ front \o <<it>> \in Seq(Items) /\ Len(front \o <<it>>) = n + 1
         /\ \A i \in 1..n : (front \o <<it>>)[i] = front[i]
         /\ (front \o <<it>>)[n + 1] = it
    BY <1>3, <1>7
  <1>11. /\ Insert(it) \in Seq(Items) /\ Len(Insert(it)) = Len(queue) + 1
         /\ \A i \in 1..(n + 1) : Insert(it)[i] = (front \o <<it>>)[i]
         /\ \A i \in (n + 2)..(Len(queue) + 1) : Insert(it)[i] = back[i - (n + 1)]
    BY <1>3, <1>7, <1>8, <1>10
  <1>12. \A i \in 1..n : Insert(it)[i] = queue[i]
    BY <1>3, <1>9, <1>10, <1>11
  <1>13. Insert(it)[n + 1] = it
    BY <1>3, <1>10, <1>11
  <1>14. \A i \in (n + 2)..(Len(queue) + 1) : Insert(it)[i] = queue[i - 1]
    <2> SUFFICES ASSUME NEW i \in (n + 2)..(Len(queue) + 1)
                 PROVE  Insert(it)[i] = queue[i - 1]
      OBVIOUS
    <2>1. i - (n + 1) \in 1..(Len(queue) - n) /\ n + (i - (n + 1)) = i - 1
      BY <1>3
    <2> QED
      BY <1>9, <1>11, <2>1
  <1> QED
    BY <1>3, <1>11, <1>12, <1>13, <1>14

\* What TickQueuesOnce and LoopInv say, of any queue.
Once(q) == \A i, k \in DOMAIN q : q[i] = q[k] /\ q[i].by = "tick" => i = k
Clear(q, j) == \A i \in DOMAIN q : q[i].by = "tick" => q[i].job # j

LEMMA InsertOnce ==
  ASSUME queue \in Seq(Items), NEW it \in Items, Once(queue),
         it.by = "tick" => Clear(queue, it.job)
  PROVE  /\ Once(Insert(it))
         /\ \A j : Clear(queue, j) /\ (it.by = "tick" => it.job # j) => Clear(Insert(it), j)
  <1> DEFINE q == Insert(it)
  <1>1. q \in Seq(Items) /\ Len(q) = Len(queue) + 1 /\ DOMAIN q = 1..(Len(queue) + 1)
          /\ DOMAIN queue = 1..Len(queue) /\ Len(queue) \in Nat
    BY InsertFacts
  <1>2. PICK n \in 0..Len(queue) :
          /\ \A i \in 1..n : q[i] = queue[i]
          /\ q[n + 1] = it
          /\ \A i \in (n + 2)..(Len(queue) + 1) : q[i] = queue[i - 1]
    BY InsertFacts
  <1> HIDE DEF q
  <1>3. \A i \in DOMAIN q : \/ i = n + 1 /\ q[i] = it
                            \/ i \in 1..n /\ i \in DOMAIN queue /\ q[i] = queue[i]
                            \/ i \in (n + 2)..(Len(queue) + 1) /\ i - 1 \in DOMAIN queue /\ q[i] = queue[i - 1]
    BY <1>1, <1>2
  <1>4. Once(q)
    <2> SUFFICES ASSUME NEW i \in DOMAIN q, NEW k \in DOMAIN q, q[i] = q[k], q[i].by = "tick", i # k
                 PROVE  FALSE
      BY DEF Once
    <2>1. ASSUME NEW a \in DOMAIN queue, queue[a] = it, it.by = "tick"
          PROVE  FALSE
      BY <2>1 DEF Clear
    <2>2. i # n + 1 /\ k # n + 1
      BY <1>3, <2>1
    <2>3. /\ i \in 1..n \/ i - 1 \in DOMAIN queue
          /\ k \in 1..n \/ k - 1 \in DOMAIN queue
      BY <1>3, <2>2
    <2>4. CASE i \in 1..n /\ k \in 1..n
      BY <1>1, <1>2, <2>4 DEF Once
    <2>5. CASE i \notin 1..n /\ k \notin 1..n
      <3>1. /\ i - 1 \in DOMAIN queue /\ k - 1 \in DOMAIN queue
            /\ q[i] = queue[i - 1] /\ q[k] = queue[k - 1]
        BY <1>3, <2>2, <2>5
      <3>2. i - 1 = k - 1
        BY <3>1 DEF Once
      <3> QED
        BY <1>1, <3>2
    <2>6. ASSUME NEW a \in 1..n, NEW b \in DOMAIN q, b \notin 1..n, b # n + 1,
                 q[a] = q[b], q[a].by = "tick"
          PROVE  FALSE
      <3>1. a \in DOMAIN queue /\ q[a] = queue[a]
        BY <1>1, <1>2
      <3>2. b \in (n + 2)..(Len(queue) + 1) /\ b - 1 \in DOMAIN queue /\ q[b] = queue[b - 1]
        BY <1>3, <2>6
      <3>3. a = b - 1
        BY <2>6, <3>1, <3>2 DEF Once
      <3> QED
        BY <1>1, <3>2, <3>3
    <2> QED
      BY <2>2, <2>4, <2>5, <2>6
  <1>5. ASSUME NEW j, Clear(queue, j), it.by = "tick" => it.job # j
        PROVE  Clear(q, j)
    BY <1>3, <1>5 DEF Clear
  <1> QED
    BY <1>4, <1>5 DEF q

LEMMA TailOnce ==
  ASSUME queue \in Seq(Items), queue # <<>>, Once(queue)
  PROVE  /\ Head(queue) \in Items /\ Tail(queue) \in Seq(Items)
         /\ Once(Tail(queue)) /\ \A j : Clear(queue, j) => Clear(Tail(queue), j)
  <1>1. /\ Head(queue) \in Items /\ Tail(queue) \in Seq(Items)
        /\ DOMAIN queue = 1..Len(queue) /\ Len(queue) \in Nat \ {0}
        /\ DOMAIN Tail(queue) = 1..(Len(queue) - 1)
        /\ \A i \in 1..(Len(queue) - 1) : Tail(queue)[i] = queue[i + 1]
    OBVIOUS
  <1>2. \A i \in DOMAIN Tail(queue) : i + 1 \in DOMAIN queue /\ Tail(queue)[i] = queue[i + 1]
    BY <1>1
  <1>3. Once(Tail(queue))
    <2> SUFFICES ASSUME NEW i \in DOMAIN Tail(queue), NEW k \in DOMAIN Tail(queue),
                        Tail(queue)[i] = Tail(queue)[k], Tail(queue)[i].by = "tick"
                 PROVE  i = k
      BY DEF Once
    <2>1. i + 1 = k + 1
      BY <1>2 DEF Once
    <2> QED
      BY <1>1, <2>1
  <1>4. ASSUME NEW j, Clear(queue, j)
        PROVE  Clear(Tail(queue), j)
    BY <1>2, <1>4 DEF Clear
  <1> QED
    BY <1>1, <1>3, <1>4

LEMMA QueueInv ==
  /\ TickQueuesOnce <=> Once(queue)
  /\ LoopInv <=> (pc[Loop] \in {"decide", "push"} => Clear(queue, item[Loop]))
  BY DEF TickQueuesOnce, Once, LoopInv, Clear

---------------------------------------------------------------------------
(* Steps that move goroutines about and leave tokens, marks, rows and the  *)
(* queue alone.                                                            *)

\* The types of what such a step may change.
PlaceType ==
  /\ pc \in [Threads -> Pcs] /\ item \in [Threads -> Jobs \cup {NoJob}] /\ listed \subseteq Jobs

\* Nobody comes to hold a token or gives one away, executions at work stay where they are,
\* and a job the loop is about to push is one it has found idle.
Light ==
  /\ up /\ UNCHANGED <<storeVars, procVars, queue, running, slots, time>>
  /\ PlaceType' /\ ItemInv'
  /\ \A t \in Threads : pc'[t] \in Holding <=> pc[t] \in Holding
  /\ \A e \in Execs : pc[e] \in AtWork \/ pc'[e] \in AtWork => pc'[e] = pc[e] /\ item'[e] = item[e]
  /\ pc'[Loop] \in {"decide", "push"} =>
       \/ pc[Loop] \in {"decide", "push"} /\ item'[Loop] = item[Loop]
       \/ ~isQueued(item'[Loop])

LEMMA LightInv ==
  ASSUME Inv, Light
  PROVE  Inv'
  <1>1. UNCHANGED <<jobs, rows, skips, cascade, abandoned, up, stopped, queue, running, slots, clock, changes>>
    BY DEF Light, storeVars, procVars, time
  <1>2. SchTypeOK'
    BY <1>1 DEF Inv, SchTypeOK, Light, PlaceType
  <1>3. SlotsAccounted'
    <2>1. HoldersOf(pc') = HoldersOf(pc)
      BY SameHolders DEF Light
    <2> QED
      BY <1>1, <2>1 DEF Inv, SlotsAccounted, HoldersOf
  <1>4. RunningMarkIsBacked'
    BY <1>1 DEF Inv, RunningMarkIsBacked, Light, AtWork
  <1>5. RunningRowsAreLive'
    BY <1>1 DEF Inv, RunningRowsAreLive, Light, AtWork
  <1>6. TickQueuesOnce'
    BY <1>1 DEF Inv, TickQueuesOnce
  <1>7. LoopInv'
    BY <1>1 DEF Inv, LoopInv, Light, isQueued
  <1> QED
    BY <1>2, <1>3, <1>4, <1>5, <1>6, <1>7 DEF Inv, Light

\* A goroutine moves on, and perhaps forgets its job.
Moves(t, place) ==
  /\ pc' \in [Threads -> Pcs] /\ pc'[t] = place
  /\ \A u \in Threads \ {t} : pc'[u] = pc[u]
Keeps(t) ==
  /\ item' \in [Threads -> Jobs \cup {NoJob}]
  /\ \A u \in Threads \ {t} : item'[u] = item[u]

LEMMA GotoMoves ==
  ASSUME SchTypeOK, NEW t \in Threads, NEW place \in Pcs, Goto(t, place)
  PROVE  Moves(t, place)
  BY DEF SchTypeOK, Goto, Moves

LEMMA DoneMoves ==
  ASSUME SchTypeOK, NEW t \in Threads, NEW place \in Pcs, Done(t, place)
  PROVE  Moves(t, place) /\ Keeps(t)
  <1>1. Goto(t, place) /\ item' = [item EXCEPT ![t] = NoJob]
    BY DEF Done
  <1> QED
    BY <1>1, GotoMoves DEF SchTypeOK, Keeps

LEMMA ItemMoves ==
  ASSUME SchTypeOK, NEW t \in Threads, NEW j \in Jobs, item' = [item EXCEPT ![t] = j]
  PROVE  Keeps(t) /\ item'[t] = j
  BY DEF SchTypeOK, Keeps

LEMMA SameItems ==
  ASSUME SchTypeOK, NEW t \in Threads, UNCHANGED item
  PROVE  Keeps(t) /\ item'[t] = item[t]
  BY DEF SchTypeOK, Keeps

Resting == {"idle", "exited", "check", "try", "send"}

LEMMA DispatchEnds ==
  ASSUME NEW t \in Threads
  PROVE  AfterDispatch(t) \in Resting \cap Pcs /\ (t \in Callers => AfterDispatch(t) # "check")
  BY Roles DEF AfterDispatch, Resting, Pcs

\* The goroutine goes from a place without a token to another one, and has nothing to push.
LEMMA RestsInv ==
  ASSUME Inv, NEW t \in Threads, up, NEW place \in Resting, Moves(t, place), Keeps(t),
         place = "check" /\ t \in Callers => item'[t] \in Jobs,
         pc[t] \notin Holding \cup AtWork, listed' \subseteq Jobs,
         UNCHANGED <<storeVars, procVars, queue, running, slots, time>>
  PROVE  Inv'
  <1>1. place \notin Holding \cup AtWork \cup {"decide", "push"}
    BY DEF Resting, Holding, AtWork
  <1>2. PlaceType'
    BY DEF PlaceType, Moves, Keeps
  <1>3. ItemInv'
    BY <1>1, Roles DEF Inv, ItemInv, Moves, Keeps
  <1>4. \A u \in Threads : pc'[u] \in Holding <=> pc[u] \in Holding
    BY <1>1 DEF Moves
  <1>5. \A e \in Execs : pc[e] \in AtWork \/ pc'[e] \in AtWork => pc'[e] = pc[e] /\ item'[e] = item[e]
    BY <1>1, Roles DEF Moves, Keeps
  <1>6. pc'[Loop] \in {"decide", "push"} => pc[Loop] \in {"decide", "push"} /\ item'[Loop] = item[Loop]
    BY <1>1, Roles DEF Moves, Keeps
  <1> QED
    BY <1>2, <1>3, <1>4, <1>5, <1>6, LightInv DEF Light

\* It comes to have a job to decide about or to push.
LEMMA PursuesInv ==
  ASSUME Inv, NEW t \in Threads \ Execs, up, NEW place \in {"decide", "push"}, Moves(t, place), Keeps(t),
         item'[t] \in Jobs, pc[t] \notin Holding, listed' \subseteq Jobs,
         t = Loop => (pc[t] = "decide" /\ item'[t] = item[t]) \/ ~isQueued(item'[t]),
         UNCHANGED <<storeVars, procVars, queue, running, slots, time>>
  PROVE  Inv'
  <1>1. place \notin Holding /\ place # "check"
    BY DEF Holding
  <1>2. PlaceType'
    BY DEF PlaceType, Moves, Keeps
  <1>3. ItemInv'
    BY <1>1, Roles DEF Inv, ItemInv, Moves, Keeps
  <1>4. \A u \in Threads : pc'[u] \in Holding <=> pc[u] \in Holding
    BY <1>1 DEF Moves
  <1>5. \A e \in Execs : pc[e] \in AtWork \/ pc'[e] \in AtWork => pc'[e] = pc[e] /\ item'[e] = item[e]
    BY Roles DEF Moves, Keeps
  <1>6. pc'[Loop] \in {"decide", "push"} =>
          \/ pc[Loop] \in {"decide", "push"} /\ item'[Loop] = item[Loop]
          \/ ~isQueued(item'[Loop])
    BY Roles DEF Moves, Keeps
  <1> QED
    BY <1>2, <1>3, <1>4, <1>5, <1>6, LightInv DEF Light

LEMMA ListJobsInv == Inv /\ ListJobs => Inv'
  <1> SUFFICES ASSUME Inv, ListJobs PROVE Inv'
    OBVIOUS
  <1> DEFINE place == IF listed' = {} THEN "idle" ELSE "check"
  <1>1. /\ up /\ pc[Loop] = "idle" /\ Goto(Loop, place) /\ listed' \subseteq Jobs /\ UNCHANGED item
        /\ UNCHANGED <<storeVars, procVars, queue, running, slots, time>>
    BY DEF ListJobs, At0
  <1>2. place \in Resting \cap Pcs
    BY DEF Resting, Pcs
  <1> HIDE DEF place
  <1>3. Moves(Loop, place) /\ Keeps(Loop)
    BY <1>1, <1>2, Roles, GotoMoves, SameItems DEF Inv
  <1> QED
    BY <1>1, <1>2, <1>3, Roles, RestsInv DEF Holding, AtWork

LEMMA CheckIdleInv == Inv /\ CheckIdle => Inv'
  <1> SUFFICES ASSUME Inv, CheckIdle PROVE Inv'
    OBVIOUS
  <1>1. PICK j \in listed :
          /\ listed' = listed \ {j}
          /\ IF j \notin running /\ ~isQueued(j)
             THEN Goto(Loop, "decide") /\ item' = [item EXCEPT ![Loop] = j]
             ELSE Done(Loop, IF listed' = {} THEN "idle" ELSE "check")
    BY DEF CheckIdle
  <1>2. /\ up /\ pc[Loop] = "check" /\ SchTypeOK /\ j \in Jobs /\ listed' \subseteq Jobs
        /\ UNCHANGED <<storeVars, procVars, queue, running, slots, time>>
    BY <1>1 DEF CheckIdle, At0, Inv, SchTypeOK
  <1>3. CASE j \notin running /\ ~isQueued(j)
    <2>1. Moves(Loop, "decide") /\ Keeps(Loop) /\ item'[Loop] = j
      BY <1>1, <1>2, <1>3, Roles, GotoMoves, ItemMoves DEF Pcs
    <2> QED
      BY <1>2, <1>3, <2>1, Roles, PursuesInv DEF Holding
  <1>4. CASE ~(j \notin running /\ ~isQueued(j))
    <2> DEFINE place == IF listed' = {} THEN "idle" ELSE "check"
    <2>1. place \in Resting \cap Pcs
      BY DEF Resting, Pcs
    <2>2. Done(Loop, place)
      BY <1>1, <1>4
    <2> HIDE DEF place
    <2>3. Moves(Loop, place) /\ Keeps(Loop)
      BY <1>2, <2>1, <2>2, Roles, DoneMoves
    <2> QED
      BY <1>2, <2>1, <2>3, Roles, RestsInv DEF Holding, AtWork
  <1> QED
    BY <1>3, <1>4

LEMMA DecideInv == Inv /\ Decide => Inv'
  <1> SUFFICES ASSUME Inv, Decide PROVE Inv'
    OBVIOUS
  <1>1. /\ up /\ pc[Loop] = "decide" /\ SchTypeOK /\ item[Loop] \in Jobs /\ listed' \subseteq Jobs
        /\ UNCHANGED <<storeVars, procVars, queue, running, slots, time>>
    BY Roles DEF Decide, At0, Inv, SchTypeOK, ItemInv
  <1>2. (Goto(Loop, "push") /\ UNCHANGED item) \/ Done(Loop, AfterDispatch(Loop))
    BY DEF Decide
  <1>3. CASE Goto(Loop, "push") /\ UNCHANGED item
    <2>1. Moves(Loop, "push") /\ Keeps(Loop) /\ item'[Loop] = item[Loop]
      BY <1>1, <1>3, Roles, GotoMoves, SameItems DEF Pcs
    <2> QED
      BY <1>1, <2>1, Roles, PursuesInv DEF Holding
  <1>4. CASE Done(Loop, AfterDispatch(Loop))
    <2>1. AfterDispatch(Loop) \in Resting \cap Pcs
      BY Roles, DispatchEnds
    <2>2. Moves(Loop, AfterDispatch(Loop)) /\ Keeps(Loop)
      BY <1>1, <1>4, <2>1, Roles, DoneMoves
    <2> QED
      BY <1>1, <2>1, <2>2, Roles, RestsInv DEF Holding, AtWork
  <1> QED
    BY <1>2, <1>3, <1>4

LEMMA TriggerInv ==
  ASSUME Inv, NEW c \in Callers,
         TriggerCheck(c) \/ \E j \in Jobs : TriggerNow(c, j)
  PROVE  Inv'
  <1>1. /\ up /\ SchTypeOK /\ listed' \subseteq Jobs /\ c \in Threads \ Execs /\ c # Loop
        /\ UNCHANGED <<storeVars, procVars, queue, running, slots, time>>
        /\ pc[c] \in {"idle", "check"}
    BY Roles DEF TriggerCheck, TriggerNow, At0, Inv, SchTypeOK
  <1>2. pc[c] \notin Holding \cup AtWork
    BY <1>1 DEF Holding, AtWork
  <1>3. ASSUME NEW j \in Jobs, TriggerNow(c, j)
        PROVE  Inv'
    <2>1. Moves(c, "check") /\ Keeps(c) /\ item'[c] = j
      BY <1>1, <1>3, GotoMoves, ItemMoves DEF TriggerNow, Pcs
    <2> QED
      BY <1>1, <1>2, <2>1, RestsInv DEF Resting
  <1>4. CASE TriggerCheck(c)
    <2>1. item[c] \in Jobs
      BY <1>4 DEF TriggerCheck, At0, Inv, ItemInv
    <2>2. CASE Done(c, "idle")
      <3>1. Moves(c, "idle") /\ Keeps(c)
        BY <1>1, <2>2, DoneMoves DEF Pcs
      <3> QED
        BY <1>1, <1>2, <3>1, RestsInv DEF Resting
    <2>3. CASE Goto(c, "push") /\ UNCHANGED item
      <3>1. Moves(c, "push") /\ Keeps(c) /\ item'[c] = item[c]
        BY <1>1, <2>3, GotoMoves, SameItems DEF Pcs
      <3> QED
        BY <1>1, <1>2, <2>1, <3>1, PursuesInv
    <2> QED
      BY <1>4, <2>2, <2>3 DEF TriggerCheck
  <1> QED
    BY <1>3, <1>4

LEMMA LeaveInv ==
  ASSUME Inv, NEW t \in Threads, Leave(t)
  PROVE  Inv'
  <1>1. /\ up /\ pc[t] = "idle" /\ SchTypeOK /\ listed' \subseteq Jobs
        /\ UNCHANGED <<storeVars, procVars, queue, running, slots, time>>
        /\ Goto(t, "exited") /\ UNCHANGED item
    BY DEF Leave, At0, Inv, SchTypeOK
  <1>2. Moves(t, "exited") /\ Keeps(t)
    BY <1>1, GotoMoves, SameItems DEF Pcs
  <1> QED
    BY <1>1, <1>2, RestsInv DEF Resting, Holding, AtWork

LEMMA SendInv ==
  ASSUME Inv, NEW t \in Threads, Send(t)
  PROVE  Inv'
  <1>1. /\ up /\ pc[t] = "send" /\ SchTypeOK /\ listed' \subseteq Jobs
        /\ UNCHANGED <<storeVars, procVars, queue, running, slots, time>>
        /\ item' = [item EXCEPT ![t] = NoJob]
    BY DEF Send, At0, Inv, SchTypeOK
  <1>2. Keeps(t)
    BY <1>1 DEF SchTypeOK, Keeps
  <1>3. CASE Goto(t, "try")
    <2>1. Moves(t, "try")
      BY <1>1, <1>3, GotoMoves DEF Pcs
    <2> QED
      BY <1>1, <1>2, <2>1, RestsInv DEF Resting, Holding, AtWork
  <1>4. ASSUME NEW w \in Workers, pc[w] = "idle", pc' = [pc EXCEPT ![t] = "try", ![w] = "try"]
        PROVE  Inv'
    <2>1. w \in Threads /\ w \notin Execs /\ w # Loop /\ w # t
      BY <1>1, <1>4, Roles
    <2>2. /\ pc' \in [Threads -> Pcs] /\ pc'[t] = "try" /\ pc'[w] = "try"
          /\ \A u \in Threads \ {t, w} : pc'[u] = pc[u]
      BY <1>1, <1>4, Roles DEF SchTypeOK, Pcs
    <2>3. {"try", "send", "idle"} \cap (Holding \cup AtWork \cup {"check", "decide", "push"}) = {}
      BY DEF Holding, AtWork
    <2>4. PlaceType'
      BY <1>1, <1>2, <2>2 DEF PlaceType, Keeps
    <2>5. ItemInv'
      BY <1>1, <1>2, <1>4, <2>2, <2>3, Roles DEF Inv, ItemInv, Keeps
    <2>6. \A u \in Threads : pc'[u] \in Holding <=> pc[u] \in Holding
      BY <1>1, <1>4, <2>2, <2>3
    <2>7. \A e \in Execs : pc[e] \in AtWork \/ pc'[e] \in AtWork => pc'[e] = pc[e] /\ item'[e] = item[e]
      BY <1>1, <1>2, <1>4, <2>2, <2>3, Roles DEF Keeps
    <2>8. pc'[Loop] \in {"decide", "push"} => pc[Loop] \in {"decide", "push"} /\ item'[Loop] = item[Loop]
      BY <1>1, <1>2, <1>4, <2>2, <2>3, Roles DEF Keeps
    <2> QED
      BY <1>1, <2>4, <2>5, <2>6, <2>7, <2>8, LightInv DEF Light
  <1> QED
    BY <1>3, <1>4 DEF Send

---------------------------------------------------------------------------
(* Tokens.                                                                 *)

LEMMA AcquireSlotInv ==
  ASSUME Inv, NEW t \in Threads, AcquireSlot(t)
  PROVE  Inv'
  <1>1. /\ up /\ pc[t] = "try" /\ SchTypeOK /\ ItemInv /\ listed' = listed
        /\ UNCHANGED <<storeVars, procVars, queue, running, time>>
    BY DEF AcquireSlot, At0, Inv
  <1>2. CASE slots = MaxWorkers /\ UNCHANGED slots /\ Done(t, AfterDispatch(t))
    <2>1. AfterDispatch(t) \in Resting \cap Pcs /\ (t \in Callers => AfterDispatch(t) # "check")
      BY DispatchEnds
    <2>2. Moves(t, AfterDispatch(t)) /\ Keeps(t)
      BY <1>1, <1>2, <2>1, DoneMoves
    <2>3. pc[t] \notin Holding \cup AtWork /\ listed' \subseteq Jobs
      BY <1>1 DEF Holding, AtWork, SchTypeOK
    <2> QED
      BY <1>1, <1>2, <2>1, <2>2, <2>3, RestsInv
  <1>3. CASE slots < MaxWorkers /\ slots' = slots + 1 /\ Goto(t, "pop") /\ UNCHANGED item
    <2>1. Moves(t, "pop")
      BY <1>1, <1>3, GotoMoves DEF Pcs
    <2>2. UNCHANGED <<jobs, rows, skips, cascade, abandoned, up, stopped, queue, running, item, listed, clock, changes>>
      BY <1>1, <1>3 DEF storeVars, procVars, time
    <2>3. slots' \in 0..MaxWorkers
      BY <1>1, <1>3, SchedulerAssumption DEF SchTypeOK
    <2>4. SchTypeOK'
      BY <1>1, <2>1, <2>2, <2>3 DEF SchTypeOK, Moves
    <2>5. {"try", "pop"} \cap (AtWork \cup {"check", "decide", "push"}) = {}
      BY DEF AtWork
    <2>6. ItemInv'
      BY <1>1, <2>1, <2>2, <2>5, Roles DEF ItemInv, Moves
    <2>7. SlotsAccounted'
      <3>1. Cardinality(HoldersOf(pc')) = Cardinality(HoldersOf(pc)) + 1
        BY <1>1, <2>1, HolderMore DEF Moves, Holding
      <3> QED
        BY <1>3, <3>1 DEF Inv, SlotsAccounted, HoldersOf
    <2>8. RunningMarkIsBacked'
      BY <1>1, <2>1, <2>2, <2>5, Roles DEF Inv, RunningMarkIsBacked, Moves, AtWork
    <2>9. TickQueuesOnce' /\ LoopInv'
      BY <1>1, <2>1, <2>2, <2>5, Roles DEF Inv, TickQueuesOnce, LoopInv, Moves
    <2>10. RunningRowsAreLive'
      BY <1>1, <2>1, <2>2, Roles DEF Inv, RunningRowsAreLive, Moves
    <2> QED
      BY <2>4, <2>6, <2>7, <2>8, <2>9, <2>10 DEF Inv
  <1> QED
    BY <1>2, <1>3 DEF AcquireSlot

\* A token goes back: from an empty Pop, or from an execution at its end.
LEMMA GivesBackInv ==
  ASSUME Inv, NEW t \in Threads, up, NEW place \in Resting, Moves(t, place), Keeps(t),
         t \in Callers => place # "check", pc[t] \in Holding \ AtWork,
         slots' = slots - 1,
         UNCHANGED <<storeVars, procVars, queue, running, listed, time>>
  PROVE  Inv'
  <1>1. UNCHANGED <<jobs, rows, skips, cascade, abandoned, up, stopped, queue, running, listed, clock, changes>>
    BY DEF storeVars, procVars, time
  <1>2. SchTypeOK /\ ItemInv
    BY DEF Inv
  <1>3. place \notin Holding \cup AtWork \cup {"decide", "push"} /\ pc[t] \notin {"decide", "push"}
    BY DEF Resting, Holding, AtWork
  <1>4. Cardinality(HoldersOf(pc)) = Cardinality(HoldersOf(pc')) + 1 /\ Cardinality(HoldersOf(pc')) \in Nat
    BY <1>3, HolderMore, HoldersCount DEF Moves
  <1>5. SlotsAccounted'
    BY <1>4 DEF Inv, SlotsAccounted, HoldersOf
  <1>6. slots' \in 0..MaxWorkers
    <2>1. slots \in 0..MaxWorkers /\ slots = Cardinality(HoldersOf(pc)) /\ MaxWorkers \in Nat
      BY SchedulerAssumption DEF Inv, SchTypeOK, SlotsAccounted, HoldersOf
    <2> QED
      BY <1>4, <2>1
  <1>7. SchTypeOK'
    BY <1>1, <1>2, <1>6 DEF SchTypeOK, Moves, Keeps
  <1>8. ItemInv'
    BY <1>2, <1>3, Roles DEF ItemInv, Moves, Keeps
  <1>9. RunningMarkIsBacked'
    BY <1>1, <1>3, Roles DEF Inv, RunningMarkIsBacked, Moves, Keeps, AtWork
  <1>10. TickQueuesOnce' /\ LoopInv'
    BY <1>1, <1>3, Roles DEF Inv, TickQueuesOnce, LoopInv, Moves, Keeps
  <1>11. RunningRowsAreLive'
    BY <1>1, <1>3, Roles DEF Inv, RunningRowsAreLive, Moves, AtWork
  <1> QED
    BY <1>5, <1>7, <1>8, <1>9, <1>10, <1>11 DEF Inv

LEMMA GiveBackSlotInv ==
  ASSUME Inv, NEW t \in Threads, GiveBackSlot(t)
  PROVE  Inv'
  <1>1. /\ up /\ pc[t] = "back" /\ SchTypeOK /\ Done(t, AfterDispatch(t)) /\ slots' = slots - 1
        /\ UNCHANGED <<storeVars, procVars, queue, running, listed, time>>
    BY DEF GiveBackSlot, At0, Inv
  <1>2. AfterDispatch(t) \in Resting \cap Pcs /\ (t \in Callers => AfterDispatch(t) # "check")
    BY DispatchEnds
  <1>3. Moves(t, AfterDispatch(t)) /\ Keeps(t)
    BY <1>1, <1>2, DoneMoves
  <1>4. pc[t] \in Holding \ AtWork
    BY <1>1 DEF Holding, AtWork
  <1> QED
    BY <1>1, <1>2, <1>3, <1>4, GivesBackInv

LEMMA FreeSlotInv ==
  ASSUME Inv, NEW e \in Execs, FreeSlot(e)
  PROVE  Inv'
  <1>1. /\ up /\ pc[e] = "free" /\ SchTypeOK /\ Goto(e, "try") /\ slots' = slots - 1 /\ UNCHANGED item
        /\ UNCHANGED <<storeVars, procVars, queue, running, listed, time>>
    BY DEF FreeSlot, At0, Inv
  <1>2. Moves(e, "try") /\ Keeps(e)
    BY <1>1, Roles, GotoMoves, SameItems DEF Pcs
  <1>3. pc[e] \in Holding \ AtWork /\ "try" \in Resting
    BY <1>1 DEF Holding, AtWork, Resting
  <1> QED
    BY <1>1, <1>2, <1>3, Roles, GivesBackInv

---------------------------------------------------------------------------
(* The queue and the marks.                                                *)

LEMMA PushInv ==
  ASSUME Inv, NEW t \in Threads, Push(t)
  PROVE  Inv'
  <1> DEFINE it == [job |-> item[t], by |-> IF t = Loop THEN "tick" ELSE "trigger"]
  <1>1. /\ up /\ pc[t] = "push" /\ SchTypeOK /\ ItemInv /\ Goto(t, "send") /\ queue' = Insert(it)
        /\ UNCHANGED <<storeVars, procVars, running, slots, item, listed, time>>
    BY DEF Push, At0, Inv
  <1>2. UNCHANGED <<jobs, rows, skips, cascade, abandoned, up, stopped, running, slots, item, listed, clock, changes>>
    BY <1>1 DEF storeVars, procVars, time
  <1>3. Moves(t, "send")
    BY <1>1, GotoMoves DEF Pcs
  <1>4. it \in Items /\ queue \in Seq(Items) /\ it.job = item[t] /\ (it.by = "tick" <=> t = Loop)
    BY <1>1 DEF ItemInv, Items, SchTypeOK
  <1> HIDE DEF it
  <1>5. /\ Once(queue)
        /\ pc[Loop] \in {"decide", "push"} => Clear(queue, item[Loop])
    BY QueueInv DEF Inv
  <1>6. it.by = "tick" => Clear(queue, it.job)
    BY <1>1, <1>4, <1>5
  <1>7. Once(queue') /\ \A j : Clear(queue, j) /\ (it.by = "tick" => it.job # j) => Clear(queue', j)
    BY <1>1, <1>4, <1>5, <1>6, InsertOnce
  <1>8. TickQueuesOnce'
    BY <1>7 DEF TickQueuesOnce, Once
  <1>9. LoopInv'
    <2>1. CASE t = Loop
      BY <1>3, <2>1 DEF LoopInv, Moves
    <2>2. CASE t # Loop
      <3>1. pc'[Loop] = pc[Loop] /\ item'[Loop] = item[Loop]
        BY <1>2, <1>3, <2>2, Roles DEF Moves
      <3>2. pc[Loop] \in {"decide", "push"} => Clear(queue', item[Loop])
        BY <1>4, <1>5, <1>7, <2>2
      <3> QED
        BY <3>1, <3>2 DEF LoopInv, Clear
    <2> QED
      BY <2>1, <2>2
  <1>10. queue' \in Seq(Items)
    BY <1>1, <1>4, InsertFacts
  <1>11. SchTypeOK'
    BY <1>1, <1>2, <1>3, <1>10 DEF SchTypeOK, Items, Moves
  <1>12. ItemInv'
    BY <1>1, <1>2, <1>3, Roles DEF ItemInv, Moves, AtWork
  <1>13. SlotsAccounted'
    <2>1. HoldersOf(pc') = HoldersOf(pc)
      BY <1>1, <1>3, SameHolders DEF Moves, Holding
    <2> QED
      BY <1>2, <2>1 DEF Inv, SlotsAccounted, HoldersOf
  <1>14. RunningMarkIsBacked' /\ RunningRowsAreLive'
    BY <1>1, <1>2, <1>3, Roles DEF Inv, RunningMarkIsBacked, RunningRowsAreLive, Moves
  <1> QED
    BY <1>8, <1>9, <1>11, <1>12, <1>13, <1>14 DEF Inv

LEMMA PopJobInv ==
  ASSUME Inv, NEW t \in Threads, PopJob(t)
  PROVE  Inv'
  <1>1. /\ up /\ pc[t] = "pop" /\ SchTypeOK /\ ItemInv
        /\ UNCHANGED <<storeVars, procVars, slots, listed, time>>
    BY DEF PopJob, At0, Inv
  <1>2. UNCHANGED <<jobs, rows, skips, cascade, abandoned, up, stopped, slots, listed, clock, changes>>
    BY <1>1 DEF storeVars, procVars, time
  <1>3. CASE Goto(t, "back") /\ UNCHANGED <<queue, running, item>>
    <2>1. Moves(t, "back")
      BY <1>1, <1>3, GotoMoves DEF Pcs
    <2>2. {"back", "pop"} \subseteq Holding /\ {"back", "pop"} \cap (AtWork \cup {"check", "decide", "push"}) = {}
      BY DEF Holding, AtWork
    <2>3. SchTypeOK'
      BY <1>1, <1>2, <1>3, <2>1 DEF SchTypeOK, Moves
    <2>4. ItemInv'
      BY <1>1, <1>3, <2>1, <2>2, Roles DEF ItemInv, Moves
    <2>5. SlotsAccounted'
      <3>1. HoldersOf(pc') = HoldersOf(pc)
        BY <1>1, <2>1, <2>2, SameHolders DEF Moves
      <3> QED
        BY <1>2, <3>1 DEF Inv, SlotsAccounted, HoldersOf
    <2>6. RunningMarkIsBacked' /\ RunningRowsAreLive'
      BY <1>1, <1>2, <1>3, <2>1, Roles DEF Inv, RunningMarkIsBacked, RunningRowsAreLive, Moves
    <2>7. TickQueuesOnce' /\ LoopInv'
      BY <1>3, <2>1, <2>2, Roles DEF Inv, TickQueuesOnce, LoopInv, Moves
    <2> QED
      BY <2>3, <2>4, <2>5, <2>6, <2>7 DEF Inv
  <1>4. ASSUME queue # <<>>, NEW e \in Execs, pc[e] = "idle",
               pc' = [pc EXCEPT ![t] = "try", ![e] = "insert"],
               item' = [item EXCEPT ![e] = Head(queue).job],
               running' = running \cup {Head(queue).job}, queue' = Tail(queue)
        PROVE  Inv'
    <2>1. queue \in Seq(Items) /\ Once(queue)
      BY <1>1, QueueInv DEF Inv, SchTypeOK, Items
    <2>2. /\ Head(queue) \in Items /\ Tail(queue) \in Seq(Items)
          /\ Once(Tail(queue)) /\ \A j : Clear(queue, j) => Clear(Tail(queue), j)
      BY <1>4, <2>1, TailOnce
    <2>3. Head(queue).job \in Jobs
      BY <2>2 DEF Items
    <2>4. e \in Threads /\ e # t /\ e # Loop
      BY <1>1, <1>4, Roles
    <2>5. /\ pc' \in [Threads -> Pcs] /\ pc'[t] = "try" /\ pc'[e] = "insert"
          /\ \A u \in Threads \ {t, e} : pc'[u] = pc[u]
      BY <1>1, <1>4, <2>4 DEF SchTypeOK, Pcs
    <2>6. /\ item' \in [Threads -> Jobs \cup {NoJob}] /\ item'[e] = Head(queue).job
          /\ \A u \in Threads \ {e} : item'[u] = item[u]
      BY <1>1, <1>4, <2>3, <2>4 DEF SchTypeOK
    <2>7. SchTypeOK'
      BY <1>1, <1>2, <1>4, <2>2, <2>3, <2>5, <2>6 DEF SchTypeOK, Items
    <2>8. ItemInv'
      BY <1>1, <2>3, <2>4, <2>5, <2>6, Roles DEF ItemInv, AtWork
    <2>9. SlotsAccounted'
      <3>1. Cardinality(HoldersOf(pc')) = Cardinality(HoldersOf(pc))
        BY <1>1, <1>4, <2>4, <2>5, HolderSwap DEF Holding
      <3> QED
        BY <1>2, <3>1 DEF Inv, SlotsAccounted, HoldersOf
    <2>10. RunningMarkIsBacked'
      BY <1>1, <1>4, <2>4, <2>5, <2>6, Roles DEF Inv, RunningMarkIsBacked
    <2>11. TickQueuesOnce'
      BY <1>4, <2>2 DEF TickQueuesOnce, Once
    <2>12. LoopInv'
      <3>1. pc'[Loop] \in {"decide", "push"} => pc'[Loop] = pc[Loop] /\ item'[Loop] = item[Loop]
        BY <2>4, <2>5, <2>6, Roles
      <3>2. pc[Loop] \in {"decide", "push"} => Clear(queue, item[Loop])
        BY QueueInv DEF Inv
      <3> QED
        BY <1>4, <2>2, <3>1, <3>2 DEF LoopInv, Clear
    <2>13. RunningRowsAreLive'
      BY <1>1, <1>2, <1>4, <2>5, Roles DEF Inv, RunningRowsAreLive
    <2> QED
      BY <2>7, <2>8, <2>9, <2>10, <2>11, <2>12, <2>13 DEF Inv
  <1> QED
    BY <1>3, <1>4 DEF PopJob

LEMMA ClearRunningInv ==
  ASSUME Inv, NEW e \in Execs, ClearRunning(e)
  PROVE  Inv'
  <1>1. /\ up /\ pc[e] = "clear" /\ SchTypeOK /\ ItemInv /\ Goto(e, "free")
        /\ running' = running \ {item[e]} /\ UNCHANGED item
        /\ UNCHANGED <<storeVars, procVars, queue, slots, listed, time>>
    BY DEF ClearRunning, At0, Inv
  <1>2. UNCHANGED <<jobs, rows, skips, cascade, abandoned, up, stopped, queue, slots, item, listed, clock, changes>>
    BY <1>1 DEF storeVars, procVars, time
  <1>3. Moves(e, "free")
    BY <1>1, GotoMoves, Roles DEF Pcs
  <1>4. SchTypeOK'
    BY <1>1, <1>2, <1>3 DEF SchTypeOK, Moves
  <1>5. ItemInv'
    BY <1>1, <1>2, <1>3, Roles DEF ItemInv, Moves, AtWork
  <1>6. SlotsAccounted'
    <2>1. HoldersOf(pc') = HoldersOf(pc)
      BY <1>1, <1>3, SameHolders DEF Moves, Holding
    <2> QED
      BY <1>2, <2>1 DEF Inv, SlotsAccounted, HoldersOf
  <1>7. RunningMarkIsBacked'
    BY <1>1, <1>2, <1>3, Roles DEF Inv, RunningMarkIsBacked, Moves
  <1>8. TickQueuesOnce' /\ LoopInv'
    BY <1>1, <1>2, <1>3, Roles DEF Inv, TickQueuesOnce, LoopInv, Moves
  <1>9. RunningRowsAreLive'
    BY <1>1, <1>2, <1>3, Roles DEF Inv, RunningRowsAreLive, Moves
  <1> QED
    BY <1>4, <1>5, <1>6, <1>7, <1>8, <1>9 DEF Inv

---------------------------------------------------------------------------
(* Rows of scheduler_runs.                                                 *)

RowType == [job : Jobs \cup {NoJob}, start : 0..MaxTime, end : 0..MaxTime, status : Statuses]

LEMMA NoRowType == NoRow \in RowType /\ NoRow.status = "skipped"
  BY SchedulerAssumption DEF NoRow, RowType, Statuses

\* The execution goes on within its work, and its row says whether it runs.
LEMMA WorksInv ==
  ASSUME Inv, NEW e \in Execs, up, pc[e] \in AtWork, NEW place \in AtWork, Goto(e, place),
         rows' \in [Execs -> RowType], \A f \in Execs \ {e} : rows'[f] = rows[f],
         abandoned \subseteq abandoned', abandoned' \subseteq Execs,
         rows'[e].status = "running" => place = "run" \/ e \in abandoned',
         UNCHANGED <<jobs, skips, cascade, procVars, queue, running, slots, item, listed, time>>
  PROVE  Inv'
  <1>1. SchTypeOK /\ ItemInv /\ place \in Pcs
          /\ UNCHANGED <<jobs, skips, cascade, up, stopped, queue, running, slots, item, listed, clock, changes>>
    BY DEF Inv, procVars, time, AtWork, Pcs
  <1>2. Moves(e, place)
    BY <1>1, GotoMoves, Roles
  <1>3. SchTypeOK'
    BY <1>1, <1>2 DEF SchTypeOK, Moves, RowType
  <1>4. AtWork \subseteq Holding /\ AtWork \cap {"check", "decide", "push"} = {}
    BY DEF AtWork, Holding
  <1>5. ItemInv'
    BY <1>1, <1>2, <1>4, Roles DEF ItemInv, Moves
  <1>6. SlotsAccounted'
    <2>1. HoldersOf(pc') = HoldersOf(pc)
      BY <1>2, <1>4, SameHolders DEF Moves
    <2> QED
      BY <1>1, <2>1 DEF Inv, SlotsAccounted, HoldersOf
  <1>7. RunningMarkIsBacked'
    <2>1. \A f \in Execs : pc[f] \in AtWork => pc'[f] \in AtWork /\ item'[f] = item[f]
      BY <1>1, <1>2, Roles DEF Moves
    <2> QED
      BY <1>1, <2>1 DEF Inv, RunningMarkIsBacked, AtWork
  <1>8. TickQueuesOnce' /\ LoopInv'
    BY <1>1, <1>2, Roles DEF Inv, TickQueuesOnce, LoopInv, Moves
  <1>9. RunningRowsAreLive'
    BY <1>1, <1>2, Roles DEF Inv, RunningRowsAreLive, Moves
  <1> QED
    BY <1>3, <1>5, <1>6, <1>7, <1>8, <1>9 DEF Inv

LEMMA InsertRunInv ==
  ASSUME Inv, NEW e \in Execs, InsertRun(e)
  PROVE  Inv'
  <1>1. /\ up /\ pc[e] = "insert" /\ rows \in [Execs -> RowType] /\ item[e] \in Jobs
        /\ clock \in 1..MaxTime /\ MaxTime \in Nat
        /\ abandoned \subseteq abandoned' /\ abandoned' \subseteq Execs
        /\ abandoned' = abandoned
        /\ UNCHANGED <<jobs, skips, cascade, procVars, queue, running, slots, item, listed, time>>
    BY Roles, SchedulerAssumption DEF InsertRun, At0, Inv, SchTypeOK, RowType, ItemInv, AtWork
  <1>2. CASE Goto(e, "clear") /\ UNCHANGED rows
    <2>1. rows[e].status = "running" => e \in abandoned'
      BY <1>1 DEF Inv, RunningRowsAreLive
    <2> QED
      BY <1>1, <1>2, <2>1, WorksInv DEF AtWork
  <1>3. CASE /\ rows' = [rows EXCEPT ![e] = [job |-> item[e], start |-> clock,
                                             end |-> 0, status |-> "running"]]
             /\ Goto(e, "run")
    <2>1. [job |-> item[e], start |-> clock, end |-> 0, status |-> "running"] \in RowType
      BY <1>1 DEF RowType, Statuses
    <2>2. rows' \in [Execs -> RowType] /\ \A f \in Execs \ {e} : rows'[f] = rows[f]
      BY <1>1, <1>3, <2>1
    <2> QED
      BY <1>1, <1>3, <2>2, WorksInv DEF AtWork
  <1> QED
    BY <1>2, <1>3 DEF InsertRun

LEMMA RunTargetInv ==
  ASSUME Inv, NEW e \in Execs, NEW status \in {"success", "failure"}, RunTarget(e, status)
  PROVE  Inv'
  <1>1. /\ up /\ pc[e] = "run" /\ rows \in [Execs -> RowType] /\ Goto(e, "clear")
        /\ clock \in 0..MaxTime /\ abandoned \subseteq Execs
        /\ UNCHANGED <<jobs, skips, cascade, procVars, queue, running, slots, item, listed, time>>
    BY SchedulerAssumption DEF RunTarget, At0, Inv, SchTypeOK, RowType
  <1>2. CASE abandoned' = abandoned \cup {e} /\ UNCHANGED rows
    <2>1. e \in abandoned' /\ abandoned \subseteq abandoned' /\ abandoned' \subseteq Execs
      BY <1>1, <1>2
    <2> QED
      BY <1>1, <1>2, <2>1, WorksInv DEF AtWork
  <1>3. CASE /\ rows' = IF rows[e] = NoRow THEN rows
                        ELSE [rows EXCEPT ![e].status = status, ![e].end = clock]
             /\ UNCHANGED abandoned
    <2>1. /\ rows' \in [Execs -> RowType] /\ \A f \in Execs \ {e} : rows'[f] = rows[f]
          /\ rows'[e].status # "running"
      <3>1. CASE rows[e] = NoRow
        BY <1>1, <1>3, <3>1, NoRowType
      <3>2. CASE rows[e] # NoRow
        <4>1. rows' = [rows EXCEPT ![e].status = status, ![e].end = clock]
          BY <1>3, <3>2
        <4>2. [rows[e] EXCEPT !.status = status, !.end = clock] \in RowType
          BY <1>1 DEF RowType, Statuses
        <4>3. rows' = [rows EXCEPT ![e] = [rows[e] EXCEPT !.status = status, !.end = clock]]
          BY <1>1, <4>1 DEF RowType
        <4>4. [rows[e] EXCEPT !.status = status, !.end = clock].status = status
          BY <1>1 DEF RowType
        <4> QED
          BY <1>1, <4>2, <4>3, <4>4
      <3> QED
        BY <3>1, <3>2
    <2>2. abandoned \subseteq abandoned' /\ abandoned' \subseteq Execs
      BY <1>1, <1>3
    <2> QED
      BY <1>1, <2>1, <2>2, WorksInv DEF AtWork
  <1> QED
    BY <1>2, <1>3 DEF RunTarget

\* Rows and the job table change, or the process lives on or starts; goroutines, tokens,
\* marks and the queue do not.
LEMMA StoreInv ==
  ASSUME Inv, SchTypeOK', UNCHANGED <<queue, running, slots, pc, item>>,
         up' => \A e \in Execs : rows'[e].status = "running" =>
           up /\ rows[e].status = "running" /\ (e \in abandoned => e \in abandoned')
  PROVE  Inv'
  <1>1. ItemInv' /\ LoopInv' /\ TickQueuesOnce' /\ SlotsAccounted' /\ RunningMarkIsBacked'
    BY DEF Inv, ItemInv, LoopInv, TickQueuesOnce, SlotsAccounted, RunningMarkIsBacked
  <1>2. RunningRowsAreLive'
    BY DEF Inv, RunningRowsAreLive
  <1> QED
    BY <1>1, <1>2 DEF Inv

LEMMA EditJobsInv == Inv /\ EditJobs => Inv'
  <1> SUFFICES ASSUME Inv, EditJobs PROVE Inv'
    OBVIOUS
  <1>1. /\ up /\ changes < MaxChanges /\ changes' = changes + 1 /\ SchTypeOK
        /\ UNCHANGED <<cascade, abandoned, up, stopped, queue, running, slots, pc, item, listed, clock>>
    BY DEF EditJobs, procVars, Inv
  <1>2. /\ rows \in [Execs -> RowType] /\ jobs \in [Jobs -> {"none", "paused", "enabled"}]
        /\ skips \subseteq Jobs
    BY <1>1 DEF SchTypeOK, RowType
  <1>3. /\ jobs' \in [Jobs -> {"none", "paused", "enabled"}] /\ skips' \subseteq Jobs
        /\ rows' \in [Execs -> RowType]
        /\ \A e \in Execs : rows'[e].status = "running" => rows[e].status = "running"
    <2>1. PICK j \in Jobs :
            \/ /\ \E flag \in {"paused", "enabled"} : CreateJob(j, flag) \/ SetEnabled(j, flag)
               /\ UNCHANGED <<rows, skips>>
            \/ DeleteJob(j)
      BY DEF EditJobs
    <2>2. CASE UNCHANGED <<rows, skips>> /\ \E flag \in {"paused", "enabled"} :
                 CreateJob(j, flag) \/ SetEnabled(j, flag)
      BY <1>2, <2>2 DEF CreateJob, SetEnabled
    <2>3. CASE DeleteJob(j)
      <3>1. jobs' \in [Jobs -> {"none", "paused", "enabled"}] /\ skips' \subseteq Jobs
        BY <1>2, <2>3 DEF DeleteJob
      <3>2. rows' = rows \/ rows' = [e \in Execs |-> IF rows[e].job = j THEN NoRow ELSE rows[e]]
        BY <2>3 DEF DeleteJob
      <3> QED
        BY <1>2, <3>1, <3>2, NoRowType
    <2> QED
      BY <2>1, <2>2, <2>3
  <1>4. changes' \in 0..MaxChanges
    BY <1>1, SchedulerAssumption DEF SchTypeOK
  <1>5. SchTypeOK'
    BY <1>1, <1>3, <1>4 DEF SchTypeOK, RowType
  <1> QED
    BY <1>1, <1>3, <1>5, StoreInv

LEMMA StartInv == Inv /\ Start => Inv'
  <1> SUFFICES ASSUME Inv, Start PROVE Inv'
    OBVIOUS
  <1>1. /\ ~up /\ up' = TRUE /\ stopped' = FALSE /\ cascade' = FALSE /\ SchTypeOK
        /\ abandoned' = {}
        /\ skips' = skips \cup Missed
        /\ rows' = [e \in Execs |-> IF Old(rows[e]) THEN NoRow ELSE Recovered(rows[e])]
        /\ UNCHANGED <<jobs, queue, running, slots, pc, item, listed, clock, changes>>
    BY DEF Start, time, Inv
  <1>2. rows \in [Execs -> RowType] /\ clock \in 0..MaxTime
    BY <1>1, SchedulerAssumption DEF SchTypeOK, RowType
  <1>3. ASSUME NEW row \in RowType
        PROVE  Recovered(row) \in RowType /\ Recovered(row).status # "running"
    BY <1>2 DEF Recovered, RowType, Statuses
  <1>4. rows' \in [Execs -> RowType] /\ \A e \in Execs : rows'[e].status # "running"
    BY <1>1, <1>2, <1>3, NoRowType
  <1>5. skips' \subseteq Jobs
    BY <1>1 DEF SchTypeOK, Missed
  <1>6. SchTypeOK'
    BY <1>1, <1>4, <1>5 DEF SchTypeOK, RowType
  <1> QED
    BY <1>1, <1>4, <1>6, StoreInv

LEMMA StopInv == Inv /\ (Stop \/ Advance) => Inv'
  <1> SUFFICES ASSUME Inv, Stop \/ Advance PROVE Inv'
    OBVIOUS
  <1>1. /\ UNCHANGED <<jobs, rows, skips, cascade, abandoned, up, queue, running, slots, pc, item, listed>>
        /\ SchTypeOK /\ stopped' \in BOOLEAN
    BY DEF Stop, Advance, storeVars, procVars, time, Inv, SchTypeOK
  <1>2. changes' \in 0..MaxChanges /\ clock' \in 1..MaxTime
    BY SchedulerAssumption DEF Stop, Advance, storeVars, procVars, time, Inv, SchTypeOK
  <1>3. SchTypeOK'
    BY <1>1, <1>2 DEF SchTypeOK
  <1> QED
    BY <1>1, <1>3, StoreInv

LEMMA ExitInv == Inv /\ Exit => Inv'
  <1> SUFFICES ASSUME Inv, Exit PROVE Inv'
    OBVIOUS
  <1>1. /\ up' = FALSE /\ queue' = <<>> /\ running' = {} /\ slots' = 0 /\ listed' = {}
        /\ pc' = [t \in Threads |-> IF t \in Execs /\ pc[t] # "idle" THEN "exited" ELSE "idle"]
        /\ item' = [t \in Threads |-> NoJob]
        /\ UNCHANGED <<jobs, rows, skips, cascade, abandoned, stopped, clock>>
        /\ changes < MaxChanges /\ changes' = changes + 1 /\ SchTypeOK
    BY DEF Exit, storeVars, Inv
  <1>2. pc' \in [Threads -> Pcs] /\ \A t \in Threads : pc'[t] \in {"idle", "exited"}
    BY <1>1 DEF Pcs
  <1>3. changes' \in 0..MaxChanges /\ slots' \in 0..MaxWorkers
    BY <1>1, SchedulerAssumption DEF SchTypeOK
  <1>4. SchTypeOK'
    <2>1. queue' \in Seq(Items) /\ item' \in [Threads -> Jobs \cup {NoJob}]
      BY <1>1
    <2> QED
      BY <1>1, <1>2, <1>3, <2>1 DEF SchTypeOK, Items
  <1>5. ItemInv'
    BY <1>2, Roles DEF ItemInv, AtWork
  <1>6. SlotsAccounted'
    <2>1. HoldersOf(pc') = {}
      BY <1>2 DEF HoldersOf, Holding
    <2> QED
      BY <1>1, <2>1, FS_EmptySet DEF SlotsAccounted, HoldersOf
  <1>7. RunningMarkIsBacked' /\ RunningRowsAreLive'
    BY <1>1 DEF RunningMarkIsBacked, RunningRowsAreLive
  <1>8. TickQueuesOnce'
    BY <1>1 DEF TickQueuesOnce
  <1>9. LoopInv'
    BY <1>2, Roles DEF LoopInv
  <1> QED
    BY <1>4, <1>5, <1>6, <1>7, <1>8, <1>9 DEF Inv

---------------------------------------------------------------------------
(* The theorems.                                                           *)

LEMMA InitInv == SchInit => Inv
  <1> SUFFICES ASSUME SchInit PROVE Inv
    OBVIOUS
  <1>1. \A t \in Threads : pc[t] = "idle"
    BY DEF SchInit
  <1>2. rows \in [Execs -> RowType] /\ \A e \in Execs : rows[e].status = "skipped"
    BY NoRowType DEF SchInit
  <1>3. SchTypeOK
    <2>1. jobs \in [Jobs -> {"none", "paused", "enabled"}] /\ cascade \in BOOLEAN
      BY DEF SchInit
    <2>2. clock \in 1..MaxTime /\ changes \in 0..MaxChanges /\ slots \in 0..MaxWorkers
      BY SchedulerAssumption DEF SchInit
    <2>3. queue \in Seq(Items) /\ item \in [Threads -> Jobs \cup {NoJob}]
      BY DEF SchInit
    <2>4. pc \in [Threads -> Pcs]
      BY DEF SchInit, Pcs
    <2> QED
      BY <1>2, <2>1, <2>2, <2>3, <2>4 DEF SchInit, SchTypeOK, RowType, Items
  <1>4. ItemInv /\ RunningMarkIsBacked /\ RunningRowsAreLive /\ LoopInv /\ TickQueuesOnce
    BY <1>1, <1>2, Roles
       DEF SchInit, ItemInv, RunningMarkIsBacked, RunningRowsAreLive, LoopInv, TickQueuesOnce, AtWork
  <1>5. SlotsAccounted
    <2>1. HoldersOf(pc) = {}
      BY <1>1 DEF HoldersOf, Holding
    <2> QED
      BY <2>1, FS_EmptySet DEF SchInit, SlotsAccounted, HoldersOf
  <1> QED
    BY <1>3, <1>4, <1>5 DEF Inv

LEMMA ThreadInv ==
  ASSUME Inv, NEW t \in Threads, Thread(t)
  PROVE  Inv'
  <1>1. CASE tryDispatch(t) \/ enqueue(t)
    BY <1>1, AcquireSlotInv, PopJobInv, GiveBackSlotInv, PushInv, SendInv DEF tryDispatch, enqueue
  <1>2. CASE tick
    BY <1>2, ListJobsInv, CheckIdleInv, DecideInv DEF tick
  <1>3. CASE t \in Callers /\ TriggerCheck(t)
    BY <1>3, TriggerInv
  <1>4. CASE t \in Execs /\ execute(t)
    BY <1>4, InsertRunInv, ClearRunningInv, FreeSlotInv, RunTargetInv DEF execute
  <1>5. CASE Leave(t)
    BY <1>5, LeaveInv
  <1> QED
    BY <1>1, <1>2, <1>3, <1>4, <1>5 DEF Thread

LEMMA NextInv ==
  ASSUME Inv, [SchNext]_schVars
  PROVE  Inv'
  <1>1. CASE UNCHANGED schVars
    <2>1. UNCHANGED <<jobs, rows, skips, cascade, abandoned, up, stopped, queue, running, slots, pc, item,
                      listed, clock, changes>>
      BY <1>1 DEF schVars, storeVars, procVars
    <2>2. SchTypeOK'
      BY <2>1 DEF Inv, SchTypeOK
    <2> QED
      BY <2>1, <2>2, StoreInv
  <1>2. CASE SchNext
    BY <1>2, ThreadInv, TriggerInv, EditJobsInv, StopInv, ExitInv, StartInv DEF SchNext
  <1> QED
    BY <1>1, <1>2

\* The invariant of the scheduler, over edits, crashes and restarts.
THEOREM Invariance == SchSpec => []Inv
  <1>1. Inv /\ [SchNext]_schVars => Inv'
    BY NextInv
  <1> QED
    BY <1>1, InitInv, PTL DEF SchSpec

\* Every variable of Scheduler keeps its type; workerSem never holds more tokens than its
\* capacity nor fewer than none.
THEOREM TypeCorrect == SchSpec => []SchTypeOK
  <1>1. Inv => SchTypeOK
    BY DEF Inv
  <1> QED
    BY <1>1, Invariance, PTL

\* tryDispatch and execute give back every token they have taken, on all their ways out.
THEOREM SlotsAccountedHolds == SchSpec => []SlotsAccounted
  <1>1. Inv => SlotsAccounted
    BY DEF Inv
  <1> QED
    BY <1>1, Invariance, PTL

\* A running mark has an execution whose deferred function will clear it.
THEOREM RunningMarkIsBackedHolds == SchSpec => []RunningMarkIsBacked
  <1>1. Inv => RunningMarkIsBacked
    BY DEF Inv
  <1> QED
    BY <1>1, Invariance, PTL

\* tick never has two items of one job in the queue, whatever TriggerNow pushes between its
\* check and its Push.
THEOREM TickQueuesOnceHolds == SchSpec => []TickQueuesOnce
  <1>1. Inv => TickQueuesOnce
    BY DEF Inv
  <1> QED
    BY <1>1, Invariance, PTL

\* A row of status running belongs to an execution that runs, after a restart too
\* (MarkStaleRunsFailed), unless its target panicked or the write of its end failed.
THEOREM RunningRowsAreLiveHolds == SchSpec => []RunningRowsAreLive
  <1>1. Inv => RunningRowsAreLive
    BY DEF Inv
  <1> QED
    BY <1>1, Invariance, PTL

=============================================================================

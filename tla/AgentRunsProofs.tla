-------------------------- MODULE AgentRunsProofs --------------------------
(***************************************************************************)
(* Proofs about AgentRuns, for any runs, artifacts, lineages, editors and  *)
(* semaphore capacity.  Inv is inductive: each conjunct is shown to be     *)
(* preserved by every step, from the conjuncts before it.                  *)
(***************************************************************************)
EXTENDS AgentRuns, FiniteSetTheorems, TLAPS

\* What a step of a run does to its pc, whatever else it does.
LEMMA GotoFacts ==
  ASSUME TypeOK, NEW r \in Runs, NEW from \in Pc, NEW to \in Pc,
         Goto(r, from, to)
  PROVE  /\ up /\ pc[r] = from /\ pc'[r] = to /\ pc' \in [Runs -> Pc]
         /\ \A q \in Runs : q # r => pc'[q] = pc[q]
  BY DEF TypeOK, Goto

\* Deleting locks leaves the others and only takes from others than by.
LEMMA DeleteFacts ==
  ASSUME TypeOK, NEW L, NEW by, DeleteLocks(L, by)
  PROVE  /\ lock' \in [Lineages -> Runs \cup Editors \cup {NoHolder}]
         /\ stale' \in [Lineages -> BOOLEAN]
         /\ taken' \in [Runs -> BOOLEAN]
         /\ \A l \in Lineages : lock'[l] = NoHolder \/ lock'[l] = lock[l]
         /\ \A l \in Lineages : l \in L => lock'[l] = NoHolder
         /\ \A l \in Lineages : l \notin L => lock'[l] = lock[l]
         /\ \A q \in Runs : taken[q] => taken'[q]
         /\ \A q \in Runs : \A l \in Lineages :
              lock[l] = q /\ l \in L /\ q # by => taken'[q]
  <1>1. stale' \in [Lineages -> BOOLEAN]
    BY DEF TypeOK, DeleteLocks
  <1>2. taken' \in [Runs -> BOOLEAN]
    BY DEF TypeOK, DeleteLocks
  <1>3. lock' \in [Lineages -> Runs \cup Editors \cup {NoHolder}]
    BY DEF TypeOK, DeleteLocks
  <1>4. /\ \A l \in Lineages : lock'[l] = NoHolder \/ lock'[l] = lock[l]
        /\ \A l \in Lineages : l \in L => lock'[l] = NoHolder
        /\ \A l \in Lineages : l \notin L => lock'[l] = lock[l]
    BY DEF DeleteLocks
  <1>5. \A q \in Runs :
          taken'[q] = (taken[q] \/ (q # by /\ \E l \in L : lock[l] = q))
    BY DEF DeleteLocks
  <1>6. QED
    BY <1>1, <1>2, <1>3, <1>4, <1>5

LEMMA LinType ==
  ASSUME TypeOK
  PROVE  \A r \in Runs : Lin(r) \in Lineages
  BY RunAssumption DEF TypeOK, Lin

---------------------------------------------------------------------------
(* Types.                                                                  *)

LEMMA TypeInit == Init => TypeOK
  BY DEF Init, TypeOK, Pc, Outcomes

LEMMA TypeStart ==
  ASSUME TypeOK, NEW r \in Runs, StartRun(r), slots > 0 \/ pc[r] \notin {"undoSlot", "leaky"}
  PROVE  TypeOK'
  <1>1. CASE ReadTarget(r)
    BY <1>1 DEF TypeOK, ReadTarget, Goto, Pc, Starting, Over, lockVars,
       statusVars, procVars
  <1>2. CASE CheckLock(r)
    BY <1>2 DEF TypeOK, CheckLock, Goto, Pc, Starting, Over, lockVars,
       statusVars, procVars
  <1>3. CASE TakeSlot(r)
    BY <1>3 DEF TypeOK, TakeSlot, Goto, Pc, Starting, Over, lockVars,
       statusVars, procVars
  <1>4. CASE AcquireLock(r)
    <2>1. pc' \in [Runs -> Pc]
      BY <1>4 DEF TypeOK, AcquireLock, Goto, Pc, Starting
    <2>2. /\ lock' \in [Lineages -> Runs \cup Editors \cup {NoHolder}]
          /\ stale' \in [Lineages -> BOOLEAN]
      BY <1>4, LinType DEF TypeOK, AcquireLock
    <2>3. QED
      BY <1>4, <2>1, <2>2 DEF TypeOK, AcquireLock, statusVars, procVars
  <1>5. CASE InsertRow(r)
    BY <1>5 DEF TypeOK, InsertRow, Goto, Pc, Starting, lockVars, statusVars,
       procVars
  <1>6. CASE MarkActive(r)
    BY <1>6 DEF TypeOK, MarkActive, Goto, Pc, Starting, lockVars, statusVars,
       procVars
  <1>7. CASE StartDriver(r)
    BY <1>7 DEF TypeOK, StartDriver, Goto, Pc, Starting, lockVars, statusVars,
       procVars
  <1>8. CASE UndoLock(r)
    BY <1>8, DeleteFacts DEF TypeOK, UndoLock, Goto, Pc, Starting, statusVars,
       procVars
  <1>9. CASE UndoSlot(r)
    BY <1>9 DEF TypeOK, UndoSlot, Goto, Pc, Over, Outcomes, lockVars,
       statusVars, procVars
  <1>10. QED
    BY <1>1, <1>2, <1>3, <1>4, <1>5, <1>6, <1>7, <1>8, <1>9 DEF StartRun

LEMMA TypeSupervise ==
  ASSUME TypeOK, NEW r \in Runs, Supervise(r), slots > 0 \/ pc[r] # "live"
  PROVE  TypeOK'
  <1>1. CASE ProcessEnds(r)
    BY <1>1 DEF TypeOK, ProcessEnds, Goto, Pc, Closing, lockVars, statusVars,
       procVars
  <1>2. CASE PrecheckFails(r)
    BY <1>2 DEF TypeOK, PrecheckFails, Goto, Pc, Closing, Outcomes, lockVars,
       statusVars, procVars
  <1>3. CASE Settle(r)
    BY <1>3 DEF TypeOK, Settle, Goto, Pc, Closing, lockVars, procVars
  <1>4. CASE ReleaseLock(r)
    BY <1>4, DeleteFacts DEF TypeOK, ReleaseLock, Goto, Pc, Closing,
       statusVars, procVars
  <1>5. CASE RecordRow(r)
    BY <1>5 DEF TypeOK, RecordRow, Goto, Pc, Closing, lockVars, statusVars,
       procVars
  <1>6. CASE Announce(r)
    BY <1>6 DEF TypeOK, Announce, Goto, Pc, Over, lockVars, statusVars,
       procVars
  <1>7. QED
    BY <1>1, <1>2, <1>3, <1>4, <1>5, <1>6 DEF Supervise

LEMMA TypeOther ==
  ASSUME TypeOK,
         \/ \E l \in Lineages : LockTraffic(l)
         \/ \E t \in Tests : UserMoves(t)
         \/ Reap \/ Crash \/ Restart
  PROVE  TypeOK'
  <1>1. ASSUME NEW l \in Lineages, NEW e \in Editors, EditorAcquires(e, l)
        PROVE  TypeOK'
    BY <1>1 DEF TypeOK, EditorAcquires, runVars, statusVars, procVars
  <1>2. ASSUME NEW l \in Lineages, NEW e \in Editors, UserReleases(e, l)
        PROVE  TypeOK'
    BY <1>2, DeleteFacts DEF TypeOK, UserReleases, runVars, statusVars,
       procVars
  <1>3. ASSUME NEW l \in Lineages, Heartbeat(l) \/ Age(l)
        PROVE  TypeOK'
    BY <1>3 DEF TypeOK, Heartbeat, Age, runVars, statusVars, procVars
  <1>4. CASE Reap
    BY <1>4, DeleteFacts DEF TypeOK, Reap, runVars, statusVars, procVars
  <1>5. CASE Crash
    BY <1>5 DEF TypeOK, Crash, Pc, Over, lockVars, statusVars
  <1>6. CASE Restart
    BY <1>6 DEF TypeOK, Restart, Outcomes, runVars, lockVars
  <1>7. ASSUME NEW t \in Tests, UserMoves(t)
        PROVE  TypeOK'
    <2>1. PICK s \in {"approved", "active", "done"} :
            status' = [status EXCEPT ![t] = s]
      BY <1>7 DEF UserMoves
    <2>2. status' \in [Targets -> {"approved", "active", "done"}]
      BY <2>1 DEF TypeOK
    <2>3. moved' \in [Tests -> BOOLEAN]
      BY <1>7 DEF TypeOK, UserMoves
    <2>4. UNCHANGED <<runVars, slots, active, row, lockVars, marked, procVars>>
      BY <1>7 DEF UserMoves
    <2>5. QED
      BY <2>2, <2>3, <2>4 DEF TypeOK, runVars, lockVars, procVars
  <1>8. QED
    BY <1>1, <1>2, <1>3, <1>4, <1>5, <1>6, <1>7 DEF LockTraffic

---------------------------------------------------------------------------
(* The steps of a run, by what they do to each resource.                   *)

RowPcs == {"inserted", "marked", "undoLock", "undoSlot", "live", "ended",
           "settled", "unlocked"}

\* Where the run is and where it goes; it never comes back from its end.
Moves(r) ==
  /\ up /\ UNCHANGED <<target, procVars>>
  /\ pc[r] \in Pc \ Over /\ pc'[r] \in Pc \ {"new", "lost"}
  /\ \A q \in Runs : q # r => pc'[q] = pc[q]

LockEffect(r) ==
  \/ /\ UNCHANGED lockVars
     /\ pc[r] \in HasLock <=> pc'[r] \in HasLock
  \/ /\ UNCHANGED lockVars
     /\ pc[r] = "leaky" /\ pc'[r] = "stranded"
  \/ /\ pc[r] \notin HasLock /\ pc'[r] \in {"locked", "leaky"}
     /\ lock[Lin(r)] = NoHolder
     /\ lock'[Lin(r)] = r /\ UNCHANGED taken
     /\ \A l \in Lineages : l # Lin(r) => lock'[l] = lock[l]
  \/ /\ pc[r] \in HasLock /\ pc'[r] \notin HasLock
     /\ DeleteLocks({Lin(r)}, r)

RowEffect(r) ==
  /\ \A q \in Runs : q # r => row'[q] = row[q]
  /\ \/ row'[r] = row[r] /\ (pc[r] \in RowPcs => pc'[r] \in RowPcs)
     \/ pc'[r] = "inserted"
     \/ row'[r] # "running"

ActiveEffect(r) ==
  \/ active' = active /\ pc[r] # "live"
  \/ active' \subseteq active \cup {r} /\ pc'[r] = "live"
  \/ active' = active \ {r}

SlotEffect(r) ==
  \/ slots' = slots /\ (pc[r] \in HasSlot <=> pc'[r] \in HasSlot)
  \/ slots' = slots + 1 /\ slots # Slots
       /\ pc[r] \notin HasSlot /\ pc'[r] \in HasSlot
  \/ slots' = slots - 1 /\ pc[r] \in HasSlot /\ pc'[r] \notin HasSlot

Effects(r) ==
  Moves(r) /\ LockEffect(r) /\ RowEffect(r) /\ ActiveEffect(r) /\ SlotEffect(r)

LEMMA StartEffects ==
  ASSUME TypeOK, NEW r \in Runs, StartRun(r)
  PROVE  Effects(r)
  <1> USE DEF Pc, Starting, Closing, Over, HasLock, HasSlot, RowPcs
  <1>1. CASE ReadTarget(r)
    <2>1. Moves(r)
      BY <1>1 DEF TypeOK, ReadTarget, Goto, Moves
    <2>2. LockEffect(r) /\ RowEffect(r) /\ ActiveEffect(r) /\ SlotEffect(r)
      BY <1>1 DEF TypeOK, ReadTarget, Goto, LockEffect, RowEffect,
         ActiveEffect, SlotEffect
    <2>3. QED
      BY <2>1, <2>2 DEF Effects
  <1>2. CASE CheckLock(r)
    <2>1. Moves(r)
      BY <1>2 DEF TypeOK, CheckLock, Goto, Moves
    <2>2. LockEffect(r) /\ RowEffect(r) /\ ActiveEffect(r) /\ SlotEffect(r)
      BY <1>2 DEF TypeOK, CheckLock, Goto, LockEffect, RowEffect,
         ActiveEffect, SlotEffect
    <2>3. QED
      BY <2>1, <2>2 DEF Effects
  <1>3. CASE TakeSlot(r)
    <2>1. Moves(r)
      BY <1>3 DEF TypeOK, TakeSlot, Goto, Moves
    <2>2. LockEffect(r) /\ RowEffect(r) /\ ActiveEffect(r) /\ SlotEffect(r)
      BY <1>3 DEF TypeOK, TakeSlot, Goto, LockEffect, RowEffect,
         ActiveEffect, SlotEffect
    <2>3. QED
      BY <2>1, <2>2 DEF Effects
  <1>4. CASE AcquireLock(r)
    <2>1. Moves(r)
      BY <1>4 DEF TypeOK, AcquireLock, Goto, Moves
    <2>2. LockEffect(r)
      BY <1>4, LinType DEF TypeOK, AcquireLock, Goto, LockEffect, lockVars
    <2>3. RowEffect(r) /\ ActiveEffect(r) /\ SlotEffect(r)
      BY <1>4 DEF TypeOK, AcquireLock, Goto, RowEffect, ActiveEffect,
         SlotEffect
    <2>4. QED
      BY <2>1, <2>2, <2>3 DEF Effects
  <1>5. CASE InsertRow(r)
    <2>1. Moves(r)
      BY <1>5 DEF TypeOK, InsertRow, Goto, Moves
    <2>2. LockEffect(r) /\ RowEffect(r) /\ ActiveEffect(r) /\ SlotEffect(r)
      BY <1>5 DEF TypeOK, InsertRow, Goto, LockEffect, RowEffect,
         ActiveEffect, SlotEffect
    <2>3. QED
      BY <2>1, <2>2 DEF Effects
  <1>6. CASE MarkActive(r)
    <2>1. Moves(r)
      BY <1>6 DEF TypeOK, MarkActive, Goto, Moves
    <2>2. LockEffect(r) /\ RowEffect(r) /\ ActiveEffect(r) /\ SlotEffect(r)
      BY <1>6 DEF TypeOK, MarkActive, Goto, LockEffect, RowEffect,
         ActiveEffect, SlotEffect
    <2>3. QED
      BY <2>1, <2>2 DEF Effects
  <1>7. CASE StartDriver(r)
    <2>1. Moves(r)
      BY <1>7 DEF TypeOK, StartDriver, Goto, Moves
    <2>2. LockEffect(r) /\ RowEffect(r) /\ ActiveEffect(r) /\ SlotEffect(r)
      BY <1>7 DEF TypeOK, StartDriver, Goto, LockEffect, RowEffect,
         ActiveEffect, SlotEffect
    <2>3. QED
      BY <2>1, <2>2 DEF Effects
  <1>8. CASE UndoLock(r)
    <2>1. Moves(r)
      BY <1>8 DEF TypeOK, UndoLock, Goto, Moves
    <2>2. LockEffect(r) /\ RowEffect(r) /\ ActiveEffect(r) /\ SlotEffect(r)
      BY <1>8 DEF TypeOK, UndoLock, Goto, LockEffect, RowEffect,
         ActiveEffect, SlotEffect
    <2>3. QED
      BY <2>1, <2>2 DEF Effects
  <1>9. CASE UndoSlot(r)
    <2>1. Moves(r)
      BY <1>9 DEF TypeOK, UndoSlot, Goto, Moves
    <2>2. LockEffect(r) /\ RowEffect(r) /\ ActiveEffect(r) /\ SlotEffect(r)
      BY <1>9 DEF TypeOK, UndoSlot, Goto, LockEffect, RowEffect,
         ActiveEffect, SlotEffect
    <2>3. QED
      BY <2>1, <2>2 DEF Effects
  <1>10. QED
    BY <1>1, <1>2, <1>3, <1>4, <1>5, <1>6, <1>7, <1>8, <1>9 DEF StartRun

LEMMA SuperviseEffects ==
  ASSUME TypeOK, NEW r \in Runs, Supervise(r)
  PROVE  Effects(r)
  <1> USE DEF Pc, Starting, Closing, Over, HasLock, HasSlot, RowPcs, Outcomes
  <1>1. CASE ProcessEnds(r)
    <2>1. Moves(r)
      BY <1>1 DEF TypeOK, ProcessEnds, Goto, Moves
    <2>2. LockEffect(r) /\ RowEffect(r) /\ ActiveEffect(r) /\ SlotEffect(r)
      BY <1>1 DEF TypeOK, ProcessEnds, Goto, LockEffect, RowEffect,
         ActiveEffect, SlotEffect
    <2>3. QED
      BY <2>1, <2>2 DEF Effects
  <1>2. CASE PrecheckFails(r)
    <2>1. Moves(r)
      BY <1>2 DEF TypeOK, PrecheckFails, Goto, Moves
    <2>2. LockEffect(r) /\ RowEffect(r) /\ ActiveEffect(r) /\ SlotEffect(r)
      BY <1>2 DEF TypeOK, PrecheckFails, Goto, LockEffect, RowEffect,
         ActiveEffect, SlotEffect
    <2>3. QED
      BY <2>1, <2>2 DEF Effects
  <1>3. CASE Settle(r)
    <2>1. Moves(r)
      BY <1>3 DEF TypeOK, Settle, Goto, Moves
    <2>2. LockEffect(r) /\ RowEffect(r) /\ ActiveEffect(r) /\ SlotEffect(r)
      BY <1>3 DEF TypeOK, Settle, Goto, LockEffect, RowEffect,
         ActiveEffect, SlotEffect
    <2>3. QED
      BY <2>1, <2>2 DEF Effects
  <1>4. CASE ReleaseLock(r)
    <2>1. Moves(r)
      BY <1>4 DEF TypeOK, ReleaseLock, Goto, Moves
    <2>2. LockEffect(r) /\ RowEffect(r) /\ ActiveEffect(r) /\ SlotEffect(r)
      BY <1>4 DEF TypeOK, ReleaseLock, Goto, LockEffect, RowEffect,
         ActiveEffect, SlotEffect
    <2>3. QED
      BY <2>1, <2>2 DEF Effects
  <1>5. CASE RecordRow(r)
    <2>1. Moves(r)
      BY <1>5 DEF TypeOK, RecordRow, Goto, Moves
    <2>2. LockEffect(r) /\ RowEffect(r) /\ ActiveEffect(r) /\ SlotEffect(r)
      BY <1>5 DEF TypeOK, RecordRow, Goto, LockEffect, RowEffect,
         ActiveEffect, SlotEffect
    <2>3. QED
      BY <2>1, <2>2 DEF Effects
  <1>6. CASE Announce(r)
    <2>1. Moves(r)
      BY <1>6 DEF TypeOK, Announce, Goto, Moves
    <2>2. LockEffect(r) /\ RowEffect(r) /\ ActiveEffect(r) /\ SlotEffect(r)
      BY <1>6 DEF TypeOK, Announce, Goto, LockEffect, RowEffect,
         ActiveEffect, SlotEffect
    <2>3. QED
      BY <2>1, <2>2 DEF Effects
  <1>7. QED
    BY <1>1, <1>2, <1>3, <1>4, <1>5, <1>6 DEF Supervise

---------------------------------------------------------------------------
(* The steps of a run preserve each conjunct.                              *)

LEMMA RunLockOwner ==
  ASSUME TypeOK, LockOwner, NEW r \in Runs, Effects(r)
  PROVE  LockOwner'
  <1> SUFFICES ASSUME NEW l \in Lineages, NEW q \in Runs, lock'[l] = q
               PROVE  l = Lin(q)' /\ pc'[q] \in HasLock \cup {"lost", "stranded"}
    BY DEF LockOwner
  <1>1. Lin(q)' = Lin(q) /\ Lin(r)' = Lin(r)
    BY DEF Effects, Moves, Lin
  <1>2. q # NoHolder
    BY RunAssumption
  <1>3. Moves(r) /\ LockEffect(r)
    BY DEF Effects
  <1>4. pc[r] \notin {"lost", "stranded"} /\ (q # r => pc'[q] = pc[q])
    BY <1>3 DEF Moves, Over
  <1>5. CASE UNCHANGED lockVars /\ (pc[r] \in HasLock <=> pc'[r] \in HasLock)
    <2>1. lock[l] = q
      BY <1>5 DEF lockVars
    <2>2. l = Lin(q) /\ pc[q] \in HasLock \cup {"lost", "stranded"}
      BY <2>1 DEF LockOwner
    <2>3. QED
      BY <1>1, <1>4, <1>5, <2>2
  <1>6. CASE /\ pc'[r] \in {"locked", "leaky"}
             /\ lock'[Lin(r)] = r
             /\ pc[r] \notin HasLock
             /\ \A k \in Lineages : k # Lin(r) => lock'[k] = lock[k]
    <2>1. CASE l = Lin(r)
      BY <2>1, <1>1, <1>6 DEF HasLock
    <2>2. CASE l # Lin(r)
      <3>1. lock[l] = q
        BY <2>2, <1>6
      <3>2. l = Lin(q) /\ pc[q] \in HasLock \cup {"lost", "stranded"}
        BY <3>1 DEF LockOwner
      <3>3. QED
        BY <3>2, <2>2, <1>1, <1>4
    <2>3. QED
      BY <2>1, <2>2
  <1>7. CASE DeleteLocks({Lin(r)}, r)
    <2>1. l # Lin(r) /\ lock[l] = q
      BY <1>2, <1>7, DeleteFacts
    <2>2. l = Lin(q) /\ pc[q] \in HasLock \cup {"lost", "stranded"}
      BY <2>1 DEF LockOwner
    <2>3. QED
      BY <2>1, <2>2, <1>1, <1>4
  <1>8. CASE UNCHANGED lockVars /\ pc[r] = "leaky" /\ pc'[r] = "stranded"
    <2>1. l = Lin(q) /\ pc[q] \in HasLock \cup {"lost", "stranded"}
      BY <1>8 DEF LockOwner, lockVars
    <2>2. QED
      BY <1>1, <1>4, <1>8, <2>1
  <1>9. QED
    BY <1>3, <1>5, <1>6, <1>7, <1>8 DEF LockEffect

LEMMA RunLockKept ==
  ASSUME TypeOK, LockOwner, LockKept, NEW r \in Runs, Effects(r)
  PROVE  LockKept'
  <1> SUFFICES ASSUME NEW q \in Runs, pc'[q] \in HasLock, ~taken'[q]
               PROVE  lock'[Lin(q)'] = q
    BY DEF LockKept
  <1>1. Lin(q)' = Lin(q) /\ Lin(q) \in Lineages /\ Lin(r) \in Lineages
    BY LinType DEF Effects, Moves, Lin
  <1>2. q # NoHolder
    BY RunAssumption
  <1>3. Moves(r) /\ LockEffect(r)
    BY DEF Effects
  <1>4. q # r => pc'[q] = pc[q]
    BY <1>3 DEF Moves
  <1>5. CASE UNCHANGED lockVars /\ (pc[r] \in HasLock <=> pc'[r] \in HasLock)
    <2>1. pc[q] \in HasLock /\ ~taken[q] /\ lock' = lock
      BY <1>4, <1>5 DEF lockVars
    <2>2. QED
      BY <2>1, <1>1 DEF LockKept
  <1>6. CASE /\ lock[Lin(r)] = NoHolder
             /\ lock'[Lin(r)] = r /\ UNCHANGED taken
             /\ \A k \in Lineages : k # Lin(r) => lock'[k] = lock[k]
    <2>1. CASE q = r
      BY <2>1, <1>1, <1>6
    <2>2. CASE q # r
      <3>1. lock[Lin(q)] = q
        BY <2>2, <1>4, <1>6 DEF LockKept
      <3>2. QED
        BY <3>1, <1>1, <1>2, <1>6
    <2>3. QED
      BY <2>1, <2>2
  <1>7. CASE pc'[r] \notin HasLock /\ DeleteLocks({Lin(r)}, r)
    <2>1. q # r /\ pc[q] \in HasLock /\ ~taken[q]
      BY <1>4, <1>7, DeleteFacts
    <2>2. lock[Lin(q)] = q
      BY <2>1 DEF LockKept
    <2>3. Lin(q) # Lin(r)
      BY <1>1, <1>7, <2>1, <2>2, DeleteFacts
    <2>4. QED
      BY <1>1, <1>7, <2>2, <2>3, DeleteFacts
  <1>8. CASE UNCHANGED lockVars /\ pc[r] = "leaky" /\ pc'[r] = "stranded"
    <2>1. q # r /\ pc[q] \in HasLock /\ ~taken[q]
      BY <1>4, <1>8 DEF HasLock, lockVars
    <2>2. QED
      BY <1>1, <1>8, <2>1 DEF LockKept, lockVars
  <1>9. QED
    BY <1>3, <1>5, <1>6, <1>7, <1>8 DEF LockEffect

LEMMA RunRowOwner ==
  ASSUME TypeOK, RowOwner, NEW r \in Runs, Effects(r)
  PROVE  RowOwner'
  <1> SUFFICES ASSUME NEW q \in Runs, row'[q] = "running"
               PROVE  pc'[q] \in RowPcs \/ (pc'[q] = "lost" /\ ~up')
    BY DEF RowOwner, RowPcs
  <1>1. Moves(r) /\ RowEffect(r)
    BY DEF Effects
  <1>2. CASE q # r
    <2>1. row[q] = "running" /\ pc'[q] = pc[q] /\ up' = up
      BY <1>1, <1>2 DEF Moves, RowEffect, procVars
    <2>2. QED
      BY <2>1 DEF RowOwner, RowPcs
  <1>3. CASE q = r
    <2>1. pc[r] # "lost"
      BY <1>1 DEF Moves, Over
    <2>2. row[r] = "running" => pc[r] \in RowPcs
      BY <2>1 DEF RowOwner, RowPcs
    <2>3. QED
      BY <1>1, <1>3, <2>2 DEF RowEffect, RowPcs
  <1>4. QED
    BY <1>2, <1>3

LEMMA RunActiveLive ==
  ASSUME TypeOK, ActiveLive, NEW r \in Runs, Effects(r)
  PROVE  ActiveLive'
  <1> SUFFICES ASSUME NEW q \in active'
               PROVE  q \in Runs /\ pc'[q] = "live"
    BY DEF ActiveLive
  <1>1. Moves(r) /\ ActiveEffect(r)
    BY DEF Effects
  <1>2. q \in active \cup {r}
    BY <1>1 DEF ActiveEffect
  <1>3. CASE q # r
    BY <1>1, <1>2, <1>3 DEF ActiveLive, Moves
  <1>4. CASE q = r
    BY <1>1, <1>4 DEF ActiveLive, ActiveEffect
  <1>5. QED
    BY <1>3, <1>4

\* The runs between taking and giving back a slot.
SlotHolders == {r \in Runs : pc[r] \in HasSlot}

LEMMA HoldersFinite ==
  /\ IsFiniteSet(SlotHolders)
  /\ Cardinality(SlotHolders) \in Nat
  /\ \A r \in Runs : pc[r] \in HasSlot => Cardinality(SlotHolders) > 0
  <1>1. IsFiniteSet(SlotHolders) /\ Cardinality(SlotHolders) \in Nat
    BY RunAssumption, FS_Subset, FS_CardinalityType DEF SlotHolders
  <1>2. ASSUME NEW r \in Runs, pc[r] \in HasSlot
        PROVE  Cardinality(SlotHolders) > 0
    <2>1. SlotHolders # {}
      BY <1>2 DEF SlotHolders
    <2>2. Cardinality(SlotHolders) # 0
      BY <2>1, <1>1, FS_EmptySet
    <2>3. QED
      BY <2>2, <1>1
  <1>3. QED
    BY <1>1, <1>2

LEMMA RunSlotsExact ==
  ASSUME TypeOK, SlotsExact, NEW r \in Runs, Effects(r)
  PROVE  SlotsExact'
  <1>1. Moves(r) /\ SlotEffect(r)
    BY DEF Effects
  <1>2. \A q \in Runs : q # r => pc'[q] = pc[q]
    BY <1>1 DEF Moves
  <1>3. IsFiniteSet(SlotHolders) /\ Cardinality(SlotHolders) \in Nat
    BY HoldersFinite
  <1>4. slots = Cardinality(SlotHolders) /\ slots <= Slots
    BY DEF SlotsExact, SlotHolders
  <1>5. Slots \in Nat
    BY RunAssumption
  <1>6. SUFFICES slots' = Cardinality(SlotHolders') /\ slots' <= Slots
    BY DEF SlotsExact, SlotHolders
  <1>7. CASE slots' = slots /\ (pc[r] \in HasSlot <=> pc'[r] \in HasSlot)
    <2>1. SlotHolders' = SlotHolders
      BY <1>2, <1>7 DEF SlotHolders
    <2>2. QED
      BY <2>1, <1>4, <1>7
  <1>8. CASE /\ slots' = slots + 1 /\ slots # Slots
             /\ pc[r] \notin HasSlot /\ pc'[r] \in HasSlot
    <2>1. SlotHolders' = SlotHolders \cup {r} /\ r \notin SlotHolders
      BY <1>2, <1>8 DEF SlotHolders
    <2>2. Cardinality(SlotHolders') = Cardinality(SlotHolders) + 1
      BY <2>1, <1>3, FS_AddElement
    <2>3. QED
      BY <2>2, <1>3, <1>4, <1>5, <1>8
  <1>9. CASE /\ slots' = slots - 1
             /\ pc[r] \in HasSlot /\ pc'[r] \notin HasSlot
    <2>1. SlotHolders' = SlotHolders \ {r} /\ r \in SlotHolders
      BY <1>2, <1>9 DEF SlotHolders
    <2>2. Cardinality(SlotHolders') = Cardinality(SlotHolders) - 1
      BY <2>1, <1>3, FS_RemoveElement
    <2>3. QED
      BY <2>2, <1>3, <1>4, <1>5, <1>9
  <1>10. QED
    BY <1>1, <1>7, <1>8, <1>9 DEF SlotEffect

LEMMA RunStepInv ==
  ASSUME Inv, NEW r \in Runs, StartRun(r) \/ Supervise(r)
  PROVE  Inv'
  <1>1. /\ TypeOK /\ LockOwner /\ LockKept /\ RowOwner /\ ActiveLive
        /\ SlotsExact
    BY DEF Inv
  <1>2. Effects(r)
    BY <1>1, StartEffects, SuperviseEffects
  <1>3. TypeOK'
    <2>1. pc[r] \in HasSlot => slots > 0
      BY <1>1, HoldersFinite DEF SlotsExact, SlotHolders
    <2>2. QED
      BY <1>1, <2>1, TypeStart, TypeSupervise DEF HasSlot
  <1>4. LockOwner' /\ LockKept'
    BY <1>1, <1>2, RunLockOwner, RunLockKept
  <1>5. RowOwner' /\ ActiveLive' /\ SlotsExact'
    BY <1>1, <1>2, RunRowOwner, RunActiveLive, RunSlotsExact
  <1>6. NothingRunsDown'
    BY <1>2 DEF Effects, Moves, procVars, NothingRunsDown
  <1>7. QED
    BY <1>3, <1>4, <1>5, <1>6 DEF Inv

---------------------------------------------------------------------------
(* The steps of the others.                                                *)

\* A step that deletes locks and does nothing to runs or to the server.
LEMMA DeletionStep ==
  ASSUME Inv, TypeOK', NEW L, DeleteLocks(L, NoHolder),
         UNCHANGED <<runVars, slots, active, row, procVars>>
  PROVE  Inv'
  <1> USE DEF runVars, procVars
  <1>1. LockOwner'
    <2> SUFFICES ASSUME NEW l \in Lineages, NEW q \in Runs, lock'[l] = q
                 PROVE  l = Lin(q)' /\ pc'[q] \in HasLock \cup {"lost", "stranded"}
      BY DEF LockOwner
    <2>1. lock[l] = q
      BY RunAssumption, DeleteFacts DEF Inv
    <2>2. QED
      BY <2>1 DEF Inv, LockOwner, Lin
  <1>2. LockKept'
    <2> SUFFICES ASSUME NEW q \in Runs, pc[q] \in HasLock, ~taken'[q]
                 PROVE  lock'[Lin(q)] = q
      BY DEF LockKept, Lin
    <2>1. ~taken[q]
      BY DeleteFacts DEF Inv
    <2>2. lock[Lin(q)] = q /\ Lin(q) \in Lineages
      BY <2>1, LinType DEF Inv, LockKept
    <2>3. Lin(q) \notin L
      BY <2>2, RunAssumption, DeleteFacts DEF Inv
    <2>4. QED
      BY <2>2, <2>3, DeleteFacts DEF Inv
  <1>3. RowOwner' /\ ActiveLive' /\ NothingRunsDown' /\ SlotsExact'
    BY DEF Inv, RowOwner, ActiveLive, NothingRunsDown, SlotsExact
  <1>4. QED
    BY <1>1, <1>2, <1>3 DEF Inv

LEMMA OtherStep ==
  ASSUME Inv,
         \/ \E l \in Lineages : LockTraffic(l)
         \/ \E t \in Tests : UserMoves(t)
         \/ Reap \/ Crash \/ Restart
  PROVE  Inv'
  <1>1. TypeOK'
    BY TypeOther DEF Inv
  <1>2. ASSUME NEW l \in Lineages, NEW e \in Editors, EditorAcquires(e, l)
        PROVE  Inv'
    <2> USE DEF EditorAcquires, runVars, procVars
    <2>1. e \notin Runs
      BY RunAssumption
    <2>2. LockOwner'
      BY <1>2, <2>1 DEF Inv, TypeOK, LockOwner, Lin
    <2>3. LockKept'
      <3> SUFFICES ASSUME NEW q \in Runs, pc[q] \in HasLock, ~taken[q]
                   PROVE  lock'[Lin(q)] = q
        BY <1>2 DEF LockKept, Lin
      <3>1. lock[Lin(q)] = q /\ q # NoHolder
        BY RunAssumption DEF Inv, LockKept
      <3>2. QED
        BY <1>2, <3>1 DEF Inv, TypeOK
    <2>4. RowOwner' /\ ActiveLive' /\ NothingRunsDown' /\ SlotsExact'
      BY <1>2 DEF Inv, RowOwner, ActiveLive, NothingRunsDown, SlotsExact
    <2>5. QED
      BY <1>1, <2>2, <2>3, <2>4 DEF Inv
  <1>3. ASSUME NEW l \in Lineages, NEW e \in Editors, UserReleases(e, l)
        PROVE  Inv'
    BY <1>1, <1>3, DeletionStep DEF UserReleases
  <1>4. ASSUME NEW l \in Lineages, Heartbeat(l) \/ Age(l)
        PROVE  Inv'
    <2>1. UNCHANGED <<runVars, slots, active, row, lock, taken, procVars>>
      BY <1>4 DEF Heartbeat, Age
    <2> USE <2>1 DEF runVars, procVars
    <2>2. LockOwner' /\ LockKept'
      BY DEF Inv, LockOwner, LockKept, Lin
    <2>3. RowOwner' /\ ActiveLive' /\ NothingRunsDown' /\ SlotsExact'
      BY DEF Inv, RowOwner, ActiveLive, NothingRunsDown, SlotsExact
    <2>4. QED
      BY <1>1, <2>2, <2>3 DEF Inv
  <1>5. CASE Reap
    BY <1>1, <1>5, DeletionStep DEF Reap
  <1>6. CASE Crash
    <2> USE DEF Crash, lockVars, procVars
    <2>1. \A q \in Runs :
            /\ pc'[q] \in {"new"} \cup Over
            /\ pc[q] \in HasLock \cup RowPcs \cup {"lost"} => pc'[q] = "lost"
      BY <1>6 DEF Over, HasLock, RowPcs
    <2>2. LockOwner'
      BY <1>6, <2>1 DEF Inv, LockOwner, Lin
    <2>3. LockKept'
      BY <2>1 DEF LockKept, HasLock, Over
    <2>4. RowOwner'
      BY <1>6, <2>1 DEF Inv, RowOwner, RowPcs
    <2>5. ActiveLive' /\ NothingRunsDown'
      BY <1>6, <2>1 DEF ActiveLive, NothingRunsDown
    <2>6. SlotsExact'
      <3>1. {q \in Runs : pc'[q] \in HasSlot} = {}
        BY <2>1 DEF HasSlot, Over
      <3>2. QED
        BY <1>6, <3>1, FS_EmptySet, RunAssumption DEF SlotsExact
    <2>7. QED
      BY <1>1, <2>2, <2>3, <2>4, <2>5, <2>6 DEF Inv
  <1>7. CASE Restart
    <2> USE DEF Restart, runVars, lockVars
    <2>1. \A q \in Runs : row'[q] # "running"
      BY <1>7
    <2>2. LockOwner' /\ LockKept'
      BY <1>7 DEF Inv, LockOwner, LockKept, Lin
    <2>3. RowOwner'
      BY <2>1 DEF RowOwner
    <2>4. ActiveLive' /\ NothingRunsDown' /\ SlotsExact'
      BY <1>7 DEF Inv, ActiveLive, NothingRunsDown, SlotsExact
    <2>5. QED
      BY <1>1, <2>2, <2>3, <2>4 DEF Inv
  <1>8. ASSUME NEW t \in Tests, UserMoves(t)
        PROVE  Inv'
    <2> USE <1>8 DEF UserMoves, runVars, lockVars, procVars
    <2>1. LockOwner' /\ LockKept'
      BY DEF Inv, LockOwner, LockKept, Lin
    <2>2. RowOwner' /\ ActiveLive' /\ NothingRunsDown' /\ SlotsExact'
      BY DEF Inv, RowOwner, ActiveLive, NothingRunsDown, SlotsExact
    <2>3. QED
      BY <1>1, <2>1, <2>2 DEF Inv
  <1>9. QED
    BY <1>2, <1>3, <1>4, <1>5, <1>6, <1>7, <1>8 DEF LockTraffic

---------------------------------------------------------------------------
(* The status of a test while it is under test.                            *)

\* Before MarkActive.
Early == {"new", "read", "checked", "slot", "locked", "inserted"}

\* No user moved the test since a run marked it, and nobody's lock was taken away.
Undisturbed(r) ==
  /\ target[r] \in Tests /\ marked[r] /\ ~moved[target[r]]
  /\ \A q \in Runs : Lin(q) = Lin(r) => ~taken[q]

\* From the write of the active status to the end of the process.
InQa(r) ==
  /\ pc[r] \in Early => ~marked[r]
  /\ pc[r] \in {"marked", "live"} /\ Undisturbed(r) => status[target[r]] = "active"

QaInv == \A r \in Runs : InQa(r)

\* Locks are only ever taken away, and targets stay.
LEMMA TakenGrows ==
  ASSUME Inv, [Next]_vars
  PROVE  target' = target /\ \A q \in Runs : taken[q] => taken'[q]
  <1>1. CASE Next
    <2>1. ASSUME NEW r \in Runs, StartRun(r) \/ Supervise(r)
          PROVE  target' = target /\ \A q \in Runs : taken[q] => taken'[q]
      BY <2>1, StartEffects, SuperviseEffects, DeleteFacts DEF Inv, Effects, Moves, LockEffect, lockVars
    <2>2. ASSUME NEW l \in Lineages, LockTraffic(l)
          PROVE  target' = target /\ \A q \in Runs : taken[q] => taken'[q]
      BY <2>2, DeleteFacts DEF Inv, LockTraffic, EditorAcquires, UserReleases, Heartbeat, Age, runVars
    <2>3. CASE (\E t \in Tests : UserMoves(t)) \/ Crash \/ Restart
      BY <2>3 DEF UserMoves, Crash, Restart, runVars, lockVars
    <2>4. CASE Reap
      BY <2>4, DeleteFacts DEF Inv, Reap, runVars
    <2> QED
      BY <1>1, <2>1, <2>2, <2>3, <2>4 DEF Next
  <1>2. CASE UNCHANGED vars
    BY <1>2 DEF vars, runVars, lockVars
  <1> QED
    BY <1>1, <1>2

\* Steps that write no status, and bring no run to where it counts.
LEMMA QuietQa ==
  ASSUME Inv, QaInv, [Next]_vars, UNCHANGED statusVars, NEW r \in Runs,
         pc'[r] \in Early => pc[r] \in Early,
         pc'[r] \in {"marked", "live"} => pc[r] \in {"marked", "live"}
  PROVE  InQa(r)'
  BY TakenGrows DEF QaInv, InQa, Undisturbed, Lin, statusVars

\* Undisturbed runs of a lineage are alone in it between Acquire and Release.
LEMMA AloneInLineage ==
  ASSUME Inv, NEW r \in Runs, NEW q \in Runs, pc[r] \in HasLock, pc[q] \in HasLock,
         Lin(q) = Lin(r), ~taken[q], ~taken[r]
  PROVE  q = r
  BY DEF Inv, LockKept

LEMMA QaNext == Inv /\ QaInv /\ [Next]_vars => QaInv'
  <1> SUFFICES ASSUME Inv, QaInv, [Next]_vars, NEW r \in Runs
               PROVE  InQa(r)'
    BY DEF QaInv
  <1>1. /\ target' = target /\ \A q \in Runs : taken[q] => taken'[q]
        /\ InQa(r) /\ target[r] \in Targets /\ status \in [Targets -> {"approved", "active", "done"}]
        /\ marked \in [Runs -> BOOLEAN] /\ moved \in [Tests -> BOOLEAN]
    BY TakenGrows DEF Inv, TypeOK, QaInv
  <1>2. Undisturbed(r)' /\ UNCHANGED marked /\ (moved[target[r]] => moved'[target[r]]) => Undisturbed(r)
    BY <1>1 DEF Undisturbed, Lin
  <1>3. ASSUME NEW q \in Runs, MarkActive(q)
        PROVE  InQa(r)'
    <2>1. /\ pc[q] = "inserted" /\ pc'[q] \in {"undoLock", "marked"}
          /\ \A x \in Runs : x # q => pc'[x] = pc[x]
      BY <1>3, GotoFacts DEF Inv, MarkActive, Pc, Starting
    <2>2. CASE UNCHANGED statusVars
      <3>1. CASE r = q
        BY <1>1, <2>1, <2>2, <3>1 DEF InQa, Undisturbed, Early, statusVars
      <3>2. CASE r # q
        BY <2>1, <2>2, <3>2, QuietQa
      <3> QED
        BY <3>1, <3>2
    <2>3. CASE /\ status' = [status EXCEPT ![target[q]] = "active"]
               /\ marked' = [marked EXCEPT ![q] = TRUE]
               /\ moved' = [moved EXCEPT ![target[q]] = FALSE]
               /\ pc'[q] = "marked"
      <3>1. CASE target[q] = target[r]
        <4>1. status'[target'[r]] = "active"
          BY <1>1, <2>3, <3>1
        <4>2. pc'[r] \in Early => pc[r] \in Early /\ r # q
          BY <2>1, <2>3 DEF Early
        <4> QED
          BY <1>1, <2>3, <4>1, <4>2 DEF InQa
      <3>2. CASE target[q] # target[r]
        <4>1. r # q /\ pc'[r] = pc[r] /\ marked'[r] = marked[r] /\ status'[target[r]] = status[target[r]]
          BY <1>1, <2>1, <2>3, <3>2
        <4>2. target[r] \in Tests => moved'[target[r]] = moved[target[r]]
          BY <1>1, <2>3, <3>2
        <4>3. Undisturbed(r)' => Undisturbed(r)
          BY <1>1, <4>1, <4>2 DEF Undisturbed, Lin
        <4> QED
          BY <1>1, <4>1, <4>3 DEF InQa
      <3> QED
        BY <3>1, <3>2
    <2>4. (pc[q] = "inserted" /\ pc'[q] = "marked") \/ UNCHANGED statusVars
      BY <1>3, GotoFacts DEF Inv, MarkActive, Pc, Starting
    <2>5. \/ UNCHANGED statusVars
          \/ /\ status' = [status EXCEPT ![target[q]] = "active"]
             /\ marked' = [marked EXCEPT ![q] = TRUE]
             /\ moved' = [moved EXCEPT ![target[q]] = FALSE]
      BY <1>3 DEF MarkActive
    <2> QED
      BY <2>2, <2>3, <2>4, <2>5
  <1>4. ASSUME NEW q \in Runs, Settle(q)
        PROVE  InQa(r)'
    <2>1. /\ pc[q] = "ended" /\ pc'[q] = "settled" /\ UNCHANGED <<marked, moved, taken>>
          /\ \A x \in Runs : x # q => pc'[x] = pc[x]
      BY <1>4, GotoFacts DEF Inv, Settle, Pc, Closing, lockVars
    <2>2. status'[target[r]] = status[target[r]] \/ target[q] = target[r]
      BY <1>1, <1>4 DEF Settle
    <2>3. pc'[r] \in Early \cup {"marked", "live"} => r # q /\ pc'[r] = pc[r]
      BY <2>1 DEF Early
    <2>4. Undisturbed(r)' => Undisturbed(r)
      BY <1>2, <2>1
    <2>5. ASSUME pc[r] \in {"marked", "live"}, Undisturbed(r)
          PROVE  target[q] # target[r]
      <3>1. SUFFICES ASSUME target[q] = target[r]
                     PROVE  FALSE
        OBVIOUS
      <3>2. Lin(q) = Lin(r) /\ ~taken[q] /\ ~taken[r]
        BY <2>5, <3>1 DEF Lin, Undisturbed
      <3>3. pc[r] \in HasLock /\ pc[q] \in HasLock /\ pc[q] # pc[r]
        BY <2>1, <2>5 DEF HasLock
      <3> QED
        BY <3>2, <3>3, AloneInLineage
    <2> QED
      BY <1>1, <2>1, <2>2, <2>3, <2>4, <2>5 DEF InQa
  <1>5. ASSUME NEW q \in Runs, StartRun(q) \/ Supervise(q), ~MarkActive(q), ~Settle(q)
        PROVE  InQa(r)'
    <2>1. /\ UNCHANGED statusVars
          /\ pc'[q] \in Early => pc[q] \in Early
          /\ pc'[q] \in {"marked", "live"} => pc[q] \in {"marked", "live"}
      <3> USE GotoFacts DEF Inv, Early, Goto, TypeOK
      <3>1. CASE ReadTarget(q) \/ CheckLock(q) \/ TakeSlot(q)
        BY <3>1 DEF ReadTarget, CheckLock, TakeSlot
      <3>2. CASE AcquireLock(q) \/ InsertRow(q)
        BY <3>2 DEF AcquireLock, InsertRow
      <3>3. CASE StartDriver(q) \/ UndoLock(q) \/ UndoSlot(q)
        BY <3>3 DEF StartDriver, UndoLock, UndoSlot
      <3>4. CASE ProcessEnds(q) \/ PrecheckFails(q)
        BY <3>4 DEF ProcessEnds, PrecheckFails
      <3>5. CASE ReleaseLock(q) \/ RecordRow(q) \/ Announce(q)
        BY <3>5 DEF ReleaseLock, RecordRow, Announce
      <3> QED
        BY <1>5, <3>1, <3>2, <3>3, <3>4, <3>5 DEF StartRun, Supervise
    <2>2. \A x \in Runs : x # q => pc'[x] = pc[x]
      BY <1>5, StartEffects, SuperviseEffects DEF Inv, Effects, Moves
    <2> QED
      BY <2>1, <2>2, QuietQa
  <1>6. ASSUME NEW l \in Lineages, LockTraffic(l)
        PROVE  InQa(r)'
    <2>1. UNCHANGED <<pc, statusVars>>
      BY <1>6 DEF LockTraffic, EditorAcquires, UserReleases, Heartbeat, Age, runVars
    <2> QED
      BY <2>1, QuietQa
  <1>7. ASSUME NEW t \in Tests, UserMoves(t)
        PROVE  InQa(r)'
    <2>1. /\ UNCHANGED <<pc, marked, taken>> /\ moved' = [moved EXCEPT ![t] = TRUE]
          /\ t # target[r] => status'[target[r]] = status[target[r]]
      BY <1>1, <1>7 DEF UserMoves, runVars, lockVars
    <2>2. target[r] \in Tests /\ t = target[r] => moved'[target'[r]]
      BY <1>1, <2>1
    <2>3. Undisturbed(r)' => Undisturbed(r) /\ t # target[r]
      BY <1>1, <1>2, <2>1, <2>2 DEF Undisturbed
    <2> QED
      BY <1>1, <2>1, <2>3 DEF InQa
  <1>8. CASE Reap
    <2>1. UNCHANGED <<pc, statusVars>>
      BY <1>8 DEF Reap, runVars
    <2> QED
      BY <2>1, QuietQa
  <1>9. CASE Crash
    <2>1. UNCHANGED statusVars /\ pc'[r] \notin {"marked", "live"} /\ (pc'[r] \in Early => pc'[r] = pc[r])
      BY <1>9 DEF Crash, Early, Over, statusVars, Inv, TypeOK, vars
    <2> QED
      BY <2>1, QuietQa
  <1>10. CASE Restart
    <2>1. UNCHANGED <<pc, marked>> /\ pc[r] \notin {"marked", "live"}
      BY <1>10 DEF Restart, runVars, Inv, NothingRunsDown, Over
    <2> QED
      BY <1>1, <2>1 DEF InQa
  <1>11. CASE UNCHANGED vars
    <2>1. UNCHANGED <<pc, statusVars>>
      BY <1>11 DEF vars, runVars
    <2> QED
      BY <2>1, QuietQa
  <1> QED
    BY <1>3, <1>4, <1>5, <1>6, <1>7, <1>8, <1>9, <1>10, <1>11 DEF Next

---------------------------------------------------------------------------
(* The invariant and what follows from it.                                 *)

LEMMA InvInit == Init => Inv
  <1> SUFFICES ASSUME Init
               PROVE  Inv
    OBVIOUS
  <1>1. TypeOK
    BY TypeInit
  <1>2. LockOwner
    BY RunAssumption DEF Init, LockOwner
  <1>3. LockKept /\ RowOwner /\ ActiveLive /\ NothingRunsDown
    BY DEF Init, LockKept, HasLock, RowOwner, ActiveLive, NothingRunsDown
  <1>4. SlotsExact
    <2>1. {r \in Runs : pc[r] \in HasSlot} = {}
      BY DEF Init, HasSlot
    <2>2. Cardinality({r \in Runs : pc[r] \in HasSlot}) = 0
      BY <2>1, FS_EmptySet
    <2>3. slots = 0 /\ slots <= Slots
      BY RunAssumption DEF Init
    <2>4. QED
      BY <2>2, <2>3 DEF SlotsExact
  <1>5. QED
    BY <1>1, <1>2, <1>3, <1>4 DEF Inv

LEMMA InvNext == Inv /\ [Next]_vars => Inv'
  <1> SUFFICES ASSUME Inv, [Next]_vars
               PROVE  Inv'
    OBVIOUS
  <1>1. CASE Next
    BY <1>1, RunStepInv, OtherStep DEF Next
  <1>2. CASE UNCHANGED vars
    <2>1. TypeOK' /\ LockOwner' /\ LockKept'
      BY <1>2 DEF vars, runVars, lockVars, statusVars, procVars, Inv, TypeOK,
         LockOwner, LockKept, Lin
    <2>2. RowOwner' /\ ActiveLive' /\ NothingRunsDown' /\ SlotsExact'
      BY <1>2 DEF vars, runVars, procVars, Inv, RowOwner, ActiveLive,
         NothingRunsDown, SlotsExact
    <2>3. QED
      BY <2>1, <2>2 DEF Inv
  <1>3. QED
    BY <1>1, <1>2

\* Every reachable state of Manager, its rows and its locks satisfies the
\* conjuncts above.
THEOREM Invariance == Spec => []Inv
  BY InvInit, InvNext, PTL DEF Spec

\* Each variable keeps its type; slots never goes below zero, so no path of
\* StartRun or supervise gives back a token that m.sem does not hold.
THEOREM TypeCorrect == Spec => []TypeOK
  <1>1. Inv => TypeOK
    BY DEF Inv
  <1>2. QED
    BY Invariance, <1>1, PTL

\* max_concurrent_agents is never exceeded and no error path of StartRun
\* leaks a token of the semaphore.
THEOREM SlotsExactHolds == Spec => []SlotsExact
  <1>1. Inv => SlotsExact
    BY DEF Inv
  <1>2. QED
    BY Invariance, <1>1, PTL

\* A run holds the lock of its lineage from locks.Acquire to its Release,
\* unless the lock was deleted under it.
THEOREM LockKeptHolds == Spec => []LockKept
  <1>1. Inv => LockKept
    BY DEF Inv
  <1>2. QED
    BY Invariance, <1>1, PTL

\* On a live server each running row of agent_runs belongs to a goroutine.
THEOREM RowsAccountedHolds == Spec => []RowsAccounted
  <1>1. Inv => RowsAccounted
    BY DEF Inv, RowOwner, RowsAccounted, Starting, Closing
  <1>2. QED
    BY Invariance, <1>1, PTL

\* A run that was announced, or a StartRun that returned an error, left no
\* running row and no entry in m.active; and no lock, unless Acquire inserted
\* it and then failed.
THEOREM AnnouncedLastHolds == Spec => []AnnouncedLast
  <1>1. Inv => AnnouncedLast
    <2> SUFFICES ASSUME Inv, NEW r \in Runs, pc[r] \in Over \ {"lost"}
                 PROVE  /\ row[r] # "running"
                        /\ r \notin active
                        /\ \A l \in Lineages : lock[l] = r => pc[r] = "stranded"
      BY DEF AnnouncedLast
    <2>1. row[r] # "running" /\ r \notin active
      BY DEF Inv, RowOwner, ActiveLive, Over
    <2>2. \A l \in Lineages : lock[l] = r => pc[r] = "stranded"
      BY DEF Inv, LockOwner, HasLock, Over
    <2>3. QED
      BY <2>1, <2>2
  <1>2. QED
    BY Invariance, <1>1, PTL

\* Between the write of the active status and the end of its process a run of a
\* test finds the test in in-qa: no other run, restart or lock traffic takes it
\* out, unless a user moves it or a lock of the lineage is deleted.
THEOREM RunningTestIsInQaHolds == Spec => []RunningTestIsInQa
  <1>1. Init => QaInv
    BY DEF Init, QaInv, InQa
  <1>2. QaInv => RunningTestIsInQa
    BY DEF QaInv, InQa, Undisturbed, RunningTestIsInQa
  <1>3. QED
    BY Invariance, <1>1, <1>2, QaNext, PTL DEF Spec
===========================================================================

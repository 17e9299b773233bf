--------------------------- MODULE ServicesProofs ---------------------------
(***************************************************************************)
(* Proofs about two services of a project, for any values of the           *)
(* constants.                                                              *)
(*                                                                         *)
(* Triage: the map of runs in flight is what keeps two runs of an idea     *)
(* apart.  From its registration to the end of its deferred function a run *)
(* is the entry of its idea, and so is a failed one until its cooldown is  *)
(* over.  That holds until Stop empties the map under runs that go on, and *)
(* again from the end of that process.                                     *)
(*                                                                         *)
(* DevOps: a run in progress keeps its log, and one that is over has a     *)
(* record unless that could not be written, although four parties write    *)
(* and remove these files without a common lock.  The argument is about    *)
(* what the parties remember of a directory they have read before: a run   *)
(* they have found in it has begun, which it stays for ever, and a run     *)
(* that isActive says is not in progress is over, which it stays too.      *)
(***************************************************************************)
EXTENDS MCServices, FiniteSetTheorems, TLAPS

---------------------------------------------------------------------------
(* Triage.                                                                 *)

TriagePlaces == {"new", "eligible", "slot", "lock", "register", "refund", "over"} \cup InRun \cup Tail
Calls  == [pc : TriagePlaces, path : Ideas, ok : BOOLEAN, original : File, current : File]

\* A run between its registration and the end of its deferred function.
InProgress == InRun \cup Tail
\* The places at which an attempt has a token of the semaphore.
Paid == {"lock", "register", "refund", "freeSlot"} \cup InRun

TriageTyped == TriageTypeOK /\ attempt \in [Attempts -> Calls]

\* A text that was wrapped has the headings by which rewriteBody sees that; and what a run
\* has read is as it was in the file.
Sound(f) == f.wraps <= 1 /\ (f.wraps > 0 => Sections \subseteq f.headings)
FilesSound == \A p \in Ideas : Sound(idea[p])
Remembers(c) == Sound(c.original) /\ Sound(c.current)
Wrapped == FilesSound /\ \A t \in Attempts : Remembers(attempt[t])

\* Every token is accounted for: a run, or a call on its way to one, has it.
SemaphoreExact == taken = Cardinality({t \in Attempts : attempt[t].pc \in Paid})

MapInv ==
  /\ ~stopped \/ ~managerUp =>
       /\ \A u \in Attempts : attempt[u].pc \in InProgress => inFlight[PathOf(u)] = u
       /\ \A p \in cooling : inFlight[p] \in Attempts /\ attempt[inFlight[p]].pc = "over"
  /\ ~managerUp =>
       /\ \A u \in Attempts : attempt[u].pc \in {"new", "over"}
       /\ cooling = {} /\ \A p \in Ideas : inFlight[p] = Free

TriageInv == TriageTyped /\ Wrapped /\ SemaphoreExact /\ MapInv

LEMMA FreeIsNobody == Free \notin Attempts /\ Agent \notin Attempts /\ Free # Agent
  BY FS_CardinalityType, TriageAssumption DEF Free, Agent

---------------------------------------------------------------------------
(* The semaphore.                                                          *)

Payers(f) == {t \in Attempts : f[t].pc \in Paid}

LEMMA PayersCount ==
  ASSUME NEW f
  PROVE  IsFiniteSet(Payers(f)) /\ Cardinality(Payers(f)) \in Nat
  BY FS_Subset, FS_CardinalityType, TriageAssumption DEF Payers

LEMMA SamePayers ==
  ASSUME NEW f, NEW g, \A t \in Attempts : f[t].pc \in Paid <=> g[t].pc \in Paid
  PROVE  Payers(f) = Payers(g)
  BY DEF Payers

LEMMA PayerMore ==
  ASSUME NEW f, NEW g, NEW u \in Attempts, f[u].pc \notin Paid, g[u].pc \in Paid,
         \A t \in Attempts \ {u} : f[t] = g[t]
  PROVE  Cardinality(Payers(g)) = Cardinality(Payers(f)) + 1
  <1>1. Payers(g) = Payers(f) \cup {u} /\ u \notin Payers(f)
    BY DEF Payers
  <1> QED
    BY <1>1, PayersCount, FS_AddElement

---------------------------------------------------------------------------
(* A step of an attempt.                                                   *)

Moves(t, place) ==
  /\ attempt' \in [Attempts -> Calls] /\ attempt'[t].pc = place
  /\ attempt'[t].path = attempt[t].path
  /\ attempt'[t].original = attempt[t].original /\ attempt'[t].current = attempt[t].current
  /\ \A u \in Attempts \ {t} : attempt'[u] = attempt[u]

LEMMA ToMoves ==
  ASSUME TriageTyped, NEW t \in Attempts, NEW place \in TriagePlaces,
         To(t, place) \/ \E ok \in BOOLEAN : End(t, place, ok)
  PROVE  Moves(t, place)
  <1>1. attempt[t] \in Calls /\ attempt \in [Attempts -> Calls]
    BY DEF TriageTyped
  <1>2. ASSUME NEW ok \in BOOLEAN
        PROVE  [attempt[t] EXCEPT !.pc = place, !.ok = ok] \in Calls
    BY <1>1 DEF Calls
  <1>3. [attempt[t] EXCEPT !.pc = place] \in Calls
    BY <1>1 DEF Calls
  <1>4. CASE To(t, place)
    <2>1. attempt' = [attempt EXCEPT ![t] = [attempt[t] EXCEPT !.pc = place]]
      BY <1>4 DEF To
    <2>2. attempt'[t] = [attempt[t] EXCEPT !.pc = place]
      BY <1>1, <2>1
    <2> QED
      BY <1>1, <1>3, <2>1, <2>2 DEF Moves, Calls
  <1>5. ASSUME NEW ok \in BOOLEAN, End(t, place, ok)
        PROVE  Moves(t, place)
    <2>1. attempt' = [attempt EXCEPT ![t] = [attempt[t] EXCEPT !.pc = place, !.ok = ok]]
      BY <1>5 DEF End
    <2>2. attempt'[t] = [attempt[t] EXCEPT !.pc = place, !.ok = ok]
      BY <1>1, <2>1
    <2> QED
      BY <1>1, <1>2, <2>1, <2>2 DEF Moves, Calls
  <1> QED
    BY <1>4, <1>5

\* The variables whose types a step of an attempt must keep.
TriageRest ==
  /\ idea' \in [Ideas -> File] /\ indexed' \in [Ideas -> Statuses]
  /\ lineageLock' \in [Ideas -> Attempts \cup {Free, Agent}]
  /\ runRow' \in [Attempts -> {"none", "running", "done", "failed"}]
  /\ \A p \in Ideas : Sound(idea'[p])
  /\ managerUp /\ UNCHANGED <<ideaEdits, mgrVars>>

LEMMA RestTyped ==
  ASSUME TriageInv, attempt' \in [Attempts -> Calls], TriageRest, taken' \in 0..MaxConcurrent,
         inFlight' \in [Ideas -> Attempts \cup {Free}], cooling' \subseteq Ideas
  PROVE  TriageTyped' /\ FilesSound'
  <1>1. UNCHANGED <<managerUp, stopped, triageCrashes>>
    BY DEF TriageRest, mgrVars
  <1>2. \A t \in Attempts : attempt'[t] \in Calls
    OBVIOUS
  <1>3. TriageTypeOK'
    BY <1>1, <1>2 DEF TriageInv, TriageTyped, TriageRest, TriageTypeOK, Calls, TriagePlaces
  <1> QED
    BY <1>3 DEF TriageTyped, TriageRest, FilesSound

LEMMA TheRest ==
  ASSUME TriageInv, managerUp, UNCHANGED <<ideaVars, lineageLock, runRow, mgrVars>>
  PROVE  TriageRest
  BY DEF TriageInv, TriageTyped, TriageTypeOK, Wrapped, FilesSound, TriageRest, ideaVars

\* The map is kept, and nobody comes into progress or back from the end.
LEMMA MapKept ==
  ASSUME TriageInv, managerUp, UNCHANGED <<mapVars, mgrVars>>,
         \A u \in Attempts : attempt'[u].pc \in InProgress =>
            attempt[u].pc \in InProgress /\ attempt'[u].path = attempt[u].path,
         \A u \in Attempts : attempt[u].pc = "over" => attempt'[u].pc = "over"
  PROVE  MapInv'
  <1>1. UNCHANGED <<inFlight, cooling, managerUp, stopped>>
    BY DEF mapVars, mgrVars
  <1> QED
    BY <1>1 DEF TriageInv, MapInv, PathOf

\* The attempt goes on, and has a token before and after, or neither.
LEMMA GoesOn ==
  ASSUME TriageInv, NEW t \in Attempts, attempt[t].pc # "over", TriageRest,
         attempt' \in [Attempts -> Calls], \A u \in Attempts \ {t} : attempt'[u] = attempt[u],
         Remembers(attempt'[t]),
         attempt'[t].pc \in InProgress =>
            attempt[t].pc \in InProgress /\ attempt'[t].path = attempt[t].path,
         attempt[t].pc \in Paid <=> attempt'[t].pc \in Paid,
         UNCHANGED <<mapVars, taken>>
  PROVE  TriageInv'
  <1>1. UNCHANGED <<inFlight, cooling>> /\ managerUp /\ UNCHANGED mgrVars
    BY DEF mapVars, TriageRest
  <1>2. TriageTyped' /\ FilesSound'
    BY <1>1, RestTyped DEF TriageInv, TriageTyped, TriageTypeOK
  <1>3. \A u \in Attempts : Remembers(attempt'[u])
    BY DEF TriageInv, Wrapped
  <1>4. Payers(attempt') = Payers(attempt)
    BY SamePayers
  <1>5. MapInv'
    BY <1>1, MapKept
  <1> QED
    BY <1>2, <1>3, <1>4, <1>5 DEF TriageInv, Wrapped, SemaphoreExact, Payers

\* It takes a token, or gives it back.
LEMMA PaysOrIsRefunded ==
  ASSUME TriageInv, NEW t \in Attempts, attempt[t].pc # "over", TriageRest, NEW place, Moves(t, place),
         place \in InProgress => attempt[t].pc \in InProgress,
         \/ attempt[t].pc \notin Paid /\ place \in Paid /\ taken < MaxConcurrent /\ taken' = taken + 1
         \/ attempt[t].pc \in Paid /\ place \notin Paid /\ taken' = taken - 1,
         UNCHANGED mapVars
  PROVE  TriageInv'
  <1>1. UNCHANGED <<inFlight, cooling>> /\ managerUp /\ UNCHANGED mgrVars
    BY DEF mapVars, TriageRest
  <1>2. /\ taken = Cardinality(Payers(attempt)) /\ taken \in 0..MaxConcurrent /\ MaxConcurrent \in Nat
        /\ Cardinality(Payers(attempt)) \in Nat /\ Cardinality(Payers(attempt')) \in Nat
    BY PayersCount, TriageAssumption DEF TriageInv, SemaphoreExact, Payers, TriageTyped, TriageTypeOK
  <1>3. taken' = Cardinality(Payers(attempt')) /\ taken' \in 0..MaxConcurrent
    <2>1. CASE attempt[t].pc \notin Paid /\ place \in Paid /\ taken < MaxConcurrent /\ taken' = taken + 1
      <3>1. Cardinality(Payers(attempt')) = Cardinality(Payers(attempt)) + 1
        BY <2>1, PayerMore DEF Moves
      <3> QED
        BY <1>2, <2>1, <3>1
    <2>2. CASE attempt[t].pc \in Paid /\ place \notin Paid /\ taken' = taken - 1
      <3>1. Cardinality(Payers(attempt)) = Cardinality(Payers(attempt')) + 1
        BY <2>2, PayerMore DEF Moves
      <3> QED
        BY <1>2, <2>2, <3>1
    <2> QED
      BY <2>1, <2>2
  <1>4. TriageTyped' /\ FilesSound'
    BY <1>1, <1>3, RestTyped DEF TriageInv, TriageTyped, TriageTypeOK, Moves
  <1>5. \A u \in Attempts : Remembers(attempt'[u])
    BY DEF TriageInv, Wrapped, Remembers, Moves
  <1>6. MapInv'
    BY <1>1, MapKept DEF Moves
  <1> QED
    BY <1>3, <1>4, <1>5, <1>6 DEF TriageInv, Wrapped, SemaphoreExact, Payers

---------------------------------------------------------------------------
(* Trigger.                                                                *)

\* Where each place belongs.
LEMMA Parts ==
  /\ {"new", "eligible", "slot", "lock", "register", "refund", "over"} \cap InProgress = {}
  /\ {"new", "eligible", "slot", "over", "freeLock", "finish"} \cap Paid = {}
  /\ {"lock", "register", "refund", "freeSlot"} \cup InRun \subseteq Paid
  /\ InRun \cup {"freeSlot", "freeLock", "finish"} = InProgress
  /\ {"new", "eligible", "slot", "lock", "register", "refund", "over", "freeSlot", "freeLock", "finish"}
       \cup InRun \subseteq TriagePlaces
  /\ {"new", "over", "lock", "register", "refund", "freeSlot"} \cap InRun = {}
  BY DEF InProgress, Paid, InRun, Tail, TriagePlaces

LEMMA TriggerInv ==
  ASSUME TriageInv, NEW t \in Attempts, NEW p \in Ideas, Trigger(t, p)
  PROVE  TriageInv'
  <1> DEFINE place == IF inFlight[p] # Free THEN "over" ELSE "eligible"
  <1>1. /\ managerUp /\ attempt[t].pc = "new" /\ attempt[t] \in Calls
        /\ attempt \in [Attempts -> Calls]
        /\ attempt' = [attempt EXCEPT ![t].path = p, ![t].pc = place]
        /\ UNCHANGED <<ideaVars, mapVars, taken, lineageLock, runRow, mgrVars>>
    BY DEF Trigger, Is, TriageInv, TriageTyped
  <1>2. place \in {"over", "eligible"}
    OBVIOUS
  <1> HIDE DEF place
  <1>3. [attempt[t] EXCEPT !.path = p, !.pc = place] \in Calls
    BY <1>1, <1>2 DEF Calls, TriagePlaces
  <1>4. attempt' = [attempt EXCEPT ![t] = [attempt[t] EXCEPT !.path = p, !.pc = place]]
    BY <1>1
  <1>5. attempt' \in [Attempts -> Calls] /\ \A u \in Attempts \ {t} : attempt'[u] = attempt[u]
    BY <1>1, <1>3, <1>4
  <1>6. attempt'[t] = [attempt[t] EXCEPT !.path = p, !.pc = place]
    BY <1>1, <1>4
  <1>7. /\ attempt'[t].pc = place
        /\ attempt'[t].original = attempt[t].original /\ attempt'[t].current = attempt[t].current
    BY <1>1, <1>6 DEF Calls
  <1>8. Remembers(attempt'[t])
    BY <1>7 DEF TriageInv, Wrapped, Remembers
  <1>9. TriageRest
    BY <1>1, TheRest
  <1> QED
    BY <1>1, <1>2, <1>5, <1>7, <1>8, <1>9, Parts, GoesOn

LEMMA CallInv ==
  ASSUME TriageInv, NEW t \in Attempts, eligible(t) \/ TakeSlot(t) \/ Refund(t)
  PROVE  TriageInv'
  <1>1. /\ managerUp /\ TriageTyped /\ UNCHANGED <<ideaVars, mapVars, lineageLock, runRow, mgrVars>>
        /\ Remembers(attempt[t])
    BY DEF eligible, TakeSlot, Refund, Is, TriageInv, Wrapped
  <1>2. TriageRest
    BY <1>1, TheRest
  <1>3. ASSUME attempt[t].pc \in {"eligible", "slot"}, UNCHANGED taken,
               NEW place \in {"slot", "over"}, To(t, place)
        PROVE  TriageInv'
    <2>1. Moves(t, place)
      BY <1>1, <1>3, Parts, ToMoves
    <2> QED
      BY <1>1, <1>2, <1>3, <2>1, Parts, GoesOn DEF Moves, Remembers
  <1>4. CASE eligible(t)
    BY <1>3, <1>4 DEF eligible, Is
  <1>5. CASE TakeSlot(t)
    <2>1. attempt[t].pc = "slot"
      BY <1>5 DEF TakeSlot, Is
    <2>2. CASE taken < MaxConcurrent /\ taken' = taken + 1 /\ To(t, "lock")
      <3>1. Moves(t, "lock")
        BY <1>1, <2>2, Parts, ToMoves
      <3> QED
        BY <1>1, <1>2, <2>1, <2>2, <3>1, Parts, PaysOrIsRefunded
    <2>3. CASE To(t, "over") /\ UNCHANGED taken
      BY <1>3, <2>1, <2>3
    <2> QED
      BY <1>5, <2>2, <2>3 DEF TakeSlot
  <1>6. CASE Refund(t)
    <2>1. attempt[t].pc = "refund" /\ taken' = taken - 1 /\ To(t, "over")
      BY <1>6 DEF Refund, Is
    <2>2. Moves(t, "over")
      BY <1>1, <2>1, Parts, ToMoves
    <2> QED
      BY <1>1, <1>2, <2>1, <2>2, Parts, PaysOrIsRefunded
  <1> QED
    BY <1>4, <1>5, <1>6

LEMMA TakeLockInv ==
  ASSUME TriageInv, NEW t \in Attempts, TakeLock(t)
  PROVE  TriageInv'
  <1>1. /\ managerUp /\ attempt[t].pc = "lock" /\ TriageTyped /\ attempt[t] \in Calls
        /\ Remembers(attempt[t])
        /\ UNCHANGED <<ideaVars, mapVars, runRow, mgrVars>>
    BY DEF TakeLock, Is, TriageInv, TriageTyped, Wrapped
  <1>2. CASE lineageLock' = [lineageLock EXCEPT ![PathOf(t)] = t] /\ To(t, "register") /\ UNCHANGED taken
    <2>1. Moves(t, "register")
      BY <1>1, <1>2, Parts, ToMoves
    <2>2. lineageLock' \in [Ideas -> Attempts \cup {Free, Agent}]
      BY <1>1, <1>2 DEF TriageTyped, TriageTypeOK
    <2>3. TriageRest
      BY <1>1, <2>2 DEF TriageInv, TriageTyped, TriageTypeOK, Wrapped, FilesSound, TriageRest, ideaVars
    <2> QED
      BY <1>1, <1>2, <2>1, <2>3, Parts, GoesOn DEF Moves, Remembers
  <1>3. CASE taken' = taken - 1 /\ To(t, "over") /\ UNCHANGED lineageLock
    <2>1. Moves(t, "over")
      BY <1>1, <1>3, Parts, ToMoves
    <2> QED
      BY <1>1, <1>3, <2>1, Parts, PaysOrIsRefunded, TheRest
  <1> QED
    BY <1>2, <1>3 DEF TakeLock

\* The second look at the map: only an attempt that finds no entry becomes one.
LEMMA RegisterInv ==
  ASSUME TriageInv, NEW t \in Attempts, Register(t)
  PROVE  TriageInv'
  <1> DEFINE p == PathOf(t)
  <1>1. /\ managerUp /\ attempt[t].pc = "register" /\ TriageTyped /\ p \in Ideas
        /\ Remembers(attempt[t])
        /\ UNCHANGED <<ideaVars, cooling, taken, runRow, mgrVars>>
    BY DEF Register, Is, TriageInv, TriageTyped, Wrapped, TriageTypeOK, PathOf
  <1>2. CASE lineageLock' = [lineageLock EXCEPT ![p] = Free] /\ To(t, "refund") /\ UNCHANGED inFlight
    <2>1. Moves(t, "refund")
      BY <1>1, <1>2, Parts, ToMoves
    <2>2. lineageLock' \in [Ideas -> Attempts \cup {Free, Agent}]
      BY <1>1, <1>2 DEF TriageTyped, TriageTypeOK
    <2>3. TriageRest
      BY <1>1, <2>2 DEF TriageInv, TriageTyped, TriageTypeOK, Wrapped, FilesSound, TriageRest, ideaVars
    <2> QED
      BY <1>1, <1>2, <2>1, <2>3, Parts, GoesOn DEF Moves, Remembers, mapVars
  <1>3. CASE inFlight[p] = Free /\ inFlight' = [inFlight EXCEPT ![p] = t] /\ To(t, "insert")
               /\ UNCHANGED lineageLock
    <2>1. Moves(t, "insert")
      BY <1>1, <1>3, Parts, ToMoves DEF InRun
    <2>2. TriageRest
      BY <1>1, <1>3, TheRest
    <2>3. /\ inFlight' \in [Ideas -> Attempts \cup {Free}] /\ cooling' \subseteq Ideas
          /\ taken' \in 0..MaxConcurrent /\ inFlight'[p] = t
          /\ \A q \in Ideas \ {p} : inFlight'[q] = inFlight[q]
      BY <1>1, <1>3 DEF TriageTyped, TriageTypeOK
    <2>4. TriageTyped' /\ FilesSound'
      BY <2>1, <2>2, <2>3, RestTyped DEF Moves
    <2>5. \A u \in Attempts : Remembers(attempt'[u])
      BY <1>1, <2>1 DEF TriageInv, Wrapped, Remembers, Moves
    <2>6. "insert" \in InRun
      BY DEF InRun
    <2>7. Payers(attempt') = Payers(attempt)
      BY <1>1, <2>1, <2>6, Parts, SamePayers DEF Moves
    <2>8. MapInv'
      <3>1. UNCHANGED <<managerUp, stopped>>
        BY <1>1 DEF mgrVars
      <3>2. CASE stopped
        BY <1>1, <3>1, <3>2 DEF MapInv
      <3>3. CASE ~stopped
        <4>1. p \notin cooling
          BY <1>1, <1>3, <3>3, FreeIsNobody DEF TriageInv, MapInv
        <4>2. ASSUME NEW u \in Attempts, attempt'[u].pc \in InProgress
              PROVE  inFlight'[attempt'[u].path] = u
          <5>1. CASE u = t
            BY <2>1, <2>3, <5>1 DEF Moves, PathOf
          <5>2. CASE u # t
            <6>1. attempt'[u] = attempt[u] /\ attempt[u].path \in Ideas
              BY <1>1, <2>1, <5>2 DEF Moves, TriageTyped, TriageTypeOK
            <6>2. inFlight[attempt[u].path] = u
              BY <3>3, <4>2, <6>1 DEF TriageInv, MapInv, PathOf
            <6>3. attempt[u].path # p
              BY <1>3, <6>2, FreeIsNobody
            <6> QED
              BY <2>3, <6>1, <6>2, <6>3
          <5> QED
            BY <5>1, <5>2
        <4>3. ASSUME NEW q \in cooling
              PROVE  inFlight'[q] \in Attempts /\ attempt'[inFlight'[q]].pc = "over"
          <5>1. q \in Ideas /\ q # p
            BY <1>1, <4>1, <4>3 DEF TriageTyped, TriageTypeOK
          <5>2. inFlight'[q] = inFlight[q] /\ inFlight[q] \in Attempts /\ attempt[inFlight[q]].pc = "over"
            BY <2>3, <3>3, <5>1 DEF TriageInv, MapInv
          <5>3. inFlight[q] # t
            BY <1>1, <5>2
          <5> QED
            BY <2>1, <5>2, <5>3 DEF Moves
        <4>4. cooling' = cooling
          BY <1>1
        <4> QED
          BY <1>1, <3>1, <4>2, <4>3, <4>4 DEF MapInv, PathOf
      <3> QED
        BY <3>2, <3>3
    <2> QED
      BY <1>1, <2>4, <2>5, <2>7, <2>8 DEF TriageInv, Wrapped, SemaphoreExact, Payers
  <1> QED
    BY <1>2, <1>3 DEF Register

---------------------------------------------------------------------------
(* execute and the deferred function.                                      *)

\* What rewriteBody has wrapped it does not wrap again.
LEMMA WrapsOnce ==
  ASSUME NEW f \in File, Sound(f)
  PROVE  rewriteBody(f) \in File /\ Sound(rewriteBody(f))
  <1>1. CASE Sections \subseteq f.headings
    BY <1>1 DEF rewriteBody
  <1>2. CASE ~(Sections \subseteq f.headings)
    <2>1. f.wraps = 0
      BY <1>2 DEF Sound, File
    <2>2. rewriteBody(f) = [f EXCEPT !.wraps = 1, !.headings = Sections]
      BY <1>2, <2>1 DEF rewriteBody
    <2>3. Sections \in SUBSET Sections /\ 1 \in 0..2
      OBVIOUS
    <2> HIDE DEF rewriteBody
    <2>4. rewriteBody(f) = [status |-> f.status, headings |-> Sections, wraps |-> 1, edit |-> f.edit]
      BY <2>2 DEF File
    <2>5. f.status \in Statuses /\ f.edit \in 0..MaxIdeaEdits
      BY DEF File
    <2>6. rewriteBody(f) \in File /\ rewriteBody(f).wraps = 1 /\ rewriteBody(f).headings = Sections
      BY <2>3, <2>4, <2>5 DEF File
    <2> QED
      BY <2>6 DEF Sound
  <1> QED
    BY <1>1, <1>2

LEMMA NewIdeaSound == NewIdea \in File /\ Sound(NewIdea)
  BY TriageAssumption DEF NewIdea, File, Statuses, Sound

\* Another status leaves the text as it is.
LEMMA PatchedSound ==
  ASSUME NEW f \in File, Sound(f)
  PROVE  [f EXCEPT !.status = "draft"] \in File /\ Sound([f EXCEPT !.status = "draft"])
  BY DEF File, Statuses, Sound

\* The run goes on within execute, or leaves it for the deferred function.
LEMMA WorksInv ==
  ASSUME TriageInv, NEW t \in Attempts, attempt[t].pc \in InRun, NEW place \in InRun \cup {"freeSlot"},
         Moves(t, place), TriageRest, UNCHANGED <<mapVars, taken>>
  PROVE  TriageInv'
  <1>1. place \in InProgress /\ place \in Paid /\ attempt[t].pc \in InProgress \cap Paid
          /\ attempt[t].pc # "over"
    BY Parts
  <1>2. Remembers(attempt'[t])
    BY DEF TriageInv, Wrapped, Remembers, Moves
  <1> QED
    BY <1>1, <1>2, GoesOn DEF Moves, Remembers

LEMMA FilesAre ==
  ASSUME TriageInv, NEW t \in Attempts
  PROVE  /\ idea \in [Ideas -> File] /\ \A p \in Ideas : Sound(idea[p])
         /\ PathOf(t) \in Ideas /\ Remembers(attempt[t])
         /\ attempt[t].original \in File /\ Sound(attempt[t].original)
         /\ attempt[t].current \in File /\ Sound(attempt[t].current)
  BY DEF TriageInv, TriageTyped, TriageTypeOK, Wrapped, FilesSound, PathOf, Remembers

\* An idea is written.
LEMMA WritesIdea ==
  ASSUME TriageInv, managerUp, NEW p \in Ideas, NEW f \in File, Sound(f),
         idea' = [idea EXCEPT ![p] = f],
         UNCHANGED <<indexed, ideaEdits, lineageLock, runRow, mgrVars>>
  PROVE  TriageRest
  <1>1. /\ idea \in [Ideas -> File] /\ indexed \in [Ideas -> Statuses]
        /\ \A q \in Ideas : Sound(idea[q])
    BY DEF TriageInv, TriageTyped, TriageTypeOK, Wrapped, FilesSound
  <1>2. idea' \in [Ideas -> File] /\ idea'[p] = f /\ \A q \in Ideas \ {p} : idea'[q] = idea[q]
    BY <1>1
  <1>3. \A q \in Ideas : Sound(idea'[q])
    BY <1>1, <1>2
  <1> QED
    BY <1>1, <1>2, <1>3 DEF TriageInv, TriageTyped, TriageTypeOK, TriageRest

\* A run reads the file, before its own write or after it.
LEMMA ReadsIdea ==
  ASSUME TriageInv, NEW t \in Attempts, managerUp, attempt[t].pc \in InRun, NEW place \in InRun,
         \/ attempt' = [attempt EXCEPT ![t].original = idea[PathOf(t)], ![t].pc = place]
         \/ attempt' = [attempt EXCEPT ![t].current = idea[PathOf(t)], ![t].pc = place],
         UNCHANGED <<ideaVars, mapVars, taken, lineageLock, runRow, mgrVars>>
  PROVE  TriageInv'
  <1>1. attempt[t] \in Calls /\ attempt \in [Attempts -> Calls] /\ place \in TriagePlaces
    BY Parts DEF TriageInv, TriageTyped
  <1>2. /\ idea[PathOf(t)] \in File /\ Sound(idea[PathOf(t)]) /\ Sound(attempt[t].original)
        /\ Sound(attempt[t].current)
    BY FilesAre
  <1>3. PICK c \in Calls : /\ attempt' = [attempt EXCEPT ![t] = c]
                           /\ c.pc = place /\ c.path = attempt[t].path /\ Remembers(c)
    <2>1. CASE attempt' = [attempt EXCEPT ![t].original = idea[PathOf(t)], ![t].pc = place]
      <3> DEFINE c == [attempt[t] EXCEPT !.original = idea[PathOf(t)], !.pc = place]
      <3>1. /\ c \in Calls /\ c.pc = place /\ c.path = attempt[t].path
            /\ c.original = idea[PathOf(t)] /\ c.current = attempt[t].current
        BY <1>1, <1>2 DEF Calls
      <3>2. attempt' = [attempt EXCEPT ![t] = c]
        BY <1>1, <2>1
      <3>3. Remembers(c)
        BY <1>2, <3>1 DEF Remembers
      <3> QED
        BY <3>1, <3>2, <3>3
    <2>2. CASE attempt' = [attempt EXCEPT ![t].current = idea[PathOf(t)], ![t].pc = place]
      <3> DEFINE c == [attempt[t] EXCEPT !.current = idea[PathOf(t)], !.pc = place]
      <3>1. /\ c \in Calls /\ c.pc = place /\ c.path = attempt[t].path
            /\ c.current = idea[PathOf(t)] /\ c.original = attempt[t].original
        BY <1>1, <1>2 DEF Calls
      <3>2. attempt' = [attempt EXCEPT ![t] = c]
        BY <1>1, <2>2
      <3>3. Remembers(c)
        BY <1>2, <3>1 DEF Remembers
      <3> QED
        BY <3>1, <3>2, <3>3
    <2> QED
      BY <2>1, <2>2
  <1>4. /\ attempt' \in [Attempts -> Calls] /\ \A u \in Attempts \ {t} : attempt'[u] = attempt[u]
        /\ attempt'[t] = c
    BY <1>1, <1>3
  <1>5. TriageRest
    BY TheRest
  <1>6. place \in InProgress \cap Paid /\ attempt[t].pc \in InProgress \cap Paid /\ attempt[t].pc # "over"
    BY Parts
  <1> QED
    BY <1>3, <1>4, <1>5, <1>6, GoesOn

LEMMA RunPlaces == InRun = {"insert", "read", "llm", "write", "advance", "patch", "reindex", "rollback", "close"}
  BY DEF InRun

\* A run goes on to a place, and leaves the files alone.
LEMMA WorksOn ==
  ASSUME TriageInv, NEW t \in Attempts, managerUp, attempt[t].pc \in InRun,
         NEW place \in InRun, To(t, place) \/ \E ok \in BOOLEAN : End(t, place, ok),
         UNCHANGED <<ideaVars, mapVars, taken, lineageLock, runRow, mgrVars>>
  PROVE  TriageInv'
  <1>1. Moves(t, place)
    BY Parts, ToMoves DEF TriageInv
  <1>2. TriageRest
    BY TheRest
  <1> QED
    BY <1>1, <1>2, WorksInv

\* A run writes its idea and goes on to a place.
LEMMA WritesAndGoes ==
  ASSUME TriageInv, NEW t \in Attempts, managerUp, attempt[t].pc \in InRun,
         NEW f \in File, Sound(f), idea' = [idea EXCEPT ![PathOf(t)] = f],
         NEW place \in InRun, To(t, place) \/ \E ok \in BOOLEAN : End(t, place, ok),
         UNCHANGED <<indexed, ideaEdits, mapVars, taken, lineageLock, runRow, mgrVars>>
  PROVE  TriageInv'
  <1>1. Moves(t, place)
    BY Parts, ToMoves DEF TriageInv
  <1>2. PathOf(t) \in Ideas
    BY FilesAre
  <1>3. TriageRest
    BY <1>2, WritesIdea
  <1> QED
    BY <1>1, <1>3, WorksInv

LEMMA ExecuteInv ==
  ASSUME TriageInv, NEW t \in Attempts, execute(t)
  PROVE  TriageInv'
  <1>1. TriageTyped /\ PathOf(t) \in Ideas
    BY FilesAre DEF TriageInv
  <1>2. CASE recordRunStart(t)
    <2>1. runRow' \in [Attempts -> {"none", "running", "done", "failed"}]
      BY <1>2 DEF recordRunStart, TriageInv, TriageTyped, TriageTypeOK
    <2>2. TriageRest
      BY <1>2, <2>1
         DEF recordRunStart, Is, TriageInv, TriageTyped, TriageTypeOK, Wrapped, FilesSound, TriageRest, ideaVars
    <2>3. Moves(t, "read")
      BY <1>1, <1>2, Parts, RunPlaces, ToMoves DEF recordRunStart
    <2> QED
      BY <1>2, <2>2, <2>3, RunPlaces, WorksInv DEF recordRunStart, Is
  <1>3. CASE ReadOriginal(t)
    <2>1. CASE End(t, "close", FALSE)
      BY <1>3, <2>1, RunPlaces, WorksOn DEF ReadOriginal, Is
    <2> QED
      BY <1>3, <2>1, RunPlaces, ReadsIdea DEF ReadOriginal, Is
  <1>4. CASE Generate(t)
    BY <1>4, RunPlaces, WorksOn DEF Generate, Is
  <1>5. CASE WriteIdea(t)
    <2>1. rewriteBody(attempt[t].original) \in File /\ Sound(rewriteBody(attempt[t].original))
      BY FilesAre, WrapsOnce
    <2>2. CASE idea' = [idea EXCEPT ![PathOf(t)] = rewriteBody(attempt[t].original)] /\ To(t, "advance")
      BY <1>5, <2>1, <2>2, RunPlaces, WritesAndGoes DEF WriteIdea, Is
    <2>3. CASE End(t, "close", FALSE) /\ UNCHANGED idea
      BY <1>5, <2>3, RunPlaces, WorksOn DEF WriteIdea, Is, ideaVars
    <2> QED
      BY <1>5, <2>2, <2>3 DEF WriteIdea
  <1>6. CASE applyDraftTransition(t)
    <2>1. CASE To(t, "rollback") \/ End(t, "close", TRUE)
      BY <1>6, <2>1, RunPlaces, WorksOn DEF applyDraftTransition, Is
    <2>2. CASE attempt' = [attempt EXCEPT ![t].current = idea[PathOf(t)], ![t].pc = "patch"]
      BY <1>6, <2>2, RunPlaces, ReadsIdea DEF applyDraftTransition, Is
    <2> QED
      BY <1>6, <2>1, <2>2 DEF applyDraftTransition
  <1>7. CASE PatchStatus(t)
    <2> DEFINE f == [attempt[t].current EXCEPT !.status = "draft"]
    <2>1. f \in File /\ Sound(f)
      BY FilesAre, PatchedSound
    <2>2. CASE idea' = [idea EXCEPT ![PathOf(t)] = f] /\ End(t, "reindex", TRUE)
      <3> HIDE DEF f
      <3> QED
        BY <1>7, <2>1, <2>2, RunPlaces, WritesAndGoes DEF PatchStatus, Is
    <2>3. CASE To(t, "rollback") /\ UNCHANGED idea
      BY <1>7, <2>3, RunPlaces, WorksOn DEF PatchStatus, Is, ideaVars
    <2> QED
      BY <1>7, <2>2, <2>3 DEF PatchStatus
  <1>8. CASE IndexIdea(t)
    <2>1. indexed' \in [Ideas -> Statuses]
      BY <1>1, <1>8 DEF IndexIdea, IndexFile, TriageTyped, TriageTypeOK, File
    <2>2. TriageRest
      BY <1>8, <2>1 DEF IndexIdea, Is, TriageInv, TriageTyped, TriageTypeOK, Wrapped, FilesSound, TriageRest
    <2>3. Moves(t, "close")
      BY <1>1, <1>8, Parts, RunPlaces, ToMoves DEF IndexIdea
    <2> QED
      BY <1>8, <2>2, <2>3, RunPlaces, WorksInv DEF IndexIdea, Is
  <1>9. CASE Rollback(t)
    <2>1. CASE idea' = [idea EXCEPT ![PathOf(t)] = attempt[t].original]
      BY <1>9, <2>1, FilesAre, RunPlaces, WritesAndGoes DEF Rollback, Is
    <2>2. CASE UNCHANGED idea
      BY <1>9, <2>2, RunPlaces, WorksOn DEF Rollback, Is, ideaVars
    <2> QED
      BY <1>9, <2>1, <2>2 DEF Rollback
  <1>10. CASE recordRunComplete(t)
    <2>1. runRow' \in [Attempts -> {"none", "running", "done", "failed"}]
      BY <1>10 DEF recordRunComplete, TriageInv, TriageTyped, TriageTypeOK
    <2>2. TriageRest
      BY <1>10, <2>1
         DEF recordRunComplete, Is, TriageInv, TriageTyped, TriageTypeOK, Wrapped, FilesSound, TriageRest, ideaVars
    <2>3. Moves(t, "freeSlot")
      BY <1>1, <1>10, Parts, ToMoves DEF recordRunComplete
    <2> QED
      BY <1>10, <2>2, <2>3, RunPlaces, WorksInv DEF recordRunComplete, Is
  <1> QED
    BY <1>2, <1>3, <1>4, <1>5, <1>6, <1>7, <1>8, <1>9, <1>10 DEF execute

LEMMA DeferredInv ==
  ASSUME TriageInv, NEW t \in Attempts, ReturnSlot(t) \/ ReleaseLock(t)
  PROVE  TriageInv'
  <1>1. TriageTyped /\ Remembers(attempt[t]) /\ PathOf(t) \in Ideas
    BY FilesAre DEF TriageInv
  <1>2. CASE ReturnSlot(t)
    <2>1. /\ managerUp /\ attempt[t].pc = "freeSlot" /\ taken' = taken - 1 /\ To(t, "freeLock")
          /\ UNCHANGED <<ideaVars, mapVars, lineageLock, runRow, mgrVars>>
      BY <1>2 DEF ReturnSlot, Is
    <2>2. Moves(t, "freeLock") /\ TriageRest
      BY <1>1, <2>1, Parts, ToMoves, TheRest
    <2> QED
      BY <2>1, <2>2, Parts, PaysOrIsRefunded
  <1>3. CASE ReleaseLock(t)
    <2>1. /\ managerUp /\ attempt[t].pc = "freeLock" /\ To(t, "finish")
          /\ lineageLock' = [lineageLock EXCEPT ![PathOf(t)] = Free]
          /\ UNCHANGED <<ideaVars, mapVars, taken, runRow, mgrVars>>
      BY <1>3 DEF ReleaseLock, Is
    <2>2. lineageLock' \in [Ideas -> Attempts \cup {Free, Agent}]
      BY <1>1, <2>1 DEF TriageTyped, TriageTypeOK
    <2>3. TriageRest
      BY <2>1, <2>2 DEF TriageInv, TriageTyped, TriageTypeOK, Wrapped, FilesSound, TriageRest, ideaVars
    <2>4. Moves(t, "finish")
      BY <1>1, <2>1, Parts, ToMoves
    <2> QED
      BY <1>1, <2>1, <2>3, <2>4, Parts, GoesOn DEF Moves, Remembers
  <1> QED
    BY <1>2, <1>3

LEMMA OverIs ==
  ASSUME TriageTyped, NEW t \in Attempts
  PROVE  Over(t) \in Calls /\ Over(t).pc = "over" /\ Over(t).path = attempt[t].path /\ Remembers(Over(t))
  <1>1. attempt[t].path \in Ideas
    BY DEF TriageTyped, TriageTypeOK
  <1>2. /\ Over(t).pc = "over" /\ Over(t).path = attempt[t].path
        /\ Over(t).original = NewIdea /\ Over(t).current = NewIdea
    BY DEF Over, PathOf
  <1>3. Over(t) \in Calls
    BY <1>1, NewIdeaSound DEF Over, PathOf, Calls, TriagePlaces
  <1> QED
    BY <1>2, <1>3, NewIdeaSound DEF Remembers

\* The goroutine has ended, and the others are where they were.
IsOver(t) ==
  /\ attempt' \in [Attempts -> Calls] /\ attempt'[t].pc = "over" /\ attempt'[t].path = attempt[t].path
  /\ Remembers(attempt'[t]) /\ \A u \in Attempts \ {t} : attempt'[u] = attempt[u]

\* A failed run stays in the map, a successful one leaves it.
LEMMA FinishInv ==
  ASSUME TriageInv, NEW t \in Attempts, Finish(t)
  PROVE  TriageInv'
  <1> DEFINE p == PathOf(t)
  <1>1. /\ managerUp /\ attempt[t].pc = "finish" /\ TriageTyped /\ p \in Ideas
        /\ attempt' = [attempt EXCEPT ![t] = Over(t)]
        /\ UNCHANGED <<ideaVars, taken, lineageLock, runRow, mgrVars>>
        /\ \/ inFlight' = [inFlight EXCEPT ![p] = Free] /\ UNCHANGED cooling
           \/ cooling' = cooling \cup {p} /\ UNCHANGED inFlight
    BY FilesAre DEF Finish, Is, TriageInv
  <1>2. IsOver(t) /\ TriageRest
    BY <1>1, OverIs, TheRest DEF IsOver, TriageTyped
  <1>3. /\ inFlight' \in [Ideas -> Attempts \cup {Free}] /\ cooling' \subseteq Ideas
        /\ taken' \in 0..MaxConcurrent /\ \A q \in Ideas \ {p} : inFlight'[q] = inFlight[q]
    BY <1>1 DEF TriageTyped, TriageTypeOK
  <1>4. TriageTyped' /\ FilesSound'
    BY <1>2, <1>3, RestTyped DEF IsOver
  <1>5. \A u \in Attempts : Remembers(attempt'[u])
    BY <1>2 DEF TriageInv, Wrapped, IsOver
  <1>6. Payers(attempt') = Payers(attempt)
    BY <1>1, <1>2, Parts, SamePayers DEF IsOver
  <1>7. MapInv'
    <2>1. UNCHANGED <<managerUp, stopped>>
      BY <1>1 DEF mgrVars
    <2>2. CASE stopped
      BY <1>1, <2>1, <2>2 DEF MapInv
    <2>3. CASE ~stopped
      <3>1. inFlight[p] = t
        BY <1>1, <2>3, Parts DEF TriageInv, MapInv
      <3>2. p \notin cooling
        BY <1>1, <2>3, <3>1 DEF TriageInv, MapInv
      <3>3. ASSUME NEW u \in Attempts, attempt'[u].pc \in InProgress
            PROVE  inFlight'[attempt'[u].path] = u
        <4>1. u # t
          BY <1>2, <3>3, Parts DEF IsOver
        <4>2. attempt'[u] = attempt[u] /\ attempt[u].path \in Ideas
          BY <1>1, <1>2, <4>1 DEF IsOver, TriageTyped, TriageTypeOK
        <4>3. inFlight[attempt[u].path] = u
          BY <2>3, <3>3, <4>2 DEF TriageInv, MapInv, PathOf
        <4>4. attempt[u].path # p
          BY <3>1, <4>1, <4>3
        <4> QED
          BY <1>3, <4>2, <4>3, <4>4
      <3>4. ASSUME NEW q \in cooling'
            PROVE  inFlight'[q] \in Attempts /\ attempt'[inFlight'[q]].pc = "over"
        <4>1. CASE q = p
          <5>1. UNCHANGED inFlight
            BY <1>1, <3>2, <3>4, <4>1
          <5> QED
            BY <1>2, <3>1, <4>1, <5>1 DEF IsOver
        <4>2. CASE q # p
          <5>1. q \in cooling /\ inFlight'[q] = inFlight[q]
            BY <1>1, <1>3, <3>4, <4>2
          <5>2. inFlight[q] \in Attempts /\ attempt[inFlight[q]].pc = "over"
            BY <2>3, <5>1 DEF TriageInv, MapInv
          <5>3. inFlight[q] # t
            BY <1>1, <5>2
          <5> QED
            BY <1>2, <5>1, <5>2, <5>3 DEF IsOver
        <4> QED
          BY <4>1, <4>2
      <3> QED
        BY <1>1, <2>1, <3>3, <3>4 DEF MapInv, PathOf
    <2> QED
      BY <2>2, <2>3
  <1> QED
    BY <1>1, <1>4, <1>5, <1>6, <1>7 DEF TriageInv, Wrapped, SemaphoreExact, Payers

---------------------------------------------------------------------------
(* Everybody else.                                                         *)

\* The entry of a run that is over leaves the map.
LEMMA CooldownOverInv ==
  ASSUME TriageInv, NEW p \in Ideas, CooldownOver(p)
  PROVE  TriageInv'
  <1>1. /\ managerUp /\ p \in cooling /\ cooling' = cooling \ {p}
        /\ inFlight' = [inFlight EXCEPT ![p] = Free] /\ TriageTyped
        /\ UNCHANGED <<ideaVars, taken, lineageLock, attempt, runRow, mgrVars>>
    BY DEF CooldownOver, TriageInv
  <1>2. TriageRest
    BY <1>1, TheRest
  <1>3. /\ inFlight' \in [Ideas -> Attempts \cup {Free}] /\ cooling' \subseteq Ideas
        /\ taken' \in 0..MaxConcurrent /\ \A q \in Ideas \ {p} : inFlight'[q] = inFlight[q]
        /\ attempt' \in [Attempts -> Calls]
    BY <1>1 DEF TriageTyped, TriageTypeOK
  <1>4. TriageTyped' /\ FilesSound'
    BY <1>2, <1>3, RestTyped
  <1>5. MapInv'
    <2>1. UNCHANGED <<managerUp, stopped>>
      BY <1>1 DEF mgrVars
    <2>2. CASE stopped
      BY <1>1, <2>1, <2>2 DEF MapInv
    <2>3. CASE ~stopped
      <3>1. inFlight[p] \in Attempts /\ attempt[inFlight[p]].pc = "over"
        BY <1>1, <2>3 DEF TriageInv, MapInv
      <3>2. ASSUME NEW u \in Attempts, attempt[u].pc \in InProgress
            PROVE  inFlight'[PathOf(u)] = u
        <4>1. inFlight[PathOf(u)] = u /\ PathOf(u) \in Ideas
          BY <2>3, <3>2, FilesAre DEF TriageInv, MapInv
        <4>2. PathOf(u) # p
          BY <3>1, <3>2, <4>1, Parts
        <4> QED
          BY <1>3, <4>1, <4>2
      <3>3. \A q \in cooling' : inFlight'[q] \in Attempts /\ attempt[inFlight'[q]].pc = "over"
        BY <1>1, <1>3, <2>3 DEF TriageInv, MapInv
      <3> QED
        BY <1>1, <2>1, <3>2, <3>3 DEF MapInv, PathOf
    <2> QED
      BY <2>2, <2>3
  <1> QED
    BY <1>1, <1>4, <1>5 DEF TriageInv, Wrapped, SemaphoreExact

\* Stop empties the map; what it said of the runs is given up until the process ends.
LEMMA StopTriageInv == TriageInv /\ StopTriage => TriageInv'
  <1> SUFFICES ASSUME TriageInv, StopTriage PROVE TriageInv'
    OBVIOUS
  <1>1. /\ managerUp /\ stopped' = TRUE /\ inFlight' = [p \in Ideas |-> Free] /\ cooling' = {}
        /\ UNCHANGED <<idea, indexed, ideaEdits, taken, lineageLock, attempt, runRow, managerUp, triageCrashes>>
        /\ TriageTyped
    BY DEF StopTriage, ideaVars, TriageInv
  <1>2. inFlight' \in [Ideas -> Attempts \cup {Free}]
    BY <1>1
  <1>3. TriageTyped'
    BY <1>1, <1>2 DEF TriageTyped, TriageTypeOK
  <1>4. MapInv'
    BY <1>1 DEF MapInv
  <1> QED
    BY <1>1, <1>3, <1>4 DEF TriageInv, Wrapped, FilesSound, SemaphoreExact

\* A person writes the file with any status, the watcher indexes it, others use the locks.
LEMMA OthersInv ==
  ASSUME TriageInv, NEW p \in Ideas, EditIdea(p) \/ Reindex(p) \/ OtherHolder(p)
  PROVE  TriageInv'
  <1>1. TriageTyped /\ UNCHANGED <<mapVars, taken, attempt, runRow, mgrVars>>
    BY DEF EditIdea, Reindex, OtherHolder, TriageInv
  <1>2. UNCHANGED <<inFlight, cooling, taken, attempt, runRow, managerUp, stopped, triageCrashes>>
    BY <1>1 DEF mapVars, mgrVars
  <1>3. /\ idea \in [Ideas -> File] /\ indexed \in [Ideas -> Statuses]
        /\ lineageLock \in [Ideas -> Attempts \cup {Free, Agent}]
        /\ ideaEdits \in 0..MaxIdeaEdits /\ MaxIdeaEdits \in Nat
        /\ \A q \in Ideas : Sound(idea[q])
    BY <1>1, TriageAssumption DEF TriageTyped, TriageTypeOK, TriageInv, Wrapped, FilesSound
  <1>4. /\ idea' \in [Ideas -> File] /\ indexed' \in [Ideas -> Statuses]
        /\ lineageLock' \in [Ideas -> Attempts \cup {Free, Agent}]
        /\ ideaEdits' \in 0..MaxIdeaEdits /\ \A q \in Ideas : Sound(idea'[q])
    <2>1. CASE EditIdea(p)
      <3>1. PICK s \in Statuses, h \in SUBSET Sections :
              idea' = [idea EXCEPT ![p] = [status |-> s, headings |-> h, edit |-> ideaEdits + 1,
                                           wraps |-> IF Sections \subseteq h THEN idea[p].wraps ELSE 0]]
        BY <2>1 DEF EditIdea
      <3> DEFINE w == IF Sections \subseteq h THEN idea[p].wraps ELSE 0
                 f == [status |-> s, headings |-> h, edit |-> ideaEdits + 1, wraps |-> w]
      <3>2. ideaEdits + 1 \in 0..MaxIdeaEdits /\ ideaEdits' = ideaEdits + 1
            /\ UNCHANGED <<indexed, lineageLock>>
        BY <1>3, <2>1 DEF EditIdea
      <3>3. w \in 0..2 /\ w <= 1 /\ (w > 0 => Sections \subseteq h)
        <4>1. idea[p].wraps \in 0..2 /\ idea[p].wraps <= 1
          BY <1>3 DEF File, Sound
        <4> QED
          BY <4>1
      <3>4. f \in File
        BY <3>2, <3>3 DEF File
      <3>5. Sound(f)
        BY <3>3 DEF Sound
      <3> QED
        BY <1>3, <3>1, <3>2, <3>4, <3>5
    <2>2. CASE Reindex(p)
      <3>1. idea[p].status \in Statuses
        BY <1>3 DEF File
      <3> QED
        BY <1>3, <2>2, <3>1 DEF Reindex, IndexFile
    <2>3. CASE OtherHolder(p)
      <3>1. UNCHANGED <<idea, indexed, ideaEdits>>
        BY <2>3 DEF OtherHolder, ideaVars
      <3>2. lineageLock' \in [Ideas -> Attempts \cup {Free, Agent}]
        BY <1>3, <2>3 DEF OtherHolder
      <3> QED
        BY <1>3, <3>1, <3>2
    <2> QED
      BY <2>1, <2>2, <2>3
  <1>5. TriageTyped'
    BY <1>1, <1>2, <1>4 DEF TriageTyped, TriageTypeOK
  <1>6. MapInv'
    BY <1>2 DEF TriageInv, MapInv, PathOf
  <1> QED
    BY <1>2, <1>4, <1>5, <1>6 DEF TriageInv, Wrapped, FilesSound, SemaphoreExact

\* No attempt survives the process: at the next Open the map is right again.
LEMMA TriageCrashInv == TriageInv /\ TriageCrash => TriageInv'
  <1> SUFFICES ASSUME TriageInv, TriageCrash PROVE TriageInv'
    OBVIOUS
  <1>1. /\ managerUp' = FALSE /\ triageCrashes < MaxTriageCrashes /\ triageCrashes' = triageCrashes + 1
        /\ inFlight' = [p \in Ideas |-> Free] /\ cooling' = {} /\ taken' = 0
        /\ attempt' = [t \in Attempts |-> IF attempt[t].pc = "new" THEN attempt[t] ELSE Over(t)]
        /\ UNCHANGED <<idea, indexed, ideaEdits, lineageLock, runRow, stopped>> /\ TriageTyped
    BY DEF TriageCrash, ideaVars, TriageInv
  <1>2. \A t \in Attempts : /\ attempt'[t] \in Calls /\ attempt'[t].pc \in {"new", "over"}
                            /\ Remembers(attempt'[t])
    <2> SUFFICES ASSUME NEW t \in Attempts
                 PROVE  /\ attempt'[t] \in Calls /\ attempt'[t].pc \in {"new", "over"}
                        /\ Remembers(attempt'[t])
      OBVIOUS
    <2>1. attempt[t] \in Calls /\ Remembers(attempt[t])
      BY <1>1 DEF TriageTyped, TriageInv, Wrapped
    <2>2. CASE attempt[t].pc = "new"
      BY <1>1, <2>1, <2>2
    <2>3. CASE attempt[t].pc # "new"
      <3>1. attempt'[t] = Over(t)
        BY <1>1, <2>3
      <3> QED
        BY <1>1, <3>1, OverIs
    <2> QED
      BY <2>2, <2>3
  <1>3. attempt' \in [Attempts -> Calls]
    BY <1>1, <1>2
  <1>4. /\ inFlight' \in [Ideas -> Attempts \cup {Free}] /\ cooling' \subseteq Ideas
        /\ taken' \in 0..MaxConcurrent /\ triageCrashes' \in 0..MaxTriageCrashes
    BY <1>1, TriageAssumption DEF TriageTyped, TriageTypeOK
  <1>5. TriageTypeOK'
    BY <1>1, <1>2, <1>4 DEF TriageTyped, TriageTypeOK, Calls, TriagePlaces
  <1>6. SemaphoreExact'
    <2>1. Payers(attempt') = {}
      BY <1>2, Parts DEF Payers
    <2> QED
      BY <1>1, <2>1, FS_EmptySet DEF SemaphoreExact, Payers
  <1>7. MapInv'
    <2>1. \A u \in Attempts : attempt'[u].pc \notin InProgress
      BY <1>2, Parts
    <2> QED
      BY <1>1, <1>2, <2>1 DEF MapInv
  <1> QED
    BY <1>1, <1>2, <1>3, <1>5, <1>6, <1>7 DEF TriageInv, TriageTyped, Wrapped, FilesSound

LEMMA OpenTriageInv == TriageInv /\ OpenTriage => TriageInv'
  <1> SUFFICES ASSUME TriageInv, OpenTriage PROVE TriageInv'
    OBVIOUS
  <1>1. /\ ~managerUp /\ managerUp' = TRUE /\ stopped' = FALSE
        /\ indexed' = [p \in Ideas |-> idea[p].status]
        /\ runRow' = [t \in Attempts |-> IF runRow[t] = "running" THEN "failed" ELSE runRow[t]]
        /\ UNCHANGED <<idea, ideaEdits, inFlight, cooling, taken, lineageLock, attempt, triageCrashes>>
        /\ TriageTyped
    BY DEF OpenTriage, mapVars, TriageInv
  <1>2. /\ indexed' \in [Ideas -> Statuses]
        /\ runRow' \in [Attempts -> {"none", "running", "done", "failed"}]
    BY <1>1 DEF TriageTyped, TriageTypeOK, File
  <1>3. TriageTyped'
    BY <1>1, <1>2 DEF TriageTyped, TriageTypeOK
  <1>4. MapInv'
    BY <1>1 DEF TriageInv, MapInv, PathOf
  <1> QED
    BY <1>1, <1>3, <1>4 DEF TriageInv, Wrapped, FilesSound, SemaphoreExact

---------------------------------------------------------------------------
(* The theorems.                                                           *)

LEMMA TriageInitInv == TriageInit => TriageInv
  <1> SUFFICES ASSUME TriageInit PROVE TriageInv
    OBVIOUS
  <1>1. NewIdea \in File /\ Sound(NewIdea)
    BY NewIdeaSound
  <1>2. PICK p \in Ideas : attempt = [t \in Attempts |-> [pc |-> "new", path |-> p, ok |-> TRUE,
                                                          original |-> NewIdea, current |-> NewIdea]]
    BY DEF TriageInit
  <1>3. [pc |-> "new", path |-> p, ok |-> TRUE, original |-> NewIdea, current |-> NewIdea] \in Calls
    BY <1>1, Parts DEF Calls
  <1>4. attempt \in [Attempts -> Calls]
    BY <1>2, <1>3
  <1>5. \A t \in Attempts : attempt[t].pc = "new" /\ attempt[t].original = NewIdea /\ attempt[t].current = NewIdea
    BY <1>2
  <1>6. \A t \in Attempts : attempt[t] \in Calls
    BY <1>4
  <1>7. TriageTyped
    <2>1. idea \in [Ideas -> File] /\ indexed \in [Ideas -> Statuses]
      BY <1>1 DEF TriageInit, Statuses
    <2>2. /\ inFlight \in [Ideas -> Attempts \cup {Free}]
          /\ lineageLock \in [Ideas -> Attempts \cup {Free, Agent}]
          /\ runRow \in [Attempts -> {"none", "running", "done", "failed"}]
      BY DEF TriageInit
    <2>3. /\ taken \in 0..MaxConcurrent /\ triageCrashes \in 0..MaxTriageCrashes
          /\ ideaEdits \in 0..MaxIdeaEdits
      <3>1. taken = 0 /\ triageCrashes = 0 /\ ideaEdits = 0
        BY DEF TriageInit
      <3> QED
        BY <3>1, TriageAssumption
    <2>4. cooling \subseteq Ideas /\ managerUp \in BOOLEAN /\ stopped \in BOOLEAN
      BY DEF TriageInit
    <2> QED
      BY <1>4, <1>6, <2>1, <2>2, <2>3, <2>4 DEF TriageTyped, TriageTypeOK, Calls, TriagePlaces
  <1>8. Wrapped
    <2>1. \A q \in Ideas : idea[q] = NewIdea
      BY DEF TriageInit
    <2> QED
      BY <1>1, <1>5, <2>1 DEF Wrapped, FilesSound, Remembers
  <1>9. SemaphoreExact
    <2>1. Payers(attempt) = {}
      BY <1>5, Parts DEF Payers
    <2> QED
      BY <2>1, FS_EmptySet DEF TriageInit, SemaphoreExact, Payers
  <1>10. MapInv
    BY <1>5, Parts DEF TriageInit, MapInv
  <1> QED
    BY <1>7, <1>8, <1>9, <1>10 DEF TriageInv

LEMMA TriageNextInv ==
  ASSUME TriageInv, [TriageNext]_triageVars
  PROVE  TriageInv'
  <1>1. CASE UNCHANGED triageVars
    <2>1. UNCHANGED <<idea, indexed, ideaEdits, inFlight, cooling, taken, lineageLock, attempt, runRow,
                      managerUp, stopped, triageCrashes>>
      BY <1>1 DEF triageVars, ideaVars, mapVars, mgrVars
    <2>2. TriageTyped' /\ Wrapped'
      BY <2>1 DEF TriageInv, TriageTyped, TriageTypeOK, Wrapped, FilesSound
    <2>3. SemaphoreExact' /\ MapInv'
      BY <2>1 DEF TriageInv, SemaphoreExact, MapInv, PathOf
    <2> QED
      BY <2>2, <2>3 DEF TriageInv
  <1>2. ASSUME NEW t \in Attempts,
               \/ \E p \in Ideas : Trigger(t, p)
               \/ eligible(t) \/ TakeSlot(t) \/ TakeLock(t) \/ Register(t) \/ Refund(t)
               \/ execute(t) \/ ReturnSlot(t) \/ ReleaseLock(t) \/ Finish(t)
        PROVE  TriageInv'
    BY <1>2, TriggerInv, CallInv, TakeLockInv, RegisterInv, ExecuteInv, DeferredInv, FinishInv
  <1>3. ASSUME NEW p \in Ideas, CooldownOver(p) \/ EditIdea(p) \/ Reindex(p) \/ OtherHolder(p)
        PROVE  TriageInv'
    BY <1>3, CooldownOverInv, OthersInv
  <1> QED
    BY <1>1, <1>2, <1>3, StopTriageInv, TriageCrashInv, OpenTriageInv DEF TriageNext

\* The invariant of triage, over edits, the reaper, Stop, crashes and restarts.
THEOREM TriageInvariance == TriageSpec => []TriageInv
  <1>1. TriageInv /\ [TriageNext]_triageVars => TriageInv'
    BY TriageNextInv
  <1> QED
    BY <1>1, TriageInitInv, PTL DEF TriageSpec

\* Every variable of Triage keeps its type, and a token of the semaphore is out for exactly the
\* calls and runs that will give it back: conflicts, refusals and failed runs leak none.
THEOREM SemaphoreHolds == TriageSpec => [](TriageTypeOK /\ SemaphoreExact)
  <1>1. TriageInv => TriageTypeOK /\ SemaphoreExact
    BY DEF TriageInv, TriageTyped
  <1> QED
    BY <1>1, TriageInvariance, PTL

\* A text that was wrapped has both headings until a person takes one away, whoever writes the
\* file, from whatever it has read before; so rewriteBody sees it, and it is wrapped once.
THEOREM RawTextIsWrappedOnceHolds == TriageSpec => []RawTextIsWrappedOnce
  <1>1. TriageInv => RawTextIsWrappedOnce
    BY DEF TriageInv, Wrapped, FilesSound, Sound, RawTextIsWrappedOnce
  <1> QED
    BY <1>1, TriageInvariance, PTL

\* Only Register begins a run.
LEMMA RunsBeginAtRegister ==
  ASSUME TriageInv, TriageNext, NEW t \in Attempts,
         attempt[t].pc = "register", attempt'[t].pc = "insert"
  PROVE  Register(t)
  <1>1. TriageTyped /\ attempt \in [Attempts -> Calls]
    BY DEF TriageInv, TriageTyped
  <1>2. ASSUME NEW u \in Attempts, NEW place \in TriagePlaces \ {"insert"},
               To(u, place) \/ \E ok \in BOOLEAN : End(u, place, ok)
        PROVE  FALSE
    BY <1>1, <1>2, ToMoves DEF Moves
  <1>3. ASSUME UNCHANGED attempt
        PROVE  FALSE
    BY <1>3
  <1>4. ASSUME NEW u \in Attempts, NEW p \in Ideas, Trigger(u, p)
        PROVE  FALSE
    <2>1. CASE u = t
      BY <1>4, <2>1 DEF Trigger, Is
    <2>2. CASE u # t
      BY <1>1, <1>4, <2>2 DEF Trigger
    <2> QED
      BY <2>1, <2>2
  <1>5. ASSUME NEW u \in Attempts, Is(u, "read") \/ Is(u, "advance"), NEW place \in {"llm", "patch"},
               \/ attempt' = [attempt EXCEPT ![u].original = idea[PathOf(u)], ![u].pc = place]
               \/ attempt' = [attempt EXCEPT ![u].current = idea[PathOf(u)], ![u].pc = place]
        PROVE  FALSE
    <2>1. CASE u = t
      BY <1>5, <2>1 DEF Is
    <2>2. CASE u # t
      BY <1>1, <1>5, <2>2
    <2> QED
      BY <2>1, <2>2
  <1>6. /\ {"slot", "lock", "over", "register", "refund", "freeSlot", "freeLock", "finish"}
              \subseteq TriagePlaces \ {"insert"}
        /\ {"read", "llm", "write", "advance", "patch", "reindex", "rollback", "close"}
              \subseteq TriagePlaces \ {"insert"}
    BY DEF TriagePlaces, InRun, Tail
  <1>7. ASSUME NEW u \in Attempts,
               eligible(u) \/ TakeSlot(u) \/ TakeLock(u) \/ Refund(u)
        PROVE  FALSE
    BY <1>2, <1>6, <1>7 DEF eligible, TakeSlot, TakeLock, Refund
  <1>8. ASSUME NEW u \in Attempts, execute(u)
        PROVE  FALSE
    <2>1. ASSUME recordRunStart(u) \/ Generate(u) \/ WriteIdea(u)
          PROVE  FALSE
      BY <1>2, <1>6, <2>1 DEF recordRunStart, Generate, WriteIdea
    <2>2. ASSUME PatchStatus(u) \/ IndexIdea(u) \/ Rollback(u) \/ recordRunComplete(u)
          PROVE  FALSE
      BY <1>2, <1>6, <2>2 DEF PatchStatus, IndexIdea, Rollback, recordRunComplete
    <2>3. ASSUME ReadOriginal(u) \/ applyDraftTransition(u)
          PROVE  FALSE
      BY <1>2, <1>5, <1>6, <2>3 DEF ReadOriginal, applyDraftTransition
    <2> QED
      BY <1>8, <2>1, <2>2, <2>3 DEF execute
  <1>9. ASSUME NEW u \in Attempts, ReturnSlot(u) \/ ReleaseLock(u) \/ Finish(u)
        PROVE  FALSE
    <2>1. ASSUME Finish(u)
          PROVE  FALSE
      <3>1. attempt' = [attempt EXCEPT ![u] = Over(u)] /\ Over(u).pc = "over"
        BY <2>1 DEF Finish, Over
      <3> QED
        BY <1>1, <3>1
    <2> QED
      BY <1>2, <1>6, <1>9, <2>1 DEF ReturnSlot, ReleaseLock
  <1>10. ASSUME NEW u \in Attempts, Register(u), u # t
         PROVE  FALSE
    <2>1. Moves(u, "refund") \/ Moves(u, "insert")
      BY <1>1, <1>10, Parts, ToMoves DEF Register, InRun
    <2> QED
      BY <1>10, <2>1 DEF Moves
  <1>11. ASSUME NEW p \in Ideas, CooldownOver(p) \/ EditIdea(p) \/ Reindex(p) \/ OtherHolder(p)
         PROVE  FALSE
    BY <1>3, <1>11 DEF CooldownOver, EditIdea, Reindex, OtherHolder
  <1>12. ~StopTriage /\ ~OpenTriage
    BY <1>3 DEF StopTriage, OpenTriage
  <1>13. ASSUME TriageCrash
         PROVE  FALSE
    <2>1. attempt'[t] = Over(t)
      BY <1>13 DEF TriageCrash
    <2> QED
      BY <2>1 DEF Over
  <1> QED
    BY <1>4, <1>7, <1>8, <1>9, <1>10, <1>11, <1>12, <1>13 DEF TriageNext

\* A run begins only when no other one of its idea is under way or cooling down: the second look
\* at the map decides, whatever became of the lock, the index and the fast path meanwhile.
THEOREM OneAttemptAtATimeHolds == TriageSpec => OneAttemptAtATime
  <1> DEFINE Apart(t) ==
        attempt[t].pc = "register" /\ attempt'[t].pc = "insert" /\ ~stopped =>
          /\ PathOf(t) \notin cooling
          /\ \A u \in Attempts \ {t} : PathOf(u) = PathOf(t) => attempt[u].pc \notin InRun \cup Tail
  <1>1. ASSUME TriageInv, [TriageNext]_triageVars
        PROVE  [\A t \in Attempts : Apart(t)]_triageVars
    <2> SUFFICES ASSUME TriageNext, NEW t \in Attempts,
                        attempt[t].pc = "register", attempt'[t].pc = "insert", ~stopped
                 PROVE  /\ PathOf(t) \notin cooling
                        /\ \A u \in Attempts \ {t} :
                             PathOf(u) = PathOf(t) => attempt[u].pc \notin InRun \cup Tail
      BY <1>1
    <2>1. Register(t)
      BY <1>1, RunsBeginAtRegister
    <2>2. inFlight[PathOf(t)] = Free
      <3>1. CASE To(t, "refund")
        <4>1. Moves(t, "refund")
          BY <1>1, <3>1, Parts, ToMoves DEF TriageInv
        <4> QED
          BY <4>1 DEF Moves
      <3> QED
        BY <2>1, <3>1 DEF Register
    <2>3. PathOf(t) \notin cooling
      BY <1>1, <2>2, FreeIsNobody DEF TriageInv, MapInv
    <2>4. \A u \in Attempts : PathOf(u) = PathOf(t) => attempt[u].pc \notin InProgress
      BY <1>1, <2>2, FreeIsNobody DEF TriageInv, MapInv
    <2> QED
      BY <2>3, <2>4 DEF InProgress
  <1> QED
    BY <1>1, TriageInvariance, PTL DEF TriageSpec, OneAttemptAtATime

---------------------------------------------------------------------------
(* DevOps.                                                                 *)

Executing == {"begin", "next", "step", "refused", "hung", "record", "list", "scan", "backfill", "prune", "unlink"}
Recorded  == {"list", "scan", "backfill", "prune", "unlink"}   \* of a run: after Record

\* Where the goroutines of a run, of Open and of a request can stand.
PlacesOf(t) ==
  IF t \in Runs THEN Executing \cup {"absent", "gone", "dead"}
  ELSE IF t = Boot THEN {"rest", "boot", "reconcile", "mark", "markRecord"}
  ELSE {"rest", "list", "scan", "backfill", "cancel", "wait", "orphan", "mark", "markRecord"}

PipePlaces == Executing \cup {"absent", "gone", "dead", "rest", "boot", "reconcile", "mark", "markRecord",
                          "cancel", "wait", "orphan"}

LogType  == [first : {"none", "run.started", "run.completed"},
             last : {"none", "open", "step.completed", "run.completed"},
             status : Results \cup {"none"}]
MetaType == Results \cup {"unknown", "none"}
RunType  == [slug : Pipelines \cup {"none"}, step : 0..NSteps, status : Results, cancelled : BOOLEAN]
ScanType == [slug : Pipelines \cup {"none"}, todo : SUBSET Runs, found : SUBSET Runs,
             cur : Runs \cup {NoRun}, got : MetaType]

PipeTyped ==
  /\ logs \in [Runs -> LogType] /\ metas \in [Runs -> MetaType] /\ unwritten \subseteq Runs
  /\ bySlug \in [Pipelines -> Runs \cup {NoRun}]
  /\ run \in [Runs -> RunType] /\ scan \in [DevThreads -> ScanType]
  /\ at \in [DevThreads -> PipePlaces] /\ \A t \in DevThreads : at[t] \in PlacesOf(t)
  /\ serverUp \in BOOLEAN /\ pipeCrashes \in 0..MaxPipelineCrashes

Begun == {r \in Runs : at[r] \notin {"absent", "begin"}}
Ended == {r \in Runs : at[r] \in {"gone", "dead"}}

\* Run ids are given out in turn, so that a run that has begun never begins again.
IdsInTurn == {r \in Runs : at[r] # "absent"} = 1..Cardinality({r \in Runs : at[r] # "absent"})

\* The Runner knows every run in progress, under its own pipeline.
SlugsInv ==
  /\ \A p \in Pipelines : bySlug[p] # NoRun =>
       at[bySlug[p]] \in Executing /\ run[bySlug[p]].slug = p
  /\ \A r \in Runs : at[r] \in Executing => run[r].slug \in Pipelines /\ bySlug[run[r].slug] = r

\* What a party remembers of the directory.
Memory(t) ==
  /\ scan[t].todo \subseteq Begun /\ scan[t].found \subseteq Begun
  /\ at[t] \in {"backfill", "mark", "markRecord"} => scan[t].cur \in Begun
  /\ at[t] = "backfill" => scan[t].got # "none"
  /\ at[t] = "unlink" => scan[t].cur \in Ended

\* A run past the writing of its record has one, or it could not be written.
Known(r) == metas[r] # "none" \/ r \in unwritten

FilesOf(r) ==
  /\ at[r] \in {"absent", "begin"} => logs[r].first = "none" /\ metas[r] = "none"
  /\ at[r] \in Executing \ {"begin"} => logs[r].first = "run.started"
  /\ at[r] \in Recorded => Known(r)
  /\ logs[r].last \in {"run.completed", "step.completed"} => logs[r].status # "none"

PipeInv ==
  /\ PipeTyped /\ IdsInTurn /\ SlugsInv
  /\ \A t \in DevThreads : Memory(t)
  /\ \A r \in Runs : FilesOf(r)
  /\ EndedRunHasRecord

LEMMA Parties ==
  /\ Runs \subseteq DevThreads /\ Boot \in DevThreads /\ DevClients \subseteq DevThreads
  /\ Boot \notin Runs /\ NoRun \notin Runs /\ DevClients \cap Runs = {} /\ Boot \notin DevClients
  /\ \A t \in DevThreads : t \in Runs \/ t \in DevClients \/ t = Boot
  <1>1. Cardinality(Runs) \in Nat
    BY FS_CardinalityType, DevOpsAssumption
  <1>2. Boot \notin Runs /\ NoRun \notin Runs
    BY <1>1, DevOpsAssumption DEF Boot, NoRun
  <1> QED
    BY <1>2, DevOpsAssumption DEF DevThreads

\* isActive: a run is in the map of the Runner exactly while it executes.
LEMMA LiveExecutes ==
  ASSUME PipeInv, NEW r \in Runs
  PROVE  r \in Live <=> at[r] \in Executing
  BY Parties DEF PipeInv, SlugsInv, Live

LEMMA NotLive ==
  ASSUME PipeInv, NEW r \in Begun, r \notin Live
  PROVE  r \in Ended
  BY LiveExecutes, Parties DEF Begun, Ended, PipeInv, PipeTyped, PlacesOf

---------------------------------------------------------------------------
(* A step of one party, in which no run starts or leaves the Runner.       *)

\* Logs keep their first entry but for the run that writes it, and but for runs that are over;
LogsOK(t) ==
  /\ logs' \in [Runs -> LogType]
  /\ \A r \in Runs :
       /\ \/ logs'[r].first = logs[r].first
          \/ r = t /\ at[r] = "begin" /\ logs'[r].first = "run.started"
          \/ r \in Ended /\ logs'[r].first # "run.started"
       /\ logs'[r].last \in {"run.completed", "step.completed"} => logs'[r].status # "none"
  /\ t \in Runs /\ at[t] = "begin" => logs'[t].first = "run.started"

\* and records go only as the first step of the removal of a run that is over.
MetasOK(t) ==
  /\ metas' \in [Runs -> MetaType] /\ unwritten' \subseteq Runs
  /\ \A r \in unwritten \ unwritten' : metas'[r] # "none"
  /\ \A r \in Runs :
       /\ metas'[r] # metas[r] => r \in Begun
       /\ metas'[r] = "none" /\ metas[r] # "none" =>
            r \in Ended /\ t \in Runs /\ at'[t] = "unlink" /\ scan'[t].cur = r

PartyStep(t) ==
  /\ \A u \in DevThreads \ {t} : at'[u] = at[u] /\ scan'[u] = scan[u]
  /\ at' \in [DevThreads -> PipePlaces] /\ at'[t] \in PlacesOf(t)
  /\ t \in Runs => at[t] \in Executing /\ at'[t] \in Executing \ {"begin"}
  /\ scan' \in [DevThreads -> ScanType]
  /\ run' \in [Runs -> RunType] /\ \A r \in Runs : run'[r].slug = run[r].slug
  /\ UNCHANGED <<bySlug, serverUp, pipeCrashes>>

LEMMA PartyInv ==
  ASSUME PipeInv, NEW t \in DevThreads, PartyStep(t), LogsOK(t), MetasOK(t), Memory(t)',
         t \in Runs /\ at'[t] \in Recorded => Known(t)',
         t \in Runs /\ at[t] = "unlink" => logs'[scan[t].cur].first # "run.started"
  PROVE  PipeInv'
  <1>1. PipeTyped'
    BY DEF PipeInv, PipeTyped, PartyStep, LogsOK, MetasOK
  <1>2. \A r \in Runs : r # t => at'[r] = at[r]
    BY Parties DEF PartyStep
  <1>3. /\ \A r \in Runs : at'[r] \in Executing <=> at[r] \in Executing
        /\ \A r \in Runs : at'[r] = "absent" <=> at[r] = "absent"
        /\ Begun \subseteq Begun' /\ Ended' = Ended /\ t \notin Ended
    BY <1>2 DEF PartyStep, Executing, Begun, Ended
  <1>4. IdsInTurn'
    <2>1. {r \in Runs : at'[r] # "absent"} = {r \in Runs : at[r] # "absent"}
      BY <1>3
    <2> QED
      BY <2>1 DEF PipeInv, IdsInTurn
  <1>5. SlugsInv'
    <2>1. \A p \in Pipelines : bySlug[p] # NoRun => bySlug[p] \in Runs
      BY DEF PipeInv, PipeTyped
    <2> QED
      BY <1>3, <2>1 DEF PipeInv, SlugsInv, PartyStep
  <1>6. \A u \in DevThreads : Memory(u)'
    <2> SUFFICES ASSUME NEW u \in DevThreads, u # t
                 PROVE  Memory(u)'
      OBVIOUS
    <2>1. at'[u] = at[u] /\ scan'[u] = scan[u] /\ Memory(u)
      BY DEF PartyStep, PipeInv
    <2> QED
      BY <1>3, <2>1 DEF Memory
  <1>7. \A r \in Runs : FilesOf(r)'
    <2> SUFFICES ASSUME NEW r \in Runs
                 PROVE  FilesOf(r)'
      OBVIOUS
    <2>1. FilesOf(r)
      BY DEF PipeInv
    <2>2. CASE r = t
      <3>1. at[r] \in Executing /\ at'[r] \in Executing \ {"begin"} /\ at'[r] # "absent"
        BY <2>2 DEF PartyStep, Executing
      <3>2. logs'[r].first = "run.started"
        BY <1>3, <2>1, <2>2, <3>1 DEF FilesOf, LogsOK
      <3>3. at'[r] \in Recorded => Known(r)'
        BY <2>2
      <3> QED
        BY <3>1, <3>2, <3>3 DEF FilesOf, LogsOK
    <2>3. CASE r # t
      <3>1. at'[r] = at[r]
        BY <1>2, <2>3
      <3>2. at[r] \in {"absent", "begin"} \cup Executing => r \notin Ended
        BY DEF Ended, Executing
      <3>3. at[r] \in {"absent", "begin"} => r \notin Begun
        BY DEF Begun
      <3>4. at[r] \in Recorded => r \notin Ended
        BY DEF Ended, Recorded
      <3>5. at'[r] \in Recorded => Known(r)'
        BY <2>1, <3>1, <3>4 DEF FilesOf, MetasOK, Known
      <3> QED
        BY <2>1, <2>3, <3>1, <3>2, <3>3, <3>5 DEF FilesOf, LogsOK, MetasOK
    <2> QED
      BY <2>2, <2>3
  <1>8. EndedRunHasRecord'
    <2> SUFFICES ASSUME NEW r \in Runs, at'[r] = "gone", logs'[r].first = "run.started"
                 PROVE  Known(r)' \/ \E u \in Runs : at'[u] = "unlink" /\ scan'[u].cur = r
      BY DEF EndedRunHasRecord, Known
    <2>1. r # t /\ at[r] = "gone"
      BY <1>2 DEF PartyStep, Executing
    <2>2. logs[r].first = "run.started"
      BY <2>1 DEF LogsOK
    <2>3. CASE Known(r)
      <3>1. metas'[r] = "none" /\ metas[r] # "none" => \E u \in Runs : at'[u] = "unlink" /\ scan'[u].cur = r
        BY DEF MetasOK
      <3> QED
        BY <2>3, <3>1 DEF MetasOK, Known
    <2>4. ASSUME NEW u \in Runs, at[u] = "unlink", scan[u].cur = r
          PROVE  at'[u] = "unlink" /\ scan'[u].cur = r
      <3>1. u # t
        BY <2>4
      <3> QED
        BY <2>4, <3>1, Parties DEF PartyStep
    <2> QED
      BY <2>1, <2>2, <2>3, <2>4 DEF PipeInv, EndedRunHasRecord, Known
  <1> QED
    BY <1>1, <1>4, <1>5, <1>6, <1>7, <1>8 DEF PipeInv

---------------------------------------------------------------------------
(* The parties, one step at a time.                                        *)

\* A party goes on to another place with something else in mind, which it knows to be so.
Knows(place, s) ==
  /\ s.todo \subseteq Begun /\ s.found \subseteq Begun
  /\ place \in {"backfill", "mark", "markRecord"} => s.cur \in Begun
  /\ place = "backfill" => s.got # "none"
  /\ place = "unlink" => s.cur \in Ended

GoesTo(t, place, s) ==
  /\ Goes(t, place) \/ (UNCHANGED at /\ place = at[t])
  /\ scan' = [scan EXCEPT ![t] = s] \/ (UNCHANGED scan /\ s = scan[t])
  /\ UNCHANGED <<bySlug, devProc>>

LEMMA WalkStep ==
  ASSUME PipeInv, NEW t \in DevThreads, NEW place \in PlacesOf(t), NEW s \in ScanType,
         GoesTo(t, place, s), Knows(place, s),
         t \in Runs => at[t] \in Executing /\ place \in Executing \ {"begin"},
         run' \in [Runs -> RunType], \A r \in Runs : run'[r].slug = run[r].slug
  PROVE  PartyStep(t) /\ Memory(t)' /\ at'[t] = place /\ scan'[t] = s
  <1>1. at \in [DevThreads -> PipePlaces] /\ scan \in [DevThreads -> ScanType] /\ place \in PipePlaces
    <2>1. PlacesOf(t) \subseteq PipePlaces
      <3>1. Executing \subseteq PipePlaces
        BY DEF PipePlaces
      <3>2. t \in Runs => PlacesOf(t) = Executing \cup {"absent", "gone", "dead"}
        BY DEF PlacesOf
      <3>3. t \notin Runs => PlacesOf(t) \subseteq {"rest", "boot", "reconcile", "mark", "markRecord", "list",
                                                  "scan", "backfill", "cancel", "wait", "orphan"}
        BY DEF PlacesOf
      <3> QED
        BY <3>1, <3>2, <3>3 DEF PipePlaces, Executing
    <2> QED
      BY <2>1 DEF PipeInv, PipeTyped
  <1>2. /\ at' \in [DevThreads -> PipePlaces] /\ at'[t] = place
        /\ \A u \in DevThreads \ {t} : at'[u] = at[u]
    BY <1>1 DEF GoesTo, Goes
  <1>3. /\ scan' \in [DevThreads -> ScanType] /\ scan'[t] = s
        /\ \A u \in DevThreads \ {t} : scan'[u] = scan[u]
    BY <1>1 DEF GoesTo
  <1>4. PartyStep(t)
    BY <1>2, <1>3 DEF PartyStep, GoesTo, devProc
  <1>5. \A r \in Runs : r # t => at'[r] = at[r]
    BY <1>2, Parties
  <1>6. Begun \subseteq Begun' /\ Ended \subseteq Ended'
    BY <1>2, <1>5 DEF Begun, Ended, Executing
  <1>7. Memory(t)'
    BY <1>2, <1>3, <1>6 DEF Memory, Knows
  <1> QED
    BY <1>2, <1>3, <1>4, <1>7

LEMMA FilesKept ==
  ASSUME PipeInv, NEW t \in DevThreads, t \in Runs => at[t] # "begin"
  PROVE  (UNCHANGED logs => LogsOK(t)) /\ (UNCHANGED <<metas, unwritten>> => MetasOK(t))
  BY DEF PipeInv, PipeTyped, FilesOf, LogsOK, MetasOK

\* No file is touched.
LEMMA QuietInv ==
  ASSUME PipeInv, NEW t \in DevThreads, NEW place \in PlacesOf(t), NEW s \in ScanType,
         GoesTo(t, place, s), Knows(place, s), UNCHANGED devFiles,
         t \in Runs => at[t] \in Recorded \ {"unlink"} /\ place \in Recorded,
         run' \in [Runs -> RunType], \A r \in Runs : run'[r].slug = run[r].slug
  PROVE  PipeInv'
  <1>1. Recorded \subseteq Executing \ {"begin"} /\ UNCHANGED <<logs, metas, unwritten>>
    BY DEF Recorded, Executing, devFiles
  <1>2. PartyStep(t) /\ Memory(t)' /\ at'[t] = place /\ scan'[t] = s
    BY <1>1, WalkStep
  <1>3. LogsOK(t) /\ MetasOK(t)
    BY <1>1, FilesKept
  <1>4. t \in Runs => Known(t)'
    BY <1>1 DEF PipeInv, FilesOf, Known
  <1> QED
    BY <1>1, <1>2, <1>3, <1>4, PartyInv

\* What a party has in mind, before and after.
LEMMA InMind ==
  ASSUME PipeInv, NEW t \in DevThreads
  PROVE  /\ scan[t] \in ScanType /\ Memory(t) /\ at[t] \in PlacesOf(t)
         /\ scan \in [DevThreads -> ScanType] /\ at \in [DevThreads -> PipePlaces]
         /\ run \in [Runs -> RunType]
         /\ logs \in [Runs -> LogType] /\ metas \in [Runs -> MetaType] /\ unwritten \subseteq Runs
         /\ Begun \subseteq Runs /\ Ended \subseteq Begun
  BY DEF PipeInv, PipeTyped, Begun, Ended

\* Found in the directory: a run with a log or a record has begun.
LEMMA FoundHasBegun ==
  ASSUME PipeInv, NEW r \in Runs, logs[r].first # "none" \/ metas[r] # "none"
  PROVE  r \in Begun
  BY DEF PipeInv, FilesOf, Begun

LEMMA QuietMind == Quiet \in ScanType /\ Quiet.todo = {} /\ Quiet.found = {}
  BY DEF Quiet, ScanType, MetaType

LEMMA RestInv ==
  ASSUME PipeInv, NEW t \in DevThreads \ Runs, Rest(t), UNCHANGED <<devFiles, bySlug, run, devProc>>
  PROVE  PipeInv'
  <1>1. GoesTo(t, "rest", Quiet)
    BY DEF Rest, GoesTo
  <1>2. "rest" \in PlacesOf(t) /\ Knows("rest", Quiet)
    BY QuietMind DEF PlacesOf, Knows
  <1> QED
    BY <1>1, <1>2, QuietMind, InMind, QuietInv

LEMMA ListDirInv ==
  ASSUME PipeInv, NEW t \in DevThreads, ListDir(t)
  PROVE  PipeInv'
  <1> DEFINE s == [scan[t] EXCEPT !.found = {r \in Runs : metas[r] # "none" /\ run[r].slug = scan[t].slug},
                                  !.todo = {r \in Runs : LogExists(r) /\ metas[r] = "none"}]
  <1>1. /\ at[t] = "list" /\ Goes(t, "scan") /\ UNCHANGED <<devFiles, bySlug, run, devProc>>
        /\ scan' = [scan EXCEPT ![t] = s]
    BY InMind DEF ListDir, At
  <1>2. /\ s \in ScanType
        /\ s.found \subseteq {r \in Runs : metas[r] # "none"} /\ s.todo \subseteq {r \in Runs : LogExists(r)}
    BY InMind DEF ScanType
  <1> HIDE DEF s
  <1>3. s.found \subseteq Begun /\ s.todo \subseteq Begun
    BY <1>2, FoundHasBegun DEF LogExists
  <1>4. GoesTo(t, "scan", s) /\ Knows("scan", s)
    BY <1>1, <1>3 DEF GoesTo, Knows
  <1>5. "scan" \in PlacesOf(t)
    BY <1>1, InMind DEF PlacesOf, Executing
  <1> QED
    BY <1>1, <1>2, <1>4, <1>5, InMind, QuietInv DEF Recorded

\* backfillRecord makes up a status that is one.
LEMMA DerivedStatusIs ==
  ASSUME PipeInv, NEW r \in Runs
  PROVE  DerivedStatus(r) \in MetaType \ {"none"}
  BY DEF PipeInv, PipeTyped, FilesOf, DerivedStatus, LogType, MetaType, Results

LEMMA ReadLogInv ==
  ASSUME PipeInv, NEW t \in DevThreads, NEW r \in Runs, ReadLog(t, r)
  PROVE  PipeInv'
  <1>1. /\ at[t] = "scan" /\ r \in scan[t].todo /\ UNCHANGED <<devFiles, bySlug, run, devProc>>
        /\ scan[t].todo \subseteq Begun /\ scan[t].found \subseteq Begun /\ scan[t] \in ScanType
    BY InMind DEF ReadLog, At, Memory
  <1>2. CASE logs[r].first = "run.started"
    <2> DEFINE s == [scan[t] EXCEPT !.todo = @ \ {r}, !.cur = r, !.got = DerivedStatus(r)]
    <2>1. scan' = [scan EXCEPT ![t] = s] /\ Goes(t, "backfill")
      BY <1>2, InMind DEF ReadLog
    <2>2. s \in ScanType /\ s.todo \subseteq scan[t].todo /\ s.found = scan[t].found /\ s.cur = r
            /\ s.got = DerivedStatus(r)
      BY <1>1, DerivedStatusIs DEF ScanType
    <2> HIDE DEF s
    <2>3. GoesTo(t, "backfill", s) /\ Knows("backfill", s)
      BY <1>1, <2>1, <2>2, DerivedStatusIs DEF GoesTo, Knows
    <2>4. "backfill" \in PlacesOf(t)
      BY <1>1, InMind DEF PlacesOf, Executing
    <2> QED
      BY <1>1, <2>2, <2>3, <2>4, InMind, QuietInv DEF Recorded
  <1>3. CASE logs[r].first # "run.started"
    <2> DEFINE s == [scan[t] EXCEPT !.todo = @ \ {r}]
    <2>1. scan' = [scan EXCEPT ![t] = s] /\ UNCHANGED at
      BY <1>3, InMind DEF ReadLog
    <2>2. s \in ScanType /\ s.todo \subseteq scan[t].todo /\ s.found = scan[t].found
      BY <1>1 DEF ScanType
    <2> HIDE DEF s
    <2>3. GoesTo(t, "scan", s) /\ Knows("scan", s)
      BY <1>1, <2>1, <2>2 DEF GoesTo, Knows
    <2> QED
      BY <1>1, <2>2, <2>3, InMind, QuietInv DEF Recorded
  <1> QED
    BY <1>2, <1>3

LEMMA ListedAllInv ==
  ASSUME PipeInv, NEW t \in DevThreads, ListedAll(t)
  PROVE  PipeInv'
  <1>1. /\ at[t] = "scan" /\ UNCHANGED <<devFiles, bySlug, run, devProc>>
        /\ scan[t].todo \subseteq Begun /\ scan[t].found \subseteq Begun /\ scan[t] \in ScanType
    BY InMind DEF ListedAll, At, Memory
  <1>2. CASE t \in DevClients
    BY <1>1, <1>2, Parties, RestInv DEF ListedAll
  <1>3. CASE t \notin DevClients
    <2>1. t \in Runs
      BY <1>1, <1>3, Parties, InMind DEF PlacesOf
    <2>2. PICK kept \in SUBSET scan[t].found :
            scan' = [scan EXCEPT ![t].todo = scan[t].found \ kept, ![t].found = {}]
      BY <1>3 DEF ListedAll
    <2> DEFINE s == [scan[t] EXCEPT !.todo = scan[t].found \ kept, !.found = {}]
    <2>3. scan' = [scan EXCEPT ![t] = s] /\ Goes(t, "prune")
      BY <1>3, <2>2, InMind DEF ListedAll
    <2>4. s \in ScanType /\ s.todo \subseteq scan[t].found /\ s.found = {}
      BY <1>1 DEF ScanType
    <2> HIDE DEF s
    <2>5. GoesTo(t, "prune", s) /\ Knows("prune", s)
      BY <1>1, <2>3, <2>4 DEF GoesTo, Knows
    <2>6. "prune" \in PlacesOf(t)
      BY <2>1 DEF PlacesOf, Executing
    <2> QED
      BY <1>1, <2>4, <2>5, <2>6, InMind, QuietInv DEF Recorded
  <1> QED
    BY <1>2, <1>3

\* Records are written, or not, for runs that have begun.
LEMMA RecordTried ==
  ASSUME PipeInv, NEW t \in DevThreads, NEW r \in Begun, NEW status \in MetaType \ {"none"},
         TryRecord(r, status)
  PROVE  MetasOK(t) /\ Known(r)' /\ \A x \in Runs : Known(x) => Known(x)'
  <1>1. CASE WriteRecord(r, status) /\ unwritten' = unwritten \ {r}
    BY <1>1, InMind DEF WriteRecord, MetasOK, Known
  <1>2. CASE UNCHANGED metas /\ unwritten' = unwritten \cup {r}
    BY <1>2, InMind DEF MetasOK, Known
  <1> QED
    BY <1>1, <1>2 DEF TryRecord

LEMMA BackfillInv ==
  ASSUME PipeInv, NEW t \in DevThreads, backfillRecord(t)
  PROVE  PipeInv'
  <1> DEFINE r == scan[t].cur
             s == [scan[t] EXCEPT !.found = IF run[r].slug = scan[t].slug THEN @ \cup {r} ELSE @,
                                  !.cur = NoRun, !.got = "none"]
  <1>1. /\ at[t] = "backfill" /\ UNCHANGED <<logs, bySlug, run, devProc>> /\ TryRecord(r, scan[t].got)
        /\ Goes(t, "scan") /\ scan' = [scan EXCEPT ![t] = s]
    BY InMind DEF backfillRecord, At
  <1>2. /\ scan[t].todo \subseteq Begun /\ scan[t].found \subseteq Begun /\ scan[t] \in ScanType
        /\ r \in Begun /\ r \in Runs /\ scan[t].got \in MetaType \ {"none"}
    BY <1>1, InMind DEF Memory, ScanType
  <1>3. s \in ScanType /\ s.todo \subseteq Begun /\ s.found \subseteq Begun
    BY <1>2 DEF ScanType, MetaType
  <1> HIDE DEF s
  <1>4. GoesTo(t, "scan", s) /\ Knows("scan", s) /\ "scan" \in PlacesOf(t)
    BY <1>1, <1>3, InMind DEF GoesTo, Knows, PlacesOf, Executing
  <1>5. PartyStep(t) /\ Memory(t)'
    BY <1>1, <1>3, <1>4, InMind, WalkStep DEF Executing
  <1>6. MetasOK(t) /\ LogsOK(t)
    BY <1>1, <1>2, RecordTried, FilesKept
  <1>7. t \in Runs => Known(t)'
    BY <1>1, <1>2, RecordTried DEF PipeInv, FilesOf, Recorded
  <1> QED
    BY <1>1, <1>5, <1>6, <1>7, PartyInv

\* Pruning removes the files of runs that are over: isActive is asked at each of them.
LEMMA PruneOneInv ==
  ASSUME PipeInv, NEW t \in DevThreads, NEW r \in Runs, PruneOne(t, r)
  PROVE  PipeInv'
  <1>1. /\ at[t] = "prune" /\ r \in scan[t].todo /\ UNCHANGED <<logs, unwritten, bySlug, run, devProc>>
        /\ scan[t].todo \subseteq Begun /\ scan[t].found \subseteq Begun /\ scan[t] \in ScanType
        /\ r \in Begun
    BY InMind DEF PruneOne, At, Memory
  <1>2. t \in Runs
    BY <1>1, InMind DEF PlacesOf
  <1>3. CASE r \in Live
    <2> DEFINE s == [scan[t] EXCEPT !.todo = @ \ {r}]
    <2>1. scan' = [scan EXCEPT ![t] = s] /\ UNCHANGED <<metas, at>>
      BY <1>3, InMind DEF PruneOne
    <2>2. s \in ScanType /\ s.todo \subseteq Begun /\ s.found \subseteq Begun
      BY <1>1 DEF ScanType
    <2> HIDE DEF s
    <2>3. GoesTo(t, "prune", s) /\ Knows("prune", s)
      BY <1>1, <2>1, <2>2 DEF GoesTo, Knows
    <2> QED
      BY <1>1, <2>1, <2>2, <2>3, InMind, QuietInv DEF Recorded, devFiles
  <1>4. CASE r \notin Live
    <2> DEFINE s == [scan[t] EXCEPT !.todo = @ \ {r}, !.cur = r]
    <2>1. scan' = [scan EXCEPT ![t] = s] /\ WriteRecord(r, "none") /\ Goes(t, "unlink")
      BY <1>4, InMind DEF PruneOne
    <2>2. s \in ScanType /\ s.todo \subseteq Begun /\ s.found \subseteq Begun /\ s.cur = r
      BY <1>1 DEF ScanType
    <2> HIDE DEF s
    <2>3. r \in Ended
      BY <1>1, <1>4, NotLive
    <2>4. GoesTo(t, "unlink", s) /\ Knows("unlink", s) /\ "unlink" \in PlacesOf(t)
      BY <1>1, <1>2, <2>1, <2>2, <2>3 DEF GoesTo, Knows, PlacesOf, Executing
    <2>5. PartyStep(t) /\ Memory(t)' /\ at'[t] = "unlink" /\ scan'[t] = s
      BY <1>1, <2>2, <2>4, InMind, WalkStep DEF Executing
    <2>6. MetasOK(t)
      <3>1. metas' \in [Runs -> MetaType] /\ \A x \in Runs \ {r} : metas'[x] = metas[x]
        BY <2>1, InMind DEF WriteRecord, MetaType
      <3> QED
        BY <1>1, <1>2, <2>2, <2>3, <2>5, <3>1, InMind DEF MetasOK
    <2>7. LogsOK(t)
      BY <1>1, FilesKept
    <2>8. Known(t)'
      <3>1. t # r
        BY <1>1, <2>3 DEF Ended
      <3>2. Known(t)
        BY <1>1, <1>2 DEF PipeInv, FilesOf, Recorded
      <3> QED
        BY <1>1, <1>2, <2>1, <3>1, <3>2, InMind DEF WriteRecord, Known
    <2> QED
      BY <1>1, <2>5, <2>6, <2>7, <2>8, PartyInv
  <1> QED
    BY <1>3, <1>4

LEMMA RemoveLogInv ==
  ASSUME PipeInv, NEW t \in DevThreads, RemoveLog(t)
  PROVE  PipeInv'
  <1> DEFINE r == scan[t].cur
             s == [scan[t] EXCEPT !.cur = NoRun]
  <1>1. /\ at[t] = "unlink" /\ UNCHANGED <<metas, unwritten, bySlug, run, devProc>> /\ Goes(t, "prune")
        /\ scan' = [scan EXCEPT ![t] = s] /\ logs' = [logs EXCEPT ![r] = NoLog]
    BY InMind DEF RemoveLog, At
  <1>2. /\ scan[t].todo \subseteq Begun /\ scan[t].found \subseteq Begun /\ scan[t] \in ScanType
        /\ r \in Ended /\ r \in Runs
    BY <1>1, InMind DEF Memory
  <1>3. t \in Runs
    BY <1>1, InMind DEF PlacesOf
  <1>4. s \in ScanType /\ s.todo \subseteq Begun /\ s.found \subseteq Begun
    BY <1>2 DEF ScanType
  <1> HIDE DEF s
  <1>5. GoesTo(t, "prune", s) /\ Knows("prune", s) /\ "prune" \in PlacesOf(t)
    BY <1>1, <1>3, <1>4 DEF GoesTo, Knows, PlacesOf, Executing
  <1>6. PartyStep(t) /\ Memory(t)' /\ at'[t] = "prune"
    BY <1>1, <1>4, <1>5, InMind, WalkStep DEF Executing
  <1>7. NoLog \in LogType /\ NoLog.first = "none" /\ NoLog.last = "none"
    BY DEF NoLog, LogType
  <1>8. /\ logs' \in [Runs -> LogType] /\ logs'[r] = NoLog
        /\ \A x \in Runs \ {r} : logs'[x] = logs[x]
    BY <1>1, <1>2, <1>7, InMind
  <1>9. LogsOK(t)
    <2>1. \A x \in Runs : logs[x].last \in {"run.completed", "step.completed"} => logs[x].status # "none"
      BY DEF PipeInv, FilesOf
    <2> QED
      BY <1>1, <1>2, <1>7, <1>8, <2>1 DEF LogsOK
  <1>10. MetasOK(t)
    BY <1>1, FilesKept
  <1>11. Known(t)'
    BY <1>1, <1>3 DEF PipeInv, FilesOf, Recorded, Known
  <1> QED
    BY <1>6, <1>7, <1>8, <1>9, <1>10, <1>11, PartyInv

---------------------------------------------------------------------------
(* Orphans.                                                                *)

LEMMA OrphanHasBegun == PipeInv => orphanCandidates \subseteq Begun
  BY FoundHasBegun DEF orphanCandidates

LEMMA BootInv ==
  ASSUME PipeInv, FindOrphans \/ ReconciledAll \/ \E r \in Runs : ReconcileOne(r)
  PROVE  PipeInv'
  <1>1. /\ UNCHANGED <<devFiles, bySlug, run, devProc>> /\ Boot \in DevThreads \ Runs
        /\ scan[Boot].todo \subseteq Begun /\ scan[Boot].found \subseteq Begun /\ scan[Boot] \in ScanType
        /\ {"reconcile", "mark"} \subseteq PlacesOf(Boot)
    BY InMind, Parties DEF FindOrphans, ReconciledAll, ReconcileOne, Memory, PlacesOf
  <1>2. CASE FindOrphans
    <2> DEFINE s == [scan[Boot] EXCEPT !.todo = orphanCandidates]
    <2>1. scan' = [scan EXCEPT ![Boot] = s] /\ Goes(Boot, "reconcile")
      BY <1>2, InMind DEF FindOrphans
    <2>2. orphanCandidates \subseteq Begun /\ orphanCandidates \subseteq Runs
      BY OrphanHasBegun DEF orphanCandidates
    <2>3. s \in ScanType /\ s.todo \subseteq Begun /\ s.found \subseteq Begun
      BY <1>1, <2>2 DEF ScanType
    <2> HIDE DEF s
    <2>4. GoesTo(Boot, "reconcile", s) /\ Knows("reconcile", s)
      BY <1>1, <2>1, <2>3 DEF GoesTo, Knows
    <2> QED
      BY <1>1, <2>3, <2>4, InMind, QuietInv
  <1>3. CASE ReconciledAll
    BY <1>1, <1>3, RestInv DEF ReconciledAll
  <1>4. ASSUME NEW r \in Runs, ReconcileOne(r)
        PROVE  PipeInv'
    <2>1. r \in scan[Boot].todo /\ at[Boot] = "reconcile"
      BY <1>4 DEF ReconcileOne, At
    <2>2. CASE r \in Live
      <3> DEFINE s == [scan[Boot] EXCEPT !.todo = @ \ {r}]
      <3>1. scan' = [scan EXCEPT ![Boot] = s] /\ UNCHANGED at
        BY <1>4, <2>2, InMind DEF ReconcileOne
      <3>2. s \in ScanType /\ s.todo \subseteq Begun /\ s.found \subseteq Begun
        BY <1>1 DEF ScanType
      <3> HIDE DEF s
      <3>3. GoesTo(Boot, "reconcile", s) /\ Knows("reconcile", s)
        BY <1>1, <2>1, <3>1, <3>2 DEF GoesTo, Knows
      <3> QED
        BY <1>1, <3>2, <3>3, InMind, QuietInv
    <2>3. CASE r \notin Live
      <3> DEFINE s == [scan[Boot] EXCEPT !.todo = @ \ {r}, !.cur = r]
      <3>1. scan' = [scan EXCEPT ![Boot] = s] /\ Goes(Boot, "mark")
        BY <1>4, <2>3, InMind DEF ReconcileOne
      <3>2. s \in ScanType /\ s.todo \subseteq Begun /\ s.found \subseteq Begun /\ s.cur = r
        BY <1>1 DEF ScanType
      <3> HIDE DEF s
      <3>3. GoesTo(Boot, "mark", s) /\ Knows("mark", s)
        BY <1>1, <2>1, <3>1, <3>2 DEF GoesTo, Knows
      <3> QED
        BY <1>1, <3>2, <3>3, InMind, QuietInv
    <2> QED
      BY <2>2, <2>3
  <1> QED
    BY <1>2, <1>3, <1>4

\* The orphan a cancellation finds may have been started meanwhile: what matters is that it
\* has begun, so that the mark does not come before its first entry.
LEMMA ReconcileSlugOrphanInv ==
  ASSUME PipeInv, NEW t \in DevThreads, ReconcileSlugOrphan(t)
  PROVE  PipeInv'
  <1>1. /\ at[t] = "orphan" /\ UNCHANGED <<devFiles, bySlug, run, devProc>>
        /\ scan[t].todo \subseteq Begun /\ scan[t].found \subseteq Begun /\ scan[t] \in ScanType
    BY InMind DEF ReconcileSlugOrphan, At, Memory
  <1>2. t \in DevThreads \ Runs /\ t # Boot
    BY <1>1, InMind DEF PlacesOf, Executing
  <1>3. CASE Rest(t)
    BY <1>1, <1>2, <1>3, RestInv
  <1>4. ASSUME NEW r \in orphanCandidates, scan' = [scan EXCEPT ![t].cur = r], Goes(t, "mark")
        PROVE  PipeInv'
    <2> DEFINE s == [scan[t] EXCEPT !.cur = r]
    <2>1. scan' = [scan EXCEPT ![t] = s]
      BY <1>4, InMind
    <2>2. r \in Begun /\ r \in Runs
      BY <1>4, OrphanHasBegun, InMind
    <2>3. s \in ScanType /\ s.todo \subseteq Begun /\ s.found \subseteq Begun /\ s.cur = r
      BY <1>1, <2>2 DEF ScanType
    <2> HIDE DEF s
    <2>4. GoesTo(t, "mark", s) /\ Knows("mark", s) /\ "mark" \in PlacesOf(t)
      BY <1>1, <1>2, <1>4, <2>1, <2>2, <2>3 DEF GoesTo, Knows, PlacesOf
    <2> QED
      BY <1>1, <1>2, <2>3, <2>4, InMind, QuietInv
  <1>5. Rest(t) \/ \E r \in orphanCandidates : scan' = [scan EXCEPT ![t].cur = r] /\ Goes(t, "mark")
    BY DEF ReconcileSlugOrphan
  <1> QED
    BY <1>3, <1>4, <1>5

\* An entry in the log of a run that has begun.
LEMMA EventWritten ==
  ASSUME PipeInv, NEW t \in DevThreads, NEW r \in Begun, NEW kind \in {"step.completed", "run.completed"},
         NEW status \in Results, WriteEvent(r, kind, status),
         LogExists(r) \/ (kind = "run.completed" /\ r \in Ended), t \in Runs => at[t] # "begin"
  PROVE  LogsOK(t)
  <1> DEFINE l == [first |-> IF LogExists(r) THEN logs[r].first ELSE kind,
                   last |-> IF kind = "run.started" THEN "open" ELSE kind, status |-> status]
  <1>1. logs' = [logs EXCEPT ![r] = l]
    BY DEF WriteEvent
  <1>2. /\ l \in LogType /\ l.status # "none"
        /\ l.first = logs[r].first \/ (r \in Ended /\ l.first # "run.started")
    BY InMind DEF LogType, Results
  <1> HIDE DEF l
  <1>3. /\ logs' \in [Runs -> LogType] /\ logs'[r] = l
        /\ \A x \in Runs \ {r} : logs'[x] = logs[x]
    BY <1>1, <1>2, InMind
  <1>4. \A x \in Runs : logs[x].last \in {"run.completed", "step.completed"} => logs[x].status # "none"
    BY DEF PipeInv, FilesOf
  <1> QED
    BY <1>2, <1>3, <1>4 DEF LogsOK

LEMMA RunHasLog ==
  ASSUME PipeInv, NEW r \in Begun
  PROVE  LogExists(r) \/ r \in Ended
  BY Parties DEF PipeInv, PipeTyped, PlacesOf, FilesOf, LogExists, Begun, Ended

LEMMA MarkInv ==
  ASSUME PipeInv, NEW t \in DevThreads, MarkInLog(t) \/ MarkRecord(t)
  PROVE  PipeInv'
  <1> DEFINE r == scan[t].cur
  <1>1. at[t] \in {"mark", "markRecord"} /\ UNCHANGED <<bySlug, run, devProc>>
    BY DEF MarkInLog, MarkRecord, At
  <1>2. /\ scan[t].todo \subseteq Begun /\ scan[t].found \subseteq Begun /\ scan[t] \in ScanType
        /\ r \in Begun /\ r \in Runs
    BY <1>1, InMind DEF Memory
  <1>3. t \in DevThreads \ Runs
    BY <1>1, InMind DEF PlacesOf, Executing
  <1>4. CASE MarkInLog(t)
    <2>1. /\ WriteEvent(r, "run.completed", "cancelled") /\ Goes(t, "markRecord")
          /\ UNCHANGED <<metas, unwritten, scan>>
      BY <1>4 DEF MarkInLog
    <2>2. GoesTo(t, "markRecord", scan[t]) /\ Knows("markRecord", scan[t])
      BY <1>1, <1>2, <2>1 DEF GoesTo, Knows
    <2>3. "markRecord" \in PlacesOf(t)
      BY <1>3 DEF PlacesOf
    <2>4. PartyStep(t) /\ Memory(t)'
      BY <1>1, <1>2, <1>3, <2>2, <2>3, InMind, WalkStep
    <2>5. LogsOK(t) /\ MetasOK(t)
      BY <1>2, <1>3, <2>1, EventWritten, RunHasLog, FilesKept DEF Results
    <2> QED
      BY <1>3, <2>4, <2>5, PartyInv
  <1>5. CASE MarkRecord(t)
    <2>1. PICK place \in PlacesOf(t), s \in ScanType :
            GoesTo(t, place, s) /\ Knows(place, s)
      <3>1. CASE t = Boot
        <4> DEFINE s == [scan[t] EXCEPT !.cur = NoRun]
        <4>1. scan' = [scan EXCEPT ![t] = s] /\ Goes(t, "reconcile")
          BY <1>5, <3>1, InMind DEF MarkRecord
        <4>2. s \in ScanType /\ s.todo \subseteq Begun /\ s.found \subseteq Begun
          BY <1>2 DEF ScanType
        <4> HIDE DEF s
        <4>3. GoesTo(t, "reconcile", s) /\ Knows("reconcile", s) /\ "reconcile" \in PlacesOf(t)
          BY <1>1, <1>3, <3>1, <4>1, <4>2 DEF GoesTo, Knows, PlacesOf
        <4> QED
          BY <4>2, <4>3
      <3>2. CASE t # Boot
        <4>1. GoesTo(t, "rest", Quiet)
          BY <1>1, <1>5, <3>2 DEF MarkRecord, Rest, GoesTo
        <4>2. "rest" \in PlacesOf(t) /\ Knows("rest", Quiet)
          BY <1>3, QuietMind DEF PlacesOf, Knows
        <4> QED
          BY <4>1, <4>2, QuietMind
      <3> QED
        BY <3>1, <3>2
    <2>2. PartyStep(t) /\ Memory(t)'
      BY <1>1, <1>3, <2>1, InMind, WalkStep
    <2>3. TryRecord(r, "cancelled") /\ UNCHANGED logs
      BY <1>5 DEF MarkRecord
    <2>4. LogsOK(t) /\ MetasOK(t)
      BY <1>2, <1>3, <2>3, RecordTried, FilesKept DEF MetaType, Results
    <2> QED
      BY <1>3, <2>2, <2>4, PartyInv
  <1> QED
    BY <1>4, <1>5

---------------------------------------------------------------------------
(* Requests.                                                               *)

LEMMA RequestInv ==
  ASSUME PipeInv, NEW c \in DevClients, DevRequest(c) \/ CancelRun(c) \/ CancelReturns(c)
  PROVE  PipeInv'
  <1>1. /\ c \in DevThreads \ Runs /\ c # Boot /\ UNCHANGED <<devFiles, bySlug, devProc>>
        /\ scan[c].todo \subseteq Begun /\ scan[c].found \subseteq Begun /\ scan[c] \in ScanType
    BY Parties, InMind DEF DevRequest, handleListPipelineRuns, handleCancelPipeline, CancelRun,
                           CancelReturns, Memory
  <1>2. {"list", "cancel", "orphan", "wait"} \subseteq PlacesOf(c)
    BY <1>1 DEF PlacesOf
  <1>3. ASSUME NEW p \in Pipelines, handleListPipelineRuns(c, p) \/ handleCancelPipeline(c, p)
        PROVE  PipeInv'
    <2>1. PICK place \in {"list", "cancel", "orphan"}, cur \in {scan[c].cur, bySlug[p]} :
            Goes(c, place) /\ scan' = [scan EXCEPT ![c].slug = p, ![c].cur = cur] /\ UNCHANGED run
      <3>1. CASE handleListPipelineRuns(c, p)
        <4>1. scan' = [scan EXCEPT ![c].slug = p, ![c].cur = scan[c].cur]
          BY <1>1, <3>1, InMind DEF handleListPipelineRuns, ScanType
        <4> QED
          BY <3>1, <4>1 DEF handleListPipelineRuns
      <3>2. CASE handleCancelPipeline(c, p)
        BY <3>2 DEF handleCancelPipeline
      <3> QED
        BY <1>3, <3>1, <3>2
    <2> DEFINE s == [scan[c] EXCEPT !.slug = p, !.cur = cur]
    <2>2. scan' = [scan EXCEPT ![c] = s]
      BY <1>1, <2>1, InMind
    <2>3. bySlug[p] \in Runs \cup {NoRun}
      BY DEF PipeInv, PipeTyped
    <2>4. s \in ScanType /\ s.todo \subseteq Begun /\ s.found \subseteq Begun
      BY <1>1, <2>3 DEF ScanType
    <2> HIDE DEF s
    <2>5. GoesTo(c, place, s) /\ Knows(place, s)
      BY <1>1, <2>1, <2>2, <2>4 DEF GoesTo, Knows
    <2> QED
      BY <1>1, <1>2, <2>1, <2>4, <2>5, InMind, QuietInv
  <1>4. CASE CancelRun(c)
    <2> DEFINE r == scan[c].cur
    <2>1. CASE r \in Live
      <3>1. run' = [run EXCEPT ![r].cancelled = TRUE] /\ Goes(c, "wait") /\ UNCHANGED scan
        BY <1>4, <2>1 DEF CancelRun
      <3>2. run' \in [Runs -> RunType] /\ \A x \in Runs : run'[x].slug = run[x].slug
        <4> DEFINE v == [run[r] EXCEPT !.cancelled = TRUE]
        <4>1. r \in Runs
          BY <2>1 DEF PipeInv, PipeTyped, Live
        <4>2. v \in RunType /\ v.slug = run[r].slug
          <5>1. run[r] \in RunType
            BY <4>1 DEF PipeInv, PipeTyped
          <5> QED
            BY <5>1 DEF RunType
        <4>3. run' = [run EXCEPT ![r] = v]
          BY <3>1
        <4> HIDE DEF v
        <4> QED
          BY <1>1, <4>1, <4>2, <4>3, InMind
      <3>3. GoesTo(c, "wait", scan[c]) /\ Knows("wait", scan[c])
        BY <1>1, <3>1 DEF GoesTo, Knows
      <3> QED
        BY <1>1, <1>2, <3>2, <3>3, QuietInv
    <2>2. CASE r \notin Live
      BY <1>1, <1>4, <2>2, RestInv DEF CancelRun
    <2> QED
      BY <2>1, <2>2
  <1>5. CASE CancelReturns(c)
    BY <1>1, <1>5, RestInv DEF CancelReturns
  <1> QED
    BY <1>3, <1>4, <1>5 DEF DevRequest


---------------------------------------------------------------------------
(* The steps of a run.                                                     *)

LEMMA RunInv ==
  ASSUME PipeInv, NEW r \in Runs, NEW place \in {"next", "step", "refused", "hung", "record", "list"},
         at[r] \in Executing, Goes(r, place), UNCHANGED <<scan, bySlug, devProc>>,
         run' \in [Runs -> RunType], \A x \in Runs : run'[x].slug = run[x].slug,
         LogsOK(r), MetasOK(r), place = "list" => Known(r)', at[r] # "unlink"
  PROVE  PipeInv'
  <1>1. r \in DevThreads
    BY Parties
  <1>2. scan[r] \in ScanType /\ GoesTo(r, place, scan[r]) /\ Knows(place, scan[r])
    BY <1>1, InMind DEF GoesTo, Knows, Memory
  <1>3. place \in PlacesOf(r) /\ place \in Executing \ {"begin"}
    BY DEF PlacesOf, Executing
  <1>4. PartyStep(r) /\ Memory(r)' /\ at'[r] = place
    BY <1>1, <1>2, <1>3, WalkStep
  <1>5. place \in Recorded => place = "list"
    BY DEF Recorded
  <1> QED
    BY <1>1, <1>4, <1>5, PartyInv

LEMMA RunIs ==
  ASSUME PipeInv, NEW r \in Runs
  PROVE  /\ run \in [Runs -> RunType] /\ run[r] \in RunType /\ run[r].slug \in Pipelines \cup {"none"}
         /\ run[r].step \in 0..NSteps /\ run[r].status \in Results /\ run[r].cancelled \in BOOLEAN
         /\ r \in DevThreads /\ FilesOf(r) /\ at[r] \in PlacesOf(r)
         /\ logs \in [Runs -> LogType] /\ metas \in [Runs -> MetaType] /\ unwritten \subseteq Runs
         /\ \A x \in Runs : logs[x].last \in {"run.completed", "step.completed"} => logs[x].status # "none"
  BY Parties DEF PipeInv, PipeTyped, RunType, FilesOf

\* The state of a run changes, its pipeline does not.
LEMMA RunChanged ==
  ASSUME PipeInv, NEW r \in Runs, NEW v \in RunType, v.slug = run[r].slug, run' = [run EXCEPT ![r] = v]
  PROVE  run' \in [Runs -> RunType] /\ \A x \in Runs : run'[x].slug = run[x].slug
  BY RunIs

LEMMA BeginRunInv ==
  ASSUME PipeInv, NEW r \in Runs, BeginRun(r)
  PROVE  PipeInv'
  <1>1. /\ at[r] = "begin" /\ Goes(r, "next") /\ UNCHANGED <<metas, unwritten, bySlug, run, scan, devProc>>
        /\ WriteEvent(r, "run.started", "none")
    BY DEF BeginRun, At
  <1> DEFINE l == [first |-> "run.started", last |-> "open", status |-> "none"]
  <1>2. logs' = [logs EXCEPT ![r] = l]
    BY <1>1, RunIs DEF WriteEvent, LogExists, FilesOf
  <1>3. l \in LogType /\ l.first = "run.started" /\ l.last = "open"
    BY DEF LogType
  <1> HIDE DEF l
  <1>4. /\ logs' \in [Runs -> LogType] /\ logs'[r] = l
        /\ \A x \in Runs \ {r} : logs'[x] = logs[x]
    BY <1>2, <1>3, RunIs
  <1>5. LogsOK(r)
    BY <1>1, <1>3, <1>4, RunIs DEF LogsOK
  <1>6. MetasOK(r)
    BY <1>1, RunIs DEF MetasOK
  <1> QED
    BY <1>1, <1>5, <1>6, RunIs, RunInv DEF Executing

LEMMA StepBeginsInv ==
  ASSUME PipeInv, NEW r \in Runs, StepBegins(r)
  PROVE  PipeInv'
  <1>1. at[r] = "next" /\ UNCHANGED <<metas, unwritten, bySlug, scan, devProc>> /\ run[r].step < NSteps
    BY DEF StepBegins, At
  <1> DEFINE l == [logs[r] EXCEPT !.last = "open", !.status = "none"]
             v == [run[r] EXCEPT !.step = @ + 1]
  <1>2. logs' = [logs EXCEPT ![r] = l] /\ run' = [run EXCEPT ![r] = v]
    BY RunIs DEF StepBegins
  <1>3. l \in LogType /\ l.first = logs[r].first /\ l.last = "open"
    <2>1. logs[r] \in LogType
      BY RunIs
    <2> QED
      BY <2>1 DEF LogType
  <1>4. v \in RunType /\ v.slug = run[r].slug
    <2>1. run[r].step + 1 \in 0..NSteps
      BY <1>1, RunIs, DevOpsAssumption
    <2>2. run[r] \in RunType
      BY RunIs
    <2> QED
      BY <2>1, <2>2 DEF RunType
  <1> HIDE DEF l, v
  <1>5. /\ logs' \in [Runs -> LogType] /\ logs'[r] = l
        /\ \A x \in Runs \ {r} : logs'[x] = logs[x]
    BY <1>2, <1>3, RunIs
  <1>6. LogsOK(r)
    BY <1>1, <1>3, <1>5, RunIs DEF LogsOK
  <1>7. MetasOK(r)
    BY <1>1, RunIs DEF MetasOK
  <1>8. run' \in [Runs -> RunType] /\ \A x \in Runs : run'[x].slug = run[x].slug
    BY <1>2, <1>4, RunChanged
  <1>9. \E place \in {"next", "step", "refused", "hung", "record", "list"} : place # "list" /\ Goes(r, place)
    BY DEF StepBegins
  <1> QED
    BY <1>1, <1>6, <1>7, <1>8, <1>9, RunInv DEF Executing

LEMMA StepHangsInv ==
  ASSUME PipeInv, NEW r \in Runs, StepHangs(r)
  PROVE  PipeInv'
  <1>1. /\ at[r] = "step" /\ UNCHANGED <<logs, metas, unwritten>> /\ Goes(r, "hung")
        /\ UNCHANGED <<bySlug, run, scan, devProc>>
    BY DEF StepHangs, At, devFiles
  <1>2. LogsOK(r) /\ MetasOK(r)
    BY <1>1, RunIs, FilesKept
  <1> QED
    BY <1>1, <1>2, RunIs, RunInv DEF Executing

LEMMA StepEndsInv ==
  ASSUME PipeInv, NEW r \in Runs, StepEnds(r)
  PROVE  PipeInv'
  <1>1. at[r] \in {"step", "refused", "hung"} /\ UNCHANGED <<metas, unwritten, bySlug, scan, devProc>> /\ Goes(r, "next")
    BY DEF StepEnds, At
  <1>2. PICK status \in Results : run' = [run EXCEPT ![r].status = status] /\ WriteEvent(r, "step.completed", status)
    BY DEF StepEnds, runStep, Results
  <1> DEFINE v == [run[r] EXCEPT !.status = status]
  <1>3. run' = [run EXCEPT ![r] = v]
    BY <1>2, RunIs
  <1>4. v \in RunType /\ v.slug = run[r].slug
    <2>1. run[r] \in RunType
      BY RunIs
    <2> QED
      BY <1>2, <2>1 DEF RunType
  <1> HIDE DEF v
  <1>5. run' \in [Runs -> RunType] /\ \A x \in Runs : run'[x].slug = run[x].slug
    BY <1>3, <1>4, RunChanged
  <1>6. r \in Begun /\ LogExists(r)
    BY <1>1, RunIs DEF Begun, LogExists, FilesOf, Executing
  <1>7. LogsOK(r)
    BY <1>1, <1>2, <1>6, RunIs, EventWritten
  <1>8. MetasOK(r)
    BY <1>1, RunIs DEF MetasOK
  <1> QED
    BY <1>1, <1>5, <1>7, <1>8, RunInv DEF Executing

LEMMA CompleteInv ==
  ASSUME PipeInv, NEW r \in Runs, Complete(r)
  PROVE  PipeInv'
  <1>1. /\ at[r] = "next" /\ UNCHANGED <<metas, unwritten, bySlug, run, scan, devProc>> /\ Goes(r, "record")
        /\ WriteEvent(r, "run.completed", run[r].status)
    BY DEF Complete, At
  <1>2. r \in Begun /\ LogExists(r)
    BY <1>1, RunIs DEF Begun, LogExists, FilesOf, Executing
  <1>3. LogsOK(r)
    BY <1>1, <1>2, RunIs, EventWritten
  <1>4. MetasOK(r)
    BY <1>1, RunIs DEF MetasOK
  <1> QED
    BY <1>1, <1>3, <1>4, RunIs, RunInv DEF Executing

LEMMA RecordInv ==
  ASSUME PipeInv, NEW r \in Runs, Record(r)
  PROVE  PipeInv'
  <1>1. /\ at[r] = "record" /\ UNCHANGED <<logs, bySlug, run, scan, devProc>> /\ Goes(r, "list")
        /\ TryRecord(r, run[r].status)
    BY DEF Record, At
  <1>2. r \in Begun
    BY <1>1 DEF Begun
  <1>3. run[r].status \in MetaType \ {"none"}
    BY RunIs DEF MetaType, Results
  <1>4. MetasOK(r) /\ Known(r)'
    BY <1>1, <1>2, <1>3, RunIs, RecordTried
  <1>5. LogsOK(r)
    BY <1>1, RunIs, FilesKept
  <1> QED
    BY <1>1, <1>4, <1>5, RunIs, RunInv DEF Executing

\* Only here a run leaves the Runner, and its record has been written, or tried, before.
LEMMA LeavesInv ==
  ASSUME PipeInv, NEW r \in Runs, Leaves(r)
  PROVE  PipeInv'
  <1> DEFINE p == run[r].slug
  <1>1. /\ at[r] = "prune" /\ UNCHANGED <<devFiles, devProc>> /\ UNCHANGED <<logs, metas, unwritten>>
        /\ bySlug' = [bySlug EXCEPT ![p] = NoRun] /\ run' = [run EXCEPT ![r] = OfPipeline(p)]
        /\ at' = [at EXCEPT ![r] = "gone"] /\ scan' = [scan EXCEPT ![r] = Quiet]
    BY RunIs DEF Leaves, At, Goes, devFiles
  <1>2. p \in Pipelines /\ bySlug[p] = r /\ Known(r) /\ r # NoRun
    BY <1>1, RunIs, Parties DEF PipeInv, SlugsInv, Executing, FilesOf, Recorded
  <1>3. OfPipeline(p) \in RunType /\ OfPipeline(p).slug = p
    BY <1>2, DevOpsAssumption DEF OfPipeline, RunType, Results
  <1>4. /\ at' \in [DevThreads -> PipePlaces] /\ at'[r] = "gone" /\ \A u \in DevThreads \ {r} : at'[u] = at[u]
        /\ scan' \in [DevThreads -> ScanType] /\ scan'[r] = Quiet
        /\ \A u \in DevThreads \ {r} : scan'[u] = scan[u]
    BY <1>1, RunIs, InMind, QuietMind DEF PipePlaces
  <1>5. run' \in [Runs -> RunType] /\ \A x \in Runs : run'[x].slug = run[x].slug
    BY <1>1, <1>3, RunChanged
  <1>6. /\ bySlug' \in [Pipelines -> Runs \cup {NoRun}] /\ bySlug'[p] = NoRun
        /\ \A q \in Pipelines \ {p} : bySlug'[q] = bySlug[q]
    BY <1>1, <1>2 DEF PipeInv, PipeTyped
  <1>7. PipeTyped'
    BY <1>1, <1>4, <1>5, <1>6 DEF PipeInv, PipeTyped, PlacesOf, devProc
  <1>8. \A x \in Runs \ {r} : at'[x] = at[x]
    BY <1>4, Parties
  <1>9. Begun \subseteq Begun' /\ Ended \subseteq Ended'
    BY <1>4, <1>8 DEF Begun, Ended
  <1>10. IdsInTurn'
    <2>1. {x \in Runs : at'[x] # "absent"} = {x \in Runs : at[x] # "absent"}
      BY <1>1, <1>4, <1>8
    <2> QED
      BY <2>1 DEF PipeInv, IdsInTurn
  <1>11. SlugsInv'
    <2>1. ASSUME NEW q \in Pipelines, bySlug'[q] # NoRun
          PROVE  at'[bySlug'[q]] \in Executing /\ run'[bySlug'[q]].slug = q
      <3>1. q # p /\ bySlug'[q] = bySlug[q] /\ bySlug[q] \in Runs
        BY <1>6, <2>1 DEF PipeInv, PipeTyped
      <3>2. at[bySlug[q]] \in Executing /\ run[bySlug[q]].slug = q
        BY <2>1, <3>1 DEF PipeInv, SlugsInv
      <3> QED
        BY <1>5, <1>8, <3>1, <3>2
    <2>2. ASSUME NEW x \in Runs, at'[x] \in Executing
          PROVE  run'[x].slug \in Pipelines /\ bySlug'[run'[x].slug] = x
      <3>1. x # r /\ at[x] \in Executing
        BY <1>4, <1>8, <2>2 DEF Executing
      <3> QED
        BY <1>2, <1>5, <1>6, <3>1 DEF PipeInv, SlugsInv
    <2> QED
      BY <2>1, <2>2 DEF SlugsInv
  <1>12. \A u \in DevThreads : Memory(u)'
    BY <1>4, <1>9, QuietMind DEF PipeInv, Memory
  <1>13. \A x \in Runs : FilesOf(x)'
    BY <1>1, <1>4, <1>8 DEF PipeInv, FilesOf, Known, Executing, Recorded
  <1>14. EndedRunHasRecord'
    <2> SUFFICES ASSUME NEW x \in Runs, at'[x] = "gone", logs'[x].first = "run.started"
                 PROVE  Known(x) \/ \E u \in Runs : at'[u] = "unlink" /\ scan'[u].cur = x
      BY <1>1 DEF EndedRunHasRecord, Known
    <2>1. CASE x = r
      BY <1>2, <2>1
    <2>2. CASE x # r
      <3>1. Known(x) \/ \E u \in Runs : at[u] = "unlink" /\ scan[u].cur = x
        BY <1>1, <1>8, <2>2 DEF PipeInv, EndedRunHasRecord, Known
      <3>2. \A u \in Runs : at[u] = "unlink" => at'[u] = at[u] /\ scan'[u] = scan[u]
        BY <1>1, <1>4, Parties
      <3> QED
        BY <1>1, <3>1, <3>2
    <2> QED
      BY <2>1, <2>2
  <1> QED
    BY <1>7, <1>10, <1>11, <1>12, <1>13, <1>14 DEF PipeInv

---------------------------------------------------------------------------
(* A run starts; the process.                                              *)

\* Ids in turn: the one handleRunPipeline takes has not been used before.
LEMMA NextIdIsFresh ==
  ASSUME PipeInv
  PROVE  LET n == Cardinality({x \in Runs : at[x] # "absent"})
         IN  n \in Nat /\ (1 + n \in Runs => at[1 + n] = "absent")
  <1> DEFINE used == {x \in Runs : at[x] # "absent"}
             n == Cardinality(used)
  <1>1. used \subseteq Runs
    OBVIOUS
  <1>2. n \in Nat
    BY <1>1, FS_Subset, FS_CardinalityType, DevOpsAssumption
  <1>3. used = 1..n
    BY DEF PipeInv, IdsInTurn
  <1>4. 1 + n \notin used
    <2> HIDE DEF used, n
    <2> QED
      BY <1>2, <1>3
  <1> QED
    BY <1>2, <1>4

LEMMA RunPipelineInv ==
  ASSUME PipeInv, NEW p \in Pipelines, handleRunPipeline(p)
  PROVE  PipeInv'
  <1> DEFINE used == {x \in Runs : at[x] # "absent"}
             n == Cardinality(used)
             r == 1 + n
             v == [run[r] EXCEPT !.slug = p]
             s == [scan[r] EXCEPT !.slug = p]
  <1>1. /\ r \in Runs /\ bySlug[p] = NoRun /\ UNCHANGED <<logs, metas, unwritten>> /\ UNCHANGED devProc
        /\ bySlug' = [bySlug EXCEPT ![p] = r] /\ at' = [at EXCEPT ![r] = "begin"]
        /\ run' = [run EXCEPT ![r].slug = p] /\ scan' = [scan EXCEPT ![r].slug = p]
    BY DEF handleRunPipeline, devFiles, Goes
  <1>2. n \in Nat /\ at[r] = "absent" /\ used = 1..n /\ used \subseteq Runs /\ r \notin used
    BY <1>1, NextIdIsFresh DEF PipeInv, IdsInTurn
  <1>3. /\ {x \in Runs : x \notin used} = {x \in Runs : at[x] = "absent"}
        /\ \A x \in used : at[x] # "absent"
    OBVIOUS
  <1>4. r = 1 + n /\ n = Cardinality(used) /\ r \in DevThreads
    BY <1>1, Parties
  <1> HIDE DEF r, n, used
  <1>5. v \in RunType /\ v.slug = p /\ run' = [run EXCEPT ![r] = v]
    <2>1. run[r] \in RunType /\ run \in [Runs -> RunType]
      BY <1>1, RunIs
    <2> QED
      BY <1>1, <2>1 DEF RunType
  <1>6. /\ s \in ScanType /\ s.todo = scan[r].todo /\ s.found = scan[r].found /\ s.cur = scan[r].cur
        /\ scan' = [scan EXCEPT ![r] = s]
    BY <1>1, <1>4, InMind DEF ScanType
  <1> HIDE DEF v, s
  <1>7. /\ at' \in [DevThreads -> PipePlaces] /\ at'[r] = "begin" /\ \A u \in DevThreads \ {r} : at'[u] = at[u]
        /\ scan' \in [DevThreads -> ScanType] /\ scan'[r] = s
        /\ \A u \in DevThreads \ {r} : scan'[u] = scan[u]
    BY <1>1, <1>4, <1>6, InMind DEF PipePlaces, Executing
  <1>8. /\ run' \in [Runs -> RunType] /\ run'[r] = v /\ \A x \in Runs \ {r} : run'[x] = run[x]
        /\ bySlug' \in [Pipelines -> Runs \cup {NoRun}] /\ bySlug'[p] = r
        /\ \A q \in Pipelines \ {p} : bySlug'[q] = bySlug[q]
    BY <1>1, <1>5, RunIs DEF PipeInv, PipeTyped
  <1>9. PipeTyped'
    BY <1>1, <1>4, <1>7, <1>8 DEF PipeInv, PipeTyped, PlacesOf, Executing, devProc
  <1>10. \A x \in Runs \ {r} : at'[x] = at[x]
    BY <1>7, Parties
  <1>11. Begun' = Begun /\ Ended' = Ended
    BY <1>1, <1>2, <1>7, <1>10 DEF Begun, Ended
  <1>12. IdsInTurn'
    <2>1. {x \in Runs : at'[x] # "absent"} = used \cup {r}
      BY <1>1, <1>3, <1>2, <1>7, <1>10
    <2>2. IsFiniteSet(used)
      BY <1>2, FS_Subset, DevOpsAssumption
    <2>3. Cardinality(used \cup {r}) = n + 1
      <3>1. Cardinality(used \cup {r}) = Cardinality(used) + 1
        BY <1>2, <2>2, FS_AddElement
      <3> QED
        BY <1>4, <3>1
    <2>4. used \cup {r} = 1..n + 1
      BY <1>2, <1>4
    <2> QED
      BY <2>1, <2>3, <2>4 DEF IdsInTurn
  <1>13. SlugsInv'
    <2>1. ASSUME NEW q \in Pipelines, bySlug'[q] # NoRun
          PROVE  at'[bySlug'[q]] \in Executing /\ run'[bySlug'[q]].slug = q
      <3>1. CASE q = p
        BY <1>5, <1>7, <1>8, <3>1 DEF Executing
      <3>2. CASE q # p
        <4>1. bySlug'[q] = bySlug[q] /\ bySlug[q] \in Runs
          BY <1>8, <2>1, <3>2 DEF PipeInv, PipeTyped
        <4>2. at[bySlug[q]] \in Executing /\ run[bySlug[q]].slug = q
          BY <2>1, <4>1 DEF PipeInv, SlugsInv
        <4>3. bySlug[q] # r
          BY <1>2, <4>2 DEF Executing
        <4> QED
          BY <1>8, <1>10, <4>1, <4>2, <4>3
      <3> QED
        BY <3>1, <3>2
    <2>2. ASSUME NEW x \in Runs, at'[x] \in Executing
          PROVE  run'[x].slug \in Pipelines /\ bySlug'[run'[x].slug] = x
      <3>1. CASE x = r
        BY <1>5, <1>8, <3>1
      <3>2. CASE x # r
        <4>1. run'[x] = run[x] /\ run[x].slug \in Pipelines /\ bySlug[run[x].slug] = x
          BY <1>8, <1>10, <2>2, <3>2 DEF PipeInv, SlugsInv
        <4>2. run[x].slug # p
          BY <1>1, <4>1, Parties
        <4> QED
          BY <1>8, <4>1, <4>2
      <3> QED
        BY <3>1, <3>2
    <2> QED
      BY <2>1, <2>2 DEF SlugsInv
  <1>14. \A u \in DevThreads : Memory(u)'
    BY <1>4, <1>6, <1>7, <1>11 DEF PipeInv, Memory
  <1>15. \A x \in Runs : FilesOf(x)'
    BY <1>1, <1>2, <1>7, <1>10 DEF PipeInv, FilesOf, Known, Executing, Recorded
  <1>16. EndedRunHasRecord'
    <2>1. \A u \in Runs : (at'[u] = "gone" => at[u] = "gone")
                          /\ (at[u] = "unlink" => at'[u] = "unlink" /\ scan'[u] = scan[u])
      BY <1>2, <1>7, <1>10, Parties
    <2> QED
      BY <1>1, <2>1 DEF PipeInv, EndedRunHasRecord
  <1> QED
    BY <1>9, <1>12, <1>13, <1>14, <1>15, <1>16 DEF PipeInv

LEMMA CrashInv ==
  ASSUME PipeInv, PipelineCrash
  PROVE  PipeInv'
  <1>1. /\ UNCHANGED <<logs, metas>> /\ unwritten' = {} /\ serverUp' = FALSE
        /\ \A p \in Pipelines : bySlug'[p] = NoRun
        /\ bySlug' \in [Pipelines -> Runs \cup {NoRun}]
        /\ \A u \in DevThreads : scan'[u] = Quiet
        /\ scan' \in [DevThreads -> ScanType]
    BY QuietMind DEF PipelineCrash, devFiles
  <1>2. pipeCrashes' \in 0..MaxPipelineCrashes
    BY DevOpsAssumption DEF PipelineCrash, PipeInv, PipeTyped
  <1>3. at' \in [DevThreads -> PipePlaces]
    BY DEF PipelineCrash, PipePlaces
  <1>4. /\ \A r \in Runs : at'[r] = IF at[r] = "absent" THEN "absent" ELSE "dead"
        /\ \A u \in DevThreads \ Runs : at'[u] = "rest"
    BY Parties DEF PipelineCrash
  <1>5. \A u \in DevThreads : at'[u] \in PlacesOf(u) /\ at'[u] \notin Executing \cup {"mark", "markRecord"}
    BY <1>4 DEF PlacesOf, Executing
  <1>6. run' \in [Runs -> RunType]
    <2>1. \A r \in Runs : OfPipeline(run[r].slug) \in RunType
      BY RunIs, DevOpsAssumption DEF OfPipeline, RunType, Results
    <2> QED
      BY <2>1 DEF PipelineCrash
  <1>7. PipeTyped'
    BY <1>1, <1>2, <1>3, <1>5, <1>6 DEF PipeInv, PipeTyped
  <1>8. IdsInTurn'
    <2>1. {x \in Runs : at'[x] # "absent"} = {x \in Runs : at[x] # "absent"}
      BY <1>4
    <2> QED
      BY <2>1 DEF PipeInv, IdsInTurn
  <1>9. SlugsInv'
    BY <1>1, <1>5, Parties DEF SlugsInv
  <1>10. \A u \in DevThreads : Memory(u)'
    <2>1. \A u \in DevThreads : at'[u] \notin {"backfill", "mark", "markRecord", "unlink"}
      BY <1>5 DEF Executing
    <2> QED
      BY <1>1, <2>1, QuietMind DEF Memory
  <1>11. \A r \in Runs : FilesOf(r)'
    BY <1>1, <1>4 DEF PipeInv, FilesOf, Known, Executing, Recorded
  <1>12. EndedRunHasRecord'
    BY <1>4 DEF EndedRunHasRecord
  <1> QED
    BY <1>7, <1>8, <1>9, <1>10, <1>11, <1>12 DEF PipeInv

LEMMA OpenInv ==
  ASSUME PipeInv, OpenPipelines
  PROVE  PipeInv'
  <1>1. /\ UNCHANGED <<logs, metas, unwritten, bySlug, run, scan, pipeCrashes>> /\ serverUp' = TRUE
        /\ at' \in [DevThreads -> PipePlaces] /\ at'[Boot] = "boot" /\ \A u \in DevThreads \ {Boot} : at'[u] = at[u]
    BY Parties, InMind DEF OpenPipelines, devFiles, PipePlaces
  <1>2. \A r \in Runs : at'[r] = at[r]
    BY <1>1, Parties
  <1>3. PipeTyped'
    BY <1>1, Parties DEF PipeInv, PipeTyped, PlacesOf
  <1>4. Begun' = Begun /\ Ended' = Ended
    BY <1>2 DEF Begun, Ended
  <1>5. IdsInTurn'
    <2>1. {x \in Runs : at'[x] # "absent"} = {x \in Runs : at[x] # "absent"}
      BY <1>2
    <2> QED
      BY <2>1 DEF PipeInv, IdsInTurn
  <1>6. SlugsInv'
    BY <1>1, <1>2 DEF PipeInv, PipeTyped, SlugsInv
  <1>7. \A u \in DevThreads : Memory(u)'
    BY <1>1, <1>4 DEF PipeInv, Memory
  <1>8. \A r \in Runs : FilesOf(r)'
    BY <1>1, <1>2 DEF PipeInv, FilesOf, Known
  <1>9. EndedRunHasRecord'
    BY <1>1, <1>2 DEF PipeInv, EndedRunHasRecord
  <1> QED
    BY <1>3, <1>5, <1>6, <1>7, <1>8, <1>9 DEF PipeInv

---------------------------------------------------------------------------
(* The theorems.                                                           *)

LEMMA PipeInitInv == DevInit => PipeInv
  <1> SUFFICES ASSUME DevInit PROVE PipeInv
    OBVIOUS
  <1>1. NoLog \in LogType /\ NoLog.first = "none" /\ NoLog.last = "none"
    BY DEF NoLog, LogType
  <1>2. OfPipeline("none") \in RunType
    BY DevOpsAssumption DEF OfPipeline, RunType, Results
  <1>3. /\ \A u \in DevThreads : scan[u] = Quiet /\ at[u] \in {"absent", "rest"} /\ at[u] \in PlacesOf(u)
        /\ \A r \in Runs : at[r] = "absent" /\ logs[r] = NoLog /\ metas[r] = "none"
        /\ \A p \in Pipelines : bySlug[p] = NoRun
    BY Parties DEF DevInit, PlacesOf
  <1>4. PipeTyped
    <2>1. at \in [DevThreads -> PipePlaces] /\ scan \in [DevThreads -> ScanType]
      BY QuietMind DEF DevInit, PipePlaces
    <2>2. /\ logs \in [Runs -> LogType] /\ metas \in [Runs -> MetaType] /\ run \in [Runs -> RunType]
          /\ unwritten \subseteq Runs
      BY <1>1, <1>2 DEF DevInit, MetaType
    <2>3. bySlug \in [Pipelines -> Runs \cup {NoRun}] /\ serverUp \in BOOLEAN /\ pipeCrashes \in 0..MaxPipelineCrashes
      BY DevOpsAssumption DEF DevInit
    <2> QED
      BY <1>3, <2>1, <2>2, <2>3 DEF PipeTyped
  <1>5. IdsInTurn
    <2>1. {r \in Runs : at[r] # "absent"} = {}
      BY <1>3
    <2>2. Cardinality({}) = 0 /\ 1..0 = {}
      BY FS_EmptySet
    <2> QED
      BY <2>1, <2>2 DEF IdsInTurn
  <1>6. SlugsInv
    BY <1>3 DEF SlugsInv, Executing
  <1>7. \A u \in DevThreads : Memory(u)
    BY <1>3, QuietMind DEF Memory
  <1>8. \A r \in Runs : FilesOf(r)
    BY <1>1, <1>3 DEF FilesOf, Executing, Recorded
  <1>9. EndedRunHasRecord
    BY <1>3 DEF EndedRunHasRecord
  <1> QED
    BY <1>4, <1>5, <1>6, <1>7, <1>8, <1>9 DEF PipeInv

LEMMA PipeNextInv ==
  ASSUME PipeInv, [DevNext]_devVars
  PROVE  PipeInv'
  <1>1. ASSUME NEW t \in DevThreads, DevThread(t)
        PROVE  PipeInv'
    <2>1. CASE t \in Runs /\ executeRun(t)
      BY <2>1, BeginRunInv, StepBeginsInv, StepHangsInv, StepEndsInv, CompleteInv, RecordInv, LeavesInv DEF executeRun
    <2>2. CASE t \in DevClients /\ (CancelRun(t) \/ CancelReturns(t))
      BY <2>2, RequestInv
    <2>3. CASE ListPipelineRuns(t)
      BY <2>3, ListDirInv, BackfillInv, ListedAllInv, RemoveLogInv, ReadLogInv, PruneOneInv DEF ListPipelineRuns
    <2>4. CASE Reconcile(t)
      BY <2>4, BootInv, ReconcileSlugOrphanInv, MarkInv DEF Reconcile
    <2> QED
      BY <1>1, <2>1, <2>2, <2>3, <2>4 DEF DevThread
  <1>2. ASSUME NEW p \in Pipelines, handleRunPipeline(p)
        PROVE  PipeInv'
    BY <1>2, RunPipelineInv
  <1>3. ASSUME NEW c \in DevClients, DevRequest(c)
        PROVE  PipeInv'
    BY <1>3, RequestInv
  <1>4. CASE PipelineCrash
    BY <1>4, CrashInv
  <1>5. CASE OpenPipelines
    BY <1>5, OpenInv
  <1>6. CASE UNCHANGED devVars
    BY <1>6 DEF devVars, devFiles, devProc, PipeInv, PipeTyped, Begun, Ended, IdsInTurn, SlugsInv, Memory, FilesOf,
                Known, EndedRunHasRecord
  <1> QED
    BY <1>1, <1>2, <1>3, <1>4, <1>5, <1>6 DEF DevNext

\* The invariant of the pipelines holds in every reachable state, whichever steps hang and whichever
\* records cannot be written.
THEOREM PipeInvariance == DevSpec => []PipeInv
  <1>1. DevInit => PipeInv
    BY PipeInitInv
  <1>2. PipeInv /\ [DevNext]_devVars => PipeInv'
    BY PipeNextInv
  <1> QED
    BY <1>1, <1>2, PTL DEF DevSpec

\* Every value of the Runner, of the files and of the goroutines is of its type.
THEOREM TypeCorrect == DevSpec => []DevTypeOK
  <1>1. PipeInv => DevTypeOK
    <2> SUFFICES ASSUME PipeInv PROVE DevTypeOK
      OBVIOUS
    <2>1. \A r \in Runs : /\ run[r].slug \in Pipelines \cup {"none"} /\ run[r].step \in 0..NSteps
                          /\ run[r].status \in Results /\ run[r].cancelled \in BOOLEAN
      BY RunIs
    <2>2. \A t \in DevThreads : /\ scan[t].slug \in Pipelines \cup {"none"}
                                /\ scan[t].todo \subseteq Runs /\ scan[t].found \subseteq Runs
                                /\ scan[t].cur \in Runs \cup {NoRun}
                                /\ scan[t].got \in Results \cup {"unknown", "none"}
      BY InMind DEF ScanType, MetaType
    <2> QED
      BY <2>1, <2>2 DEF PipeInv, PipeTyped, DevTypeOK, LogType, MetaType
  <1> QED
    BY <1>1, PipeInvariance, PTL

\* A run whose handle is gone has its record (hook before deferred functions), or it is being
\* pruned, or the last attempt to write it failed.
THEOREM EndedRunHasRecordHolds == DevSpec => []EndedRunHasRecord
  <1>1. PipeInv => EndedRunHasRecord
    BY DEF PipeInv
  <1> QED
    BY <1>1, PipeInvariance, PTL

\* Whatever prunes, lists or reconciles, a run that executes keeps its log from the first entry on.
THEOREM LiveRunKeepsLogHolds == DevSpec => []LiveRunKeepsLog
  <1>1. PipeInv => LiveRunKeepsLog
    <2> SUFFICES ASSUME PipeInv, NEW r \in Live, at[r] # "begin"
                 PROVE  logs[r].first = "run.started"
      BY DEF LiveRunKeepsLog
    <2>1. r \in Runs
      BY DEF PipeInv, PipeTyped, Live
    <2> QED
      BY <2>1, LiveExecutes DEF PipeInv, FilesOf
  <1> QED
    BY <1>1, PipeInvariance, PTL

---------------------------------------------------------------------------
(* The composition.                                                        *)

\* A step of the composition is a step of one of its parts, and the other stands still.
LEMMA ServicesStep ==
  ASSUME [ServicesNext]_servicesVars
  PROVE  [DevNext]_devVars /\ [TriageNext]_triageVars
  <1>1. CASE UNCHANGED servicesVars
    BY <1>1 DEF servicesVars
  <1>2. CASE PipelineStep(DevNext)
    BY <1>2 DEF PipelineStep
  <1>3. CASE TriageStep
    BY <1>3 DEF TriageStep
  <1> QED
    BY <1>1, <1>2, <1>3 DEF ServicesNext

\* The composition of DevOps and Triage adds no behaviour to either.
THEOREM ServicesImplement == ServicesSpec => DevSpec /\ TriageSpec
  <1>1. ServicesInit => DevInit /\ TriageInit
    BY DEF ServicesInit
  <1>2. [ServicesNext]_servicesVars => [DevNext]_devVars /\ [TriageNext]_triageVars
    BY ServicesStep
  <1>3. ServicesSpec => ServicesInit /\ [][ServicesNext]_servicesVars
    BY PTL DEF ServicesSpec
  <1> QED
    BY <1>1, <1>2, <1>3, PTL DEF DevSpec, TriageSpec

\* In the composition every variable of the Runner and of Triage keeps its type.
THEOREM ServicesTypes == ServicesSpec => []ServicesTypeOK
  <1>1. DevTypeOK /\ TriageTypeOK /\ SemaphoreExact => ServicesTypeOK
    BY DEF ServicesTypeOK
  <1> QED
    BY <1>1, ServicesImplement, TypeCorrect, SemaphoreHolds, PTL

\* So the specification the run checks has its properties for every value of the constants.
THEOREM ServicesProperties ==
  ServicesSpec => [](EndedRunHasRecord /\ LiveRunKeepsLog /\ RawTextIsWrappedOnce) /\ OneAttemptAtATime
  BY ServicesImplement, EndedRunHasRecordHolds, LiveRunKeepsLogHolds, RawTextIsWrappedOnceHolds,
     OneAttemptAtATimeHolds, PTL

=============================================================================

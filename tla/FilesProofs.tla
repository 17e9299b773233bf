---------------------------- MODULE FilesProofs ----------------------------
(***************************************************************************)
(* Proofs about the parts of the server that keep files and their cached   *)
(* rows together.  The watcher, for any finite set of paths and any number *)
(* of writes: what its wait group counts, and that a Reset of a timer that *)
(* has fired is the one thing that can make it miscount.  Releases, for    *)
(* any number of names, requests and restarts: no row without a file that  *)
(* was on disk.  Artifacts, for any files, requests and callbacks: which   *)
(* rows follow their files, and what a transition may replace.             *)
(***************************************************************************)
EXTENDS MCFiles, FiniteSetTheorems, TLAPS

\* The part of FwTypeOK that the sums rest on.
WatcherType ==
  /\ armed \subseteq inMap /\ inMap \subseteq Paths
  /\ orphans \in Counts /\ starting \in Counts /\ handling \in Counts /\ ending \in Counts
  /\ wg \in Int /\ rearmed \in Nat

\* While no fired timer has been reset, Done never meets a counter at zero, and
\* the counter Wait has seen at zero stays there.
WaitHolds == rearmed = 0 => ~crashed /\ (loop = "returned" => wg = 0)

WatcherInv == WatcherType /\ WaitGroupExact /\ WaitHolds

---------------------------------------------------------------------------
(* Sums over the paths.                                                    *)

LEMMA UnitsOf ==
  ASSUME NEW f \in Counts
  PROVE  \A p, n : <<p, n>> \in Units(f) <=> p \in Paths /\ n \in 1..f[p]
  BY DEF Units

LEMMA UnitsFinite ==
  ASSUME NEW f \in Counts
  PROVE  IsFiniteSet(Units(f)) /\ Sum(f) \in Nat
  <1> DEFINE of  == [p \in Paths |-> {p} \X (1..f[p])]
             all == {{p} \X (1..f[p]) : p \in Paths}
  <1>1. of \in Surjection(Paths, all)
    BY DEF Surjection
  <1>2. IsFiniteSet(all)
    BY <1>1, FS_Surjection, WatcherAssumption
  <1>3. \A p \in Paths : IsFiniteSet({p} \X (1..f[p]))
    <2>1. \A p \in Paths : f[p] \in Int
      BY DEF Counts
    <2>2. \A p \in Paths : IsFiniteSet({p}) /\ IsFiniteSet(1..f[p])
      BY <2>1, FS_Singleton, FS_Interval
    <2> QED
      BY <2>2, FS_Product
  <1>4. \A T \in all : IsFiniteSet(T)
    BY <1>3
  <1> HIDE DEF all
  <1>5. IsFiniteSet(UNION all)
    BY <1>2, <1>4, FS_UNION
  <1> USE DEF all
  <1>6. IsFiniteSet(Units(f))
    BY <1>5 DEF Units
  <1> QED
    BY <1>6, FS_CardinalityType DEF Sum

LEMMA SumPlus ==
  ASSUME NEW f \in Counts, NEW p \in Paths
  PROVE  Plus(f, p) \in Counts /\ Sum(Plus(f, p)) = Sum(f) + 1
  <1> DEFINE g == Plus(f, p)
             u == <<p, f[p] + 1>>
  <1>1. g \in Counts /\ g[p] = f[p] + 1 /\ \A q \in Paths \ {p} : g[q] = f[q]
    BY DEF Plus, Counts
  <1>2. f[p] \in Nat
    BY DEF Counts
  <1> HIDE DEF g
  <1>3. \A q, n : <<q, n>> \in Units(g) <=> <<q, n>> \in Units(f) \/ <<q, n>> = u
    <2>1. 1..(f[p] + 1) = (1..f[p]) \cup {f[p] + 1}
      BY <1>2
    <2> QED
      BY <1>1, <2>1, UnitsOf
  <1>4. \A x \in Units(f) \cup Units(g) : \E q, n : x = <<q, n>>
    BY DEF Units
  <1>5. Units(g) = Units(f) \cup {u}
    BY <1>3, <1>4
  <1>6. u \notin Units(f)
    BY <1>2, UnitsOf
  <1>7. Sum(g) = Sum(f) + 1
    BY <1>5, <1>6, UnitsFinite, FS_AddElement DEF Sum
  <1> QED
    BY <1>1, <1>7 DEF g

LEMMA SumMinus ==
  ASSUME NEW f \in Counts, NEW p \in Paths, f[p] > 0
  PROVE  /\ Minus(f, p) \in Counts /\ Sum(Minus(f, p)) = Sum(f) - 1
         /\ Sum(Minus(f, p)) \in Nat
  <1> DEFINE g == Minus(f, p)
  <1>1. g \in Counts /\ g[p] = f[p] - 1 /\ \A q \in Paths \ {p} : g[q] = f[q]
    BY DEF Minus, Counts
  <1>2. f[p] \in Nat
    BY DEF Counts
  <1>3. Plus(g, p) = [q \in Paths |-> IF q = p THEN g[p] + 1 ELSE g[q]]
    BY <1>1 DEF Plus, Counts
  <1>4. Plus(g, p) = [q \in Paths |-> f[q]]
    BY <1>1, <1>2, <1>3
  <1>5. Plus(g, p) = f
    BY <1>4 DEF Counts
  <1>6. Sum(Plus(g, p)) = Sum(g) + 1 /\ Sum(g) \in Nat
    BY <1>1, SumPlus, UnitsFinite
  <1> QED
    BY <1>1, <1>5, <1>6

LEMMA PathsFinite ==
  ASSUME NEW S, S \subseteq Paths
  PROVE  IsFiniteSet(S) /\ Cardinality(S) \in Nat
  BY FS_Subset, FS_CardinalityType, WatcherAssumption

LEMMA DisjointUnion ==
  ASSUME NEW S, NEW T, IsFiniteSet(S), IsFiniteSet(T), S \cap T = {}
  PROVE  Cardinality(S \cup T) = Cardinality(S) + Cardinality(T)
  <1>1. Cardinality(S \cap T) = 0 /\ Cardinality(S) \in Nat /\ Cardinality(T) \in Nat
    BY FS_EmptySet, FS_CardinalityType
  <1>2. Cardinality(S \cup T) = Cardinality(S) + Cardinality(T) - Cardinality(S \cap T)
    BY FS_Union
  <1> QED
    BY <1>1, <1>2

---------------------------------------------------------------------------
(* The steps.                                                              *)

\* What the wait group counts, taken apart.
LEMMA Counted ==
  ASSUME WatcherInv
  PROVE  /\ Cardinality(armed) \in Nat /\ IsFiniteSet(armed)
         /\ Sum(orphans) \in Nat /\ Sum(starting) \in Nat /\ Sum(handling) \in Nat /\ Sum(ending) \in Nat
         /\ wg = (Cardinality(armed) + Sum(orphans) + (Sum(starting) + Sum(handling) + Sum(ending))) - rearmed
         /\ rearmed \in Nat /\ wg \in Int
  BY PathsFinite, UnitsFinite DEF WatcherInv, WatcherType, WaitGroupExact, Pending, InFlight

\* Every path of fire arms a timer that was not running: it adds to the wait group, or
\* resets a timer that has fired, and then it is the history that counts it.
LEMMA FireInv ==
  ASSUME WatcherInv, NEW ps, ps \subseteq Paths, fire(ps), Running,
         UNCHANGED <<loop, orphans, callbacks, crashed>>
  PROVE  WatcherInv'
  <1> DEFINE new   == ps \ inMap
             fired == (ps \cap inMap) \ armed
  <1>1. /\ inMap' = inMap \cup ps /\ armed' = armed \cup ps
        /\ wg' = wg + Cardinality(new) /\ rearmed' = rearmed + Cardinality(fired)
        /\ UNCHANGED <<loop, orphans, starting, handling, ending, crashed>>
    BY DEF fire, callbacks
  <1>2. WatcherType /\ armed \subseteq Paths
    BY DEF WatcherInv, WatcherType
  <1>3. /\ IsFiniteSet(armed) /\ IsFiniteSet(new) /\ IsFiniteSet(fired)
        /\ IsFiniteSet(armed \cup new)
        /\ Cardinality(armed) \in Nat /\ Cardinality(new) \in Nat /\ Cardinality(fired) \in Nat
    BY <1>2, PathsFinite
  <1>4. /\ armed' = (armed \cup new) \cup fired
        /\ armed \cap new = {} /\ (armed \cup new) \cap fired = {}
    BY <1>1, <1>2 DEF WatcherType
  <1> HIDE DEF new, fired
  <1>5. Cardinality(armed \cup new) = Cardinality(armed) + Cardinality(new)
    BY <1>3, <1>4, DisjointUnion
  <1>6. Cardinality(armed') = Cardinality(armed \cup new) + Cardinality(fired)
    BY <1>3, <1>4, DisjointUnion
  <1>7. WatcherType'
    BY <1>1, <1>2, <1>3 DEF WatcherType
  <1>8. WaitGroupExact'
    BY <1>1, <1>3, <1>5, <1>6, Counted DEF WaitGroupExact, Pending, InFlight
  <1>9. WaitHolds'
    BY <1>1, <1>2, <1>3 DEF WatcherInv, WaitHolds, Running, WatcherType
  <1> QED
    BY <1>7, <1>8, <1>9 DEF WatcherInv

LEMMA FiresInv ==
  ASSUME WatcherInv, NEW p \in Paths, Fires(p)
  PROVE  WatcherInv'
  <1>1. /\ ~crashed /\ starting' = Plus(starting, p) /\ WatcherType
        /\ UNCHANGED <<loop, inMap, handling, ending, wg, crashed, rearmed>>
    BY DEF Fires, WatcherInv
  <1>2. starting' \in Counts /\ Sum(starting') = Sum(starting) + 1
    BY <1>1, SumPlus DEF WatcherType
  <1>3. CASE p \in armed /\ armed' = armed \ {p} /\ UNCHANGED orphans
    <2>1. Cardinality(armed') = Cardinality(armed) - 1
      BY <1>3, Counted, FS_RemoveElement
    <2>2. WatcherType'
      BY <1>1, <1>2, <1>3 DEF WatcherType
    <2>3. WaitGroupExact'
      BY <1>1, <1>2, <1>3, <2>1, Counted DEF WaitGroupExact, Pending, InFlight
    <2> QED
      BY <1>1, <2>2, <2>3 DEF WatcherInv, WaitHolds
  <1>4. CASE orphans[p] > 0 /\ orphans' = Minus(orphans, p) /\ UNCHANGED armed
    <2>1. orphans' \in Counts /\ Sum(orphans') = Sum(orphans) - 1
      BY <1>1, <1>4, SumMinus DEF WatcherType
    <2>2. WatcherType'
      BY <1>1, <1>2, <1>4, <2>1 DEF WatcherType
    <2>3. WaitGroupExact'
      BY <1>1, <1>2, <1>4, <2>1, Counted DEF WaitGroupExact, Pending, InFlight
    <2> QED
      BY <1>1, <2>2, <2>3 DEF WatcherInv, WaitHolds
  <1> QED
    BY <1>3, <1>4 DEF Fires

\* The callback deletes whatever timer the map holds for its path: a running one goes on as
\* an orphan, and keeps its count.
LEMMA LeaveMapInv ==
  ASSUME WatcherInv, NEW p \in Paths, LeaveMap(p)
  PROVE  WatcherInv'
  <1>1. /\ starting[p] > 0 /\ starting' = Minus(starting, p) /\ handling' = Plus(handling, p)
        /\ inMap' = inMap \ {p} /\ armed' = armed \ {p} /\ WatcherType
        /\ orphans' = IF p \in armed THEN Plus(orphans, p) ELSE orphans
        /\ UNCHANGED <<loop, ending, wg, crashed, rearmed>>
    BY DEF LeaveMap, WatcherInv
  <1>2. /\ starting' \in Counts /\ Sum(starting') = Sum(starting) - 1
        /\ handling' \in Counts /\ Sum(handling') = Sum(handling) + 1
    BY <1>1, SumPlus, SumMinus DEF WatcherType
  <1>3. /\ orphans' \in Counts
        /\ Cardinality(armed') + Sum(orphans') = Cardinality(armed) + Sum(orphans)
        /\ Cardinality(armed') \in Nat /\ Sum(orphans') \in Nat
    <2>1. CASE p \in armed
      <3>1. Cardinality(armed') = Cardinality(armed) - 1
        BY <1>1, <2>1, Counted, FS_RemoveElement
      <3>2. orphans' \in Counts /\ Sum(orphans') = Sum(orphans) + 1
        BY <1>1, <2>1, SumPlus DEF WatcherType
      <3>3. Cardinality(armed') \in Nat
        BY <1>1, PathsFinite DEF WatcherType
      <3> QED
        BY <3>1, <3>2, <3>3, Counted
    <2>2. CASE p \notin armed
      <3>1. armed' = armed /\ orphans' = orphans
        BY <1>1, <2>2
      <3> QED
        BY <1>1, <3>1, Counted DEF WatcherType
    <2> QED
      BY <2>1, <2>2
  <1>4. WatcherType'
    BY <1>1, <1>2, <1>3 DEF WatcherType
  <1>5. WaitGroupExact'
    BY <1>1, <1>2, <1>3, Counted DEF WaitGroupExact, Pending, InFlight
  <1> QED
    BY <1>1, <1>4, <1>5 DEF WatcherInv, WaitHolds

LEMMA ReadFileInv ==
  ASSUME WatcherInv, NEW p \in Paths, ReadFile(p)
  PROVE  WatcherInv'
  <1>1. /\ handling[p] > 0 /\ handling' = Minus(handling, p) /\ ending' = Plus(ending, p)
        /\ WatcherType
        /\ UNCHANGED <<loop, inMap, armed, orphans, starting, wg, crashed, rearmed>>
    BY DEF ReadFile, WatcherInv
  <1>2. /\ handling' \in Counts /\ Sum(handling') = Sum(handling) - 1
        /\ ending' \in Counts /\ Sum(ending') = Sum(ending) + 1
    BY <1>1, SumPlus, SumMinus DEF WatcherType
  <1>3. WatcherType'
    BY <1>1, <1>2 DEF WatcherType
  <1>4. WaitGroupExact'
    BY <1>1, <1>2, Counted DEF WaitGroupExact, Pending, InFlight
  <1> QED
    BY <1>1, <1>3, <1>4 DEF WatcherInv, WaitHolds

\* A Done that finds the counter at zero is one more callback than were counted.
LEMMA DoneInv ==
  ASSUME WatcherInv, NEW p \in Paths, Done(p)
  PROVE  WatcherInv'
  <1>1. /\ ending[p] > 0 /\ ending' = Minus(ending, p) /\ wg' = wg - 1 /\ crashed' = (wg = 0)
        /\ WatcherType
        /\ UNCHANGED <<loop, inMap, armed, orphans, starting, handling, rearmed>>
    BY DEF Done, WatcherInv
  <1>2. ending' \in Counts /\ Sum(ending') = Sum(ending) - 1 /\ Sum(ending') \in Nat
    BY <1>1, SumMinus DEF WatcherType
  <1>3. WatcherType'
    BY <1>1, <1>2 DEF WatcherType
  <1>4. WaitGroupExact'
    BY <1>1, <1>2, Counted DEF WaitGroupExact, Pending, InFlight
  <1>5. WaitHolds'
    <2>1. rearmed = 0 => wg > 0
      BY <1>2, Counted
    <2>2. loop # "returned" \/ rearmed # 0
      BY <2>1 DEF WatcherInv, WaitHolds
    <2> QED
      <3>1. rearmed = 0 => wg # 0
        BY <2>1, Counted
      <3>2. rearmed' = 0 => ~crashed' /\ loop' # "returned"
        BY <1>1, <2>2, <3>1
      <3> QED
        BY <3>2 DEF WaitHolds
  <1> QED
    BY <1>3, <1>4, <1>5 DEF WatcherInv

LEMMA StopTimersInv == WatcherInv /\ StopTimers => WatcherInv'
  <1> SUFFICES ASSUME WatcherInv, StopTimers PROVE WatcherInv'
    OBVIOUS
  <1>1. /\ loop' = "exiting" /\ wg' = wg - Cardinality(armed) /\ crashed' = (wg < Cardinality(armed))
        /\ inMap' = {} /\ armed' = {} /\ WatcherType
        /\ UNCHANGED <<orphans, starting, handling, ending, rearmed>>
    BY DEF StopTimers, callbacks, WatcherInv
  <1>2. Cardinality(armed') = 0
    BY <1>1, FS_EmptySet
  <1>3. WatcherType'
    BY <1>1, Counted DEF WatcherType
  <1>4. WaitGroupExact'
    BY <1>1, <1>2, Counted DEF WaitGroupExact, Pending, InFlight
  <1>5. WaitHolds'
    <2>1. rearmed = 0 => ~(wg < Cardinality(armed))
      BY Counted
    <2> QED
      BY <1>1, <2>1 DEF WaitHolds
  <1> QED
    BY <1>3, <1>4, <1>5 DEF WatcherInv

\* Steps that no timer and no callback takes part in.
LEMMA StillInv ==
  ASSUME WatcherInv, UNCHANGED <<inMap, armed, orphans, callbacks, wg, crashed, rearmed>>,
         loop' = "returned" => loop = "returned" \/ wg = 0
  PROVE  WatcherInv'
  <1>1. UNCHANGED <<inMap, armed, orphans, starting, handling, ending, wg, crashed, rearmed>>
    BY DEF callbacks
  <1>2. WatcherType'
    BY <1>1 DEF WatcherInv, WatcherType
  <1>3. WaitGroupExact'
    BY <1>1 DEF WatcherInv, WaitGroupExact, Pending, InFlight
  <1>4. WaitHolds'
    BY <1>1 DEF WatcherInv, WaitHolds
  <1> QED
    BY <1>2, <1>3, <1>4 DEF WatcherInv

LEMMA LoopInv == WatcherInv /\ Loop => WatcherInv'
  <1> SUFFICES ASSUME WatcherInv, Loop PROVE WatcherInv'
    OBVIOUS
  <1>1. CASE AddFolder
    BY <1>1, StillInv DEF AddFolder
  <1>2. CASE WalkFolder
    <2>1. PICK found \in SUBSET Nested : fire(found)
      BY <1>2 DEF WalkFolder
    <2>2. found \subseteq Paths
      BY WatcherAssumption
    <2> QED
      BY <1>2, <2>1, <2>2, FireInv DEF WalkFolder
  <1>3. ASSUME NEW p \in Paths, ReadEvent(p)
        PROVE  WatcherInv'
    <2>1. {p} \subseteq Paths /\ fire({p})
      BY <1>3 DEF ReadEvent
    <2> QED
      BY <1>3, <2>1, FireInv DEF ReadEvent
  <1> QED
    BY <1>1, <1>2, <1>3 DEF Loop

LEMMA WatcherNextInv ==
  ASSUME WatcherInv, [FwNext]_fwVars
  PROVE  WatcherInv'
  <1>1. CASE UNCHANGED fwVars
    BY <1>1, StillInv DEF fwVars
  <1>2. ASSUME NEW p \in Paths, Write(p) \/ Callback(p)
        PROVE  WatcherInv'
    <2>1. CASE Write(p)
      BY <2>1, StillInv DEF Write
    <2>2. CASE Callback(p)
      BY <2>2, FiresInv, LeaveMapInv, ReadFileInv, DoneInv DEF Callback
    <2> QED
      BY <1>2, <2>1, <2>2
  <1>3. CASE MakeFolder \/ Return
    BY <1>3, StillInv DEF MakeFolder, Return
  <1>4. CASE Loop \/ StopTimers
    BY <1>4, LoopInv, StopTimersInv
  <1> QED
    BY <1>1, <1>2, <1>3, <1>4 DEF FwNext

LEMMA WatcherInitInv == FwInit => WatcherInv
  <1> SUFFICES ASSUME FwInit PROVE WatcherInv
    OBVIOUS
  <1>1. /\ loop = "running" /\ inMap = {} /\ armed = {} /\ wg = 0 /\ crashed = FALSE /\ rearmed = 0
        /\ orphans = [p \in Paths |-> 0] /\ starting = orphans /\ handling = orphans /\ ending = orphans
    BY DEF FwInit
  <1>2. orphans \in Counts
    BY <1>1 DEF Counts
  <1>3. Units(orphans) = {}
    BY <1>1 DEF Units
  <1>4. Sum(orphans) = 0 /\ Cardinality(armed) = 0
    BY <1>1, <1>3, FS_EmptySet DEF Sum
  <1>5. WatcherType
    BY <1>1, <1>2 DEF WatcherType
  <1>6. WaitGroupExact
    BY <1>1, <1>4 DEF WaitGroupExact, Pending, InFlight
  <1> QED
    BY <1>1, <1>5, <1>6 DEF WatcherInv, WaitHolds

LEMMA ZeroSum ==
  ASSUME NEW a \in Nat, NEW b \in Nat, a + b = 0
  PROVE  a = 0 /\ b = 0
  OBVIOUS

---------------------------------------------------------------------------
(* The theorems.                                                           *)

\* The invariant of the watcher.
THEOREM WatcherInvariance == FwSpec => []WatcherInv
  <1>1. WatcherInv /\ [FwNext]_fwVars => WatcherInv'
    BY WatcherNextInv
  <1> QED
    BY <1>1, WatcherInitInv, PTL DEF FwSpec

\* What FwTypeOK says besides.
WatcherRest ==
  /\ loop \in {"running", "exiting", "returned"}
  /\ folder \in {"none", "new", "walk", "watched", "missed"}
  /\ unread \subseteq Paths /\ stale \subseteq Paths
  /\ crashed \in BOOLEAN /\ writes \in 0..MaxWrites

LEMMA WatcherRestStep ==
  ASSUME WatcherRest, WatcherInv, [FwNext]_fwVars
  PROVE  WatcherRest'
  <1>1. WatcherRest
    OBVIOUS
  <1>2. CASE UNCHANGED fwVars
    BY <1>1, <1>2 DEF WatcherRest, fwVars
  <1>3. ASSUME NEW p \in Paths, Write(p)
        PROVE  WatcherRest'
    <2>1. /\ writes < MaxWrites /\ writes' = writes + 1 /\ writes \in Nat
          /\ stale' = stale \cup {p} /\ unread' \subseteq unread \cup {p}
          /\ UNCHANGED <<loop, folder, crashed>>
      BY <1>1, <1>3, WatcherAssumption DEF Write, WatcherRest
    <2>2. writes' \in 0..MaxWrites
      BY <2>1, WatcherAssumption
    <2> QED
      BY <1>1, <2>1, <2>2 DEF WatcherRest
  <1>4. ASSUME NEW p \in Paths, Callback(p)
        PROVE  WatcherRest'
    <2>1. CASE Fires(p)
      BY <1>1, <2>1 DEF WatcherRest, Fires
    <2>2. CASE LeaveMap(p)
      BY <1>1, <2>2 DEF WatcherRest, LeaveMap
    <2>3. CASE ReadFile(p)
      BY <1>1, <2>3 DEF WatcherRest, ReadFile
    <2>4. CASE Done(p)
      BY <1>1, <2>4 DEF WatcherRest, Done
    <2> QED
      BY <1>4, <2>1, <2>2, <2>3, <2>4 DEF Callback
  <1>5. CASE MakeFolder
    BY <1>1, <1>5 DEF WatcherRest, MakeFolder
  <1>6. CASE Loop
    <2>1. CASE AddFolder
      BY <1>1, <2>1 DEF WatcherRest, AddFolder
    <2>2. CASE WalkFolder
      BY <1>1, <2>2 DEF WatcherRest, WalkFolder
    <2>3. ASSUME NEW p \in Paths, ReadEvent(p)
          PROVE  WatcherRest'
      BY <1>1, <2>3 DEF WatcherRest, ReadEvent
    <2> QED
      BY <1>6, <2>1, <2>2, <2>3 DEF Loop
  <1>7. CASE StopTimers
    BY <1>1, <1>7 DEF WatcherRest, StopTimers
  <1>8. CASE Return
    BY <1>1, <1>8 DEF WatcherRest, Return
  <1> QED
    BY <1>2, <1>3, <1>4, <1>5, <1>6, <1>7, <1>8 DEF FwNext

LEMMA WatcherRestInit == FwInit => WatcherRest
  <1>1. 0 \in 0..MaxWrites
    BY WatcherAssumption
  <1>2. FwInit => /\ loop = "running" /\ folder = "none" /\ unread = {} /\ stale = {}
                  /\ crashed = FALSE /\ writes = 0
    BY DEF FwInit
  <1> QED
    BY <1>1, <1>2 DEF WatcherRest

LEMMA WatcherTyped == WatcherInv /\ WatcherRest => FwTypeOK
  BY DEF WatcherInv, WatcherType, WatcherRest, FwTypeOK

\* The watcher's variables have their types: no timer or callback ends that did not start,
\* and every timer that runs for the map is in it.
THEOREM WatcherTypes == FwSpec => []FwTypeOK
  <1>1. WatcherRest /\ WatcherInv /\ [FwNext]_fwVars => WatcherRest'
    BY WatcherRestStep
  <1>2. FwSpec => FwInit /\ [][FwNext]_fwVars
    BY PTL DEF FwSpec
  <1> QED
    BY <1>1, <1>2, WatcherRestInit, WatcherTyped, WatcherInvariance, PTL

\* The wait group counts every timer and callback of the watcher once, but for those a Reset
\* of a fired timer adds.
THEOREM WaitGroupExactHolds == FwSpec => []WaitGroupExact
  <1>1. WatcherInv => WaitGroupExact
    BY DEF WatcherInv
  <1> QED
    BY <1>1, WatcherInvariance, PTL

\* Start keeps its promise, and its counter never goes negative, as long as fire has not
\* reset a timer whose callback had started: that race is the only way to break either.
ResetsAreTheOnlyHazard == rearmed = 0 => ~crashed /\ SafeToClose

\* What Start says of its return is true of every behaviour without such a Reset.
THEOREM SafeWithoutLateResets == FwSpec => []ResetsAreTheOnlyHazard
  <1>1. ASSUME WatcherInv, rearmed = 0
        PROVE  ~crashed /\ SafeToClose
    <2>1. ~crashed /\ (loop = "returned" => wg = 0)
      BY <1>1 DEF WatcherInv, WaitHolds
    <2>2. ASSUME loop = "returned"
          PROVE  Sum(starting) = 0 /\ Sum(handling) = 0 /\ Sum(ending) = 0
      <3>1. wg = 0
        BY <2>1, <2>2
      <3>2. /\ Cardinality(armed) \in Nat /\ Sum(orphans) \in Nat /\ Sum(starting) \in Nat
            /\ Sum(handling) \in Nat /\ Sum(ending) \in Nat
            /\ Cardinality(armed) + Sum(orphans) + (Sum(starting) + Sum(handling) + Sum(ending)) = 0
        BY <1>1, <3>1, Counted
      <3>3. /\ Cardinality(armed) + Sum(orphans) \in Nat /\ Sum(starting) + Sum(handling) \in Nat
            /\ Sum(starting) + Sum(handling) + Sum(ending) \in Nat
        BY <3>2
      <3>4. Sum(starting) + Sum(handling) + Sum(ending) = 0
        BY <3>2, <3>3, ZeroSum
      <3>5. Sum(starting) + Sum(handling) = 0 /\ Sum(ending) = 0
        BY <3>2, <3>3, <3>4, ZeroSum
      <3> QED
        BY <3>2, <3>5, ZeroSum
    <2> QED
      BY <2>1, <2>2 DEF SafeToClose, InFlight
  <1>2. WatcherInv => ResetsAreTheOnlyHazard
    BY <1>1 DEF ResetsAreTheOnlyHazard
  <1> QED
    BY <1>2, WatcherInvariance, PTL

---------------------------------------------------------------------------
(* Releases: what the rows were made from.                                 *)

\* What a file says that a request writes.
Wish(c) == [title |-> req[c].name, ver |-> req[c].ver]

\* A request of a client has been checked; once it is past Put, its file has been on disk.
ClientInv(c) ==
  /\ at[c] # "idle" => req[c].op # "none" /\ req[c].old \in Slugs
  /\ at[c] \in {"expect", "put"} => req[c].op # "delete"
  /\ at[c] # "idle" /\ req[c].op # "delete" =>
       req[c].name \in Names /\ req[c].slug \in Slugs /\ req[c].ver \in Versions
  /\ at[c] \in {"expectOld", "remove", "store"} /\ req[c].op # "delete" =>
       <<req[c].slug, Wish(c)>> \in written

\* What a handler has read was there.
HandlerInv(h) ==
  /\ handler[h].at # "idle" => handler[h].slug \in Slugs
  /\ handler[h].at = "store" /\ handler[h].file # NoFile =>
       <<handler[h].slug, handler[h].file>> \in written

DiskInv == \A s \in Slugs : disk[s] \in Valid => <<s, disk[s]>> \in written

LoadInv == load.at = "store" => <<load.slug, load.file>> \in written

\* Rehydrate, left alone, has read what is on disk, and the rows of the files it has seen
\* say the same.
LoadFresh ==
  ~disturbed /\ load.at \in {"read", "store"} =>
    /\ load.at = "store" => disk[load.slug] = load.file
    /\ \A r \in table : r.slug \in load.seen => disk[r.slug] = [title |-> r.name, ver |-> r.ver]

RelInv ==
  /\ RelTypeOK /\ RowsWereOnDisk /\ DiskInv /\ LoadInv /\ LoadFresh
  /\ \A c \in RelClients : ClientInv(c)
  /\ \A h \in Handlers : HandlerInv(h)

LEMMA ValidFiles ==
  /\ Valid \subseteq Files /\ NoFile \in Files /\ NoFile \notin Valid /\ Broken \notin Valid
  /\ \A f \in Files : f \notin Valid => f = NoFile \/ f = Broken
  <1>1. NoName \notin Names
    BY DEF Names, NoName
  <1> QED
    BY <1>1 DEF Files, Valid, NoFile, Broken

LEMMA UpsertRows ==
  ASSUME RelTypeOK, RowsWereOnDisk, NEW slug \in Slugs, NEW file \in Valid,
         <<slug, file>> \in written', written \subseteq written',
         CanUpsert(slug, file), Upsert(slug, file)
  PROVE  /\ table' \subseteq Rows /\ lastId' \in 0..MaxId /\ RowsWereOnDisk'
         /\ \A r \in table' : \/ r \in table /\ r.slug # slug
                              \/ r.slug = slug /\ [title |-> r.name, ver |-> r.ver] = file
  <1> DEFINE same == {r \in table : r.name = file.title}
             moved == {[r EXCEPT !.slug = slug, !.ver = file.ver] : r \in same}
             new == [id |-> lastId + 1, name |-> file.title, slug |-> slug, ver |-> file.ver]
  <1>1. /\ table \subseteq Rows /\ lastId \in 0..MaxId /\ MaxId \in Nat
        /\ file.title \in Names /\ file.ver \in Versions
        /\ file = [title |-> file.title, ver |-> file.ver]
    BY ReleasesAssumption DEF RelTypeOK, Valid
  <1>2. \A r \in table : r.slug = slug => r \in same
    BY DEF CanUpsert
  <1>3. ASSUME NEW r \in same
        PROVE  LET m == [r EXCEPT !.slug = slug, !.ver = file.ver]
               IN m \in Rows /\ m.name = file.title /\ m.slug = slug /\ m.ver = file.ver
    BY <1>1 DEF Rows
  <1>4. CASE same = {}
    <2>1. lastId < MaxId /\ table' = table \cup {new} /\ lastId' = lastId + 1
      BY <1>4 DEF CanUpsert, Upsert
    <2>2. new \in Rows /\ lastId' \in 0..MaxId
      BY <1>1, <2>1 DEF Rows
    <2>3. \A r \in table' : \/ r \in table /\ r.slug # slug
                            \/ r.slug = slug /\ r.name = file.title /\ r.ver = file.ver
      BY <1>2, <1>4, <2>1
    <2>4. RowsWereOnDisk'
      BY <1>1, <2>3 DEF RowsWereOnDisk
    <2> QED
      BY <1>1, <2>1, <2>2, <2>3, <2>4
  <1>5. CASE same # {}
    <2>1. table' = (table \ same) \cup moved /\ lastId' = lastId
      BY <1>5 DEF Upsert
    <2>2. moved \subseteq Rows
      BY <1>3
    <2>3. \A r \in table' : \/ r \in table /\ r.slug # slug
                            \/ r.slug = slug /\ r.name = file.title /\ r.ver = file.ver
      BY <1>2, <1>3, <2>1
    <2>4. RowsWereOnDisk'
      BY <1>1, <2>3 DEF RowsWereOnDisk
    <2> QED
      BY <1>1, <2>1, <2>2, <2>3, <2>4
  <1> QED
    BY <1>4, <1>5

---------------------------------------------------------------------------
(* What a step leaves alone keeps its part of the invariant.               *)

LEMMA PartsKept ==
  ASSUME RelInv, written \subseteq written'
  PROVE  /\ \A c \in RelClients : at'[c] = at[c] /\ req'[c] = req[c] => ClientInv(c)'
         /\ \A h \in Handlers : handler'[h] = handler[h] => HandlerInv(h)'
         /\ load' = load => LoadInv'
         /\ table' = table => RowsWereOnDisk'
         /\ disk' = disk => DiskInv'
         /\ disturbed' => LoadFresh'
  <1>1. ASSUME NEW c \in RelClients, at'[c] = at[c], req'[c] = req[c]
        PROVE  ClientInv(c)'
    BY <1>1 DEF RelInv, ClientInv, Wish
  <1>2. ASSUME NEW h \in Handlers, handler'[h] = handler[h]
        PROVE  HandlerInv(h)'
    BY <1>2 DEF RelInv, HandlerInv
  <1>3. load' = load => LoadInv'
    BY DEF RelInv, LoadInv
  <1>4. table' = table => RowsWereOnDisk'
    BY DEF RelInv, RowsWereOnDisk
  <1>5. disk' = disk => DiskInv'
    BY DEF RelInv, DiskInv
  <1>6. disturbed' => LoadFresh'
    BY DEF LoadFresh
  <1> QED
    BY <1>1, <1>2, <1>3, <1>4, <1>5, <1>6

LEMMA ChangeFacts ==
  ASSUME RelInv, NEW slug \in Slugs, NEW file \in Files, Change(slug, file)
  PROVE  /\ disk' \in [Slugs -> Files] /\ dir' \in {"none", "new", "watched"}
         /\ events' \subseteq Slugs /\ written' \subseteq Slugs \X Valid
         /\ written \subseteq written' /\ DiskInv'
         /\ file \in Valid => <<slug, file>> \in written'
  <1>1. /\ disk \in [Slugs -> Files] /\ dir \in {"none", "new", "watched"} /\ events \subseteq Slugs
        /\ written \subseteq Slugs \X Valid
    BY DEF RelInv, RelTypeOK
  <1>2. disk' \in [Slugs -> Files] /\ disk'[slug] = file /\ \A s \in Slugs \ {slug} : disk'[s] = disk[s]
    BY <1>1 DEF Change
  <1>3. dir' \in {"none", "new", "watched"} /\ events' \subseteq Slugs
    BY <1>1 DEF Change
  <1>4. /\ written' \subseteq Slugs \X Valid /\ written \subseteq written'
        /\ file \in Valid => <<slug, file>> \in written'
    BY <1>1 DEF Change
  <1>5. DiskInv'
    BY <1>2, <1>4 DEF RelInv, DiskInv
  <1> QED
    BY <1>2, <1>3, <1>4, <1>5

Places == {"idle", "expect", "put", "expectOld", "remove", "store"}

LEMMA StepFacts ==
  ASSUME RelInv, NEW c \in RelClients, NEW place \in Places, Step(c, place)
  PROVE  /\ at' \in [RelClients -> Places] /\ at'[c] = place
         /\ \A d \in RelClients \ {c} : at'[d] = at[d]
  BY DEF RelInv, RelTypeOK, Step, Places

LEMMA ReplyFacts ==
  ASSUME RelInv, NEW c \in RelClients, Reply(c)
  PROVE  /\ at' \in [RelClients -> Places] /\ req' \in [RelClients -> Requests]
         /\ ClientInv(c)' /\ \A d \in RelClients \ {c} : at'[d] = at[d] /\ req'[d] = req[d]
  <1>1. at' \in [RelClients -> Places] /\ at'[c] = "idle" /\ \A d \in RelClients \ {c} : at'[d] = at[d]
    BY StepFacts DEF Reply, Places
  <1>2. NoRequest \in Requests
    BY ReleasesAssumption DEF NoRequest, Requests
  <1>3. req' \in [RelClients -> Requests] /\ \A d \in RelClients \ {c} : req'[d] = req[d]
    BY <1>2 DEF Reply, RelInv, RelTypeOK
  <1> QED
    BY <1>1, <1>3 DEF ClientInv

\* A step of a client.
LEMMA ClientKeeps ==
  ASSUME RelInv, NEW c \in RelClients,
         at' \in [RelClients -> Places], req' \in [RelClients -> Requests], ClientInv(c)',
         \A d \in RelClients \ {c} : at'[d] = at[d] /\ req'[d] = req[d],
         UNCHANGED <<timers, handler, load, edits, restarts>>, disturbed' = TRUE,
         requests' \in 0..MaxRequests,
         disk' \in [Slugs -> Files], dir' \in {"none", "new", "watched"},
         events' \subseteq Slugs, expected' \subseteq Slugs,
         written' \subseteq Slugs \X Valid, written \subseteq written', DiskInv',
         table' \subseteq Rows, lastId' \in 0..MaxId, RowsWereOnDisk'
  PROVE  RelInv'
  <1>1. RelTypeOK'
    BY DEF RelInv, RelTypeOK, Places
  <1>2. \A d \in RelClients : ClientInv(d)'
    BY PartsKept
  <1>3. (\A h \in Handlers : HandlerInv(h)') /\ LoadInv' /\ LoadFresh'
    BY PartsKept
  <1> QED
    BY <1>1, <1>2, <1>3 DEF RelInv

LEMMA RelTypes ==
  RelInv => /\ disk \in [Slugs -> Files] /\ dir \in {"none", "new", "watched"}
            /\ table \subseteq Rows /\ lastId \in 0..MaxId
            /\ expected \subseteq Slugs /\ events \subseteq Slugs /\ timers \subseteq Slugs
            /\ written \subseteq Slugs \X Valid
            /\ at \in [RelClients -> Places] /\ req \in [RelClients -> Requests]
            /\ requests \in 0..MaxRequests /\ MaxRequests \in Nat
            /\ RowsWereOnDisk /\ DiskInv
  BY ReleasesAssumption DEF RelInv, RelTypeOK, Places

LEMMA BeginInv ==
  ASSUME RelInv, NEW c \in RelClients, NEW place \in {"expect", "expectOld"}, NEW q \in Requests,
         Begin(c, place, q),
         q.op # "none" /\ q.old \in Slugs,
         IF q.op = "delete" THEN place = "expectOld"
         ELSE place = "expect" /\ q.name \in Names /\ q.slug \in Slugs /\ q.ver \in Versions
  PROVE  RelInv'
  <1>1. at' \in [RelClients -> Places] /\ at'[c] = place /\ \A d \in RelClients \ {c} : at'[d] = at[d]
    BY StepFacts DEF Begin, Places
  <1>2. /\ req' \in [RelClients -> Requests] /\ req'[c] = q
        /\ \A d \in RelClients \ {c} : req'[d] = req[d]
    BY RelTypes DEF Begin
  <1>3. ClientInv(c)'
    BY <1>1, <1>2 DEF ClientInv
  <1>4. requests' \in 0..MaxRequests
    BY RelTypes DEF Begin
  <1>5. UNCHANGED <<disk, dir, written, table, lastId, expected, events, timers, handler, load, edits, restarts>>
    BY DEF Begin, files, cache, watchVars
  <1>6. RowsWereOnDisk' /\ DiskInv' /\ disturbed' = TRUE
    BY <1>5, PartsKept DEF Begin
  <1> QED
    BY <1>1, <1>2, <1>3, <1>4, <1>5, <1>6, RelTypes, ClientKeeps

LEMMA handleCreateReleaseInv ==
  ASSUME RelInv, NEW c \in RelClients, handleCreateRelease(c)
  PROVE  RelInv'
  <1>1. PICK name \in Names, ver \in Versions :
          Begin(c, "expect", [op |-> "create", id |-> 0, name |-> name, slug |-> Slugify[name],
                              old |-> Slugify[name], ver |-> ver])
    BY DEF handleCreateRelease, Create
  <1> DEFINE q == [op |-> "create", id |-> 0, name |-> name, slug |-> Slugify[name],
                   old |-> Slugify[name], ver |-> ver]
  <1>2. Slugify[name] \in Slugs /\ name \in 0..NNames /\ Slugs \subseteq 0..NSlugs /\ 0 \in 0..MaxId
    BY ReleasesAssumption DEF Names, Slugs
  <1>3. /\ q \in Requests /\ q.op = "create" /\ q.old = Slugify[name] /\ q.slug = Slugify[name]
        /\ q.name = name /\ q.ver = ver
    BY <1>2 DEF Requests
  <1> HIDE DEF q
  <1>4. Begin(c, "expect", q)
    BY <1>1 DEF q
  <1> QED
    BY <1>2, <1>3, <1>4, BeginInv

LEMMA handleUpdateReleaseInv ==
  ASSUME RelInv, NEW c \in RelClients, handleUpdateRelease(c)
  PROVE  RelInv'
  <1>1. PICK r \in table, name \in Names, ver \in Versions :
          Begin(c, "expect", [op |-> "update", id |-> r.id, name |-> name, ver |-> ver, old |-> r.slug,
                              slug |-> IF name \in Emoji THEN r.slug ELSE Slugify[name]])
    BY DEF handleUpdateRelease, Update
  <1> DEFINE slug == IF name \in Emoji THEN r.slug ELSE Slugify[name]
             q == [op |-> "update", id |-> r.id, name |-> name, ver |-> ver, old |-> r.slug, slug |-> slug]
  <1>2. r \in Rows
    BY RelTypes
  <1>3. /\ slug \in Slugs /\ r.slug \in Slugs /\ r.id \in 0..MaxId
        /\ name \in 0..NNames /\ Slugs \subseteq 0..NSlugs
    BY <1>2, ReleasesAssumption DEF Names, Slugs, Rows
  <1>4. Begin(c, "expect", q)
    BY <1>1
  <1> HIDE DEF slug
  <1>5. /\ q \in Requests /\ q.op = "update" /\ q.old = r.slug /\ q.slug = slug
        /\ q.name = name /\ q.ver = ver
    BY <1>3 DEF Requests
  <1> HIDE DEF q
  <1> QED
    BY <1>3, <1>4, <1>5, BeginInv

LEMMA handleDeleteReleaseInv ==
  ASSUME RelInv, NEW c \in RelClients, handleDeleteRelease(c)
  PROVE  RelInv'
  <1>1. PICK r \in table :
          Begin(c, "expectOld", [NoRequest EXCEPT !.op = "delete", !.id = r.id, !.old = r.slug])
    BY DEF handleDeleteRelease, Delete
  <1> DEFINE q == [NoRequest EXCEPT !.op = "delete", !.id = r.id, !.old = r.slug]
  <1>2. r \in Rows
    BY RelTypes
  <1>3. r.slug \in Slugs /\ r.id \in 0..MaxId /\ Slugs \subseteq 0..NSlugs /\ 0 \in 0..NSlugs /\ 0 \in 0..NNames
    BY <1>2, ReleasesAssumption DEF Slugs, Rows
  <1>4. q \in Requests /\ q.op = "delete" /\ q.old = r.slug
    BY <1>3 DEF Requests, NoRequest
  <1>5. Begin(c, "expectOld", q)
    BY <1>1
  <1> HIDE DEF q
  <1> QED
    BY <1>3, <1>4, <1>5, BeginInv

LEMMA ExpectInv ==
  ASSUME RelInv, NEW c \in RelClients, Expect(c)
  PROVE  RelInv'
  <1>1. UNCHANGED <<disk, dir, written, table, lastId, events, timers, handler, req, load, requests, edits, restarts>>
          /\ disturbed' = TRUE
    BY DEF Expect, files, cache, watchVars, counters
  <1>2. ClientInv(c)
    BY DEF RelInv
  <1>3. CASE at[c] = "expect" /\ expected' = expected \cup {req[c].slug} /\ Step(c, "put")
    <2>1. at' \in [RelClients -> Places] /\ at'[c] = "put" /\ \A d \in RelClients \ {c} : at'[d] = at[d]
      BY <1>3, StepFacts DEF Places
    <2>2. ClientInv(c)' /\ expected' \subseteq Slugs
      BY <1>1, <1>2, <1>3, <2>1, RelTypes DEF ClientInv
    <2> QED
      BY <1>1, <2>1, <2>2, RelTypes, PartsKept, ClientKeeps
  <1>4. CASE at[c] = "expectOld" /\ expected' = expected \cup {req[c].old} /\ Step(c, "remove")
    <2>1. at' \in [RelClients -> Places] /\ at'[c] = "remove" /\ \A d \in RelClients \ {c} : at'[d] = at[d]
      BY <1>4, StepFacts DEF Places
    <2>2. ClientInv(c)' /\ expected' \subseteq Slugs
      BY <1>1, <1>2, <1>4, <2>1, RelTypes DEF ClientInv, Wish
    <2> QED
      BY <1>1, <2>1, <2>2, RelTypes, PartsKept, ClientKeeps
  <1> QED
    BY <1>3, <1>4 DEF Expect

LEMMA PutInv ==
  ASSUME RelInv, NEW c \in RelClients, Put(c)
  PROVE  RelInv'
  <1>1. /\ UNCHANGED <<table, lastId, timers, handler, load, requests, edits, restarts>>
        /\ disturbed' = TRUE /\ at[c] = "put"
    BY DEF Put, cache, counters
  <1>2. ClientInv(c)
    BY DEF RelInv
  <1>3. req[c].op # "delete" /\ req[c].slug \in Slugs /\ Wish(c) \in Valid /\ req[c].old \in Slugs
    BY <1>1, <1>2 DEF ClientInv, Wish, Valid
  <1>4. CASE /\ Change(req[c].slug, Wish(c)) /\ UNCHANGED <<expected, req>>
             /\ Step(c, IF req[c].old # req[c].slug THEN "expectOld" ELSE "store")
    <2>1. /\ disk' \in [Slugs -> Files] /\ dir' \in {"none", "new", "watched"}
          /\ events' \subseteq Slugs /\ written' \subseteq Slugs \X Valid
          /\ written \subseteq written' /\ DiskInv' /\ <<req[c].slug, Wish(c)>> \in written'
      BY <1>3, <1>4, ChangeFacts, ValidFiles
    <2>2. /\ at' \in [RelClients -> Places] /\ at'[c] \in {"expectOld", "store"}
          /\ \A d \in RelClients \ {c} : at'[d] = at[d]
      BY <1>4, StepFacts DEF Places
    <2>3. ClientInv(c)'
      BY <1>1, <1>2, <1>4, <2>1, <2>2 DEF ClientInv, Wish
    <2> QED
      BY <1>1, <1>4, <2>1, <2>2, <2>3, RelTypes, PartsKept, ClientKeeps
  <1>5. CASE expected' = expected \ {req[c].slug} /\ Reply(c) /\ UNCHANGED <<files, events>>
    <2>1. UNCHANGED <<disk, dir, written, events>>
      BY <1>5 DEF files
    <2> QED
      BY <1>1, <1>5, <2>1, ReplyFacts, RelTypes, PartsKept, ClientKeeps
  <1> QED
    BY <1>4, <1>5 DEF Put, Wish

LEMMA RemoveInv ==
  ASSUME RelInv, NEW c \in RelClients, Remove(c)
  PROVE  RelInv'
  <1>1. /\ UNCHANGED <<table, lastId, timers, handler, load, requests, edits, restarts>>
        /\ disturbed' = TRUE /\ at[c] = "remove"
    BY DEF Remove, cache, counters
  <1>2. ClientInv(c) /\ req[c].old \in Slugs
    BY <1>1 DEF RelInv, ClientInv
  <1>3. /\ disk' \in [Slugs -> Files] /\ dir' \in {"none", "new", "watched"}
        /\ events' \subseteq Slugs /\ written' \subseteq Slugs \X Valid
        /\ written \subseteq written' /\ DiskInv' /\ expected' \subseteq Slugs
    <2>1. CASE Change(req[c].old, NoFile) /\ UNCHANGED expected
      BY <1>2, <2>1, ChangeFacts, ValidFiles, RelTypes
    <2>2. CASE UNCHANGED <<files, events>> /\ expected' \subseteq expected
      <3>1. UNCHANGED <<disk, dir, written, events>>
        BY <2>2 DEF files
      <3> QED
        BY <2>2, <3>1, RelTypes, PartsKept
    <2> QED
      BY <2>1, <2>2 DEF Remove
  <1>4. CASE Step(c, "store") /\ UNCHANGED req
    <2>1. at' \in [RelClients -> Places] /\ at'[c] = "store" /\ \A d \in RelClients \ {c} : at'[d] = at[d]
      BY <1>4, StepFacts DEF Places
    <2>2. ClientInv(c)'
      BY <1>1, <1>2, <1>3, <1>4, <2>1 DEF ClientInv, Wish
    <2> QED
      BY <1>1, <1>3, <1>4, <2>1, <2>2, RelTypes, PartsKept, ClientKeeps
  <1>5. CASE Reply(c)
    BY <1>1, <1>3, <1>5, ReplyFacts, RelTypes, PartsKept, ClientKeeps
  <1> QED
    BY <1>4, <1>5 DEF Remove

LEMMA StoreRowInv ==
  ASSUME RelInv, NEW c \in RelClients, StoreRow(c)
  PROVE  RelInv'
  <1> DEFINE own == {r \in table : r.id = req[c].id}
             changed == {[r EXCEPT !.name = req[c].name, !.slug = req[c].slug,
                                   !.ver = req[c].ver] : r \in own}
  <1>1. /\ UNCHANGED <<disk, dir, written, expected, events, timers, handler, load, requests, edits, restarts>>
        /\ disturbed' = TRUE /\ at[c] = "store" /\ Reply(c)
    BY DEF StoreRow, files, watchVars, counters
  <1>2. ClientInv(c)
    BY DEF RelInv
  <1>3. req[c].op # "delete" =>
          /\ req[c].name \in Names /\ req[c].slug \in Slugs /\ req[c].ver \in Versions
          /\ Wish(c) \in Valid /\ <<req[c].slug, Wish(c)>> \in written'
    BY <1>1, <1>2 DEF ClientInv, Wish, Valid
  <1>4. table' \subseteq Rows /\ lastId' \in 0..MaxId /\ RowsWereOnDisk'
    <2>1. CASE UNCHANGED cache
      <3>1. table' = table /\ lastId' = lastId
        BY <2>1 DEF cache
      <3> QED
        BY <1>1, <3>1, RelTypes, PartsKept
    <2>2. CASE ~Clash(c) /\ req[c].op = "create" /\ Upsert(req[c].slug, Wish(c))
      <3>1. CanUpsert(req[c].slug, Wish(c))
        BY <2>2 DEF Clash, Wish
      <3> QED
        BY <1>1, <1>3, <2>2, <3>1, UpsertRows, RelTypes DEF RelInv
    <2>3. CASE req[c].op = "update" /\ table' = (table \ own) \cup changed /\ UNCHANGED lastId
      <3>1. \A r \in changed : /\ r \in Rows
                               /\ r.name = req[c].name /\ r.slug = req[c].slug /\ r.ver = req[c].ver
        BY <1>3, <2>3, RelTypes DEF Rows
      <3> HIDE DEF changed
      <3>2. \A r \in changed : <<r.slug, [title |-> r.name, ver |-> r.ver]>> \in written'
        BY <1>3, <2>3, <3>1 DEF Wish
      <3>3. RowsWereOnDisk'
        BY <1>1, <2>3, <3>2, RelTypes DEF RowsWereOnDisk
      <3> QED
        BY <2>3, <3>1, <3>3, RelTypes
    <2>4. CASE table' = table \ own /\ UNCHANGED lastId
      BY <1>1, <2>4, RelTypes DEF RowsWereOnDisk
    <2> QED
      BY <2>1, <2>2, <2>3, <2>4 DEF StoreRow, Wish
  <1> QED
    BY <1>1, <1>4, ReplyFacts, RelTypes, PartsKept, ClientKeeps

---------------------------------------------------------------------------
(* People and the watcher.                                                 *)

HandlerType == [at : {"idle", "consume", "read", "store"}, slug : 0..NSlugs, file : Files]

\* A step of one of them.
LEMMA OthersKeep ==
  ASSUME RelInv, UNCHANGED <<at, req, load, requests, restarts>>,
         disturbed' = TRUE,
         edits' \in 0..MaxEdits, handler' \in [Handlers -> HandlerType],
         \A h \in Handlers : handler'[h] = handler[h] \/ HandlerInv(h)',
         disk' \in [Slugs -> Files], dir' \in {"none", "new", "watched"},
         events' \subseteq Slugs, timers' \subseteq Slugs, expected' \subseteq Slugs,
         written' \subseteq Slugs \X Valid, written \subseteq written', DiskInv',
         table' \subseteq Rows, lastId' \in 0..MaxId, RowsWereOnDisk'
  PROVE  RelInv'
  <1>1. RelTypeOK'
    BY DEF RelInv, RelTypeOK, HandlerType
  <1>2. (\A d \in RelClients : ClientInv(d)') /\ LoadInv' /\ LoadFresh'
    BY PartsKept
  <1>3. \A h \in Handlers : HandlerInv(h)'
    BY PartsKept
  <1> QED
    BY <1>1, <1>2, <1>3 DEF RelInv

LEMMA MoreTypes ==
  RelInv => /\ edits \in 0..MaxEdits /\ MaxEdits \in Nat
            /\ handler \in [Handlers -> HandlerType] /\ NoHandler \in HandlerType
  <1>1. NoHandler \in HandlerType
    BY ReleasesAssumption, ValidFiles DEF NoHandler, HandlerType
  <1> QED
    BY <1>1, ReleasesAssumption DEF RelInv, RelTypeOK, HandlerType

LEMMA EditInv ==
  ASSUME RelInv, NEW slug \in Slugs, NEW file \in Files, Edit(slug, file)
  PROVE  RelInv'
  <1>1. UNCHANGED <<table, lastId, expected, timers, handler, at, req, load, requests, restarts>>
          /\ disturbed' = TRUE
    BY DEF Edit, cache, clientVars
  <1>2. edits' \in 0..MaxEdits
    BY MoreTypes DEF Edit
  <1> QED
    BY <1>1, <1>2, ChangeFacts, PartsKept, RelTypes, MoreTypes, OthersKeep DEF Edit

LEMMA DebounceInv ==
  ASSUME RelInv, NEW slug \in Slugs, Debounce(slug)
  PROVE  RelInv'
  <1>1. UNCHANGED <<disk, dir, written, table, lastId, expected, handler, at, req, load, requests, edits, restarts>>
          /\ disturbed' = TRUE
    BY DEF Debounce, files, cache, clientVars, counters
  <1>2. events' \subseteq Slugs /\ timers' \subseteq Slugs
    BY RelTypes DEF Debounce
  <1> QED
    BY <1>1, <1>2, PartsKept, RelTypes, MoreTypes, OthersKeep

\* A step of one handler.
LEMMA HandlerMoves ==
  ASSUME RelInv, NEW h \in Handlers, NEW new \in HandlerType, handler' = [handler EXCEPT ![h] = new]
  PROVE  /\ handler' \in [Handlers -> HandlerType] /\ handler'[h] = new
         /\ \A i \in Handlers \ {h} : handler'[i] = handler[i]
  BY MoreTypes

LEMMA TimerFiresInv ==
  ASSUME RelInv, NEW slug \in Slugs, NEW h \in Handlers, TimerFires(slug, h)
  PROVE  RelInv'
  <1> DEFINE new == [at |-> "consume", slug |-> slug, file |-> NoFile]
  <1>1. UNCHANGED <<disk, dir, written, table, lastId, expected, events, at, req, load, requests, edits, restarts>>
          /\ disturbed' = TRUE /\ timers' \subseteq timers
    BY DEF TimerFires, files, cache, clientVars, counters
  <1>2. new \in HandlerType /\ new.at = "consume" /\ new.slug = slug
    BY ReleasesAssumption, ValidFiles DEF HandlerType, Slugs
  <1>3. handler' = [handler EXCEPT ![h] = new]
    BY DEF TimerFires
  <1> HIDE DEF new
  <1>4. /\ handler' \in [Handlers -> HandlerType] /\ handler'[h] = new
        /\ \A i \in Handlers \ {h} : handler'[i] = handler[i]
    BY <1>2, <1>3, HandlerMoves
  <1>5. HandlerInv(h)'
    BY <1>2, <1>4 DEF HandlerInv
  <1> QED
    BY <1>1, <1>4, <1>5, PartsKept, RelTypes, MoreTypes, OthersKeep

LEMMA HandlerRests ==
  ASSUME RelInv, NEW h \in Handlers, handler' = [handler EXCEPT ![h] = NoHandler]
  PROVE  /\ handler' \in [Handlers -> HandlerType] /\ HandlerInv(h)'
         /\ \A i \in Handlers \ {h} : handler'[i] = handler[i]
  <1>1. handler' \in [Handlers -> HandlerType] /\ handler'[h] = NoHandler
          /\ \A i \in Handlers \ {h} : handler'[i] = handler[i]
    BY HandlerMoves, MoreTypes
  <1> QED
    BY <1>1 DEF HandlerInv, NoHandler

LEMMA ConsumeInv ==
  ASSUME RelInv, NEW h \in Handlers, Consume(h)
  PROVE  RelInv'
  <1>1. UNCHANGED <<disk, dir, written, table, lastId, events, timers, at, req, load, requests, edits, restarts>>
          /\ disturbed' = TRUE /\ expected' \subseteq expected /\ handler[h].at = "consume"
    BY DEF Consume, files, cache, clientVars, counters
  <1>2. CASE handler' = [handler EXCEPT ![h] = NoHandler]
    BY <1>1, <1>2, HandlerRests, PartsKept, RelTypes, MoreTypes, OthersKeep
  <1>3. CASE handler' = [handler EXCEPT ![h].at = "read"]
    <2> DEFINE new == [handler[h] EXCEPT !.at = "read"]
    <2>1. new \in HandlerType /\ new.at = "read" /\ new.slug = handler[h].slug
      BY MoreTypes DEF HandlerType
    <2>2. handler' = [handler EXCEPT ![h] = new]
      BY <1>3
    <2> HIDE DEF new
    <2>3. /\ handler' \in [Handlers -> HandlerType] /\ handler'[h] = new
          /\ \A i \in Handlers \ {h} : handler'[i] = handler[i]
      BY <2>1, <2>2, HandlerMoves
    <2>4. HandlerInv(h)'
      BY <1>1, <2>1, <2>3 DEF HandlerInv, RelInv
    <2> QED
      BY <1>1, <2>3, <2>4, PartsKept, RelTypes, MoreTypes, OthersKeep
  <1> QED
    BY <1>2, <1>3 DEF Consume

LEMMA ReadChangedInv ==
  ASSUME RelInv, NEW h \in Handlers, ReadChanged(h)
  PROVE  RelInv'
  <1> PICK file : file = disk[handler[h].slug]
    OBVIOUS
  <1>1. UNCHANGED <<disk, dir, written, table, lastId, expected, events, timers, at, req, load, requests, edits, restarts>>
          /\ disturbed' = TRUE /\ handler[h].at = "read"
    BY DEF ReadChanged, files, cache, clientVars, counters
  <1>2. handler[h].slug \in Slugs /\ file \in Files
    BY <1>1, RelTypes DEF RelInv, HandlerInv
  <1>3. CASE handler' = [handler EXCEPT ![h] = NoHandler]
    BY <1>1, <1>3, HandlerRests, PartsKept, RelTypes, MoreTypes, OthersKeep
  <1>4. CASE file # Broken /\ handler' = [handler EXCEPT ![h] = [handler[h] EXCEPT !.at = "store", !.file = file]]
    <2> DEFINE new == [handler[h] EXCEPT !.at = "store", !.file = file]
    <2>1. new \in HandlerType /\ new.at = "store" /\ new.slug = handler[h].slug /\ new.file = file
      BY <1>2, MoreTypes DEF HandlerType
    <2>2. handler' = [handler EXCEPT ![h] = new]
      BY <1>4
    <2> HIDE DEF new
    <2>3. /\ handler' \in [Handlers -> HandlerType] /\ handler'[h] = new
          /\ \A i \in Handlers \ {h} : handler'[i] = handler[i]
      BY <2>1, <2>2, HandlerMoves
    <2>4. file # NoFile => <<handler[h].slug, file>> \in written
      BY <1>2, <1>4, ValidFiles DEF RelInv, DiskInv
    <2>5. HandlerInv(h)'
      BY <1>1, <1>2, <2>1, <2>3, <2>4 DEF HandlerInv
    <2> QED
      BY <1>1, <2>3, <2>5, PartsKept, RelTypes, MoreTypes, OthersKeep
  <1> QED
    BY <1>3, <1>4 DEF ReadChanged

LEMMA StoreChangedInv ==
  ASSUME RelInv, NEW h \in Handlers, StoreChanged(h)
  PROVE  RelInv'
  <1> PICK slug, file : slug = handler[h].slug /\ file = handler[h].file
    OBVIOUS
  <1>1. /\ UNCHANGED <<disk, dir, written, expected, events, timers, at, req, load, requests, edits, restarts>>
        /\ disturbed' = TRUE /\ handler[h].at = "store" /\ handler' = [handler EXCEPT ![h] = NoHandler]
    BY DEF StoreChanged, files, clientVars, counters
  <1>2. slug \in Slugs /\ (file # NoFile => <<slug, file>> \in written)
    BY <1>1 DEF RelInv, HandlerInv
  <1>3. table' \subseteq Rows /\ lastId' \in 0..MaxId /\ RowsWereOnDisk'
    <2>1. CASE table' = {r \in table : r.slug # slug} /\ UNCHANGED lastId
      BY <1>1, <2>1, RelTypes DEF RowsWereOnDisk
    <2>2. CASE file # NoFile /\ CanUpsert(slug, file) /\ Upsert(slug, file)
      <3>1. file \in Valid /\ <<slug, file>> \in written'
        BY <1>1, <1>2, <2>2, RelTypes
      <3> QED
        BY <1>1, <1>2, <2>2, <3>1, UpsertRows DEF RelInv
    <2>3. CASE UNCHANGED cache
      <3>1. table' = table /\ lastId' = lastId
        BY <2>3 DEF cache
      <3> QED
        BY <1>1, <3>1, RelTypes, PartsKept
    <2> QED
      BY <2>1, <2>2, <2>3 DEF StoreChanged
  <1> QED
    BY <1>1, <1>3, HandlerRests, PartsKept, RelTypes, MoreTypes, OthersKeep

LEMMA WatchDirInv ==
  ASSUME RelInv, WatchDir
  PROVE  RelInv'
  <1>1. UNCHANGED <<disk, written, table, lastId, expected, events, timers, handler, at, req, load,
                    requests, edits, restarts, disturbed>> /\ dir' = "watched"
    BY DEF WatchDir, cache, watchVars, clientVars, counters
  <1>2. RelTypeOK'
    BY <1>1 DEF RelInv, RelTypeOK
  <1>3. LoadFresh'
    BY <1>1 DEF RelInv, LoadFresh
  <1> QED
    BY <1>1, <1>2, <1>3, PartsKept DEF RelInv

---------------------------------------------------------------------------
(* Rehydrate.                                                              *)

LoadType == [at : {"idle", "list", "read", "store"}, list : SUBSET Slugs,
             seen : SUBSET Slugs, slug : 0..NSlugs, file : Files]

LEMMA LoadTypes == RelInv => load \in LoadType /\ NoLoad \in LoadType
  <1>1. NoLoad \in LoadType
    BY ReleasesAssumption, ValidFiles DEF NoLoad, LoadType
  <1> QED
    BY <1>1 DEF RelInv, RelTypeOK, LoadType

\* A step of Rehydrate; it writes the table at most.
LEMMA LoadKeeps ==
  ASSUME RelInv, UNCHANGED quiet, load' \in LoadType, LoadInv', LoadFresh',
         table' \subseteq Rows, lastId' \in 0..MaxId, RowsWereOnDisk', disturbed' \in BOOLEAN
  PROVE  RelInv'
  <1>1. UNCHANGED <<disk, dir, written, expected, events, timers, handler, at, req, requests, edits, restarts>>
    BY DEF quiet, files, watchVars, clientVars, counters
  <1>2. RelTypeOK'
    BY <1>1 DEF RelInv, RelTypeOK, LoadType
  <1> QED
    BY <1>1, <1>2, PartsKept DEF RelInv

LEMMA LoadListInv ==
  ASSUME RelInv, LoadList
  PROVE  RelInv'
  <1> PICK list : list = {s \in Slugs : disk[s] # NoFile}
    OBVIOUS
  <1> DEFINE new == [NoLoad EXCEPT !.at = "read", !.list = list]
  <1>1. UNCHANGED quiet /\ table' = table /\ lastId' = lastId /\ load' = new /\ disturbed' = FALSE
    BY DEF LoadList, cache
  <1>2. new \in LoadType /\ new.at = "read" /\ new.seen = {}
    <2>1. list \in SUBSET Slugs
      OBVIOUS
    <2>2. {} \in SUBSET Slugs /\ 0 \in 0..NSlugs /\ NoFile \in Files
      BY ReleasesAssumption, ValidFiles
    <2> QED
      BY <2>1, <2>2 DEF NoLoad, LoadType
  <1> HIDE DEF new
  <1>3. LoadInv' /\ LoadFresh'
    BY <1>1, <1>2 DEF LoadInv, LoadFresh
  <1>4. written' = written
    BY <1>1 DEF quiet, files
  <1> QED
    BY <1>1, <1>2, <1>3, <1>4, LoadKeeps, PartsKept, RelTypes

LEMMA LoadReadInv ==
  ASSUME RelInv, LoadRead
  PROVE  RelInv'
  <1>1. /\ UNCHANGED quiet /\ table' = table /\ lastId' = lastId /\ disturbed' = disturbed
        /\ load.at = "read" /\ disk' = disk /\ written' = written
    BY DEF LoadRead, cache, quiet, files
  <1>2. PICK s \in load.list :
          load' = IF disk[s] \in Valid
                  THEN [load EXCEPT !.at = "store", !.list = @ \ {s}, !.slug = s, !.file = disk[s]]
                  ELSE [load EXCEPT !.list = @ \ {s}]
    BY DEF LoadRead
  <1>3. load \in LoadType /\ s \in Slugs /\ s \in 0..NSlugs /\ disk[s] \in Files
    BY LoadTypes, RelTypes, ReleasesAssumption DEF LoadType, Slugs
  <1>4. CASE disk[s] \in Valid
    <2>1. /\ load' \in LoadType /\ load'.at = "store" /\ load'.slug = s /\ load'.file = disk[s]
          /\ load'.seen = load.seen
      BY <1>2, <1>3, <1>4 DEF LoadType
    <2>2. LoadInv'
      BY <1>1, <1>3, <1>4, <2>1 DEF LoadInv, RelInv, DiskInv
    <2>3. LoadFresh'
      BY <1>1, <2>1 DEF LoadFresh, RelInv
    <2> QED
      BY <1>1, <2>1, <2>2, <2>3, LoadKeeps, PartsKept, RelTypes DEF RelInv, RelTypeOK
  <1>5. CASE disk[s] \notin Valid
    <2>1. /\ load' \in LoadType /\ load'.at = "read" /\ load'.seen = load.seen
      BY <1>1, <1>2, <1>3, <1>5 DEF LoadType
    <2>2. LoadInv' /\ LoadFresh'
      BY <1>1, <2>1 DEF LoadInv, LoadFresh, RelInv
    <2> QED
      BY <1>1, <2>1, <2>2, LoadKeeps, PartsKept, RelTypes DEF RelInv, RelTypeOK
  <1> QED
    BY <1>4, <1>5

LEMMA LoadStoreInv ==
  ASSUME RelInv, LoadStore
  PROVE  RelInv'
  <1> PICK slug, file, can : slug = load.slug /\ file = load.file /\ can = CanUpsert(load.slug, load.file)
    OBVIOUS
  <1>1. /\ UNCHANGED quiet /\ disturbed' = disturbed
        /\ load.at = "store" /\ disk' = disk /\ written' = written
    BY DEF LoadStore, quiet, files
  <1>2. <<slug, file>> \in written /\ slug \in Slugs /\ file \in Valid
    BY <1>1, RelTypes DEF RelInv, LoadInv
  <1>3. load' = [load EXCEPT !.at = "read", !.slug = 0, !.file = NoFile,
                             !.seen = IF CanUpsert(slug, file) THEN @ \cup {slug} ELSE @]
    BY DEF LoadStore
  <1>4. /\ load' \in LoadType /\ load'.at = "read"
        /\ load'.seen = IF CanUpsert(slug, file) THEN load.seen \cup {slug} ELSE load.seen
    <2>1. load \in LoadType /\ 0 \in 0..NSlugs /\ NoFile \in Files
      BY LoadTypes, ValidFiles, ReleasesAssumption
    <2> QED
      BY <1>2, <1>3, <2>1 DEF LoadType
  <1>5. LoadInv'
    BY <1>4 DEF LoadInv
  <1>6. disturbed' \in BOOLEAN
    BY <1>1 DEF RelInv, RelTypeOK
  <1>7. ~disturbed => disk[slug] = file /\ \A r \in table : r.slug \in load.seen => disk[r.slug] = [title |-> r.name, ver |-> r.ver]
    BY <1>1 DEF RelInv, LoadFresh
  <1>8. CASE CanUpsert(slug, file) /\ Upsert(slug, file)
    <2>1. /\ table' \subseteq Rows /\ lastId' \in 0..MaxId /\ RowsWereOnDisk'
          /\ \A r \in table' : \/ r \in table /\ r.slug # slug
                               \/ r.slug = slug /\ [title |-> r.name, ver |-> r.ver] = file
      BY <1>1, <1>2, <1>8, UpsertRows DEF RelInv
    <2>2. load'.seen = load.seen \cup {slug}
      BY <1>4, <1>8
    <2>3. LoadFresh'
      BY <1>1, <1>4, <1>7, <2>1, <2>2 DEF LoadFresh
    <2> QED
      BY <1>1, <1>4, <1>5, <1>6, <2>1, <2>3, LoadKeeps
  <1>9. CASE ~CanUpsert(slug, file) /\ UNCHANGED cache
    <2>1. table' = table /\ lastId' = lastId /\ load'.seen = load.seen
      BY <1>4, <1>9 DEF cache
    <2>2. LoadFresh'
      BY <1>1, <1>4, <1>7, <2>1 DEF LoadFresh
    <2> QED
      BY <1>1, <1>4, <1>5, <1>6, <2>1, <2>2, LoadKeeps, PartsKept, RelTypes
  <1> QED
    BY <1>8, <1>9 DEF LoadStore

LEMMA LoadPruneInv ==
  ASSUME RelInv, LoadPrune
  PROVE  RelInv'
  <1>1. /\ UNCHANGED quiet /\ lastId' = lastId /\ disturbed' = disturbed /\ written' = written
        /\ load' = NoLoad /\ table' \subseteq table
    BY DEF LoadPrune, quiet, files
  <1>2. LoadInv' /\ LoadFresh'
    BY <1>1 DEF LoadInv, LoadFresh, NoLoad
  <1>3. RowsWereOnDisk'
    BY <1>1, RelTypes DEF RowsWereOnDisk
  <1> QED
    BY <1>1, <1>2, <1>3, LoadTypes, LoadKeeps, RelTypes DEF RelInv, RelTypeOK

LEMMA ReopenInv ==
  ASSUME RelInv, Reopen
  PROVE  RelInv'
  <1> DEFINE new == [NoLoad EXCEPT !.at = "list"]
  <1>1. /\ UNCHANGED <<disk, written, table, lastId, requests, edits, disturbed>>
        /\ expected' = {} /\ events' = {} /\ timers' = {}
        /\ at' = [c \in RelClients |-> "idle"] /\ req' = [c \in RelClients |-> NoRequest]
        /\ handler' = [h \in Handlers |-> NoHandler] /\ load' = new
        /\ dir' \in {"none", "new", "watched"} /\ restarts' \in 0..MaxRestarts
    BY ReleasesAssumption DEF Reopen, cache, RelInv, RelTypeOK
  <1>2. NoRequest \in Requests /\ NoHandler \in HandlerType
    BY ReleasesAssumption, MoreTypes DEF NoRequest, Requests
  <1>3. new \in LoadType /\ new.at = "list"
    BY ReleasesAssumption, ValidFiles DEF NoLoad, LoadType
  <1> HIDE DEF new
  <1>4. RelTypeOK'
    BY <1>1, <1>2, <1>3 DEF RelInv, RelTypeOK, LoadType, HandlerType
  <1>5. LoadInv' /\ LoadFresh'
    BY <1>1, <1>3 DEF LoadInv, LoadFresh
  <1>6. (\A c \in RelClients : ClientInv(c)') /\ \A h \in Handlers : HandlerInv(h)'
    BY <1>1 DEF ClientInv, HandlerInv, NoHandler
  <1> QED
    BY <1>1, <1>4, <1>5, <1>6, PartsKept DEF RelInv

---------------------------------------------------------------------------
(* The theorems about releases.                                            *)

LEMMA RelInitInv == RelInit => RelInv
  <1> SUFFICES ASSUME RelInit PROVE RelInv
    OBVIOUS
  <1>1. /\ disk \in [Slugs -> Valid \cup {NoFile}] /\ dir \in {"none", "watched"}
        /\ lastId \in 0..MaxId /\ table \subseteq Rows
        /\ \A r \in table : disk[r.slug] = [title |-> r.name, ver |-> r.ver] /\ r.slug \in Slugs
    <2>1. CASE disk = [s \in Slugs |-> NoFile] /\ dir = "none" /\ table = {} /\ lastId = 0
      BY <2>1, ReleasesAssumption
    <2>2. ASSUME NEW n \in Names, NEW v \in Versions,
                 disk = [s \in Slugs |-> IF s = Slugify[n] THEN [title |-> n, ver |-> v] ELSE NoFile],
                 dir = "watched", lastId = 1,
                 table = {[id |-> 1, name |-> n, slug |-> Slugify[n], ver |-> v]}
          PROVE  /\ disk \in [Slugs -> Valid \cup {NoFile}]
                 /\ lastId \in 0..MaxId /\ table \subseteq Rows
                 /\ \A r \in table : disk[r.slug] = [title |-> r.name, ver |-> r.ver] /\ r.slug \in Slugs
      <3>1. Slugify[n] \in Slugs /\ 1 \in 1..MaxId /\ 1 \in 0..MaxId
        BY ReleasesAssumption
      <3>2. [title |-> n, ver |-> v] \in Valid
        BY DEF Valid
      <3>3. [id |-> 1, name |-> n, slug |-> Slugify[n], ver |-> v] \in Rows
        BY <3>1 DEF Rows
      <3> QED
        BY <2>2, <3>1, <3>2, <3>3
    <2> QED
      BY <2>1, <2>2 DEF RelInit
  <1>2. written = {<<s, disk[s]>> : s \in {t \in Slugs : disk[t] # NoFile}}
    BY DEF RelInit
  <1>3. \A s \in Slugs : disk[s] \in Valid => <<s, disk[s]>> \in written
    BY <1>2, ValidFiles
  <1>4. written \subseteq Slugs \X Valid
    BY <1>1, <1>2
  <1>5. RowsWereOnDisk
    <2> SUFFICES ASSUME NEW r \in table
                 PROVE  <<r.slug, [title |-> r.name, ver |-> r.ver]>> \in written
      BY DEF RowsWereOnDisk
    <2>1. disk[r.slug] = [title |-> r.name, ver |-> r.ver] /\ r.slug \in Slugs /\ r \in Rows
      BY <1>1
    <2>2. disk[r.slug] \in Valid
      BY <2>1 DEF Rows, Valid
    <2> QED
      BY <1>3, <2>1, <2>2
  <1>6. /\ expected = {} /\ events = {} /\ timers = {} /\ load = NoLoad
        /\ handler = [h \in Handlers |-> NoHandler]
        /\ at = [c \in RelClients |-> "idle"] /\ req = [c \in RelClients |-> NoRequest]
        /\ requests = 0 /\ edits = 0 /\ restarts = 0 /\ disturbed = FALSE
    BY DEF RelInit
  <1>7. NoRequest \in Requests /\ NoHandler \in HandlerType /\ NoLoad \in LoadType
    BY ReleasesAssumption, ValidFiles DEF NoRequest, Requests, NoHandler, HandlerType, NoLoad, LoadType
  <1>8. RelTypeOK
    <2>1. disk \in [Slugs -> Files]
      BY <1>1, ValidFiles
    <2>2. /\ requests \in 0..MaxRequests /\ edits \in 0..MaxEdits /\ restarts \in 0..MaxRestarts
      <3>1. 0 \in 0..MaxRequests /\ 0 \in 0..MaxEdits /\ 0 \in 0..MaxRestarts
        BY ReleasesAssumption
      <3> QED
        BY <1>6, <3>1
    <2>3. /\ handler \in [Handlers -> HandlerType] /\ load \in LoadType /\ req \in [RelClients -> Requests]
          /\ at \in [RelClients -> Places]
      BY <1>6, <1>7 DEF Places
    <2>4. expected \subseteq Slugs /\ events \subseteq Slugs /\ timers \subseteq Slugs
      BY <1>6
    <2> QED
      BY <1>1, <1>4, <1>6, <2>1, <2>2, <2>3, <2>4 DEF RelTypeOK, HandlerType, LoadType, Places
  <1>9. (\A c \in RelClients : ClientInv(c)) /\ (\A h \in Handlers : HandlerInv(h)) /\ LoadInv /\ LoadFresh
    BY <1>6 DEF ClientInv, HandlerInv, NoHandler, LoadInv, LoadFresh, NoLoad
  <1> QED
    BY <1>3, <1>5, <1>8, <1>9 DEF RelInv, DiskInv

LEMMA RelNextInv ==
  ASSUME RelInv, [RelNext]_relVars
  PROVE  RelInv'
  <1>1. ASSUME NEW c \in RelClients, Request(c)
        PROVE  RelInv'
    BY <1>1, handleCreateReleaseInv, handleUpdateReleaseInv, handleDeleteReleaseInv, ExpectInv, PutInv,
       RemoveInv, StoreRowInv DEF Request
  <1>2. CASE Watch
    BY <1>2, WatchDirInv, DebounceInv, TimerFiresInv, ConsumeInv, ReadChangedInv, StoreChangedInv DEF Watch
  <1>3. CASE Rehydrate
    BY <1>3, LoadListInv, LoadReadInv, LoadStoreInv, LoadPruneInv DEF Rehydrate
  <1>4. CASE UNCHANGED relVars
    <2>1. UNCHANGED <<disk, dir, written, table, lastId, expected, events, timers, handler, at, req, load,
                      requests, edits, restarts, disturbed>>
      BY <1>4 DEF relVars, files, cache, watchVars, clientVars, counters
    <2>2. RelTypeOK' /\ LoadFresh'
      BY <2>1 DEF RelInv, RelTypeOK, LoadFresh
    <2> QED
      BY <2>1, <2>2, PartsKept DEF RelInv
  <1> QED
    BY <1>1, <1>2, <1>3, <1>4, EditInv, ReopenInv DEF RelNext

\* The invariant of the handlers of releases, DiskSync, Store, ReleaseHandler and Rehydrate.
THEOREM ReleaseInvariance == RelSpec => []RelInv
  <1>1. RelInv /\ [RelNext]_relVars => RelInv'
    BY RelNextInv
  <1> QED
    BY <1>1, RelInitInv, PTL DEF RelSpec

\* The files, the table, the expected events and what the parties remember keep their types.
THEOREM ReleaseTypes == RelSpec => []RelTypeOK
  <1>1. RelInv => RelTypeOK
    BY DEF RelInv
  <1> QED
    BY <1>1, ReleaseInvariance, PTL

\* Markdown first: Put precedes StoreRow, and handlers and Rehydrate store what they have
\* read, so a row never shows what was not in a file of its slug before.
THEOREM RowsWereOnDiskHolds == RelSpec => []RowsWereOnDisk
  <1>1. RelInv => RowsWereOnDisk
    BY DEF RelInv
  <1> QED
    BY <1>1, ReleaseInvariance, PTL

\* After a Rehydrate nobody disturbed, every row is what its file says: UpsertBySlug takes a
\* name to its file, and PruneExcept removes what no file stood for.
THEOREM LoadLeavesNoGhostHolds == RelSpec => LoadLeavesNoGhost
  <1>1. ASSUME RelInv, LoadPrune, ~disturbed, NEW r \in table'
        PROVE  disk[r.slug] = [title |-> r.name, ver |-> r.ver]
    BY <1>1 DEF RelInv, LoadFresh, LoadPrune
  <1>2. RelInv => [LoadPrune /\ ~disturbed =>
                     \A r \in table' : disk[r.slug] = [title |-> r.name, ver |-> r.ver]]_relVars
    BY <1>1
  <1> QED
    BY <1>2, ReleaseInvariance, PTL DEF LoadLeavesNoGhost

---------------------------------------------------------------------------
(* Artifacts: what a row was made from.                                    *)

Jobs == [op : Ops, file : Artifacts \cup {""}, to : Artifacts \cup Known \cup {""},
         from : Artifacts \cup Known \cup {""}, copy : Contents \cup {None}]

DataType ==
  /\ text \in [Artifacts -> Contents \cup {None}]
  /\ idx \in [Artifacts -> Contents \cup {None}]
  /\ dirty \subseteq Artifacts /\ astray \subseteq Artifacts /\ raced \subseteq FileClients
  /\ revs \in 0..MaxRevs /\ steps \in 0..MaxSteps /\ crashes \in 0..MaxCrashes

\* What a request or a callback does is about files, and a rename knows both names.
Plan(t) ==
  /\ stage[t] # "idle" => job[t].file \in Artifacts
  /\ stage[t] \in {"relink", "move"} => job[t].op = "rename"
  /\ stage[t] = "place" => job[t].op = "create"
  /\ stage[t] = "write" => job[t].copy # None
  /\ job[t].op \in {"rename", "relink"} => job[t].to \in Artifacts
  /\ job[t].op = "relink" => job[t].from \in Artifacts
  /\ job[t].op = "transition" => job[t].to \in Known
  /\ stage[t] = "restore" => Settled(job[t].copy) = job[t].copy

\* Task t has stored a copy of f whose status it still has to write.
Settles(t, f) == stage[t] \in {"settle", "restore"} /\ job[t].file = f

\* Task t is about to make the row of f from the file as it is.
Renews(t, f) ==
  \/ Settles(t, f)
  \/ /\ job[t].file = f
     /\ \/ stage[t] = "index" /\ job[t].op = "watch"
        \/ stage[t] = "store" /\ job[t].copy = text[f]
        \/ stage[t] = "unindex" /\ text[f] = None

\* A row that is not astray is what its file says, or somebody will come to renew it, or its
\* file is one that IndexFile passes over; and the row of a copy without its status is
\* followed by that of one with it.
Row(f) ==
  f \notin astray =>
    /\ \/ f \in dirty \/ (\E t \in Tasks : Renews(t, f)) \/ PassedOver(text[f])
       \/ idx[f] = text[f] /\ Settled(text[f]) = text[f]
    /\ Settled(idx[f]) # idx[f] => \E t \in Tasks : Settles(t, f)

\* The mutex of a path.
OneHolder == \A c, d \in FileClients : \A f \in Artifacts : Holds(c, f) /\ Holds(d, f) => c = d

\* A transition nobody overtook finds the file as it has read it.
Unovertaken(c) ==
  stage[c] = "write" /\ job[c].op = "transition" /\ c \notin raced =>
    text[job[c].file] # None /\ text[job[c].file].status = job[c].from

ArtInv ==
  /\ DataType /\ stage \in [Tasks -> Stages] /\ job \in [Tasks -> Jobs]
  /\ \A t \in Tasks : Plan(t)
  /\ \A f \in Artifacts : Row(f)
  /\ OneHolder
  /\ \A c \in FileClients : Unovertaken(c)

LEMMA Statuses == {"draft", "blocked", "rejected"} \subseteq Known
  <1>1. 1 \in DOMAIN Order /\ Order[1] = "draft"
    BY DEF Order
  <1> QED
    BY <1>1 DEF Known, Terminal

LEMMA SettledContent ==
  ASSUME NEW x \in Contents \cup {None}
  PROVE  /\ Settled(x) \in Contents \cup {None} /\ Settled(Settled(x)) = Settled(x)
         /\ x # None => Settled(x) \in Contents
         /\ x = None => Settled(x) = x
  <1>1. CASE x = None
    BY <1>1 DEF Settled, None
  <1>2. CASE x \in Contents /\ x # None
    <2> DEFINE with(status) == [x EXCEPT !.status = status]
    <2>1. /\ x.status \in Known \cup {""} /\ x.asks \in BOOLEAN
          /\ \A status \in {"draft", "blocked"} :
               /\ with(status) \in Contents
               /\ with(status).status = status /\ with(status).asks = x.asks
      BY <1>2, Statuses DEF Contents
    <2>3. CASE x.asks /\ x.status # "blocked"
      <3>1. Settled(x) = with("blocked")
        BY <2>3 DEF Settled
      <3>2. PICK y : y = with("blocked")
        OBVIOUS
      <3>3. y \in Contents /\ y.status = "blocked" /\ y.asks = x.asks
        BY <2>1, <3>2
      <3>4. Settled(y) = y
        BY <2>3, <3>3 DEF Settled
      <3> QED
        BY <1>2, <3>1, <3>2, <3>3, <3>4
    <2>4. CASE ~x.asks /\ x.status = "blocked"
      <3>1. Settled(x) = with("draft")
        BY <2>4 DEF Settled
      <3>2. PICK y : y = with("draft")
        OBVIOUS
      <3>3. y \in Contents /\ y.status = "draft" /\ y.asks = x.asks
        BY <2>1, <3>2
      <3>4. Settled(y) = y
        BY <2>4, <3>3 DEF Settled
      <3> QED
        BY <1>2, <3>1, <3>2, <3>3, <3>4
    <2>5. CASE ~(x.asks /\ x.status # "blocked") /\ ~(~x.asks /\ x.status = "blocked")
      BY <1>2, <2>5 DEF Settled
    <2> QED
      BY <2>3, <2>4, <2>5
  <1> QED
    BY <1>1, <1>2

\* One task moves on.
LEMMA OneTask ==
  ASSUME stage \in [Tasks -> Stages], job \in [Tasks -> Jobs],
         NEW t \in Tasks, NEW s \in Stages, NEW j \in Jobs, Goes(t, s),
         job' = [job EXCEPT ![t] = j] \/ (job' = job /\ j = job[t])
  PROVE  /\ stage' \in [Tasks -> Stages] /\ job' \in [Tasks -> Jobs]
         /\ stage'[t] = s /\ job'[t] = j
         /\ \A d \in Tasks \ {t} : stage'[d] = stage[d] /\ job'[d] = job[d]
  BY DEF Goes

\* A step of task t that makes no row.
LEMMA RowlessStep ==
  ASSUME ArtInv, NEW t \in Tasks,
         stage' \in [Tasks -> Stages], job' \in [Tasks -> Jobs],
         \A d \in Tasks \ {t} : stage'[d] = stage[d] /\ job'[d] = job[d],
         DataType', Plan(t)', UNCHANGED <<idx, astray>>,
         \A f \in Artifacts : text'[f] = text[f] \/ f \in dirty',
         \A f \in dirty : f \in dirty' \/ Renews(t, f)',
         \A f \in Artifacts :
           Renews(t, f) => Renews(t, f)' \/ f \in dirty' \/ idx[f] = text'[f] \/ PassedOver(text[f]),
         \A f \in Artifacts : Settles(t, f) => Settles(t, f)',
         \A f \in Artifacts : Holds(t, f)' => Holds(t, f) \/ \A d \in FileClients : ~Holds(d, f),
         raced \ {t} \subseteq raced',
         \A c \in FileClients \ {t} :
           stage[c] = "write" /\ job[c].op = "transition" =>
             c \in raced' \/ text'[job[c].file] = text[job[c].file],
         t \in FileClients => Unovertaken(t)'
  PROVE  ArtInv'
  <1>1. \A d \in Tasks \ {t} : Plan(d)'
    BY DEF ArtInv, Plan
  <1>2. ASSUME NEW f \in Artifacts
        PROVE  Row(f)'
    <2>1. \A d \in Tasks : Settles(d, f) => Settles(d, f)'
      BY DEF Settles
    <2>2. \A d \in Tasks : Settles(d, f)' => Renews(d, f)'
      BY DEF Renews
    <2>3. SUFFICES ASSUME f \notin astray, f \notin dirty'
                   PROVE  \/ (\E d \in Tasks : Renews(d, f)') \/ PassedOver(text'[f])
                          \/ idx[f] = text'[f] /\ Settled(text'[f]) = text'[f]
      BY <2>1, <1>2 DEF Row, ArtInv, PassedOver
    <2>4. text'[f] = text[f]
      BY <1>2, <2>3
    <2>5. CASE f \in dirty
      BY <2>3, <2>5
    <2>6. CASE idx[f] = text[f]
      BY <1>2, <2>1, <2>2, <2>3, <2>4, <2>6 DEF ArtInv, Row
    <2>7. ASSUME NEW d \in Tasks, Renews(d, f), idx[f] # text[f], ~PassedOver(text[f])
          PROVE  Renews(d, f)'
      <3>1. CASE d = t
        BY <1>2, <2>3, <2>4, <2>7, <3>1
      <3>2. CASE d # t
        BY <2>4, <2>7, <3>2 DEF Renews, Settles
      <3> QED
        BY <3>1, <3>2
    <2> QED
      BY <1>2, <2>3, <2>4, <2>5, <2>6, <2>7 DEF ArtInv, Row
  <1>3. OneHolder'
    <2>1. \A d \in FileClients \ {t} : \A f \in Artifacts : Holds(d, f)' <=> Holds(d, f)
      BY DEF Holds, Tasks
    <2>2. SUFFICES ASSUME NEW c \in FileClients, NEW d \in FileClients, NEW f \in Artifacts,
                          Holds(c, f)', Holds(d, f)', c # d
                   PROVE  FALSE
      BY DEF OneHolder
    <2> QED
      BY <2>1, <2>2 DEF ArtInv, OneHolder
  <1>4. ASSUME NEW c \in FileClients \ {t}
        PROVE  Unovertaken(c)'
    <2>1. c \in Tasks \ {t}
      BY DEF Tasks
    <2> QED
      BY <2>1 DEF ArtInv, Unovertaken
  <1> QED
    BY <1>1, <1>2, <1>3, <1>4 DEF ArtInv

\* A step of task t that makes the row of f.
LEMMA RowStep ==
  ASSUME ArtInv, NEW t \in Tasks, NEW f \in Artifacts, NEW x \in Contents \cup {None},
         stage' \in [Tasks -> Stages], job' \in [Tasks -> Jobs],
         \A d \in Tasks \ {t} : stage'[d] = stage[d] /\ job'[d] = job[d],
         Plan(t)', UNCHANGED <<text, dirty, limits, raced>>,
         job[t].file = f, stage[t] \in {"store", "restore", "unindex"},
         idx' = [idx EXCEPT ![f] = x],
         astray' = IF x = text[f] THEN astray \ {f} ELSE astray \cup {f},
         Settled(x) = x \/ Settles(t, f)',
         \A g \in Artifacts : Holds(t, g)' => Holds(t, g),
         stage'[t] # "write"
  PROVE  ArtInv'
  <1>1. \A d \in Tasks \ {t} : Plan(d)'
    BY DEF ArtInv, Plan
  <1>2. DataType'
    BY DEF ArtInv, DataType, limits
  <1>3. ASSUME NEW g \in Artifacts
        PROVE  Row(g)'
    <2>1. CASE g = f
      <3>1. SUFFICES ASSUME g \notin astray'
                     PROVE  Row(g)'
        BY DEF Row
      <3>2. idx'[g] = x /\ text'[g] = x
        BY <2>1, <3>1 DEF ArtInv, DataType
      <3>3. Settles(t, g)' => Renews(t, g)'
        BY DEF Renews
      <3> QED
        BY <2>1, <3>2, <3>3 DEF Row
    <2>2. CASE g # f
      <3>1. /\ idx'[g] = idx[g] /\ text'[g] = text[g] /\ (g \in astray' <=> g \in astray)
            /\ (g \in dirty' <=> g \in dirty)
        BY <1>3, <2>2 DEF ArtInv, DataType
      <3>2. \A d \in Tasks : (Settles(d, g) => Settles(d, g)') /\ (Renews(d, g) => Renews(d, g)')
        BY <2>2, <3>1 DEF Settles, Renews
      <3> QED
        BY <1>3, <3>1, <3>2 DEF ArtInv, Row
    <2> QED
      BY <2>1, <2>2
  <1>4. OneHolder'
    <2>1. \A d \in FileClients \ {t} : \A g \in Artifacts : Holds(d, g)' <=> Holds(d, g)
      BY DEF Holds, Tasks
    <2> QED
      BY <2>1 DEF ArtInv, OneHolder
  <1>5. ASSUME NEW c \in FileClients
        PROVE  Unovertaken(c)'
    <2>1. c # t => stage'[c] = stage[c] /\ job'[c] = job[c]
      BY DEF Tasks
    <2> QED
      BY <2>1 DEF ArtInv, Unovertaken
  <1> QED
    BY <1>1, <1>2, <1>3, <1>4, <1>5 DEF ArtInv

LEMMA NoJobType ==
  /\ NoJob \in Jobs /\ "idle" \in Stages /\ None \in Contents \cup {None}
  BY DEF NoJob, Jobs, Ops, Stages

\* A task ends and lets go of everything.
LEMMA EndsKeep ==
  ASSUME stage \in [Tasks -> Stages], job \in [Tasks -> Jobs], NEW t \in Tasks, Ends(t)
  PROVE  /\ stage' \in [Tasks -> Stages] /\ job' \in [Tasks -> Jobs]
         /\ stage'[t] = "idle" /\ job'[t] = NoJob
         /\ \A d \in Tasks \ {t} : stage'[d] = stage[d] /\ job'[d] = job[d]
         /\ Plan(t)' /\ \A f \in Artifacts : ~Holds(t, f)'
         /\ t \in FileClients => Unovertaken(t)'
  <1>1. /\ stage' \in [Tasks -> Stages] /\ job' \in [Tasks -> Jobs]
        /\ stage'[t] = "idle" /\ job'[t] = NoJob
        /\ \A d \in Tasks \ {t} : stage'[d] = stage[d] /\ job'[d] = job[d]
    BY NoJobType, OneTask DEF Ends
  <1>2. NoJob.op = ""
    BY DEF NoJob
  <1> QED
    BY <1>1, <1>2 DEF Plan, Holds, Unovertaken

\* A request is accepted: it holds nothing yet.
LEMMA AcceptInv ==
  ASSUME ArtInv, NEW c \in FileClients, NEW place \in {"place", "write", "relink", "lock"},
         NEW j \in Jobs, Accept(c, place, j), j.file \in Artifacts,
         place = "place" => j.op = "create",
         place = "write" => j.op \in {"edit", "patch"} /\ j.copy # None,
         place = "relink" => j.op = "rename",
         j.op = "rename" => j.to \in Artifacts,
         j.op = "transition" => j.to \in Known,
         j.op # "relink"
  PROVE  ArtInv'
  <1>1. /\ c \in Tasks /\ place \in Stages /\ stage[c] = "idle"
        /\ UNCHANGED <<text, idx, dirty, revs, crashes, raced, astray>>
        /\ steps' = steps + 1 /\ steps < MaxSteps
    BY DEF Accept, Tasks, Stages
  <1>2. /\ stage' \in [Tasks -> Stages] /\ job' \in [Tasks -> Jobs]
        /\ stage'[c] = place /\ job'[c] = j
        /\ \A d \in Tasks \ {c} : stage'[d] = stage[d] /\ job'[d] = job[d]
    BY <1>1, OneTask DEF Accept, ArtInv
  <1>3. DataType'
    BY <1>1, ArtifactAssumption DEF ArtInv, DataType
  <1>4. Plan(c)'
    BY <1>2 DEF Plan
  <1>5. /\ \A f \in Artifacts : ~Renews(c, f) /\ ~Settles(c, f) /\ ~Holds(c, f)'
        /\ Unovertaken(c)'
    BY <1>1, <1>2 DEF Renews, Settles, Holds, Unovertaken
  <1> QED
    BY <1>1, <1>2, <1>3, <1>4, <1>5, RowlessStep

\* A task writes one file: the watcher will come to it.
LEMMA PutsInv ==
  ASSUME ArtInv, NEW t \in Tasks, NEW f \in Artifacts, NEW x \in Contents \cup {None},
         NEW s \in {"index", "unindex", "restore"}, NEW j \in Jobs,
         Puts(t, f, x), Goes(t, s),
         job' = [job EXCEPT ![t] = j] \/ (job' = job /\ j = job[t]),
         UNCHANGED <<idx, astray>>,
         revs' \in 0..MaxRevs, steps' \in 0..MaxSteps, crashes' \in 0..MaxCrashes,
         \/ stage[t] \in {"idle", "place", "write", "reject"} /\ s # "restore"
         \/ stage[t] = "settle" /\ s = "restore" /\ j.file = job[t].file /\ Settled(j.copy) = j.copy,
         j.file \in Artifacts,
         j.op = "rename" => j.to \in Artifacts,
         j.op = "relink" => j.to \in Artifacts /\ j.from \in Artifacts,
         j.op = "transition" =>
           job[t].op = "transition" /\ j.file = job[t].file /\ j.to = job[t].to /\ stage[t] \in {"write", "settle"},
         stage[t] = "write" => f = job[t].file
  PROVE  ArtInv'
  <1>1. /\ s \in Stages /\ text \in [Artifacts -> Contents \cup {None}] /\ dirty \subseteq Artifacts
        /\ raced \subseteq FileClients /\ stage \in [Tasks -> Stages] /\ job \in [Tasks -> Jobs]
        /\ Plan(t) /\ OneHolder
    BY DEF Stages, ArtInv, DataType
  <1>2. /\ stage' \in [Tasks -> Stages] /\ job' \in [Tasks -> Jobs]
        /\ stage'[t] = s /\ job'[t] = j
        /\ \A d \in Tasks \ {t} : stage'[d] = stage[d] /\ job'[d] = job[d]
    BY <1>1, OneTask
  <1>3. /\ text' \in [Artifacts -> Contents \cup {None}] /\ text'[f] = x
        /\ \A g \in Artifacts \ {f} : text'[g] = text[g]
        /\ dirty' = dirty \cup {f} /\ raced \subseteq raced' /\ raced' \subseteq FileClients
    BY <1>1 DEF Puts
  <1>4. DataType'
    BY <1>1, <1>3 DEF ArtInv, DataType
  <1>5. /\ j.op = "transition" => job[t].op = "transition" /\ j.file = job[t].file /\ j.to = job[t].to
        /\ j.file \in Artifacts
    OBVIOUS
  <1>6. Plan(t)'
    BY <1>1, <1>2, <1>5 DEF Plan
  <1>7. \A g \in Artifacts : Holds(t, g)' => Holds(t, g)
    BY <1>1, <1>2, <1>5 DEF Holds
  <1>8. ASSUME NEW c \in FileClients \ {t}, stage[c] = "write", job[c].op = "transition"
        PROVE  c \in raced' \/ text'[job[c].file] = text[job[c].file]
    <2>1. c \in Tasks /\ job[c].file \in Artifacts /\ Holds(c, job[c].file)
      BY <1>8 DEF ArtInv, Plan, Tasks, Holds
    <2>2. CASE job[c].file # f
      BY <1>3, <2>1, <2>2
    <2>3. CASE job[c].file = f /\ t \in FileClients /\ job[t].op = "transition" /\ stage[t] = "write"
      <3>1. f = job[t].file
        BY <2>3
      <3> QED
        BY <1>1, <1>8, <2>1, <2>3, <3>1 DEF Holds, OneHolder
    <2>4. CASE job[c].file = f /\ ~(t \in FileClients /\ job[t].op = "transition" /\ stage[t] = "write")
      BY <1>8, <2>4 DEF Puts
    <2> QED
      BY <2>2, <2>3, <2>4
  <1>9. /\ \A g \in Artifacts : Renews(t, g) => Renews(t, g)' /\ Settles(t, g)'
        /\ \A g \in Artifacts : Settles(t, g) => Settles(t, g)'
        /\ t \in FileClients => Unovertaken(t)'
    BY <1>2 DEF Renews, Settles, Unovertaken
  <1> QED
    BY <1>2, <1>3, <1>4, <1>6, <1>7, <1>8, <1>9, RowlessStep

---------------------------------------------------------------------------
(* Index.IndexFile.                                                        *)

\* After IndexFile a relinked file is followed by the move, a rejection by its artifact,
\* and anything else ends.
LEMMA IndexedKeeps ==
  ASSUME ArtInv, NEW t \in Tasks, stage[t] \in {"index", "store", "restore"}, Indexed(t)
  PROVE  /\ stage' \in [Tasks -> Stages] /\ job' \in [Tasks -> Jobs]
         /\ \A d \in Tasks \ {t} : stage'[d] = stage[d] /\ job'[d] = job[d]
         /\ Plan(t)' /\ stage'[t] \in {"idle", "move", "reject"}
         /\ \A f \in Artifacts : ~Holds(t, f)'
  <1>1. stage \in [Tasks -> Stages] /\ job \in [Tasks -> Jobs] /\ Plan(t)
    BY DEF ArtInv
  <1>2. CASE job[t].op = "relink"
    <2> DEFINE j == [job[t] EXCEPT !.op = "rename", !.file = job[t].from, !.from = "", !.copy = None]
    <2>1. /\ Goes(t, "move")
          /\ job' = [job EXCEPT ![t].op = "rename", ![t].file = job[t].from, ![t].from = "", ![t].copy = None]
      BY <1>2 DEF Indexed
    <2>2. job' = [job EXCEPT ![t] = j]
      BY <1>1, <2>1
    <2>3. j \in Jobs /\ "move" \in Stages /\ j.file = job[t].from /\ j.to = job[t].to /\ j.op = "rename"
      <3>1. job[t] \in Jobs /\ job[t].from \in Artifacts
        BY <1>1, <1>2 DEF Plan
      <3> QED
        BY <3>1 DEF Jobs, Ops, Stages
    <2> HIDE DEF j
    <2>4. /\ stage' \in [Tasks -> Stages] /\ job' \in [Tasks -> Jobs]
          /\ stage'[t] = "move" /\ job'[t] = j
          /\ \A d \in Tasks \ {t} : stage'[d] = stage[d] /\ job'[d] = job[d]
      BY <1>1, <2>1, <2>2, <2>3, OneTask
    <2> QED
      BY <1>1, <1>2, <2>3, <2>4 DEF Plan, Holds
  <1>3. CASE job[t].op = "transition" /\ job[t].to = "rejected"
    <2>1. Goes(t, "reject") /\ job' = job /\ "reject" \in Stages
      BY <1>3 DEF Indexed, Stages
    <2>2. /\ stage' \in [Tasks -> Stages] /\ job' \in [Tasks -> Jobs]
          /\ stage'[t] = "reject" /\ job'[t] = job[t]
          /\ \A d \in Tasks \ {t} : stage'[d] = stage[d] /\ job'[d] = job[d]
      BY <1>1, <2>1, OneTask
    <2> QED
      BY <1>1, <1>3, <2>2 DEF Plan, Holds
  <1>4. CASE job[t].op # "relink" /\ ~(job[t].op = "transition" /\ job[t].to = "rejected")
    BY <1>1, <1>4, EndsKeep DEF Indexed
  <1> QED
    BY <1>2, <1>3, <1>4

LEMMA IndexReadInv ==
  ASSUME ArtInv, NEW t \in Tasks, IndexRead(t)
  PROVE  ArtInv'
  <1> DEFINE f == job[t].file
  <1>1. /\ stage[t] = "index" /\ UNCHANGED <<text, idx, dirty, revs, steps, crashes, raced, astray>>
        /\ stage \in [Tasks -> Stages] /\ job \in [Tasks -> Jobs] /\ Plan(t) /\ f \in Artifacts
        /\ text[f] \in Contents \cup {None}
    BY DEF IndexRead, limits, ArtInv, DataType, Plan
  <1>2. DataType'
    BY <1>1 DEF ArtInv, DataType
  <1>3. CASE text[f] # None /\ ~PassedOver(text[f])
    <2> DEFINE j == [job[t] EXCEPT !.copy = text[f]]
    <2>1. Goes(t, "store") /\ job' = [job EXCEPT ![t] = j]
      <3>1. Goes(t, "store") /\ job' = [job EXCEPT ![t].copy = text[f]]
        BY <1>3 DEF IndexRead
      <3> QED
        BY <1>1, <3>1
    <2>2. /\ j \in Jobs /\ "store" \in Stages
          /\ j.copy = text[f] /\ j.op = job[t].op /\ j.file = f /\ j.to = job[t].to /\ j.from = job[t].from
      BY <1>1 DEF Jobs, Stages
    <2> HIDE DEF j
    <2>3. /\ stage' \in [Tasks -> Stages] /\ job' \in [Tasks -> Jobs]
          /\ stage'[t] = "store" /\ job'[t] = j
          /\ \A d \in Tasks \ {t} : stage'[d] = stage[d] /\ job'[d] = job[d]
      BY <1>1, <2>1, <2>2, OneTask
    <2>4. Plan(t)'
      BY <1>1, <2>2, <2>3 DEF Plan
    <2>5. /\ \A g \in Artifacts : Renews(t, g) => Renews(t, g)'
          /\ \A g \in Artifacts : ~Settles(t, g)
          /\ \A g \in Artifacts : Holds(t, g)' => Holds(t, g)
          /\ t \in FileClients => Unovertaken(t)'
      BY <1>1, <2>2, <2>3 DEF Renews, Settles, Holds, Unovertaken
    <2> QED
      BY <1>1, <1>2, <2>3, <2>4, <2>5, RowlessStep
  <1>4. CASE text[f] = None /\ job[t].op = "watch"
    <2>1. Goes(t, "unindex") /\ job' = job /\ "unindex" \in Stages
      BY <1>4 DEF IndexRead, Stages
    <2>2. /\ stage' \in [Tasks -> Stages] /\ job' \in [Tasks -> Jobs]
          /\ stage'[t] = "unindex" /\ job'[t] = job[t]
          /\ \A d \in Tasks \ {t} : stage'[d] = stage[d] /\ job'[d] = job[d]
      BY <1>1, <2>1, OneTask
    <2>3. Plan(t)'
      BY <1>1, <2>2 DEF Plan
    <2>4. /\ \A g \in Artifacts : Renews(t, g) => Renews(t, g)'
          /\ \A g \in Artifacts : ~Settles(t, g) /\ ~Holds(t, g)'
          /\ t \in FileClients => Unovertaken(t)'
      BY <1>1, <1>4, <2>2 DEF Renews, Settles, Holds, Unovertaken
    <2> QED
      BY <1>1, <1>2, <2>2, <2>3, <2>4, RowlessStep
  <1>5. CASE text[f] = None /\ job[t].op # "watch"
    <2>1. Ends(t)
      BY <1>5 DEF IndexRead
    <2>2. \A g \in Artifacts : ~Renews(t, g) /\ ~Settles(t, g)
      BY <1>1, <1>5 DEF Renews, Settles
    <2> QED
      BY <1>1, <1>2, <2>1, <2>2, EndsKeep, RowlessStep
  <1>6. CASE PassedOver(text[f])
    <2>1. text[f] # None
      <3>1. None.kind = ""
        BY DEF None
      <3> QED
        BY <1>6, <3>1 DEF PassedOver
    <2>2. Indexed(t)
      BY <1>6, <2>1 DEF IndexRead
    <2>3. /\ \A g \in Artifacts : Renews(t, g) => PassedOver(text[g])
          /\ \A g \in Artifacts : ~Settles(t, g)
      BY <1>1, <1>6 DEF Renews, Settles
    <2>4. t \in FileClients => Unovertaken(t)'
      BY <1>1, <2>2, IndexedKeeps DEF Unovertaken
    <2> QED
      BY <1>1, <1>2, <2>2, <2>3, <2>4, IndexedKeeps, RowlessStep
  <1> QED
    BY <1>3, <1>4, <1>5, <1>6

LEMMA IndexStoreInv ==
  ASSUME ArtInv, NEW t \in Tasks, IndexStore(t)
  PROVE  ArtInv'
  <1> DEFINE f    == job[t].file
             copy == job[t].copy
  <1>1. /\ stage[t] = "store" /\ UNCHANGED <<text, dirty, limits, raced>>
        /\ stage \in [Tasks -> Stages] /\ job \in [Tasks -> Jobs] /\ Plan(t) /\ f \in Artifacts
        /\ copy \in Contents \cup {None}
    BY DEF IndexStore, ArtInv, Plan, Jobs
  <1>2. CASE idx[f] = copy
    <2>1. Indexed(t) /\ UNCHANGED <<idx, astray>>
      BY <1>2 DEF IndexStore
    <2>2. DataType'
      BY <1>1, <2>1 DEF ArtInv, DataType, limits
    <2>3. /\ \A g \in Artifacts : Renews(t, g) => idx[g] = text'[g]
          /\ \A g \in Artifacts : ~Settles(t, g)
      BY <1>1, <1>2 DEF Renews, Settles
    <2>4. /\ stage' \in [Tasks -> Stages] /\ job' \in [Tasks -> Jobs]
          /\ \A d \in Tasks \ {t} : stage'[d] = stage[d] /\ job'[d] = job[d]
          /\ Plan(t)' /\ stage'[t] # "write" /\ \A g \in Artifacts : ~Holds(t, g)'
      BY <1>1, <2>1, IndexedKeeps
    <2>5. t \in FileClients => Unovertaken(t)'
      BY <2>4 DEF Unovertaken
    <2> QED
      BY <1>1, <2>1, <2>2, <2>3, <2>4, <2>5, RowlessStep
  <1>3. CASE idx[f] # copy
    <2>1. /\ idx' = [idx EXCEPT ![f] = copy]
          /\ astray' = IF copy = text[f] THEN astray \ {f} ELSE astray \cup {f}
          /\ IF Settled(copy) = copy THEN Indexed(t) ELSE Goes(t, "settle") /\ UNCHANGED job
      BY <1>3 DEF IndexStore
    <2>2. CASE Settled(copy) = copy
      BY <1>1, <2>1, <2>2, IndexedKeeps, RowStep
    <2>3. CASE Settled(copy) # copy
      <3>1. Goes(t, "settle") /\ job' = job /\ "settle" \in Stages
        BY <2>1, <2>3 DEF Stages
      <3>2. /\ stage' \in [Tasks -> Stages] /\ job' \in [Tasks -> Jobs]
            /\ stage'[t] = "settle" /\ job'[t] = job[t]
            /\ \A d \in Tasks \ {t} : stage'[d] = stage[d] /\ job'[d] = job[d]
        BY <1>1, <3>1, OneTask
      <3>3. Plan(t)' /\ Settles(t, f)'
        BY <1>1, <3>2 DEF Plan, Settles
      <3>4. \A g \in Artifacts : Holds(t, g)' => Holds(t, g)
        BY <1>1, <3>2 DEF Holds
      <3> QED
        BY <1>1, <2>1, <3>2, <3>3, <3>4, RowStep
    <2> QED
      BY <2>2, <2>3
  <1> QED
    BY <1>2, <1>3

LEMMA IndexSettleInv ==
  ASSUME ArtInv, NEW t \in Tasks, IndexSettle(t)
  PROVE  ArtInv'
  <1> DEFINE f == job[t].file
             x == Settled(job[t].copy)
             j == [job[t] EXCEPT !.copy = x]
  <1>1. /\ stage[t] = "settle" /\ UNCHANGED <<idx, limits, astray>> /\ Goes(t, "restore")
        /\ job[t] \in Jobs /\ job \in [Tasks -> Jobs] /\ Plan(t) /\ f \in Artifacts
        /\ job[t].copy \in Contents \cup {None} /\ Puts(t, f, x)
        /\ revs \in 0..MaxRevs /\ steps \in 0..MaxSteps /\ crashes \in 0..MaxCrashes
    BY DEF IndexSettle, ArtInv, DataType, Plan, Jobs
  <1>2. x \in Contents \cup {None} /\ Settled(x) = x
    BY <1>1, SettledContent
  <1>3. job' = [job EXCEPT ![t] = j]
    BY <1>1 DEF IndexSettle
  <1> HIDE DEF x
  <1>4. /\ j \in Jobs /\ j.copy = x /\ j.op = job[t].op /\ j.file = f
        /\ j.to = job[t].to /\ j.from = job[t].from
    BY <1>1, <1>2 DEF Jobs
  <1> HIDE DEF j
  <1>5. /\ revs' \in 0..MaxRevs /\ steps' \in 0..MaxSteps /\ crashes' \in 0..MaxCrashes
    BY <1>1 DEF limits
  <1> QED
    BY <1>1, <1>2, <1>3, <1>4, <1>5, PutsInv DEF Plan

LEMMA IndexRestoreInv ==
  ASSUME ArtInv, NEW t \in Tasks, IndexRestore(t)
  PROVE  ArtInv'
  <1>1. /\ stage[t] = "restore" /\ UNCHANGED <<text, dirty, limits, raced>> /\ Indexed(t)
        /\ Plan(t) /\ job[t].file \in Artifacts /\ job[t].copy \in Contents \cup {None}
        /\ idx' = [idx EXCEPT ![job[t].file] = job[t].copy]
        /\ astray' = IF job[t].copy = text[job[t].file] THEN astray \ {job[t].file}
                     ELSE astray \cup {job[t].file}
    BY DEF IndexRestore, ArtInv, Plan, Jobs
  <1>2. Settled(job[t].copy) = job[t].copy
    BY <1>1 DEF Plan
  <1> QED
    BY <1>1, <1>2, IndexedKeeps, RowStep

LEMMA UnindexInv ==
  ASSUME ArtInv, NEW t \in Tasks, Unindex(t)
  PROVE  ArtInv'
  <1> DEFINE f == job[t].file
  <1>1. /\ stage[t] = "unindex" /\ UNCHANGED <<text, dirty, limits, raced>>
        /\ stage \in [Tasks -> Stages] /\ job \in [Tasks -> Jobs] /\ job[t] \in Jobs
        /\ Plan(t) /\ f \in Artifacts
        /\ idx' = [idx EXCEPT ![f] = None]
        /\ astray' = IF None = text[f] THEN astray \ {f} ELSE astray \cup {f}
    BY DEF Unindex, ArtInv, Plan
  <1>2. None \in Contents \cup {None} /\ Settled(None) = None
    BY SettledContent
  <1>3. CASE job[t].op = "rename"
    <2> DEFINE j == [job[t] EXCEPT !.file = job[t].to, !.to = "", !.op = "edit"]
    <2>1. Goes(t, "index") /\ job' = [job EXCEPT ![t] = j]
      <3>1. /\ Goes(t, "index")
            /\ job' = [job EXCEPT ![t].file = job[t].to, ![t].to = "", ![t].op = "edit"]
        BY <1>3 DEF Unindex
      <3> QED
        BY <1>1, <3>1
    <2>2. j \in Jobs /\ "index" \in Stages /\ j.op = "edit" /\ j.file \in Artifacts
      <3>1. job[t].to \in Artifacts
        BY <1>1, <1>3 DEF Plan
      <3> QED
        BY <1>1, <3>1 DEF Jobs, Ops, Stages
    <2> HIDE DEF j
    <2>3. /\ stage' \in [Tasks -> Stages] /\ job' \in [Tasks -> Jobs]
          /\ stage'[t] = "index" /\ job'[t] = j
          /\ \A d \in Tasks \ {t} : stage'[d] = stage[d] /\ job'[d] = job[d]
      BY <1>1, <2>1, <2>2, OneTask
    <2>4. Plan(t)' /\ \A g \in Artifacts : ~Holds(t, g)'
      BY <2>2, <2>3 DEF Plan, Holds
    <2> QED
      BY <1>1, <1>2, <2>3, <2>4, RowStep
  <1>4. CASE job[t].op # "rename"
    <2>1. Ends(t)
      BY <1>4 DEF Unindex
    <2> QED
      BY <1>1, <1>2, <2>1, EndsKeep, RowStep
  <1> QED
    BY <1>3, <1>4

---------------------------------------------------------------------------
(* Requests.                                                               *)

\* A job about file f.
LEMMA JobTypes ==
  ASSUME NEW f \in Artifacts
  PROVE  /\ \A op \in Ops : [NoJob EXCEPT !.op = op, !.file = f] \in Jobs
         /\ \A op \in Ops, x \in Contents \cup {None} :
              [NoJob EXCEPT !.op = op, !.file = f, !.copy = x] \in Jobs
         /\ \A g \in Artifacts : [NoJob EXCEPT !.op = "rename", !.file = f, !.to = g] \in Jobs
         /\ \A from \in Known \cup {""}, to \in Known :
              [NoJob EXCEPT !.op = "transition", !.file = f, !.from = from, !.to = to] \in Jobs
  BY DEF NoJob, Jobs, Ops

LEMMA NewRevs ==
  ASSUME DataType, NewRev
  PROVE  revs' \in 1..MaxRevs /\ revs' \in 0..MaxRevs
  BY ArtifactAssumption DEF DataType, NewRev

LEMMA NewContents ==
  ASSUME DataType, NewRev, NEW kind \in {"artifact", "release", "bare"},
         NEW status \in Known \cup {""}, NEW asks \in BOOLEAN
  PROVE  /\ File(kind, status, asks, revs') \in Contents
         /\ revs' \in 0..MaxRevs
         /\ \A x \in Contents : [x EXCEPT !.rev = revs'] \in Contents
  <1>2. revs' \in 1..MaxRevs
    BY NewRevs
  <1>3. revs' \in 0..MaxRevs
    BY NewRevs
  <1>4. File(kind, status, asks, revs') \in Contents
    <2>1. PICK s \in Known \cup {""} : s = IF kind = "bare" THEN "" ELSE status
      OBVIOUS
    <2> QED
      BY <1>2, <2>1 DEF Contents, File
  <1>5. \A x \in Contents : [x EXCEPT !.rev = revs'] \in Contents
    BY <1>2 DEF Contents
  <1> QED
    BY <1>3, <1>4, <1>5

LEMMA FencedContent ==
  ASSUME NEW x \in Contents
  PROVE  Fenced(x) \in Contents
  BY Statuses DEF Contents, Fenced

LEMMA CreateInv ==
  ASSUME ArtInv, NEW c \in FileClients, CreateArtifact(c)
  PROVE  ArtInv'
  <1>1. PICK f \in Artifacts : Accept(c, "place", [NoJob EXCEPT !.op = "create", !.file = f])
    BY DEF CreateArtifact
  <1> DEFINE j == [NoJob EXCEPT !.op = "create", !.file = f]
  <1>2. j \in Jobs /\ j.op = "create" /\ j.file = f
    BY JobTypes DEF Ops, NoJob
  <1> HIDE DEF j
  <1>3. Accept(c, "place", j)
    BY <1>1 DEF j
  <1> QED
    BY <1>2, <1>3, AcceptInv

LEMMA ReadCopyInv ==
  ASSUME ArtInv, NEW c \in FileClients, NEW op \in {"edit", "patch"}, NEW f \in Artifacts,
         text[f] # None,
         Accept(c, "write", [NoJob EXCEPT !.op = op, !.file = f, !.copy = text[f]])
  PROVE  ArtInv'
  <1> DEFINE j == [NoJob EXCEPT !.op = op, !.file = f, !.copy = text[f]]
  <1>1. text[f] \in Contents \cup {None} /\ op \in Ops
    BY DEF ArtInv, DataType, Ops
  <1>2. j \in Jobs /\ j.op = op /\ j.file = f /\ j.copy = text[f]
    BY <1>1, JobTypes DEF NoJob
  <1> HIDE DEF j
  <1>3. Accept(c, "write", j)
    BY DEF j
  <1> QED
    BY <1>2, <1>3, AcceptInv

LEMMA ReadsInv ==
  ASSUME ArtInv, NEW c \in FileClients, ReadForEdit(c) \/ ReadForPatch(c)
  PROVE  ArtInv'
  BY ReadCopyInv DEF ReadForEdit, ReadForPatch

LEMMA RenameInv ==
  ASSUME ArtInv, NEW c \in FileClients, RenameArtifact(c)
  PROVE  ArtInv'
  <1>1. PICK f \in Artifacts, g \in Artifacts :
          Accept(c, "relink", [NoJob EXCEPT !.op = "rename", !.file = f, !.to = g])
    BY DEF RenameArtifact
  <1> DEFINE j == [NoJob EXCEPT !.op = "rename", !.file = f, !.to = g]
  <1>2. j \in Jobs /\ j.op = "rename" /\ j.file = f /\ j.to = g
    BY JobTypes DEF NoJob
  <1> HIDE DEF j
  <1>3. Accept(c, "relink", j)
    BY <1>1 DEF j
  <1> QED
    BY <1>2, <1>3, AcceptInv

LEMMA GrantedInv ==
  ASSUME ArtInv, NEW c \in FileClients, NEW f \in RowFiles, NEW to, Granted(c, f, to)
  PROVE  ArtInv'
  <1> DEFINE j == [NoJob EXCEPT !.op = "transition", !.file = f, !.from = idx[f].status, !.to = to]
  <1>1. /\ f \in Artifacts /\ to \in Known /\ idx[f] \in Contents /\ idx[f].status \in Known \cup {""}
        /\ Accept(c, "lock", j)
    BY DEF Granted, CanTransition, RowFiles, ArtInv, DataType, Contents
  <1>2. j \in Jobs /\ j.op = "transition" /\ j.file = f /\ j.to = to
    <2>1. PICK s : s = idx[f].status
      OBVIOUS
    <2>2. [NoJob EXCEPT !.op = "transition", !.file = f, !.from = s, !.to = to] \in Jobs
      BY <1>1, <2>1, JobTypes
    <2> QED
      BY <2>1, <2>2 DEF NoJob
  <1> HIDE DEF j
  <1> QED
    BY <1>1, <1>2, AcceptInv

LEMMA GrantsInv ==
  ASSUME ArtInv, NEW c \in FileClients, BeginTransition(c) \/ AdvanceStale(c)
  PROVE  ArtInv'
  BY GrantedInv DEF BeginTransition, AdvanceStale

\* A write whose job stays as it is: the file is the one the job is about.
LEMMA WriteInv ==
  ASSUME ArtInv, NEW c \in FileClients, NEW x \in Contents \cup {None},
         stage[c] \in {"place", "write"}, Puts(c, job[c].file, x), Goes(c, "index"),
         UNCHANGED <<idx, job, steps, crashes, astray>>, revs' \in 0..MaxRevs
  PROVE  ArtInv'
  <1>1. /\ c \in Tasks /\ job[c] \in Jobs /\ Plan(c) /\ job[c].file \in Artifacts
        /\ steps' \in 0..MaxSteps /\ crashes' \in 0..MaxCrashes
    BY DEF ArtInv, DataType, Tasks, Plan
  <1>2. /\ job[c].op = "rename" => job[c].to \in Artifacts
        /\ job[c].op = "relink" => job[c].to \in Artifacts /\ job[c].from \in Artifacts
        /\ job[c].op = "transition" => stage[c] = "write"
    BY <1>1 DEF Plan
  <1>3. job' = job
    OBVIOUS
  <1> QED
    BY <1>1, <1>2, <1>3, PutsInv

LEMMA WritesInv ==
  ASSUME ArtInv, NEW c \in FileClients,
         PlaceNew(c) \/ WriteEdit(c) \/ WritePatch(c) \/ WriteRelinked(c) \/ WriteStatus(c)
  PROVE  ArtInv'
  <1>0. c \in Tasks /\ job[c] \in Jobs /\ Plan(c)
    BY DEF ArtInv, Tasks
  <1>1. /\ c \in Tasks /\ DataType /\ job[c] \in Jobs /\ job[c].copy \in Contents \cup {None}
        /\ stage[c] # "idle" => job[c].file \in Artifacts
        /\ job[c].op = "transition" => job[c].to \in Known
        /\ stage[c] = "write" => job[c].copy \in Contents
    <2>1. job[c].copy \in Contents \cup {None}
      BY <1>0 DEF Jobs
    <2> QED
      BY <1>0, <2>1 DEF ArtInv, Plan
  <1>2. CASE PlaceNew(c)
    <2>1. PICK kind \in EditKinds \ {"bare"}, asks \in BOOLEAN :
            Puts(c, job[c].file, File(kind, "draft", asks, revs'))
      BY <1>2 DEF PlaceNew
    <2>2. File(kind, "draft", asks, revs') \in Contents /\ revs' \in 0..MaxRevs
      BY <1>1, <1>2, Statuses, NewContents, ArtifactAssumption DEF PlaceNew
    <2> QED
      BY <1>2, <2>1, <2>2, WriteInv DEF PlaceNew
  <1>3. CASE WriteEdit(c)
    <2>1. PICK status \in {Fenced(job[c].copy).status} \cup EditStatuses,
               kind \in EditKinds \ {"bare"}, asks \in BOOLEAN :
            Puts(c, job[c].file, File(kind, status, asks, revs'))
      BY <1>3 DEF WriteEdit
    <2>2. status \in Known \cup {""}
      <3>1. Fenced(job[c].copy) \in Contents
        BY <1>1, <1>3, FencedContent DEF WriteEdit
      <3>2. Fenced(job[c].copy).status \in Known \cup {""}
        BY <3>1 DEF Contents
      <3> QED
        BY <2>1, <3>2, ArtifactAssumption
    <2>3. File(kind, status, asks, revs') \in Contents /\ revs' \in 0..MaxRevs
      BY <1>1, <1>3, <2>2, NewContents, ArtifactAssumption DEF WriteEdit
    <2> QED
      BY <1>3, <2>1, <2>3, WriteInv DEF WriteEdit
  <1>4. ASSUME NEW op, NEW x \in Contents, WriteBack(c, op, x)
        PROVE  ArtInv'
    <2>1. [x EXCEPT !.rev = revs'] \in Contents /\ revs' \in 0..MaxRevs
      BY <1>1, <1>4, Statuses, NewContents DEF WriteBack
    <2> QED
      BY <1>4, <2>1, WriteInv DEF WriteBack
  <1>5. CASE WriteStatus(c)
    <2>1. [job[c].copy EXCEPT !.status = job[c].to] \in Contents /\ revs' \in 0..MaxRevs
      BY <1>1, <1>5 DEF WriteStatus, Contents, limits, DataType
    <2> QED
      BY <1>5, <2>1, WriteInv DEF WriteStatus, limits
  <1>6. WritePatch(c) \/ WriteRelinked(c) => job[c].copy \in Contents /\ Fenced(job[c].copy) \in Contents
    BY <1>1, FencedContent DEF WritePatch, WriteRelinked, WriteBack
  <1> QED
    BY <1>2, <1>3, <1>4, <1>5, <1>6 DEF WritePatch, WriteRelinked

LEMMA DeleteInv ==
  ASSUME ArtInv, NEW c \in FileClients, DeleteArtifact(c)
  PROVE  ArtInv'
  <1>1. PICK f \in Artifacts :
          /\ stage[c] = "idle" /\ Puts(c, f, None) /\ Goes(c, "unindex")
          /\ job' = [job EXCEPT ![c] = [NoJob EXCEPT !.op = "delete", !.file = f]]
          /\ steps < MaxSteps /\ steps' = steps + 1 /\ UNCHANGED <<idx, revs, crashes, astray>>
    BY DEF DeleteArtifact
  <1> DEFINE j == [NoJob EXCEPT !.op = "delete", !.file = f]
  <1>2. j \in Jobs /\ j.op = "delete" /\ j.file = f
    BY JobTypes DEF Ops, NoJob
  <1> HIDE DEF j
  <1>3. job' = [job EXCEPT ![c] = j]
    BY <1>1 DEF j
  <1>4. c \in Tasks /\ revs' \in 0..MaxRevs /\ steps' \in 0..MaxSteps /\ crashes' \in 0..MaxCrashes
    BY <1>1, ArtifactAssumption DEF ArtInv, DataType, Tasks
  <1>5. None \in Contents \cup {None}
    OBVIOUS
  <1> QED
    BY <1>1, <1>2, <1>3, <1>4, <1>5, PutsInv

LEMMA RejectionInv ==
  ASSUME ArtInv, NEW c \in FileClients, WriteRejection(c)
  PROVE  ArtInv'
  <1>1. /\ c \in Tasks /\ DataType /\ stage[c] = "reject" /\ UNCHANGED <<idx, steps, crashes, astray>>
        /\ stage \in [Tasks -> Stages] /\ job \in [Tasks -> Jobs]
    BY DEF ArtInv, Tasks, WriteRejection
  <1>2. CASE Ends(c) /\ UNCHANGED <<text, dirty, raced, revs>>
    <2>1. DataType'
      BY <1>1, <1>2 DEF DataType
    <2>2. \A f \in Artifacts : ~Renews(c, f) /\ ~Settles(c, f)
      BY <1>1 DEF Renews, Settles
    <2> QED
      BY <1>1, <1>2, <2>1, <2>2, EndsKeep, RowlessStep
  <1>3. ASSUME NEW f \in Artifacts, NEW asks \in BOOLEAN, NewRev, Goes(c, "index"),
               Puts(c, f, File("artifact", "rejected", asks, revs')),
               job' = [job EXCEPT ![c] = [NoJob EXCEPT !.op = "reject", !.file = f]]
        PROVE  ArtInv'
    <2> DEFINE j == [NoJob EXCEPT !.op = "reject", !.file = f]
    <2>1. j \in Jobs /\ j.op = "reject" /\ j.file = f
      BY JobTypes DEF Ops, NoJob
    <2> HIDE DEF j
    <2>2. job' = [job EXCEPT ![c] = j]
      BY <1>3 DEF j
    <2>3. File("artifact", "rejected", asks, revs') \in Contents /\ revs' \in 0..MaxRevs
      BY <1>1, <1>3, Statuses, NewContents
    <2>4. steps' \in 0..MaxSteps /\ crashes' \in 0..MaxCrashes
      BY <1>1 DEF DataType
    <2> QED
      BY <1>1, <1>3, <2>1, <2>2, <2>3, <2>4, PutsInv
  <1> QED
    BY <1>2, <1>3 DEF WriteRejection

LEMMA RelinkInv ==
  ASSUME ArtInv, NEW c \in FileClients, Relink(c)
  PROVE  ArtInv'
  <1>1. /\ c \in Tasks /\ stage[c] = "relink" /\ UNCHANGED <<text, idx, dirty, limits, raced, astray>>
        /\ stage \in [Tasks -> Stages] /\ job \in [Tasks -> Jobs] /\ job[c] \in Jobs
        /\ job[c].op = "rename" /\ job[c].file \in Artifacts /\ job[c].to \in Artifacts
    BY DEF Relink, ArtInv, Tasks, Plan
  <1>2. DataType'
    BY <1>1 DEF ArtInv, DataType, limits
  <1>3. \A f \in Artifacts : ~Renews(c, f) /\ ~Settles(c, f)
    BY <1>1 DEF Renews, Settles
  <1>4. CASE Goes(c, "move") /\ UNCHANGED job
    <2>1. "move" \in Stages
      BY DEF Stages
    <2>2. /\ stage' \in [Tasks -> Stages] /\ job' \in [Tasks -> Jobs]
          /\ stage'[c] = "move" /\ job'[c] = job[c]
          /\ \A d \in Tasks \ {c} : stage'[d] = stage[d] /\ job'[d] = job[d]
      BY <1>1, <1>4, <2>1, OneTask
    <2>3. Plan(c)' /\ Unovertaken(c)' /\ \A f \in Artifacts : ~Holds(c, f)'
      BY <1>1, <2>2 DEF Plan, Unovertaken, Holds
    <2> QED
      BY <1>1, <1>2, <1>3, <2>2, <2>3, RowlessStep
  <1>5. ASSUME NEW f \in Artifacts, text[f] # None, Goes(c, "write"),
               job' = [job EXCEPT ![c] = [job[c] EXCEPT !.op = "relink", !.from = job[c].file,
                                                        !.file = f, !.copy = text[f]]]
        PROVE  ArtInv'
    <2> DEFINE j == [job[c] EXCEPT !.op = "relink", !.from = job[c].file, !.file = f, !.copy = text[f]]
    <2>1. text[f] \in Contents \cup {None} /\ "write" \in Stages
      BY DEF ArtInv, DataType, Stages
    <2>2. /\ j \in Jobs /\ j.op = "relink" /\ j.file = f /\ j.copy = text[f]
          /\ j.from = job[c].file /\ j.to = job[c].to
      BY <1>1, <2>1 DEF Jobs, Ops
    <2>3. Goes(c, "write") /\ job' = [job EXCEPT ![c] = j]
      BY <1>5
    <2> HIDE DEF j
    <2>4. /\ stage' \in [Tasks -> Stages] /\ job' \in [Tasks -> Jobs]
          /\ stage'[c] = "write" /\ job'[c] = j
          /\ \A d \in Tasks \ {c} : stage'[d] = stage[d] /\ job'[d] = job[d]
      BY <1>1, <2>1, <2>2, <2>3, OneTask
    <2>5. Plan(c)' /\ Unovertaken(c)' /\ \A g \in Artifacts : ~Holds(c, g)'
      BY <1>1, <1>5, <2>2, <2>4 DEF Plan, Unovertaken, Holds
    <2> QED
      BY <1>1, <1>2, <1>3, <2>4, <2>5, RowlessStep
  <1> QED
    BY <1>4, <1>5 DEF Relink, RowFiles

LEMMA MoveInv ==
  ASSUME ArtInv, NEW c \in FileClients, Move(c)
  PROVE  ArtInv'
  <1>1. /\ c \in Tasks /\ stage[c] = "move" /\ UNCHANGED <<idx, limits, astray>>
        /\ stage \in [Tasks -> Stages] /\ job \in [Tasks -> Jobs] /\ job[c] \in Jobs
        /\ job[c].op = "rename" /\ job[c].file \in Artifacts /\ job[c].to \in Artifacts
        /\ raced' = raced \cup {d \in FileClients : job[d].op = "transition" /\ stage[d] = "write"}
        /\ DataType
    BY DEF Move, ArtInv, Tasks, Plan
  <1>2. \A f \in Artifacts : ~Renews(c, f) /\ ~Settles(c, f)
    BY <1>1 DEF Renews, Settles
  <1>3. CASE text[job[c].file] = None
    <2>1. Ends(c) /\ UNCHANGED <<text, dirty>>
      BY <1>3 DEF Move
    <2>2. DataType'
      BY <1>1, <2>1 DEF DataType, limits
    <2> QED
      BY <1>1, <1>2, <2>1, <2>2, EndsKeep, RowlessStep
  <1>4. CASE text[job[c].file] # None
    <2>1. /\ text' = [text EXCEPT ![job[c].to] = text[job[c].file], ![job[c].file] = None]
          /\ dirty' = dirty \cup {job[c].file, job[c].to}
          /\ Goes(c, "unindex") /\ job' = job /\ "unindex" \in Stages
      BY <1>4 DEF Move, Stages
    <2>2. /\ text' \in [Artifacts -> Contents \cup {None}]
          /\ \A f \in Artifacts : text'[f] = text[f] \/ f \in dirty'
      BY <1>1, <2>1 DEF DataType
    <2>3. DataType'
      BY <1>1, <2>1, <2>2 DEF DataType, limits
    <2>4. /\ stage' \in [Tasks -> Stages] /\ job' \in [Tasks -> Jobs]
          /\ stage'[c] = "unindex" /\ job'[c] = job[c]
          /\ \A d \in Tasks \ {c} : stage'[d] = stage[d] /\ job'[d] = job[d]
      BY <1>1, <2>1, OneTask
    <2>5. Plan(c)' /\ Unovertaken(c)' /\ \A f \in Artifacts : ~Holds(c, f)'
      BY <1>1, <2>4 DEF Plan, Unovertaken, Holds
    <2> QED
      BY <1>1, <1>2, <2>1, <2>2, <2>3, <2>4, <2>5, RowlessStep
  <1> QED
    BY <1>3, <1>4

\* The mutex is free, and what the row said is still on disk.
LEMMA LockInv ==
  ASSUME ArtInv, NEW c \in FileClients, LockAndRead(c)
  PROVE  ArtInv'
  <1> DEFINE f == job[c].file
  <1>1. /\ c \in Tasks /\ stage[c] = "lock" /\ UNCHANGED <<text, idx, dirty, limits, astray>>
        /\ stage \in [Tasks -> Stages] /\ job \in [Tasks -> Jobs] /\ job[c] \in Jobs
        /\ f \in Artifacts /\ raced' = raced \ {c} /\ DataType /\ Plan(c)
        /\ text[f] \in Contents \cup {None}
        /\ \A d \in FileClients : ~Holds(d, f)
    BY DEF LockAndRead, ArtInv, Tasks, Plan, DataType
  <1>2. DataType'
    BY <1>1 DEF DataType, limits
  <1>3. \A g \in Artifacts : ~Renews(c, g) /\ ~Settles(c, g)
    BY <1>1 DEF Renews, Settles
  <1>4. CASE text[f] # None /\ text[f].status = job[c].from
    <2> DEFINE j == [job[c] EXCEPT !.copy = text[f]]
    <2>1. Goes(c, "write") /\ job' = [job EXCEPT ![c] = j]
      <3>1. Goes(c, "write") /\ job' = [job EXCEPT ![c].copy = text[f]]
        BY <1>4 DEF LockAndRead
      <3> QED
        BY <1>1, <3>1
    <2>2. /\ j \in Jobs /\ "write" \in Stages
          /\ j.copy = text[f] /\ j.op = job[c].op /\ j.file = f /\ j.to = job[c].to /\ j.from = job[c].from
      BY <1>1 DEF Jobs, Stages
    <2> HIDE DEF j
    <2>3. /\ stage' \in [Tasks -> Stages] /\ job' \in [Tasks -> Jobs]
          /\ stage'[c] = "write" /\ job'[c] = j
          /\ \A d \in Tasks \ {c} : stage'[d] = stage[d] /\ job'[d] = job[d]
      BY <1>1, <2>1, <2>2, OneTask
    <2>4. Plan(c)'
      BY <1>1, <1>4, <2>2, <2>3 DEF Plan
    <2>5. Unovertaken(c)'
      BY <1>1, <1>4, <2>2, <2>3 DEF Unovertaken
    <2>6. \A g \in Artifacts : Holds(c, g)' => \A d \in FileClients : ~Holds(d, g)
      BY <1>1, <2>2, <2>3 DEF Holds
    <2> QED
      BY <1>1, <1>2, <1>3, <2>3, <2>4, <2>5, <2>6, RowlessStep
  <1>5. CASE ~(text[f] # None /\ text[f].status = job[c].from)
    <2>1. Ends(c)
      BY <1>5 DEF LockAndRead
    <2> QED
      BY <1>1, <1>2, <1>3, <2>1, EndsKeep, RowlessStep
  <1> QED
    BY <1>4, <1>5

---------------------------------------------------------------------------
(* People and agents, the watcher, a restart.                              *)

LEMMA EditFileInv ==
  ASSUME ArtInv, NEW f \in Artifacts, EditFile(f)
  PROVE  ArtInv'
  <1>1. /\ dirty' = dirty \cup {f} /\ UNCHANGED <<idx, stage, job, crashes, astray>> /\ DataType
        /\ raced' = raced \cup {c \in FileClients : job[c].op = "transition" /\ job[c].file = f}
    BY DEF EditFile, taskVars, ArtInv
  <1>2. PICK x \in Contents \cup {None} :
          text' = [text EXCEPT ![f] = x] /\ revs' \in 0..MaxRevs /\ steps' \in 0..MaxSteps
    <2>1. CASE /\ text' = [text EXCEPT ![f] = None] /\ steps < MaxSteps
               /\ steps' = steps + 1 /\ UNCHANGED revs
      <3>1. revs' \in 0..MaxRevs /\ steps' \in 0..MaxSteps
        BY <1>1, <2>1, ArtifactAssumption DEF DataType
      <3>2. None \in Contents \cup {None}
        OBVIOUS
      <3> QED
        BY <2>1, <3>1, <3>2
    <2>2. ASSUME NEW status \in EditStatuses, NEW kind \in EditKinds, NEW asks \in BOOLEAN,
                 NewRev, UNCHANGED steps,
                 text' = [text EXCEPT ![f] = File(kind, status, asks, revs')]
          PROVE  /\ File(kind, status, asks, revs') \in Contents
                 /\ revs' \in 0..MaxRevs /\ steps' \in 0..MaxSteps
      BY <1>1, <2>2, NewContents, ArtifactAssumption DEF DataType
    <2> QED
      BY <2>1, <2>2 DEF EditFile
  <1>3. /\ DataType' /\ \A g \in Artifacts \ {f} : text'[g] = text[g]
    BY <1>1, <1>2 DEF DataType
  <1>4. \A t \in Tasks : Plan(t)'
    BY <1>1 DEF ArtInv, Plan
  <1>5. ASSUME NEW g \in Artifacts
        PROVE  Row(g)'
    <2>1. CASE g = f
      BY <1>1, <2>1 DEF ArtInv, Row, Settles
    <2>2. CASE g # f
      <3>1. \A t \in Tasks : (Settles(t, g)' <=> Settles(t, g)) /\ (Renews(t, g)' <=> Renews(t, g))
        BY <1>1, <1>3, <1>5, <2>2 DEF Settles, Renews
      <3> QED
        BY <1>1, <1>3, <1>5, <2>2, <3>1 DEF ArtInv, Row
    <2> QED
      BY <2>1, <2>2
  <1>6. OneHolder'
    BY <1>1 DEF ArtInv, OneHolder, Holds
  <1>7. ASSUME NEW c \in FileClients
        PROVE  Unovertaken(c)'
    <2>1. stage[c] = "write" => job[c].file \in Artifacts
      BY DEF ArtInv, Plan, Tasks
    <2> QED
      BY <1>1, <1>3, <2>1 DEF ArtInv, Unovertaken
  <1> QED
    BY <1>1, <1>3, <1>4, <1>5, <1>6, <1>7 DEF ArtInv

LEMMA HandleChangeInv ==
  ASSUME ArtInv, NEW w \in Watchers, HandleChange(w)
  PROVE  ArtInv'
  <1>1. PICK f \in dirty :
          /\ stage[w] = "idle" /\ dirty' = dirty \ {f} /\ Goes(w, "index")
          /\ job' = [job EXCEPT ![w] = [NoJob EXCEPT !.op = "watch", !.file = f]]
          /\ UNCHANGED <<text, idx, limits, raced, astray>>
    BY DEF HandleChange
  <1> DEFINE j == [NoJob EXCEPT !.op = "watch", !.file = f]
  <1>2. /\ w \in Tasks /\ w \notin FileClients /\ f \in Artifacts /\ "index" \in Stages
        /\ stage \in [Tasks -> Stages] /\ job \in [Tasks -> Jobs] /\ DataType
    BY ArtifactAssumption DEF ArtInv, DataType, Tasks, Stages
  <1>3. j \in Jobs /\ j.op = "watch" /\ j.file = f
    BY <1>2, JobTypes DEF Ops, NoJob
  <1> HIDE DEF j
  <1>4. job' = [job EXCEPT ![w] = j]
    BY <1>1 DEF j
  <1>5. /\ stage' \in [Tasks -> Stages] /\ job' \in [Tasks -> Jobs]
        /\ stage'[w] = "index" /\ job'[w] = j
        /\ \A d \in Tasks \ {w} : stage'[d] = stage[d] /\ job'[d] = job[d]
    BY <1>1, <1>2, <1>3, <1>4, OneTask
  <1>6. DataType'
    BY <1>1, <1>2 DEF DataType, limits
  <1>7. /\ Plan(w)' /\ Renews(w, f)'
        /\ \A g \in Artifacts : ~Renews(w, g) /\ ~Settles(w, g) /\ ~Holds(w, g)'
    BY <1>1, <1>2, <1>3, <1>5 DEF Plan, Renews, Settles, Holds
  <1> QED
    BY <1>1, <1>2, <1>5, <1>6, <1>7, RowlessStep

\* What the Scan passed over is astray; every other row is of the file as Scan left it.
LEMMA RestartInv ==
  ASSUME ArtInv, RestartAndScan
  PROVE  ArtInv'
  <1>1. PICK skipped \in SUBSET RowFiles :
          LET read == {f \in Artifacts : text[f] # None /\ ~PassedOver(text[f])} \ skipped
          IN  /\ text' = [f \in Artifacts |-> IF f \in read /\ idx[f] # text[f]
                                               THEN Settled(text[f]) ELSE text[f]]
              /\ idx'  = [f \in Artifacts |-> IF f \in read /\ idx[f] # text[f]
                                               THEN Settled(text[f]) ELSE idx[f]]
              /\ astray' = {f \in Artifacts : \/ Settled(idx'[f]) # idx'[f]
                                               \/ (idx'[f] # text'[f] /\ ~PassedOver(text'[f]))}
    BY DEF RestartAndScan
  <1>2. /\ dirty' = {} /\ raced' = {} /\ UNCHANGED <<revs, steps>>
        /\ crashes < MaxCrashes /\ crashes' = crashes + 1
        /\ stage' = [t \in Tasks |-> "idle"] /\ job' = [t \in Tasks |-> NoJob]
        /\ DataType
    BY DEF RestartAndScan, ArtInv
  <1>3. \A f \in Artifacts : /\ text[f] \in Contents \cup {None} /\ idx[f] \in Contents \cup {None}
                            /\ Settled(text[f]) \in Contents \cup {None}
    BY <1>2, SettledContent DEF DataType
  <1>4. text' \in [Artifacts -> Contents \cup {None}] /\ idx' \in [Artifacts -> Contents \cup {None}]
    BY <1>1, <1>3
  <1>5. DataType'
    BY <1>1, <1>2, <1>4, ArtifactAssumption DEF DataType
  <1>6. stage' \in [Tasks -> Stages] /\ job' \in [Tasks -> Jobs]
    BY <1>2, NoJobType
  <1>7. NoJob.op = ""
    BY DEF NoJob
  <1>8. \A t \in Tasks : Plan(t)'
    BY <1>2, <1>7 DEF Plan
  <1>9. \A f \in Artifacts : Row(f)'
    BY <1>1 DEF Row
  <1>10. OneHolder' /\ \A c \in FileClients : Unovertaken(c)'
    BY <1>2 DEF OneHolder, Holds, Unovertaken, Tasks
  <1> QED
    BY <1>5, <1>6, <1>8, <1>9, <1>10 DEF ArtInv

LEMMA ArtNextInv ==
  ASSUME ArtInv, [ArtNext]_artVars
  PROVE  ArtInv'
  <1>1. ASSUME NEW c \in FileClients, FileRequest(c)
        PROVE  ArtInv'
    BY <1>1, CreateInv, ReadsInv, WritesInv, DeleteInv, RenameInv, RelinkInv, MoveInv, GrantsInv,
       LockInv, RejectionInv DEF FileRequest
  <1>2. ASSUME NEW t \in Tasks, IndexFile(t)
        PROVE  ArtInv'
    BY <1>2, IndexReadInv, IndexStoreInv, IndexSettleInv, IndexRestoreInv, UnindexInv DEF IndexFile
  <1>3. CASE UNCHANGED artVars
    <2>1. UNCHANGED <<text, idx, dirty, stage, job, revs, steps, crashes, raced, astray>>
      BY <1>3 DEF artVars, taskVars, limits
    <2> QED
      BY <2>1 DEF ArtInv, DataType, Plan, Row, Renews, Settles, OneHolder, Holds, Unovertaken
  <1> QED
    BY <1>1, <1>2, <1>3, EditFileInv, HandleChangeInv, RestartInv DEF ArtNext

LEMMA ArtInitInv == ArtInit => ArtInv
  <1> SUFFICES ASSUME ArtInit PROVE ArtInv
    OBVIOUS
  <1> DEFINE first == File("artifact", "draft", FALSE, 1)
  <1>1. first \in Contents /\ Settled(first) = first
    BY Statuses, ArtifactAssumption DEF Contents, Settled, File
  <1>2. PICK S : text = [g \in Artifacts |-> IF g \in S THEN first ELSE None]
    BY DEF ArtInit
  <1> HIDE DEF first
  <1>3. None \in Contents \cup {None} /\ Settled(None) = None
    BY SettledContent
  <1>4. /\ text \in [Artifacts -> Contents \cup {None}]
        /\ \A f \in Artifacts : Settled(text[f]) = text[f]
    BY <1>1, <1>2, <1>3
  <1>5. /\ idx = text /\ dirty = {} /\ raced = {} /\ astray = {}
        /\ stage = [t \in Tasks |-> "idle"] /\ job = [t \in Tasks |-> NoJob]
        /\ revs = 1 /\ steps = 0 /\ crashes = 0
    BY DEF ArtInit
  <1>6. DataType
    BY <1>4, <1>5, ArtifactAssumption DEF DataType
  <1>7. stage \in [Tasks -> Stages] /\ job \in [Tasks -> Jobs]
    BY <1>5, NoJobType
  <1>8. NoJob.op = ""
    BY DEF NoJob
  <1>9. /\ \A t \in Tasks : Plan(t)
        /\ OneHolder /\ \A c \in FileClients : Unovertaken(c)
    BY <1>5, <1>8 DEF Plan, OneHolder, Holds, Unovertaken, Tasks
  <1>10. \A f \in Artifacts : Row(f)
    BY <1>4, <1>5 DEF Row
  <1> QED
    BY <1>6, <1>7, <1>9, <1>10 DEF ArtInv

\* The invariant of the files and their rows.
THEOREM ArtInvariance == ArtSpec => []ArtInv
  <1>1. ArtInv /\ [ArtNext]_artVars => ArtInv'
    BY ArtNextInv
  <1> QED
    BY <1>1, ArtInitInv, PTL DEF ArtSpec

\* The files, their rows, the tasks and the histories keep their types.
THEOREM ArtTypes == ArtSpec => []ArtTypeOK
  <1>1. ASSUME ArtInv
        PROVE  ArtTypeOK
    <2>1. /\ DataType /\ stage \in [Tasks -> Stages]
          /\ \A t \in Tasks : job[t] \in Jobs
      BY <1>1 DEF ArtInv
    <2>2. \A t \in Tasks :
            /\ job[t].op \in Ops /\ job[t].copy \in Contents \cup {None}
            /\ {job[t].file, job[t].from, job[t].to} \subseteq Artifacts \cup Known \cup {""}
      BY <2>1 DEF Jobs
    <2> QED
      BY <2>1, <2>2 DEF ArtTypeOK, DataType
  <1>2. ArtInv => ArtTypeOK
    BY <1>1
  <1> QED
    BY <1>2, ArtInvariance, PTL

\* IndexFile, autoBlock, handleChange and Scan together: at rest, a row that is not astray
\* is made from the file as it is, and the file is blocked exactly if it asks; unless the
\* file is one whose row IndexFile leaves alone.
THEOREM RowsFollowFilesHolds == ArtSpec => []RowsFollowFiles
  <1>1. ASSUME ArtInv, Quiet, NEW f \in Artifacts \ astray
        PROVE  PassedOver(text[f]) \/ (idx[f] = text[f] /\ Settled(text[f]) = text[f])
    <2>1. Row(f) /\ f \notin dirty
      BY <1>1 DEF ArtInv, Quiet
    <2>2. \A t \in Tasks : ~Renews(t, f)
      BY <1>1 DEF Quiet, Renews, Settles
    <2> QED
      BY <1>1, <2>1, <2>2 DEF Row
  <1>2. ArtInv => RowsFollowFiles
    BY <1>1 DEF RowsFollowFiles
  <1> QED
    BY <1>2, ArtInvariance, PTL

\* applyTransition reads and writes under the mutex of the path: the status it replaces is
\* the one it was granted for, unless a writer without the mutex came in between.
THEOREM TransitionsFromGrantedStatusHolds == ArtSpec => TransitionsFromGrantedStatus
  <1>1. ASSUME ArtInv, NEW c \in FileClients, WriteStatus(c), c \notin raced
        PROVE  text[job[c].file] # None /\ text[job[c].file].status = job[c].from
    BY <1>1 DEF ArtInv, Unovertaken, WriteStatus
  <1>2. ArtInv => [\A c \in FileClients :
                     WriteStatus(c) /\ c \notin raced =>
                       text[job[c].file] # None /\ text[job[c].file].status = job[c].from]_artVars
    BY <1>1
  <1> QED
    BY <1>2, ArtInvariance, PTL DEF TransitionsFromGrantedStatus

---------------------------------------------------------------------------
(* The composition.                                                        *)

\* A step of the composition is a step of one of its parts, and the others stand still.
LEMMA FilesStep ==
  ASSUME [FilesNext]_filesVars
  PROVE  [RelNext]_relVars /\ [FwNext]_fwVars /\ [ArtNext]_artVars
  <1>1. CASE UNCHANGED filesVars
    BY <1>1 DEF filesVars
  <1>2. CASE ReleasesStep
    BY <1>2 DEF ReleasesStep
  <1>3. CASE WatcherStep(FwNext)
    BY <1>3 DEF WatcherStep
  <1>4. CASE ArtifactStep
    BY <1>4 DEF ArtifactStep
  <1> QED
    BY <1>1, <1>2, <1>3, <1>4 DEF FilesNext

\* The composition of DiskSync, the watcher and the artifact files adds no behaviour to any of
\* them: what is proved of each above is true of it.
THEOREM FilesImplement == FilesSpec => RelSpec /\ (FwInit /\ [][FwNext]_fwVars) /\ ArtSpec
  <1>1. FilesInit => RelInit /\ FwInit /\ ArtInit
    BY DEF FilesInit
  <1>2. [FilesNext]_filesVars => [RelNext]_relVars /\ [FwNext]_fwVars /\ [ArtNext]_artVars
    BY FilesStep
  <1>3. FilesSpec => FilesInit /\ [][FilesNext]_filesVars
    BY PTL DEF FilesSpec
  <1> QED
    BY <1>1, <1>2, <1>3, PTL DEF RelSpec, ArtSpec

\* So the specification the run checks has its properties for every value of the constants.
THEOREM FilesProperties ==
  FilesSpec => /\ [](FilesTypeOK /\ RowsWereOnDisk /\ WaitGroupExact /\ RowsFollowFiles)
               /\ LoadLeavesNoGhost /\ TransitionsFromGrantedStatus
  <1>1. WatcherInv /\ [FwNext]_fwVars => WatcherInv'
    BY WatcherNextInv
  <1>2. WatcherRest /\ WatcherInv /\ [FwNext]_fwVars => WatcherRest'
    BY WatcherRestStep
  <1>3. WatcherInv => WaitGroupExact
    BY DEF WatcherInv
  <1>4. FwInit /\ [][FwNext]_fwVars => [](FwTypeOK /\ WaitGroupExact)
    BY <1>1, <1>2, <1>3, WatcherInitInv, WatcherRestInit, WatcherTyped, PTL
  <1>5. RelTypeOK /\ FwTypeOK /\ ArtTypeOK => FilesTypeOK
    BY DEF FilesTypeOK
  <1> QED
    BY <1>4, <1>5, FilesImplement, ReleaseTypes, ArtTypes, RowsWereOnDiskHolds,
       RowsFollowFilesHolds, LoadLeavesNoGhostHolds, TransitionsFromGrantedStatusHolds, PTL

=============================================================================

--------------------------- MODULE RunWatchProofs ---------------------------
(***************************************************************************)
(* Proofs about RunWatch, for any runs, capacity and number of events.     *)
(*                                                                         *)
(* The channel is first in, first out, and a run says nothing after its    *)
(* final event.  So, once the watcher of a run takes that event from the   *)
(* channel, no report of the run is left in it: it was missed, or it would *)
(* have come first.  Inv says that of every moment.                        *)
(***************************************************************************)
EXTENDS RunWatch, TLAPS

Serving == disp \in {"started", "await"}

\* Which run the dispatcher and the watcher take for theirs.
OwnInv ==
  /\ Serving <=> own \in Runs
  /\ disp \in {"subscribed", "started"} => handed = "empty" /\ ours = NoRun
  /\ disp = "await" => ours \in {NoRun, own}
  /\ watching => runDone = "none"
  /\ disp \in {"subscribed", "started"} => runDone \notin Relevant

\* What a run has said, by how far it is; and that what is in the channel was said.
SaidInv ==
  /\ \A r \in Runs : life[r] = "absent" => sent[r] = {}
  /\ \A r \in Runs : life[r] # "over" => sent[r] \cap Final = {}
  /\ \A i \in 1..Len(evCh) : evCh[i].kind \in Relevant => evCh[i].kind \in sent[evCh[i].run]
  /\ \A i \in 1..Len(evCh) : life[evCh[i].run] # "absent"

\* A final event is the last one of its run.
LastInv ==
  \A i, j \in 1..Len(evCh) :
    i < j /\ evCh[i].kind \in Final => evCh[j].run # evCh[i].run

\* A report of the run in service was missed or is on its way.
PendingInv ==
  Serving /\ watching =>
    \A k \in Transient : k \in sent[own] =>
      k \in missed[own] \/ \E i \in 1..Len(evCh) : evCh[i] = [kind |-> k, run |-> own]

\* The result of the run in service, and the verdicts.
ResultInv ==
  disp = "await" /\ runDone \in Relevant =>
    /\ runDone \in sent[own]
    /\ runDone \in Final => sent[own] \cap Transient \subseteq missed[own]

VerdictInv == VerdictIsOwn /\ TransientComesFirst

Inv == TypeOK /\ OwnInv /\ SaidInv /\ LastInv /\ PendingInv /\ ResultInv /\ VerdictInv

---------------------------------------------------------------------------
(* The channel.                                                            *)

\* Hub.Broadcast: what an append leaves where it was.
LEMMA Appended ==
  ASSUME NEW E, NEW s \in Seq(E), NEW e \in E
  PROVE  /\ Append(s, e) \in Seq(E)
         /\ Len(s) \in Nat
         /\ Len(Append(s, e)) = Len(s) + 1
         /\ \A i \in 1..Len(s) : Append(s, e)[i] = s[i]
         /\ Append(s, e)[Len(s) + 1] = e
  BY SMT

\* watchRunEvents: what is left when the next event is taken.
LEMMA Taken ==
  ASSUME NEW E, NEW s \in Seq(E), s # <<>>
  PROVE  /\ Head(s) = s[1] /\ Head(s) \in E
         /\ Len(s) \in Nat /\ Len(s) >= 1
         /\ Tail(s) \in Seq(E) /\ Len(Tail(s)) = Len(s) - 1
         /\ \A i \in 1..Len(Tail(s)) : i + 1 \in 1..Len(s) /\ Tail(s)[i] = s[i + 1]
  BY SMT

LEMMA ElementType ==
  ASSUME NEW E, NEW s \in Seq(E), NEW i \in 1..Len(s)
  PROVE  s[i] \in E
  BY SMT

\* A history only grows, and only at the run that speaks.
LEMMA Noted ==
  ASSUME NEW h \in [Runs -> SUBSET Relevant], NEW r \in Runs, NEW kind
  PROVE  /\ Note(h, r, kind) \in [Runs -> SUBSET Relevant]
         /\ \A q \in Runs : h[q] \subseteq Note(h, r, kind)[q]
         /\ \A q \in Runs \ {r} : Note(h, r, kind)[q] = h[q]
         /\ Note(h, r, kind)[r] = h[r] \cup ({kind} \cap Relevant)
  BY DEF Note

---------------------------------------------------------------------------
(* What a run says: at its start, while it is live, and at its end.        *)

Speaks(kind, r) ==
  /\ Broadcast(kind, r)
  /\ \/ life[r] = "absent" /\ kind = "noise" /\ life' = [life EXCEPT ![r] = "live"]
     \/ life[r] = "live" /\ kind \in Transient \cup {"noise"} /\ life' = life
     \/ life[r] = "released" /\ kind \in Final /\ life' = [life EXCEPT ![r] = "over"]

\* Broadcast, by what becomes of the event.
LEMMA BroadcastCases ==
  ASSUME TypeOK, NEW kind \in Relevant \cup {"noise"}, NEW r \in Runs, Broadcast(kind, r)
  PROVE  /\ sent' = Note(sent, r, kind)
         /\ evCh' \in Seq(Event) /\ Len(evCh') <= Capacity
         /\ \/ /\ evCh' = Append(evCh, [kind |-> kind, run |-> r])
               /\ missed' = missed
            \/ /\ evCh' = evCh
               /\ missed' = Note(missed, r, kind)
  <1>1. [kind |-> kind, run |-> r] \in Event
    BY DEF Event
  <1>2. Capacity \in Nat /\ evCh \in Seq(Event) /\ Len(evCh) \in Nat /\ Len(evCh) <= Capacity
    BY WatchAssumption DEF TypeOK
  <1>3. CASE watching /\ Len(evCh) < Capacity
    <2>1. evCh' = Append(evCh, [kind |-> kind, run |-> r]) /\ missed' = missed
            /\ sent' = Note(sent, r, kind)
      BY <1>3 DEF Broadcast
    <2>2. Len(evCh') = Len(evCh) + 1 /\ evCh' \in Seq(Event)
      BY <1>1, <1>2, <2>1, Appended
    <2>3. Len(evCh') <= Capacity
      BY <1>2, <1>3, <2>2
    <2> QED
      BY <2>1, <2>2, <2>3
  <1>4. CASE ~(watching /\ Len(evCh) < Capacity)
    BY <1>2, <1>4 DEF Broadcast
  <1> QED
    BY <1>3, <1>4

\* The histories grow; what a run that is over has said is settled.
LEMMA SpeaksGrows ==
  ASSUME TypeOK, NEW kind \in Relevant \cup {"noise"}, NEW r \in Runs, Speaks(kind, r)
  PROVE  /\ life' \in [Runs -> {"absent", "live", "closing", "released", "over"}]
         /\ sent' \in [Runs -> SUBSET Relevant] /\ missed' \in [Runs -> SUBSET Relevant]
         /\ \A q \in Runs : sent[q] \subseteq sent'[q] /\ missed[q] \subseteq missed'[q]
         /\ \A q \in Runs : life[q] = "over" => sent'[q] = sent[q]
  <1>1. sent \in [Runs -> SUBSET Relevant] /\ missed \in [Runs -> SUBSET Relevant]
          /\ life \in [Runs -> {"absent", "live", "closing", "released", "over"}]
    BY DEF TypeOK
  <1>2. sent' = Note(sent, r, kind) /\ (missed' = missed \/ missed' = Note(missed, r, kind))
    BY BroadcastCases DEF Speaks
  <1>3. life[r] # "over"
          /\ life' \in [Runs -> {"absent", "live", "closing", "released", "over"}]
    BY <1>1 DEF Speaks
  <1> QED
    BY <1>1, <1>2, <1>3, Noted

LEMMA SpeaksSaid ==
  ASSUME TypeOK, SaidInv, NEW kind \in Relevant \cup {"noise"}, NEW r \in Runs, Speaks(kind, r)
  PROVE  SaidInv'
  <1>1. sent \in [Runs -> SUBSET Relevant] /\ evCh \in Seq(Event)
          /\ life \in [Runs -> {"absent", "live", "closing", "released", "over"}]
    BY DEF TypeOK
  <1>2. /\ \A q \in Runs : sent[q] \subseteq sent'[q]
        /\ \A q \in Runs \ {r} : sent'[q] = sent[q] /\ life'[q] = life[q]
        /\ sent'[r] = sent[r] \cup ({kind} \cap Relevant)
        /\ life'[r] # "absent" /\ (life'[r] # "over" => kind \notin Final /\ life[r] # "over")
    <2>1. sent' = Note(sent, r, kind)
      BY BroadcastCases DEF Speaks
    <2>2. /\ \A q \in Runs : sent[q] \subseteq sent'[q]
          /\ \A q \in Runs \ {r} : sent'[q] = sent[q]
          /\ sent'[r] = sent[r] \cup ({kind} \cap Relevant)
      BY <1>1, <2>1, Noted
    <2>3. /\ \A q \in Runs \ {r} : life'[q] = life[q]
          /\ life'[r] # "absent" /\ (life'[r] # "over" => kind \notin Final /\ life[r] # "over")
      BY <1>1 DEF Speaks, Final, Transient
    <2> QED
      BY <2>2, <2>3
  <1>3. (\A q \in Runs : life[q] = "absent" => sent[q] = {})'
    BY <1>2 DEF SaidInv
  <1>4. (\A q \in Runs : life[q] # "over" => sent[q] \cap Final = {})'
    BY <1>2 DEF SaidInv
  <1>5. \A i \in 1..Len(evCh') :
          /\ evCh'[i].run \in Runs
          /\ (i \in 1..Len(evCh) /\ evCh'[i] = evCh[i])
               \/ evCh'[i] = [kind |-> kind, run |-> r]
    <2>1. evCh' = Append(evCh, [kind |-> kind, run |-> r]) \/ evCh' = evCh
      BY BroadcastCases DEF Speaks
    <2>2. [kind |-> kind, run |-> r] \in Event
      BY DEF Event
    <2>3. \A i \in 1..Len(evCh') :
            (i \in 1..Len(evCh) /\ evCh'[i] = evCh[i]) \/ evCh'[i] = [kind |-> kind, run |-> r]
      BY <1>1, <2>1, <2>2, Appended
    <2>4. \A i \in 1..Len(evCh) : evCh[i].run \in Runs
      <3> TAKE i \in 1..Len(evCh)
      <3>1. evCh[i] \in Event
        BY <1>1, ElementType
      <3> QED
        BY <3>1 DEF Event
    <2> QED
      BY <2>3, <2>4
  <1>6. (\A i \in 1..Len(evCh) : evCh[i].kind \in Relevant => evCh[i].kind \in sent[evCh[i].run])'
    BY <1>2, <1>5 DEF SaidInv
  <1>7. (\A i \in 1..Len(evCh) : life[evCh[i].run] # "absent")'
    BY <1>2, <1>5 DEF SaidInv
  <1> QED
    BY <1>3, <1>4, <1>6, <1>7 DEF SaidInv

\* The final event of a run that may still speak is not in the channel.
LEMMA SpeaksLast ==
  ASSUME TypeOK, SaidInv, LastInv,
         NEW kind \in Relevant \cup {"noise"}, NEW r \in Runs, Speaks(kind, r)
  PROVE  LastInv'
  <1>1. evCh \in Seq(Event) /\ Len(evCh) \in Nat
    BY DEF TypeOK
  <1>2. life[r] # "over"
    BY DEF Speaks
  <1>3. \A i \in 1..Len(evCh) : evCh[i].kind \in Final => evCh[i].run # r
    <2> SUFFICES ASSUME NEW i \in 1..Len(evCh), evCh[i].kind \in Final, evCh[i].run = r
                 PROVE FALSE
      OBVIOUS
    <2>1. evCh[i].kind \in sent[r]
      BY DEF SaidInv, Relevant
    <2> QED
      BY <1>2, <2>1 DEF SaidInv
  <1>4. [kind |-> kind, run |-> r] \in Event
    BY DEF Event
  <1>5. CASE evCh' = evCh
    BY <1>5 DEF LastInv
  <1>6. CASE evCh' = Append(evCh, [kind |-> kind, run |-> r])
    <2>1. /\ Len(evCh') = Len(evCh) + 1
          /\ \A i \in 1..Len(evCh) : evCh'[i] = evCh[i]
          /\ evCh'[Len(evCh) + 1] = [kind |-> kind, run |-> r]
      BY <1>1, <1>4, <1>6, Appended
    <2> SUFFICES ASSUME NEW i \in 1..Len(evCh'), NEW j \in 1..Len(evCh'),
                        i < j, evCh'[i].kind \in Final
                 PROVE evCh'[j].run # evCh'[i].run
      BY DEF LastInv
    <2>2. i \in 1..Len(evCh) /\ (j \in 1..Len(evCh) \/ j = Len(evCh) + 1)
      BY <1>1, <2>1
    <2>3. CASE j \in 1..Len(evCh)
      BY <2>1, <2>2, <2>3 DEF LastInv
    <2>4. CASE j = Len(evCh) + 1
      BY <1>3, <2>1, <2>2, <2>4
    <2> QED
      BY <2>2, <2>3, <2>4
  <1> QED
    BY <1>5, <1>6, BroadcastCases DEF Speaks

\* A report is delivered or missed, and those on their way stay on their way.
LEMMA SpeaksPending ==
  ASSUME TypeOK, OwnInv, PendingInv, UNCHANGED <<disp, own, watching>>,
         NEW kind \in Relevant \cup {"noise"}, NEW r \in Runs, Speaks(kind, r)
  PROVE  PendingInv'
  <1> SUFFICES ASSUME Serving, watching, NEW k \in Transient, k \in sent'[own]
               PROVE  \/ k \in missed'[own]
                      \/ \E i \in 1..Len(evCh') : evCh'[i] = [kind |-> k, run |-> own]
    BY DEF PendingInv, Serving
  <1>1. own \in Runs /\ evCh \in Seq(Event) /\ k \in Relevant
          /\ sent \in [Runs -> SUBSET Relevant] /\ missed \in [Runs -> SUBSET Relevant]
    BY DEF OwnInv, TypeOK, Relevant
  <1>2. [kind |-> kind, run |-> r] \in Event
    BY DEF Event
  <1>3. sent' = Note(sent, r, kind)
          /\ \/ evCh' = Append(evCh, [kind |-> kind, run |-> r]) /\ missed' = missed
             \/ evCh' = evCh /\ missed' = Note(missed, r, kind)
    BY BroadcastCases DEF Speaks
  <1>4. \A q \in Runs : missed[q] \subseteq missed'[q]
    BY SpeaksGrows
  <1>5. CASE k \in sent[own]
    <2>1. CASE k \in missed[own]
      BY <1>1, <1>4, <2>1
    <2>2. CASE \E i \in 1..Len(evCh) : evCh[i] = [kind |-> k, run |-> own]
      <3>1. PICK i \in 1..Len(evCh) : evCh[i] = [kind |-> k, run |-> own]
        BY <2>2
      <3>2. i \in 1..Len(evCh') /\ evCh'[i] = evCh[i]
        BY <1>1, <1>2, <1>3, Appended
      <3> QED
        BY <3>1, <3>2
    <2> QED
      BY <1>5, <2>1, <2>2 DEF PendingInv
  <1>6. CASE k \notin sent[own]
    <2>1. r = own /\ k = kind
      BY <1>1, <1>3, <1>6, Noted
    <2>2. CASE evCh' = Append(evCh, [kind |-> kind, run |-> r])
      <3>1. Len(evCh) + 1 \in 1..Len(evCh')
              /\ evCh'[Len(evCh) + 1] = [kind |-> k, run |-> own]
        BY <1>1, <1>2, <2>1, <2>2, Appended
      <3> QED
        BY <3>1
    <2>3. CASE missed' = Note(missed, r, kind)
      BY <1>1, <2>1, <2>3, Noted
    <2> QED
      BY <1>3, <2>2, <2>3
  <1> QED
    BY <1>5, <1>6

\* A result and a verdict that name a run's end stand, because the run is over.
LEMMA SpeaksResult ==
  ASSUME TypeOK, OwnInv, SaidInv, ResultInv, UNCHANGED <<disp, own, runDone>>,
         NEW kind \in Relevant \cup {"noise"}, NEW r \in Runs, Speaks(kind, r)
  PROVE  ResultInv'
  <1> SUFFICES ASSUME disp = "await", runDone \in Relevant
               PROVE  /\ runDone \in sent'[own]
                      /\ runDone \in Final => sent'[own] \cap Transient \subseteq missed'[own]
    BY DEF ResultInv
  <1>1. own \in Runs
    BY DEF OwnInv, Serving
  <1>2. runDone \in sent[own]
          /\ (runDone \in Final => sent[own] \cap Transient \subseteq missed[own])
    BY DEF ResultInv
  <1>3. runDone \in Final => life[own] = "over"
    BY <1>1, <1>2 DEF SaidInv
  <1> QED
    BY <1>1, <1>2, <1>3, SpeaksGrows

LEMMA SpeaksVerdict ==
  ASSUME TypeOK, SaidInv, VerdictInv, UNCHANGED verdict,
         NEW kind \in Relevant \cup {"noise"}, NEW r \in Runs, Speaks(kind, r)
  PROVE  VerdictInv'
  <1>1. VerdictIsOwn'
    BY SpeaksGrows DEF VerdictInv, VerdictIsOwn
  <1>2. TransientComesFirst'
    <2> SUFFICES ASSUME NEW q \in Runs, verdict[q] \in Final
                 PROVE  sent'[q] \cap Transient \subseteq missed'[q]
      BY DEF TransientComesFirst
    <2>1. verdict[q] \in sent[q] /\ sent[q] \cap Transient \subseteq missed[q]
      BY DEF VerdictInv, VerdictIsOwn, TransientComesFirst, Relevant
    <2>2. life[q] = "over"
      BY <2>1 DEF SaidInv
    <2> QED
      BY <2>1, <2>2, SpeaksGrows
  <1> QED
    BY <1>1, <1>2 DEF VerdictInv

---------------------------------------------------------------------------
(* The watcher takes the next event.                                       *)

LEMMA ReadsType ==
  ASSUME TypeOK, WatcherReads
  PROVE  /\ Head(evCh) \in Event /\ Head(evCh) = evCh[1]
         /\ Len(evCh) \in Nat /\ Len(evCh) >= 1 /\ Len(evCh') = Len(evCh) - 1
         /\ \A i \in 1..Len(evCh') : i + 1 \in 1..Len(evCh) /\ evCh'[i] = evCh[i + 1]
         /\ TypeOK'
  <1>1. evCh \in Seq(Event) /\ evCh # <<>> /\ evCh' = Tail(evCh)
    BY DEF TypeOK, WatcherReads
  <1>2. /\ Head(evCh) \in Event /\ Head(evCh) = evCh[1]
        /\ Len(evCh) \in Nat /\ Len(evCh) >= 1 /\ Len(evCh') = Len(evCh) - 1
        /\ evCh' \in Seq(Event)
        /\ \A i \in 1..Len(evCh') : i + 1 \in 1..Len(evCh) /\ evCh'[i] = evCh[i + 1]
    BY <1>1, Taken
  <1>3. Capacity \in Nat /\ Len(evCh) <= Capacity
    BY WatchAssumption DEF TypeOK
  <1>4. Len(evCh') <= Capacity
    BY <1>2, <1>3
  <1>5. Head(evCh).kind \in Relevant \cup {"noise"} /\ Head(evCh).run \in Runs
    BY <1>2 DEF Event
  <1>6. missed \in [Runs -> SUBSET Relevant]
    BY DEF TypeOK
  <1>7. runDone' \in Relevant \cup {"none", "cancelled"} /\ watching' \in BOOLEAN
          /\ missed' \in [Runs -> SUBSET Relevant]
    <2>1. CASE Head(evCh).kind \in Relevant /\ ours # NoRun /\ Head(evCh).run = ours
      BY <2>1, <1>6 DEF WatcherReads
    <2>2. CASE ~(Head(evCh).kind \in Relevant /\ ours # NoRun /\ Head(evCh).run = ours)
      <3>1. missed' = Note(missed, Head(evCh).run, Head(evCh).kind)
              /\ runDone' = runDone /\ watching' = watching
        BY <2>2 DEF WatcherReads
      <3> QED
        BY <3>1, <1>5, <1>6, Noted DEF TypeOK
    <2> QED
      BY <2>1, <2>2
  <1> QED
    BY <1>2, <1>4, <1>7 DEF TypeOK, WatcherReads, dispVars, runVars

\* The event that is taken is the result or is missed; missed only grows.
LEMMA ReadsCases ==
  ASSUME TypeOK, OwnInv, WatcherReads
  PROVE  /\ runDone = "none"
         /\ \A q \in Runs : missed[q] \subseteq missed'[q]
         /\ \/ /\ evCh[1].kind \in Relevant /\ ours # NoRun /\ evCh[1].run = ours
               /\ runDone' = evCh[1].kind /\ ~watching'
            \/ /\ ~(evCh[1].kind \in Relevant /\ ours # NoRun /\ evCh[1].run = ours)
               /\ missed' = Note(missed, evCh[1].run, evCh[1].kind)
               /\ runDone' = runDone /\ watching' = watching
  <1>1. Head(evCh) = evCh[1] /\ evCh[1].run \in Runs
    BY ReadsType DEF Event
  <1>2. missed \in [Runs -> SUBSET Relevant]
    BY DEF TypeOK
  <1>3. watching /\ runDone = "none"
    BY DEF WatcherReads, OwnInv
  <1>4. CASE evCh[1].kind \in Relevant /\ ours # NoRun /\ evCh[1].run = ours
    BY <1>1, <1>3, <1>4 DEF WatcherReads
  <1>5. CASE ~(evCh[1].kind \in Relevant /\ ours # NoRun /\ evCh[1].run = ours)
    <2>1. missed' = Note(missed, evCh[1].run, evCh[1].kind)
            /\ runDone' = runDone /\ watching' = watching
      BY <1>1, <1>5 DEF WatcherReads
    <2> QED
      BY <1>1, <1>2, <1>3, <1>5, <2>1, Noted
  <1> QED
    BY <1>4, <1>5

LEMMA ReadsInv ==
  ASSUME Inv, WatcherReads
  PROVE  Inv'
  <1> USE DEF Inv
  <1>1. UNCHANGED <<disp, own, handed, verdict, ours, life, authKill, sent, events, stopping>>
    BY DEF WatcherReads, dispVars, runVars
  <1>2. TypeOK'
    BY ReadsType
  <1>3. OwnInv'
    <2>1. (disp \in {"subscribed", "started"} => handed = "empty" /\ ours = NoRun)'
            /\ (Serving <=> own \in Runs)' /\ (disp = "await" => ours \in {NoRun, own})'
      BY <1>1 DEF OwnInv, Serving
    <2>2. (watching => runDone = "none")'
      BY ReadsCases
    <2>3. (disp \in {"subscribed", "started"} => runDone \notin Relevant)'
      BY <1>1, ReadsCases DEF OwnInv
    <2> QED
      BY <2>1, <2>2, <2>3 DEF OwnInv
  <1>4. SaidInv'
    BY <1>1, ReadsType DEF SaidInv
  <1>5. LastInv'
    <2> SUFFICES ASSUME NEW i \in 1..Len(evCh'), NEW j \in 1..Len(evCh'),
                        i < j, evCh'[i].kind \in Final
                 PROVE evCh'[j].run # evCh'[i].run
      BY DEF LastInv
    <2>1. /\ i + 1 \in 1..Len(evCh) /\ evCh'[i] = evCh[i + 1]
          /\ j + 1 \in 1..Len(evCh) /\ evCh'[j] = evCh[j + 1]
      BY ReadsType
    <2>2. i + 1 < j + 1
      OBVIOUS
    <2> QED
      BY <2>1, <2>2 DEF LastInv
  <1>6. PendingInv'
    <2> SUFFICES ASSUME Serving, watching', NEW k \in Transient, k \in sent[own]
                 PROVE  \/ k \in missed'[own]
                        \/ \E i \in 1..Len(evCh') : evCh'[i] = [kind |-> k, run |-> own]
      BY <1>1 DEF PendingInv, Serving
    <2>1. own \in Runs /\ ours \in {NoRun, own} /\ watching
            /\ missed \in [Runs -> SUBSET Relevant] /\ k \in Relevant
      BY DEF OwnInv, Serving, WatcherReads, TypeOK, Relevant
    <2>2. CASE k \in missed[own]
      BY <2>1, <2>2, ReadsCases
    <2>3. CASE \E i \in 1..Len(evCh) : evCh[i] = [kind |-> k, run |-> own]
      <3>1. PICK i \in 1..Len(evCh) : evCh[i] = [kind |-> k, run |-> own]
        BY <2>3
      <3>2. CASE i = 1
        <4>1. missed' = Note(missed, own, k)
          BY <3>1, <3>2, ReadsCases
        <4> QED
          BY <2>1, <4>1, Noted
      <3>3. CASE i # 1
        <4>1. i - 1 \in 1..Len(evCh') /\ evCh'[i - 1] = evCh[(i - 1) + 1] /\ (i - 1) + 1 = i
          BY <3>3, ReadsType
        <4> QED
          BY <3>1, <4>1
      <3> QED
        BY <3>2, <3>3
    <2> QED
      BY <2>1, <2>2, <2>3 DEF PendingInv
  <1>7. ResultInv'
    <2> SUFFICES ASSUME disp = "await", runDone' \in Relevant
                 PROVE  /\ runDone' \in sent[own]
                        /\ runDone' \in Final => sent[own] \cap Transient \subseteq missed'[own]
      BY <1>1 DEF ResultInv
    <2>1. own \in Runs /\ ours \in {NoRun, own} /\ watching
      BY DEF OwnInv, Serving, WatcherReads
    <2>2. evCh[1].run = own /\ runDone' = evCh[1].kind /\ 1 \in 1..Len(evCh)
      <3>1. runDone' # "none"
        BY DEF Relevant, Final, Transient
      <3>2. 1 \in 1..Len(evCh)
        BY ReadsType
      <3>3. ours # NoRun /\ evCh[1].run = ours /\ runDone' = evCh[1].kind
        BY <3>1, ReadsCases
      <3> QED
        BY <2>1, <3>2, <3>3
    <2>3. runDone' \in sent[own]
      BY <2>2 DEF SaidInv
    <2>4. ASSUME runDone' \in Final, NEW k \in Transient, k \in sent[own]
          PROVE  k \in missed'[own]
      <3>1. k \in missed[own] \/ \E i \in 1..Len(evCh) : evCh[i] = [kind |-> k, run |-> own]
        BY <2>1, <2>4 DEF PendingInv, Serving
      <3>2. ASSUME NEW i \in 1..Len(evCh), evCh[i] = [kind |-> k, run |-> own]
            PROVE  FALSE
        <4>1. i # 1
          BY <2>2, <2>4, <3>2 DEF Final, Transient
        <4>2. 1 < i
          BY <4>1
        <4> QED
          BY <2>2, <2>4, <3>2, <4>2 DEF LastInv
      <3> QED
        BY <2>1, <3>1, <3>2, ReadsCases
    <2> QED
      BY <2>3, <2>4
  <1>8. VerdictInv'
    <2>1. VerdictIsOwn'
      BY <1>1 DEF VerdictInv, VerdictIsOwn
    <2>2. TransientComesFirst'
      BY <1>1, ReadsCases DEF VerdictInv, TransientComesFirst
    <2> QED
      BY <2>1, <2>2 DEF VerdictInv
  <1> QED
    BY <1>2, <1>3, <1>4, <1>5, <1>6, <1>7, <1>8

---------------------------------------------------------------------------
(* Steps that say nothing and read nothing.                                *)

Silent ==
  \/ Subscribe \/ StartRunFails \/ HandOff \/ Conclude \/ LoopEnds
  \/ WatcherLearns \/ WatcherCancelled
  \/ \E r \in Runs : ProcessEnds(r) \/ ReleaseLock(r)
  \/ Shutdown
  \/ UNCHANGED vars

LEMMA SilentType ==
  ASSUME TypeOK, Silent
  PROVE  TypeOK'
  <1> USE DEF TypeOK, dispVars, watchVars, runVars, hubVars
  <1>1. CASE Subscribe
    <2>1. <<>> \in Seq(Event) /\ Len(<<>>) = 0 /\ 0 <= Capacity
      BY WatchAssumption
    <2> QED
      BY <1>1, <2>1 DEF Subscribe
  <1>2. CASE Conclude
    BY <1>2 DEF Conclude
  <1>3. CASE WatcherLearns \/ WatcherCancelled
    BY <1>3 DEF WatcherLearns, WatcherCancelled
  <1>4. CASE \E r \in Runs : ProcessEnds(r) \/ ReleaseLock(r)
    BY <1>4 DEF ProcessEnds, ReleaseLock, Advance
  <1>5. CASE StartRunFails \/ HandOff \/ LoopEnds \/ Shutdown \/ UNCHANGED vars
    BY <1>5 DEF StartRunFails, HandOff, LoopEnds, Shutdown, vars
  <1> QED
    BY <1>1, <1>2, <1>3, <1>4, <1>5 DEF Silent

LEMMA SilentOwn ==
  ASSUME TypeOK, OwnInv, Silent
  PROVE  OwnInv'
  <1> USE WatchAssumption DEF TypeOK, OwnInv, Serving, dispVars, watchVars, runVars, hubVars
  <1>1. CASE Subscribe
    BY <1>1 DEF Subscribe, Relevant, Final, Transient
  <1>2. CASE Conclude
    BY <1>2 DEF Conclude
  <1>3. CASE WatcherLearns
    BY <1>3 DEF WatcherLearns
  <1>4. CASE WatcherCancelled
    BY <1>4 DEF WatcherCancelled, Relevant, Final, Transient
  <1>5. CASE \E r \in Runs : ProcessEnds(r) \/ ReleaseLock(r)
    BY <1>5 DEF ProcessEnds, ReleaseLock, Advance
  <1>6. CASE StartRunFails \/ HandOff \/ LoopEnds \/ Shutdown \/ UNCHANGED vars
    BY <1>6 DEF StartRunFails, HandOff, LoopEnds, Shutdown, vars
  <1> QED
    BY <1>1, <1>2, <1>3, <1>4, <1>5, <1>6 DEF Silent

LEMMA SilentSaid ==
  ASSUME TypeOK, SaidInv, LastInv, Silent
  PROVE  SaidInv' /\ LastInv'
  <1> USE DEF dispVars, watchVars, runVars, hubVars
  <1>1. sent' = sent
    BY DEF Silent, Subscribe, StartRunFails, HandOff, Conclude, LoopEnds, WatcherLearns,
           WatcherCancelled, ProcessEnds, ReleaseLock, Advance, Shutdown, vars
  <1>2. evCh' = evCh \/ evCh' = <<>>
    BY DEF Silent, Subscribe, StartRunFails, HandOff, Conclude, LoopEnds, WatcherLearns,
           WatcherCancelled, ProcessEnds, ReleaseLock, Advance, Shutdown, vars
  <1>3. /\ life' \in [Runs -> {"absent", "live", "closing", "released", "over"}]
        /\ \A r \in Runs : /\ life'[r] = "absent" <=> life[r] = "absent"
                           /\ life'[r] = "over" <=> life[r] = "over"
    BY DEF Silent, Subscribe, StartRunFails, HandOff, Conclude, LoopEnds, WatcherLearns,
           WatcherCancelled, ProcessEnds, ReleaseLock, Advance, Shutdown, vars, TypeOK
  <1>4. \A i \in 1..Len(evCh) : evCh[i].run \in Runs
    <2> TAKE i \in 1..Len(evCh)
    <2>1. evCh[i] \in Event
      BY ElementType DEF TypeOK
    <2> QED
      BY <2>1 DEF Event
  <1>5. CASE evCh' = <<>>
    <2>1. 1..Len(evCh') = {}
      BY <1>5
    <2> QED
      BY <1>1, <1>3, <2>1 DEF SaidInv, LastInv
  <1>6. CASE evCh' = evCh
    BY <1>1, <1>3, <1>4, <1>6 DEF SaidInv, LastInv
  <1> QED
    BY <1>2, <1>5, <1>6

LEMMA SilentPending ==
  ASSUME TypeOK, OwnInv, PendingInv, Silent
  PROVE  PendingInv'
  <1> USE DEF dispVars, watchVars, runVars, hubVars, PendingInv, Serving
  <1>1. CASE Subscribe \/ StartRunFails \/ Conclude \/ LoopEnds \/ WatcherCancelled
    BY <1>1 DEF Subscribe, StartRunFails, Conclude, LoopEnds, WatcherCancelled
  <1>2. CASE HandOff \/ WatcherLearns \/ Shutdown \/ UNCHANGED vars
    BY <1>2 DEF HandOff, WatcherLearns, Shutdown, vars
  <1>3. CASE \E r \in Runs : ProcessEnds(r) \/ ReleaseLock(r)
    BY <1>3 DEF ProcessEnds, ReleaseLock, Advance
  <1> QED
    BY <1>1, <1>2, <1>3 DEF Silent

LEMMA SilentResult ==
  ASSUME OwnInv, ResultInv, Silent
  PROVE  ResultInv'
  <1> USE DEF dispVars, watchVars, runVars, hubVars, ResultInv
  <1>1. CASE Subscribe \/ StartRunFails \/ Conclude \/ LoopEnds
    BY <1>1 DEF Subscribe, StartRunFails, Conclude, LoopEnds
  <1>2. CASE HandOff
    BY <1>2 DEF HandOff, OwnInv
  <1>3. CASE WatcherCancelled
    BY <1>3 DEF WatcherCancelled, Relevant, Final, Transient
  <1>4. CASE WatcherLearns \/ Shutdown \/ UNCHANGED vars
    BY <1>4 DEF WatcherLearns, Shutdown, vars
  <1>5. CASE \E r \in Runs : ProcessEnds(r) \/ ReleaseLock(r)
    BY <1>5 DEF ProcessEnds, ReleaseLock, Advance
  <1> QED
    BY <1>1, <1>2, <1>3, <1>4, <1>5 DEF Silent

LEMMA SilentVerdict ==
  ASSUME TypeOK, OwnInv, ResultInv, VerdictInv, Silent
  PROVE  VerdictInv'
  <1> USE DEF dispVars, watchVars, runVars, hubVars, VerdictInv, VerdictIsOwn,
              TransientComesFirst
  <1>1. CASE Conclude
    <2>1. own \in Runs /\ disp = "await" /\ sent' = sent /\ missed' = missed
            /\ verdict \in [Runs -> Relevant \cup {"none", "cancelled"}]
      BY <1>1 DEF Conclude, OwnInv, Serving, TypeOK
    <2>2. CASE runDone # "none" /\ verdict' = [verdict EXCEPT ![own] = runDone]
      BY <2>1, <2>2 DEF ResultInv, Relevant
    <2>3. CASE verdict' = [verdict EXCEPT ![own] = "cancelled"]
      BY <2>1, <2>3 DEF Relevant, Final, Transient
    <2> QED
      BY <1>1, <2>2, <2>3 DEF Conclude
  <1>2. CASE Subscribe \/ StartRunFails \/ LoopEnds \/ HandOff
    BY <1>2 DEF Subscribe, StartRunFails, LoopEnds, HandOff
  <1>3. CASE WatcherLearns \/ WatcherCancelled \/ Shutdown \/ UNCHANGED vars
    BY <1>3 DEF WatcherLearns, WatcherCancelled, Shutdown, vars
  <1>4. CASE \E r \in Runs : ProcessEnds(r) \/ ReleaseLock(r)
    BY <1>4 DEF ProcessEnds, ReleaseLock, Advance
  <1> QED
    BY <1>1, <1>2, <1>3, <1>4 DEF Silent

LEMMA SilentInv ==
  ASSUME Inv, Silent
  PROVE  Inv'
  BY SilentType, SilentOwn, SilentSaid, SilentPending, SilentResult, SilentVerdict DEF Inv

---------------------------------------------------------------------------
(* Steps of a run that say something.                                      *)

\* supervise of somebody's run: the dispatcher and the watcher do not move.
LEMMA SpeaksInv ==
  ASSUME Inv, UNCHANGED <<dispVars, watchVars, stopping>>,
         authKill' \in [Runs -> BOOLEAN], events' \in Nat,
         NEW kind \in Relevant \cup {"noise"}, NEW r \in Runs, Speaks(kind, r)
  PROVE  Inv'
  <1> USE DEF Inv, dispVars, watchVars
  <1>1. TypeOK'
    <2>1. evCh' \in Seq(Event) /\ Len(evCh') <= Capacity
      BY BroadcastCases DEF Speaks
    <2> QED
      BY <2>1, SpeaksGrows DEF TypeOK
  <1>2. OwnInv'
    BY DEF OwnInv, Serving
  <1>3. SaidInv' /\ LastInv'
    BY SpeaksSaid, SpeaksLast
  <1>4. PendingInv' /\ ResultInv' /\ VerdictInv'
    BY SpeaksPending, SpeaksResult, SpeaksVerdict
  <1> QED
    BY <1>1, <1>2, <1>3, <1>4

\* processNext's own run starts: it has said nothing yet.
LEMMA StartRunInv ==
  ASSUME Inv, NEW r \in Runs, StartRun(r)
  PROVE  Inv'
  <1> USE DEF Inv
  <1>1. /\ Speaks("noise", r) /\ "noise" \in Relevant \cup {"noise"}
        /\ disp = "subscribed" /\ disp' = "started" /\ own' = r /\ life[r] = "absent"
        /\ UNCHANGED <<handed, verdict, watching, ours, runDone, authKill, events, stopping>>
    BY DEF StartRun, Speaks, watchVars
  <1>2. sent \in [Runs -> SUBSET Relevant] /\ sent'[r] = {}
    <2>1. sent \in [Runs -> SUBSET Relevant] /\ sent' = Note(sent, r, "noise") /\ sent[r] = {}
      BY <1>1, BroadcastCases DEF Speaks, TypeOK, SaidInv
    <2>2. {"noise"} \cap Relevant = {}
      BY DEF Relevant, Final, Transient
    <2>3. sent'[r] = sent[r] \cup ({"noise"} \cap Relevant)
      BY <2>1, Noted
    <2> QED
      BY <2>1, <2>2, <2>3
  <1>3. TypeOK'
    <2>1. evCh' \in Seq(Event) /\ Len(evCh') <= Capacity
      BY <1>1, BroadcastCases DEF Speaks
    <2> QED
      BY <1>1, <2>1, SpeaksGrows DEF TypeOK
  <1>4. OwnInv'
    BY <1>1 DEF OwnInv, Serving
  <1>5. SaidInv' /\ LastInv'
    BY <1>1, SpeaksSaid, SpeaksLast
  <1>6. PendingInv'
    BY <1>1, <1>2 DEF PendingInv
  <1>7. ResultInv'
    BY <1>1 DEF ResultInv
  <1>8. VerdictInv'
    BY <1>1, SpeaksVerdict
  <1> QED
    BY <1>3, <1>4, <1>5, <1>6, <1>7, <1>8

LEMMA RunsInv ==
  ASSUME Inv, NEW r \in Runs, OtherRun(r) \/ Report(r) \/ AuthError(r) \/ Announce(r)
  PROVE  Inv'
  <1> USE DEF Inv
  <1>1. authKill \in [Runs -> BOOLEAN] /\ events \in Nat /\ MaxEvents \in Nat
    BY WatchAssumption DEF TypeOK
  <1>2. CASE OtherRun(r)
    BY <1>1, <1>2, SpeaksInv DEF OtherRun, Speaks
  <1>3. CASE Report(r)
    <2>1. /\ UNCHANGED <<dispVars, watchVars, stopping, life, authKill>> /\ life[r] = "live"
          /\ events' = events + 1
          /\ Broadcast("noise", r) \/ Broadcast("rate_limit", r)
      BY <1>3 DEF Report, runVars
    <2>2. Speaks("noise", r) \/ Speaks("rate_limit", r)
      BY <2>1 DEF Speaks, Transient
    <2>3. "rate_limit" \in Relevant
      BY DEF Relevant, Transient
    <2>4. events' \in Nat
      BY <1>1, <2>1
    <2> QED
      BY <1>1, <2>1, <2>2, <2>3, <2>4, SpeaksInv
  <1>4. CASE AuthError(r)
    <2>1. Speaks("auth_error", r) /\ "auth_error" \in Relevant
      BY <1>4 DEF AuthError, Speaks, Transient, Relevant
    <2>2. authKill' \in [Runs -> BOOLEAN]
      BY <1>1, <1>4 DEF AuthError
    <2> QED
      BY <1>1, <1>4, <2>1, <2>2, SpeaksInv DEF AuthError
  <1>5. CASE Announce(r)
    <2>1. Speaks("completed", r) \/ Speaks("failed", r)
      BY <1>5 DEF Announce, Speaks, Final
    <2>2. "completed" \in Relevant /\ "failed" \in Relevant
      BY DEF Final, Relevant
    <2> QED
      BY <1>1, <1>5, <2>1, <2>2, SpeaksInv DEF Announce
  <1> QED
    BY <1>2, <1>3, <1>4, <1>5

---------------------------------------------------------------------------
(* The theorems.                                                           *)

LEMMA InitInv == Init => Inv
  <1> SUFFICES ASSUME Init PROVE Inv
    OBVIOUS
  <1>1. TypeOK
    <2>1. <<>> \in Seq(Event) /\ Len(<<>>) = 0 /\ 0 <= Capacity
      BY WatchAssumption
    <2> QED
      BY <2>1 DEF Init, TypeOK
  <1>2. OwnInv
    BY WatchAssumption DEF Init, OwnInv, Serving
  <1>3. 1..Len(evCh) = {}
    BY DEF Init
  <1>4. SaidInv /\ LastInv
    BY <1>3 DEF Init, SaidInv, LastInv
  <1>5. PendingInv /\ ResultInv
    BY DEF Init, PendingInv, ResultInv, Serving
  <1>6. VerdictInv
    BY DEF Init, VerdictInv, VerdictIsOwn, TransientComesFirst, Relevant, Final, Transient
  <1> QED
    BY <1>1, <1>2, <1>4, <1>5, <1>6 DEF Inv

LEMMA NextInv == Inv /\ [Next]_vars => Inv'
  <1> SUFFICES ASSUME Inv, [Next]_vars PROVE Inv'
    OBVIOUS
  <1>1. CASE WatcherReads
    BY <1>1, ReadsInv
  <1>2. CASE \E r \in Runs : StartRun(r)
    BY <1>2, StartRunInv
  <1>3. CASE \E r \in Runs : OtherRun(r) \/ Report(r) \/ AuthError(r) \/ Announce(r)
    BY <1>3, RunsInv
  <1>4. CASE Silent
    BY <1>4, SilentInv
  <1> QED
    BY <1>1, <1>2, <1>3, <1>4 DEF Next, Dispatcher, RunStep, Silent

\* Inv is an invariant.
THEOREM Invariance == Spec => []Inv
  BY InitInv, NextInv, PTL DEF Spec

\* Types, for any number of runs, any capacity of the watcher's channel and any number of
\* events.
THEOREM TypeCorrect == Spec => []TypeOK
  <1>1. Inv => TypeOK
    BY DEF Inv
  <1> QED
    BY <1>1, Invariance, PTL

\* processNext and watchRunEvents: the verdict on a job is something its own run has said.
THEOREM VerdictIsOwnHolds == Spec => []VerdictIsOwn
  <1>1. Inv => VerdictIsOwn
    BY DEF Inv, VerdictInv
  <1> QED
    BY <1>1, Invariance, PTL

\* processNext and watchRunEvents: a job is concluded by its run's end only if every rate
\* limit and authentication error its run had reported was lost on the way to the watcher.
THEOREM TransientComesFirstHolds == Spec => []TransientComesFirst
  <1>1. Inv => TransientComesFirst
    BY DEF Inv, VerdictInv
  <1> QED
    BY <1>1, Invariance, PTL
=============================================================================

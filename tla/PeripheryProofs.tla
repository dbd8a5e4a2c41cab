-------------------------- MODULE PeripheryProofs --------------------------
(***************************************************************************)
(* Proofs about three parts that stand apart from the turn of an agent:    *)
(* the event bus, the command line chat and the memory stores.  They share *)
(* no state, and each part below cites only what is of its own module.     *)
(*                                                                         *)
(* The bus, for any subscribers, subscriptions and emitters: the loop of   *)
(* emit skips nobody who stays, calls nobody who has left and keeps the    *)
(* order of each emitter, though the Set changes under it at every await.  *)
(* The three properties speak of deliveries, the loop of places in the     *)
(* Set.  BusInv ties them together: a subscriber has one live place        *)
(* (OnePlace), whoever is still owed an event has its place ahead of the   *)
(* cursor (OwedIsAhead), and nobody was called more often with an event    *)
(* than it has left during its emission, and once more if its live place   *)
(* is behind the cursor (CallsAreStays).                                   *)
(*                                                                         *)
(* The chat, for any number of lines: none is lost or used twice, and what *)
(* is kept was approved.  ConsoleInv adds that a question is open exactly  *)
(* while the loop awaits one, and waits only when no line has been kept    *)
(* (OneQuestion), and where the line the loop is at stands among the lines *)
(* used (CurrentIsInput) and after those kept (HistoryIsPast).             *)
(*                                                                         *)
(* The memory stores, for any calls, places and damage: a place grows only *)
(* by a record whose write has its permission on record (OnRecord), a      *)
(* search that finds a file invalid has read a damaged one (ScanOK), and   *)
(* one that succeeds has what it is due, but for a record per append that  *)
(* was cut off.  SearchInv is for the last: what a search has found is at  *)
(* spots of the files, in order, and the places it has read held nothing   *)
(* else of what it is due than records swallowed by torn ones or beyond    *)
(* its limit (ReadAt); each torn write swallows one, as a write has one    *)
(* piece (OnePieceEach, SwallowsOne), and there are no more of them than   *)
(* appends were cut off (FewAreTorn).                                      *)
(*                                                                         *)
(* The parse and the filter are recursive functions: that they exist       *)
(* (LoopExists, FilterExists), that the parse accepts a file of whole      *)
(* records (WholeFileParses) and what it recovers of any other             *)
(* (ParseRecovers), are shown with a least piece, as nothing here needs an *)
(* induction theorem.                                                      *)
(***************************************************************************)
EXTENDS EventBus, ChatConsole, MarkdownMemory, FiniteSetTheorems, SequenceTheorems,
        WellFoundedInduction, TLAPS

(***************************************************************************)
(*                              The event bus                              *)
(***************************************************************************)

Entry == [who : Subscribers, alive : BOOLEAN]

BusTypeOK ==
  /\ entries \in Seq(Entry)
  /\ handles \in SUBSET Subscriptions
  /\ emitting \in [Events -> {"no", "awaiting", "done"}]
  /\ cursor \in [Events -> Nat]
  /\ delivered \in [Subscribers -> Seq(Events)]
  /\ owed \in [Events -> SUBSET Subscribers]
  /\ departures \in [Events -> [Subscribers -> Nat]]

\* A subscriber is in the Set once.
OnePlace ==
  \A i, j \in DOMAIN entries : Alive(i) /\ Alive(j) /\ entries[i].who = entries[j].who => i = j

Got(s, e) == \E i \in DOMAIN delivered[s] : delivered[s][i] = e

\* Nothing is known of an event before it is emitted.
UnsentIsUnknown ==
  \A e \in Events : emitting[e] = "no" => cursor[e] = 0 /\ \A s \in Subscribers : ~Got(s, e)

CursorInRange == \A e \in Events : cursor[e] <= Len(entries)

\* An emitter is done with an event before it goes on to the next.
OneByOne ==
  \A e, f \in Events : e[1] = f[1] /\ e[2] < f[2] /\ emitting[f] # "no" => emitting[e] = "done"

\* Whoever has been there all the time was called or is about to be.
OwedIsAhead ==
  \A e \in Events : \A s \in owed[e] :
    \/ Got(s, e)
    \/ emitting[e] = "awaiting" /\ \E i \in DOMAIN entries : i > cursor[e] /\ Alive(i) /\ entries[i].who = s

\* The iteration for e has come past the live place of s.
Passed(s, e) == \E i \in DOMAIN entries : i <= cursor[e] /\ entries[i].who = s /\ Alive(i)
CallsWith(s, e)  == {i \in DOMAIN delivered[s] : delivered[s][i] = e}

CallsAreStays ==
  \A s \in Subscribers, e \in Events : emitting[e] # "done" =>
    /\ Cardinality(CallsWith(s, e)) <= departures[e][s] + 1
    /\ ~Passed(s, e) => Cardinality(CallsWith(s, e)) <= departures[e][s]

BusInv ==
  /\ BusTypeOK
  /\ OnePlace
  /\ CursorInRange
  /\ UnsentIsUnknown
  /\ OneByOne
  /\ EmitterOrder
  /\ OwedIsAhead
  /\ CallsAreStays
-----------------------------------------------------------------------------
\* A set of natural numbers that is not empty has a least element.
LEMMA LeastElement ==
  ASSUME NEW S, S \subseteq Nat, S # {}
  PROVE  Min(S) \in S /\ \A x \in S : Min(S) <= x
<1> DEFINE R == {ss \in Nat \X Nat : ss[1] < ss[2]}
<1>1. IsWellFoundedOn(R, Nat)
  BY NatLessThanWellFounded, Zenon DEF OpToRel
<1>2. PICK x \in S : \A y \in S : <<y, x>> \notin R
  <2> HIDE DEF R
  <2> QED
    BY <1>1, WFMin, Zenon
<1>3. ASSUME NEW y \in S PROVE x <= y
  <2>1. <<y, x>> \notin R
    BY <1>2, Zenon
  <2>2. x \in Nat /\ y \in Nat /\ <<y, x>> \in Nat \X Nat
    OBVIOUS
  <2>3. ~(y < x)
    BY <2>1, <2>2
  <2>4. QED
    BY <2>2, <2>3
<1>4. QED
  BY <1>3 DEF Min

\* Where the loop goes next, and what it leaves as it was.
Delivery(e, m) ==
  /\ m \in DOMAIN entries /\ m > cursor[e] /\ Alive(m)
  /\ \A i \in DOMAIN entries : i > cursor[e] /\ Alive(i) => m <= i
  /\ cursor' = [cursor EXCEPT ![e] = m]
  /\ delivered' = [delivered EXCEPT ![entries[m].who] = Append(@, e)]
  /\ emitting' = [emitting EXCEPT ![e] = "awaiting"]
  /\ UNCHANGED <<entries, handles, departures>>
Ending(e) ==
  /\ \A i \in DOMAIN entries : i > cursor[e] => ~Alive(i)
  /\ emitting' = [emitting EXCEPT ![e] = "done"]
  /\ UNCHANGED <<cursor, delivered, entries, handles, departures>>

LEMMA AdvanceCases ==
  ASSUME BusTypeOK, NEW e \in Events, Advance(e)
  PROVE  Ending(e) \/ \E m \in DOMAIN entries : Delivery(e, m)
<1> DEFINE ahead == {i \in DOMAIN entries : i > cursor[e] /\ Alive(i)}
<1>1. ahead \subseteq Nat
  BY DEF BusTypeOK
<1>2. CASE ahead = {}
  BY <1>2 DEF Advance, Ending
<1>3. CASE ahead # {}
  <2>1. Min(ahead) \in ahead /\ \A x \in ahead : Min(ahead) <= x
    BY <1>1, <1>3, LeastElement
  <2>2. Delivery(e, Min(ahead))
    BY <1>3, <2>1, Zenon DEF Advance, Delivery
  <2>3. QED
    BY <2>1, <2>2
<1>4. QED
  BY <1>2, <1>3
-----------------------------------------------------------------------------
(* Counting *)

LEMMA CountsAreFinite ==
  ASSUME BusTypeOK, NEW s \in Subscribers, NEW e \in Events
  PROVE  IsFiniteSet(CallsWith(s, e)) /\ Cardinality(CallsWith(s, e)) \in Nat
<1>1. Len(delivered[s]) \in Nat /\ CallsWith(s, e) \in SUBSET (1..Len(delivered[s]))
  BY DEF BusTypeOK, CallsWith
<1>2. IsFiniteSet(1..Len(delivered[s]))
  <2>1. Len(delivered[s]) \in Int /\ 1 \in Int
    BY <1>1
  <2>2. QED
    BY <2>1, FS_Interval
<1>3. IsFiniteSet(CallsWith(s, e))
  BY <1>1, <1>2, FS_Subset
<1>4. QED
  BY <1>3, FS_CardinalityType

\* The counts stay as they are when the places before the cursors do.
LEMMA CountsStay ==
  ASSUME CallsAreStays, UNCHANGED <<cursor, delivered, departures>>,
         \A e \in Events : emitting'[e] # "done" => emitting[e] # "done",
         \A s \in Subscribers, e \in Events : Passed(s, e) => Passed(s, e)'
  PROVE  CallsAreStays'
<1>1. \A s \in Subscribers, e \in Events : CallsWith(s, e)' = CallsWith(s, e)
  BY DEF CallsWith
<1>2. QED
  BY <1>1 DEF CallsAreStays

\* Who leaves may be called once more with what is being emitted.
LEMMA LeavingCounts ==
  ASSUME BusTypeOK, UnsentIsUnknown, CallsAreStays, NEW q \in Subscribers, Leave(q),
         UNCHANGED <<emitting, cursor, delivered>>,
         \A s \in Subscribers \ {q}, e \in Events : Passed(s, e) => Passed(s, e)'
  PROVE  CallsAreStays'
<1> SUFFICES ASSUME NEW s \in Subscribers, NEW e \in Events, emitting[e] # "done"
             PROVE  /\ Cardinality(CallsWith(s, e)') <= departures'[e][s] + 1
                    /\ ~Passed(s, e)' => Cardinality(CallsWith(s, e)') <= departures'[e][s]
  BY DEF CallsAreStays
<1>1. CallsWith(s, e)' = CallsWith(s, e) /\ Cardinality(CallsWith(s, e)) \in Nat
  BY CountsAreFinite DEF CallsWith
<1>2. /\ Cardinality(CallsWith(s, e)) <= departures[e][s] + 1
      /\ ~Passed(s, e) => Cardinality(CallsWith(s, e)) <= departures[e][s]
  BY DEF CallsAreStays
<1>3. departures'[e][s] = IF emitting[e] = "awaiting" /\ s = q THEN departures[e][s] + 1 ELSE departures[e][s]
  BY DEF Leave
<1>4. departures[e][s] \in Nat
  BY DEF BusTypeOK
<1>5. CASE emitting[e] = "no"
  <2>1. CallsWith(s, e) = {}
    BY <1>5 DEF UnsentIsUnknown, Got, CallsWith
  <2>2. Cardinality(CallsWith(s, e)) = 0
    BY <2>1, FS_EmptySet
  <2>3. QED
    BY <1>1, <1>3, <1>4, <1>5, <2>2
<1>6. CASE emitting[e] = "awaiting" /\ s = q
  BY <1>1, <1>2, <1>3, <1>4, <1>6
<1>7. CASE s # q
  BY <1>1, <1>2, <1>3, <1>4, <1>7
<1>8. QED
  BY <1>5, <1>6, <1>7 DEF BusTypeOK

\* A delivery is one more call, and the live place comes to be behind the cursor.
LEMMA DeliveryCounts ==
  ASSUME BusTypeOK, OnePlace, CallsAreStays, NEW e \in Events, emitting[e] # "done",
         NEW m \in DOMAIN entries, Delivery(e, m)
  PROVE  CallsAreStays'
<1>0. PICK s0 \in Subscribers : s0 = entries[m].who
  <2>1. m \in DOMAIN entries /\ DOMAIN entries = 1..Len(entries)
    BY DEF BusTypeOK
  <2>2. entries[m] \in Entry
    BY <2>1 DEF BusTypeOK
  <2>3. QED
    BY <2>2 DEF Entry
<1>1. m \in Nat \ {0} /\ cursor[e] \in Nat /\ m > cursor[e] /\ cursor'[e] = m
      /\ \A f \in Events \ {e} : cursor'[f] = cursor[f] /\ emitting'[f] = emitting[f]
  <2>1. m \in DOMAIN entries /\ DOMAIN entries = 1..Len(entries) /\ Len(entries) \in Nat
    BY DEF BusTypeOK
  <2>2. /\ cursor \in [Events -> Nat] /\ m > cursor[e] /\ cursor' = [cursor EXCEPT ![e] = m]
        /\ emitting' = [emitting EXCEPT ![e] = "awaiting"]
        /\ emitting \in [Events -> {"no", "awaiting", "done"}]
    BY DEF BusTypeOK, Delivery
  <2>3. QED
    BY <2>1, <2>2
<1>2. ASSUME NEW s \in Subscribers, NEW f \in Events, s # s0 \/ f # e
      PROVE  CallsWith(s, f)' = CallsWith(s, f)
  <2>1. CASE s # s0
    BY <1>0, <2>1 DEF CallsWith, Delivery, BusTypeOK
  <2>2. CASE s = s0 /\ f # e
    <3>1. delivered'[s] = Append(delivered[s], e) /\ delivered[s] \in Seq(Events)
      BY <1>0, <2>2 DEF Delivery, BusTypeOK
    <3>2. QED
      BY <3>1, <2>2 DEF CallsWith
  <2>3. QED
    BY <1>2, <2>1, <2>2
<1>3. CallsWith(s0, e)' = CallsWith(s0, e) \cup {Len(delivered[s0]) + 1} /\ Len(delivered[s0]) + 1 \notin CallsWith(s0, e)
  <2>1. delivered'[s0] = Append(delivered[s0], e) /\ delivered[s0] \in Seq(Events)
    BY <1>0, <1>1 DEF Delivery, BusTypeOK
  <2>2. /\ Len(delivered[s0]) \in Nat /\ DOMAIN delivered[s0] = 1..Len(delivered[s0])
        /\ DOMAIN delivered'[s0] = 1..(Len(delivered[s0]) + 1)
        /\ \A i \in 1..Len(delivered[s0]) : delivered'[s0][i] = delivered[s0][i]
        /\ delivered'[s0][Len(delivered[s0]) + 1] = e
    BY <2>1
  <2>3. QED
    BY <2>2 DEF CallsWith
<1>4. \A i \in DOMAIN entries : i \in Nat
  BY DEF BusTypeOK
<1>5. \A s \in Subscribers, f \in Events : Passed(s, f) => Passed(s, f)'
  BY <1>1, <1>4 DEF Passed, Delivery, Alive
<1>6. ~Passed(s0, e) /\ Passed(s0, e)'
  BY <1>0, <1>1, <1>4 DEF Passed, Delivery, Alive, OnePlace
<1>7. ASSUME NEW s \in Subscribers, NEW f \in Events, emitting'[f] # "done"
      PROVE  /\ Cardinality(CallsWith(s, f)') <= departures[f][s] + 1
             /\ ~Passed(s, f)' => Cardinality(CallsWith(s, f)') <= departures[f][s]
  <2>1. emitting[f] # "done"
    BY <1>1, <1>7
  <2>2. CASE s # s0 \/ f # e
    BY <1>2, <1>5, <2>1, <2>2 DEF CallsAreStays
  <2>3. CASE s = s0 /\ f = e
    <3>1. /\ Cardinality(CallsWith(s0, e)) <= departures[e][s0]
          /\ Cardinality(CallsWith(s0, e)) \in Nat /\ IsFiniteSet(CallsWith(s0, e))
          /\ departures[e][s0] \in Nat
      BY <1>6, CountsAreFinite DEF CallsAreStays, BusTypeOK
    <3>2. Cardinality(CallsWith(s0, e)') = Cardinality(CallsWith(s0, e)) + 1
      BY <1>3, <3>1, FS_AddElement
    <3>3. QED
      BY <1>6, <2>3, <3>1, <3>2
  <2>4. QED
    BY <2>2, <2>3
<1>8. QED
  BY <1>7 DEF CallsAreStays, Delivery
-----------------------------------------------------------------------------
(* The steps *)

LEMMA SubscribeKeepsBus ==
  ASSUME BusInv, NEW h \in Subscriptions, Subscribe(h)
  PROVE  BusInv'
<1> DEFINE s == SubscriberOf[h]
<1>1. s \in Subscribers
  BY BusAssumption
<1>2. CASE s \in Present
  <2>1. UNCHANGED <<entries, emitting, cursor, delivered, owed, departures>> /\ handles' \in SUBSET Subscriptions
    BY <1>2 DEF Subscribe, BusInv, BusTypeOK
  <2>2. QED
    <3>1. BusTypeOK' /\ OnePlace' /\ CursorInRange' /\ OwedIsAhead'
      BY <2>1 DEF BusInv, BusTypeOK, OnePlace, Alive, CursorInRange, OwedIsAhead, Got
    <3>2. UnsentIsUnknown' /\ OneByOne' /\ EmitterOrder'
      BY <2>1 DEF BusInv, UnsentIsUnknown, Got, OneByOne, EmitterOrder
    <3>3. CallsAreStays'
      BY <2>1, CountsStay DEF BusInv, Passed, Alive
    <3>4. QED
      BY <3>1, <3>2, <3>3 DEF BusInv
<1>3. CASE s \notin Present
  <2>1. /\ entries' = Append(entries, [who |-> s, alive |-> TRUE])
        /\ UNCHANGED <<emitting, cursor, delivered, owed, departures>> /\ handles' \in SUBSET Subscriptions
    BY <1>3 DEF Subscribe, BusInv, BusTypeOK
  <2>2. entries \in Seq(Entry) /\ [who |-> s, alive |-> TRUE] \in Entry
    BY <1>1 DEF BusInv, BusTypeOK, Entry
  <2>3. /\ entries' \in Seq(Entry) /\ Len(entries') = Len(entries) + 1
        /\ DOMAIN entries = 1..Len(entries) /\ DOMAIN entries' = 1..(Len(entries) + 1)
        /\ Len(entries) \in Nat
        /\ \A i \in DOMAIN entries : entries'[i] = entries[i]
        /\ entries'[Len(entries) + 1] = [who |-> s, alive |-> TRUE]
    BY <2>1, <2>2
  <2>4. BusTypeOK' /\ CursorInRange'
    BY <2>1, <2>3 DEF BusInv, BusTypeOK, CursorInRange
  <2>5. OnePlace'
    BY <1>3, <2>3 DEF BusInv, OnePlace, Alive, Present
  <2>6. UnsentIsUnknown' /\ OneByOne' /\ EmitterOrder'
    BY <2>1 DEF BusInv, UnsentIsUnknown, Got, OneByOne, EmitterOrder
  <2>7. OwedIsAhead'
    BY <2>1, <2>3 DEF BusInv, OwedIsAhead, Got, Alive
  <2>8. CallsAreStays'
    BY <2>1, <2>3, CountsStay DEF BusInv, Passed, Alive
  <2>9. QED
    BY <2>4, <2>5, <2>6, <2>7, <2>8 DEF BusInv
<1>4. QED
  BY <1>2, <1>3

\* Whoever leaves is owed nothing more.
LEMMA UnsubscribeKeepsBus ==
  ASSUME BusInv, NEW h \in Subscriptions, Unsubscribe(h)
  PROVE  BusInv'
<1> DEFINE s == SubscriberOf[h]
<1>1. /\ entries' = [i \in DOMAIN entries |->
            IF entries[i].who = s THEN [entries[i] EXCEPT !.alive = FALSE] ELSE entries[i]]
      /\ owed' = [e \in Events |-> IF emitting[e] = "awaiting" THEN owed[e] \ {s} ELSE owed[e]]
      /\ Leave(s) /\ UNCHANGED <<handles, emitting, cursor, delivered>>
  BY DEF Unsubscribe, Leave
<1>2. /\ entries' \in Seq(Entry) /\ DOMAIN entries' = DOMAIN entries /\ Len(entries') = Len(entries)
      /\ DOMAIN entries = 1..Len(entries)
      /\ \A i \in DOMAIN entries : entries'[i].who = entries[i].who
      /\ \A i \in DOMAIN entries : entries'[i].alive <=> entries[i].alive /\ entries[i].who # s
  <2>1. entries \in Seq(Entry) /\ DOMAIN entries = 1..Len(entries) /\ Len(entries) \in Nat
        /\ \A i \in 1..Len(entries) : entries[i] \in Entry
    BY DEF BusInv, BusTypeOK
  <2>2. \A i \in 1..Len(entries) :
          /\ entries'[i] \in Entry /\ entries'[i].who = entries[i].who
          /\ entries'[i].alive <=> entries[i].alive /\ entries[i].who # s
    BY <1>1, <2>1 DEF Entry
  <2>3. DOMAIN entries' = 1..Len(entries) /\ entries' = [i \in 1..Len(entries) |-> entries'[i]]
    BY <1>1, <2>1
  <2>4. entries' \in Seq(Entry) /\ Len(entries') = Len(entries)
    BY <2>1, <2>2, <2>3
  <2>5. QED
    BY <2>1, <2>2, <2>3, <2>4
<1>3. BusTypeOK' /\ CursorInRange'
  <2>1. departures' \in [Events -> [Subscribers -> Nat]]
    BY <1>1 DEF Leave, BusInv, BusTypeOK
  <2>2. QED
    BY <1>1, <1>2, <2>1 DEF BusInv, BusTypeOK, CursorInRange
<1>4. OnePlace'
  BY <1>2 DEF BusInv, OnePlace, Alive
<1>5. UnsentIsUnknown' /\ OneByOne' /\ EmitterOrder'
  BY <1>1 DEF BusInv, UnsentIsUnknown, Got, OneByOne, EmitterOrder
<1>6. OwedIsAhead'
  BY <1>1, <1>2 DEF BusInv, OwedIsAhead, Got, Alive
<1>7. CallsAreStays'
  <2>1. \A q \in Subscribers \ {s}, e \in Events : Passed(q, e) => Passed(q, e)'
    BY <1>1, <1>2 DEF Passed, Alive
  <2>2. s \in Subscribers
    BY BusAssumption
  <2>3. QED
    BY <1>1, <2>1, <2>2, LeavingCounts DEF BusInv
<1>8. QED
  BY <1>3, <1>4, <1>5, <1>6, <1>7 DEF BusInv

\* Either way of going on: e is awaiting, or is emitted in its turn.
GoesOn(e) ==
  \/ emitting[e] = "awaiting" /\ UNCHANGED owed
  \/ /\ emitting[e] = "no" /\ owed' = [owed EXCEPT ![e] = Present]
     /\ \A f \in Events : f[1] = e[1] /\ f[2] < e[2] => emitting[f] = "done"

\* Whoever is owed e was called with it or has a live place ahead.
LEMMA OwedBefore ==
  ASSUME BusInv, NEW e \in Events, GoesOn(e), NEW s \in owed'[e]
  PROVE  Got(s, e) \/ \E i \in DOMAIN entries : i > cursor[e] /\ Alive(i) /\ entries[i].who = s
<1>1. CASE emitting[e] = "awaiting"
  BY <1>1 DEF GoesOn, BusInv, OwedIsAhead
<1>2. CASE emitting[e] = "no"
  <2>1. s \in Present /\ cursor[e] = 0
    BY <1>2 DEF GoesOn, BusInv, BusTypeOK, UnsentIsUnknown
  <2>2. QED
    BY <2>1 DEF Present, BusInv, BusTypeOK
<1>3. QED
  BY <1>1, <1>2 DEF GoesOn

\* What a delivery does to what has been delivered.
LEMMA DeliveryGrows ==
  ASSUME BusTypeOK, NEW e \in Events, NEW m \in DOMAIN entries, Delivery(e, m)
  PROVE  \E s0 \in Subscribers :
           /\ s0 = entries[m].who /\ delivered' \in [Subscribers -> Seq(Events)]
           /\ delivered'[s0] = Append(delivered[s0], e)
           /\ \A s \in Subscribers \ {s0} : delivered'[s] = delivered[s]
           /\ \A s \in Subscribers, f \in Events : Got(s, f)' <=> Got(s, f) \/ (s = s0 /\ f = e)
<1>1. m \in DOMAIN entries /\ DOMAIN entries = 1..Len(entries)
  BY DEF BusTypeOK
<1>2. entries[m] \in Entry
  BY <1>1 DEF BusTypeOK
<1>3. PICK s0 \in Subscribers : s0 = entries[m].who
  BY <1>2 DEF Entry
<1>4. /\ delivered'[s0] = Append(delivered[s0], e)
      /\ \A s \in Subscribers \ {s0} : delivered'[s] = delivered[s]
      /\ delivered' \in [Subscribers -> Seq(Events)]
  BY <1>3 DEF BusTypeOK, Delivery
<1>5. ASSUME NEW f \in Events PROVE Got(s0, f)' <=> Got(s0, f) \/ f = e
  <2>1. delivered[s0] \in Seq(Events)
    BY DEF BusTypeOK
  <2>2. /\ Len(delivered[s0]) \in Nat /\ DOMAIN delivered[s0] = 1..Len(delivered[s0])
        /\ DOMAIN delivered'[s0] = 1..(Len(delivered[s0]) + 1)
        /\ \A i \in 1..Len(delivered[s0]) : delivered'[s0][i] = delivered[s0][i]
        /\ delivered'[s0][Len(delivered[s0]) + 1] = e
    BY <1>4, <2>1
  <2>3. QED
    BY <2>2 DEF Got
<1>6. \A s \in Subscribers, f \in Events : Got(s, f)' <=> Got(s, f) \/ (s = s0 /\ f = e)
  <2> SUFFICES ASSUME NEW s \in Subscribers, NEW f \in Events
               PROVE  Got(s, f)' <=> Got(s, f) \/ (s = s0 /\ f = e)
    OBVIOUS
  <2>1. CASE s = s0
    BY <1>5, <2>1
  <2>2. CASE s # s0
    BY <1>4, <2>2 DEF Got
  <2>3. QED
    BY <2>1, <2>2
<1>7. QED
  BY <1>3, <1>4, <1>6

\* A delivery goes to the owner of the first live place ahead.
LEMMA DeliveryKeepsBus ==
  ASSUME BusInv, NEW e \in Events, GoesOn(e), NEW m \in DOMAIN entries, Delivery(e, m)
  PROVE  BusInv'
<1>1. PICK s0 \in Subscribers :
        /\ s0 = entries[m].who /\ delivered' \in [Subscribers -> Seq(Events)]
        /\ delivered'[s0] = Append(delivered[s0], e)
        /\ \A s \in Subscribers \ {s0} : delivered'[s] = delivered[s]
        /\ \A s \in Subscribers, f \in Events : Got(s, f)' <=> Got(s, f) \/ (s = s0 /\ f = e)
  BY DeliveryGrows DEF BusInv
<1>2. m \in Nat /\ m <= Len(entries) /\ Len(entries) \in Nat /\ cursor[e] \in Nat /\ m > cursor[e]
  BY DEF BusInv, BusTypeOK, Delivery
<1>3. /\ cursor' = [cursor EXCEPT ![e] = m] /\ emitting' = [emitting EXCEPT ![e] = "awaiting"]
      /\ UNCHANGED <<entries, handles, departures>>
  BY DEF Delivery
<1>4. Present \in SUBSET Subscribers
  <2>1. \A i \in DOMAIN entries : entries[i] \in Entry
    BY DEF BusInv, BusTypeOK
  <2>2. QED
    BY <2>1 DEF Present, Entry
<1>5. \A f \in Events : f # e => owed'[f] = owed[f]
  BY DEF GoesOn, BusInv, BusTypeOK
<1>6. BusTypeOK'
  BY <1>1, <1>2, <1>3, <1>4 DEF BusInv, BusTypeOK, GoesOn
<1>7. OnePlace' /\ CursorInRange'
  BY <1>2, <1>3 DEF BusInv, BusTypeOK, OnePlace, Alive, CursorInRange
<1>8. UnsentIsUnknown'
  BY <1>1, <1>3 DEF BusInv, BusTypeOK, UnsentIsUnknown
<1>9. \A f \in Events : e[1] = f[1] /\ e[2] < f[2] => emitting[f] = "no"
  BY DEF BusInv, OneByOne, GoesOn
<1>10. OneByOne'
  <2>1. \A f \in Events : f[1] = e[1] /\ f[2] < e[2] => emitting[f] = "done"
    BY DEF BusInv, OneByOne, GoesOn
  <2>2. ~(e[2] < e[2])
    BY BusAssumption
  <2>3. QED
    BY <1>3, <1>9, <2>1, <2>2 DEF BusInv, BusTypeOK, OneByOne
<1>11. EmitterOrder'
  <2> SUFFICES ASSUME NEW s \in Subscribers, NEW i \in DOMAIN delivered'[s], NEW j \in DOMAIN delivered'[s],
                      i < j, delivered'[s][i][1] = delivered'[s][j][1]
               PROVE  delivered'[s][i][2] <= delivered'[s][j][2]
    BY DEF EmitterOrder
  <2>1. CASE s # s0
    BY <1>1, <2>1 DEF BusInv, EmitterOrder
  <2>2. CASE s = s0
    <3>1. delivered[s] \in Seq(Events)
      BY DEF BusInv, BusTypeOK
    <3>2. /\ Len(delivered[s]) \in Nat /\ DOMAIN delivered[s] = 1..Len(delivered[s])
          /\ DOMAIN delivered'[s] = 1..(Len(delivered[s]) + 1)
          /\ \A k \in 1..Len(delivered[s]) : delivered'[s][k] = delivered[s][k] /\ delivered[s][k] \in Events
          /\ delivered'[s][Len(delivered[s]) + 1] = e
      BY <1>1, <2>2, <3>1
    <3>3. CASE j = Len(delivered[s]) + 1
      <4>1. PICK f \in Events : f = delivered'[s][i] /\ Got(s, f)
        BY <3>2, <3>3 DEF Got
      <4>2. ~(e[2] < f[2])
        BY <1>9, <3>2, <3>3, <4>1 DEF BusInv, UnsentIsUnknown
      <4>3. QED
        BY <3>2, <3>3, <4>1, <4>2, BusAssumption
    <3>4. CASE j # Len(delivered[s]) + 1
      <4>1. i \in 1..Len(delivered[s]) /\ j \in 1..Len(delivered[s])
        BY <3>2, <3>4
      <4>2. delivered'[s][i] = delivered[s][i] /\ delivered'[s][j] = delivered[s][j]
        BY <3>2, <4>1
      <4>3. \A k, l \in DOMAIN delivered[s] :
              k < l /\ delivered[s][k][1] = delivered[s][l][1] => delivered[s][k][2] <= delivered[s][l][2]
        BY DEF BusInv, EmitterOrder
      <4>4. QED
        BY <3>2, <4>1, <4>2, <4>3
    <3>5. QED
      BY <3>3, <3>4
  <2>3. QED
    BY <2>1, <2>2
<1>12. OwedIsAhead'
  <2> SUFFICES ASSUME NEW f \in Events, NEW s \in owed'[f]
               PROVE  \/ Got(s, f)'
                      \/ /\ emitting'[f] = "awaiting"
                         /\ \E i \in DOMAIN entries' : i > cursor'[f] /\ Alive(i)' /\ entries'[i].who = s
    BY DEF OwedIsAhead
  <2>0. s \in Subscribers
    BY <1>6 DEF BusTypeOK
  <2>1. CASE f # e
    <3>1. emitting'[f] = emitting[f] /\ cursor'[f] = cursor[f]
      BY <1>3, <2>1 DEF BusInv, BusTypeOK
    <3>2. QED
      <4>1. \/ Got(s, f)
            \/ emitting[f] = "awaiting" /\ \E i \in DOMAIN entries : i > cursor[f] /\ Alive(i) /\ entries[i].who = s
        BY <1>5, <2>1 DEF BusInv, OwedIsAhead
      <4>2. Got(s, f) => Got(s, f)'
        BY <1>1, <2>0
      <4>3. QED
        BY <1>3, <3>1, <4>1, <4>2 DEF Alive
  <2>2. CASE f = e
    <3>1. Got(s, e) \/ \E i \in DOMAIN entries : i > cursor[e] /\ Alive(i) /\ entries[i].who = s
      BY <2>2, OwedBefore
    <3>2. emitting'[e] = "awaiting" /\ cursor'[e] = m
      BY <1>3 DEF BusInv, BusTypeOK
    <3>3. CASE s = s0 \/ Got(s, e)
      BY <1>1, <2>0, <2>2, <3>3
    <3>4. CASE s # s0 /\ \E i \in DOMAIN entries : i > cursor[e] /\ Alive(i) /\ entries[i].who = s
      <4>1. PICK i \in DOMAIN entries : i > cursor[e] /\ Alive(i) /\ entries[i].who = s
        BY <3>4
      <4>2. m <= i /\ i # m /\ i \in Nat
        BY <1>1, <3>4, <4>1 DEF Delivery, BusInv, BusTypeOK
      <4>3. QED
        BY <1>2, <1>3, <2>2, <3>2, <4>1, <4>2 DEF Alive
    <3>5. QED
      BY <3>1, <3>3, <3>4
  <2>3. QED
    BY <2>1, <2>2
<1>13. CallsAreStays'
  BY DeliveryCounts DEF BusInv, GoesOn
<1>14. QED
  BY <1>6, <1>7, <1>8, <1>10, <1>11, <1>12, <1>13 DEF BusInv

\* The loop ends with nobody live ahead, so with everyone owed called.
LEMMA EndingKeepsBus ==
  ASSUME BusInv, NEW e \in Events, GoesOn(e), Ending(e)
  PROVE  BusInv'
<1>1. /\ emitting' = [emitting EXCEPT ![e] = "done"] /\ UNCHANGED <<cursor, delivered, entries, handles, departures>>
      /\ \A i \in DOMAIN entries : i > cursor[e] => ~Alive(i)
  BY DEF Ending
<1>2. Present \in SUBSET Subscribers
  <2>1. \A i \in DOMAIN entries : entries[i] \in Entry
    BY DEF BusInv, BusTypeOK
  <2>2. QED
    BY <2>1 DEF Present, Entry
<1>3. \A f \in Events : f # e => owed'[f] = owed[f] /\ emitting'[f] = emitting[f]
  BY <1>1 DEF GoesOn, BusInv, BusTypeOK
<1>4. BusTypeOK' /\ OnePlace' /\ CursorInRange'
  BY <1>1, <1>2 DEF BusInv, BusTypeOK, OnePlace, Alive, CursorInRange, GoesOn
<1>5. UnsentIsUnknown' /\ EmitterOrder'
  BY <1>1, <1>3 DEF BusInv, BusTypeOK, UnsentIsUnknown, Got, EmitterOrder
<1>6. OneByOne'
  <2>1. \A f \in Events : f[1] = e[1] /\ f[2] < e[2] => emitting[f] = "done"
    BY DEF BusInv, OneByOne, GoesOn
  <2>2. QED
    BY <1>1, <1>3, <2>1 DEF BusInv, BusTypeOK, OneByOne
<1>7. OwedIsAhead'
  <2> SUFFICES ASSUME NEW f \in Events, NEW s \in owed'[f]
               PROVE  \/ Got(s, f)
                      \/ /\ emitting'[f] = "awaiting"
                         /\ \E i \in DOMAIN entries : i > cursor[f] /\ Alive(i) /\ entries[i].who = s
    BY <1>1 DEF OwedIsAhead, Got, Alive
  <2>1. CASE f = e
    BY <1>1, <2>1, OwedBefore
  <2>2. CASE f # e
    BY <1>3, <2>2 DEF BusInv, OwedIsAhead
  <2>3. QED
    BY <2>1, <2>2
<1>8. CallsAreStays'
  BY <1>1, <1>3, CountsStay DEF BusInv, BusTypeOK, Passed, Alive
<1>9. QED
  BY <1>4, <1>5, <1>6, <1>7, <1>8 DEF BusInv
-----------------------------------------------------------------------------
LEMMA BusInvariant == BusSpec => []BusInv
<1>1. BusInit => BusInv
  <2> SUFFICES ASSUME BusInit PROVE BusInv
    OBVIOUS
  <2>1. BusTypeOK /\ OnePlace /\ CursorInRange
    BY DEF BusInit, BusTypeOK, OnePlace, CursorInRange
  <2>2. UnsentIsUnknown /\ OneByOne /\ EmitterOrder /\ OwedIsAhead
    BY DEF BusInit, UnsentIsUnknown, Got, OneByOne, EmitterOrder, OwedIsAhead
  <2>3. \A s \in Subscribers, e \in Events : CallsWith(s, e) = {} /\ departures[e][s] = 0
    BY DEF BusInit, CallsWith
  <2>4. CallsAreStays
    BY <2>3, FS_EmptySet DEF CallsAreStays
  <2>5. QED
    BY <2>1, <2>2, <2>4 DEF BusInv
<1>2. BusInv /\ [BusNext]_busVars => BusInv'
  <2> SUFFICES ASSUME BusInv, [BusNext]_busVars PROVE BusInv'
    OBVIOUS
  <2>1. ASSUME NEW e \in Events, Emit(e) \/ Answer(e) PROVE BusInv'
    <3>1. GoesOn(e) /\ Advance(e)
      BY <2>1 DEF Emit, Answer, GoesOn
    <3>2. QED
      BY <3>1, AdvanceCases, DeliveryKeepsBus, EndingKeepsBus DEF BusInv
  <2>2. CASE UNCHANGED busVars
    <3>1. BusTypeOK' /\ OnePlace' /\ CursorInRange' /\ OwedIsAhead'
      BY <2>2 DEF busVars, BusInv, BusTypeOK, OnePlace, Alive, CursorInRange, OwedIsAhead, Got
    <3>2. UnsentIsUnknown' /\ OneByOne' /\ EmitterOrder'
      BY <2>2 DEF busVars, BusInv, UnsentIsUnknown, Got, OneByOne, EmitterOrder
    <3>3. CallsAreStays'
      BY <2>2, CountsStay DEF busVars, BusInv, Passed, Alive
    <3>4. QED
      BY <3>1, <3>2, <3>3 DEF BusInv
  <2>3. QED
    BY <2>1, <2>2, SubscribeKeepsBus, UnsubscribeKeepsBus DEF BusNext, AllEmitted
<1>3. QED
  BY <1>1, <1>2, PTL DEF BusSpec

\* emit has called everyone who was in the Set from its call to its end, though
\* it iterates over the live Set and others join, leave and throw meanwhile.
THEOREM NoSubscriberIsSkipped == BusSpec => []NobodyIsSkipped
<1>1. BusInv => NobodyIsSkipped
  <2> SUFFICES ASSUME BusInv, NEW e \in Events, emitting[e] = "done", NEW s \in owed[e]
               PROVE  Times(s, e) > 0
    BY DEF NobodyIsSkipped
  <2>1. s \in Subscribers /\ Got(s, e)
    BY DEF BusInv, BusTypeOK, OwedIsAhead
  <2>2. CallsWith(s, e) # {} /\ IsFiniteSet(CallsWith(s, e)) /\ Cardinality(CallsWith(s, e)) \in Nat
    BY <2>1, CountsAreFinite DEF BusInv, CallsWith, Got
  <2>3. Cardinality(CallsWith(s, e)) # 0
    BY <2>2, FS_EmptySet
  <2>4. QED
    BY <2>2, <2>3 DEF Times, CallsWith
<1>2. QED
  BY <1>1, BusInvariant, PTL

\* A subscriber gets the events of one emitter in the order in which they were
\* emitted, though it may be called for several emitters' events in between.
THEOREM EmittersKeepOrder == BusSpec => []EmitterOrder
<1>1. BusInv => EmitterOrder
  BY DEF BusInv
<1>2. QED
  BY <1>1, BusInvariant, PTL

\* emit never calls who has left, and calls again only who left and came back
\* while it was under way.
THEOREM CalledOncePerStay == BusSpec => OneCallPerStay
<1> DEFINE Fair == \A s \in Subscribers, e \in Events :
             Times(s, e)' > Times(s, e) => s \in Present /\ Times(s, e) <= departures[e][s]
<1>1. BusInv /\ [BusNext]_busVars => Fair
  <2> SUFFICES ASSUME BusInv, [BusNext]_busVars, NEW s \in Subscribers, NEW e \in Events,
                      Cardinality(CallsWith(s, e))' > Cardinality(CallsWith(s, e))
               PROVE  s \in Present /\ Cardinality(CallsWith(s, e)) <= departures[e][s]
    BY DEF Times, CallsWith
  <2>1. ~(UNCHANGED delivered)
    <3>1. CASE UNCHANGED delivered
      <4>1. Cardinality(CallsWith(s, e))' = Cardinality(CallsWith(s, e))
        BY <3>1 DEF CallsWith
      <4>2. QED
        BY <4>1, CountsAreFinite DEF BusInv
    <3>2. QED
      BY <3>1
  <2>2. PICK f \in Events : Advance(f) /\ emitting[f] # "done"
    BY <2>1 DEF BusNext, Subscribe, Unsubscribe, AllEmitted, busVars, Emit, Answer
  <2>3. PICK m \in DOMAIN entries : Delivery(f, m)
    BY <2>1, <2>2, AdvanceCases DEF BusInv, Ending
  <2>4. f = e /\ s = entries[m].who
    <3>1. CASE s # entries[m].who
      <4>1. delivered'[s] = delivered[s]
        BY <3>1, <2>3 DEF Delivery, BusInv, BusTypeOK
      <4>2. CallsWith(s, e)' = CallsWith(s, e)
        BY <4>1 DEF CallsWith
      <4>3. QED
        BY <4>2, CountsAreFinite DEF BusInv
    <3>2. CASE s = entries[m].who /\ f # e
      <4>1. delivered'[s] = Append(delivered[s], f) /\ delivered[s] \in Seq(Events)
        BY <2>3, <3>2 DEF Delivery, BusInv, BusTypeOK
      <4>2. CallsWith(s, e)' = CallsWith(s, e)
        BY <4>1, <3>2 DEF CallsWith
      <4>3. QED
        BY <4>2, CountsAreFinite DEF BusInv
    <3>3. QED
      BY <3>1, <3>2
  <2>5. m \in DOMAIN entries /\ m > cursor[e] /\ Alive(m)
    BY <2>3, <2>4 DEF Delivery
  <2>6. s \in Present
    BY <2>4, <2>5 DEF Present
  <2>7. ~Passed(s, e)
    <3>1. cursor[e] \in Nat /\ \A i \in DOMAIN entries : i \in Nat
      BY DEF BusInv, BusTypeOK
    <3>2. QED
      BY <2>4, <2>5, <3>1 DEF Passed, BusInv, OnePlace
  <2>8. QED
    BY <2>2, <2>4, <2>6, <2>7 DEF BusInv, CallsAreStays
<1>2. QED
  BY <1>1, BusInvariant, PTL DEF BusSpec, OneCallPerStay
-----------------------------------------------------------------------------
(***************************************************************************)
(*                          The command line chat                          *)
(***************************************************************************)

Use == [line : Words, for : {"input", "approval"}]
Turn == [role : {"user", "assistant"}, of : Nat]

ConsoleTypeOK ==
  /\ pending \in Seq(Words) /\ typed \in Seq(Words)
  /\ used \in Seq(Use)
  /\ messages \in Seq(Turn)
  /\ waiting \in BOOLEAN /\ closed \in BOOLEAN
  /\ answer \in Words \cup {NoAnswer, Closed}
  /\ phase \in {"asking", "reading", "prompting", "approving", "calling", "declined", "ended"}

\* There is a question while the loop awaits one, and one only; a question waits
\* when no line has been kept, and no longer than it is unanswered.
OneQuestion ==
  /\ phase \in {"reading", "approving"} <=> waiting \/ answer # NoAnswer
  /\ waiting => pending = <<>> /\ answer = NoAnswer

\* The line the loop is at: the input it prompts for or calls with.
CurrentInput == IF phase = "calling" THEN Len(used) - 1 ELSE Len(used)
IsInput(k) == k \in 1..Len(used) /\ used[k].for = "input" /\ used[k].line \notin {"exit", "blank"}
IsYes(k)   == k \in 1..Len(used) /\ used[k] = [line |-> "yes", for |-> "approval"]

\* While a message is on its way its input is the last, followed by the yes.
CurrentIsInput ==
  /\ phase \in {"prompting", "approving", "calling"} => IsInput(CurrentInput)
  /\ phase = "calling" => IsYes(Len(used))

\* What is kept came with lines before the one the loop is at.
HistoryIsPast ==
  \A i \in 1..Len(messages) :
    /\ messages[i].of \in 1..(Len(used) - 1)
    /\ phase \in {"prompting", "approving", "calling"} => messages[i].of + 1 < CurrentInput

ConsoleInv ==
  /\ ConsoleTypeOK
  /\ OneQuestion
  /\ LinesInOrder
  /\ CurrentIsInput
  /\ HistoryIsPast
  /\ HistoryIsApproved
-----------------------------------------------------------------------------
Handed == [k \in DOMAIN used |-> used[k].line]
InHand == IF answer \in Words THEN <<answer>> ELSE <<>>

LEMMA LinesAreThree == LinesInOrder <=> typed = Handed \o InHand \o pending
  BY DEF LinesInOrder, Handed, InHand

\* The lines handed out are a sequence, as are the others.
LEMMA LinesAreSequences ==
  ASSUME ConsoleTypeOK
  PROVE  Handed \in Seq(Words) /\ InHand \in Seq(Words)
<1>1. used \in Seq(Use) /\ \A k \in 1..Len(used) : used[k] \in Use
  BY DEF ConsoleTypeOK
<1>2. \A k \in 1..Len(used) : used[k].line \in Words
  BY <1>1 DEF Use
<1>3. DOMAIN used = 1..Len(used) /\ Len(used) \in Nat
  BY <1>1
<1>4. Handed \in Seq(Words)
  BY <1>2, <1>3 DEF Handed
<1>5. InHand \in Seq(Words)
  BY DEF InHand
<1>6. QED
  BY <1>4, <1>5

\* Neither a closed input nor a question without an answer is a line.
LEMMA AnswersAreApart == Closed \notin Words /\ NoAnswer \notin Words /\ Closed # NoAnswer
  BY ConsoleAssumption DEF Words, NoAnswer
-----------------------------------------------------------------------------
(* The lines *)

LEMMA WordsAssociate ==
  \A s, t, u \in Seq(Words) : (s \o t) \o u = s \o (t \o u)
<1> TAKE s, t, u \in Seq(Words)
<1> QED
  OBVIOUS

LEMMA TypeKeepsLines ==
  ASSUME ConsoleTypeOK, OneQuestion, LinesInOrder, NEW line \in Words, Type(line)
  PROVE  LinesInOrder'
<1>1. typed = Handed \o InHand \o pending /\ typed' = Append(typed, line) /\ Handed' = Handed
  BY LinesAreThree DEF Type, Handed, LinesInOrder, InHand
<1>2. Handed \in Seq(Words) /\ InHand \in Seq(Words) /\ pending \in Seq(Words) /\ <<line>> \in Seq(Words)
  BY LinesAreSequences DEF ConsoleTypeOK
<1>3. CASE waiting
  <2>1. InHand = <<>> /\ pending = <<>> /\ InHand' = <<line>> /\ pending' = <<>>
    BY <1>3, AnswersAreApart DEF Type, InHand, OneQuestion
  <2>2. typed = Handed
    BY <1>1, <1>2, <2>1, ConcatEmptySeq
  <2>3. typed' = Handed \o <<line>>
    BY <1>1, <1>2, <2>2, AppendIsConcat
  <2>4. Handed' \o InHand' \o pending' = Handed \o <<line>>
    BY <1>1, <1>2, <2>1, ConcatProperties, ConcatEmptySeq
  <2>5. QED
    BY <2>3, <2>4 DEF LinesInOrder, Handed, InHand
<1>4. CASE ~waiting
  <2>1. InHand' = InHand /\ pending' = pending \o <<line>>
    BY <1>2, <1>4, AppendIsConcat DEF Type, InHand
  <2>2. Handed \o InHand \in Seq(Words) /\ typed \in Seq(Words)
    BY <1>1, <1>2, ConcatProperties
  <2>3. typed' = (Handed \o InHand \o pending) \o <<line>>
    BY <1>1, <2>2, AppendIsConcat
  <2>4. typed' = (Handed \o InHand) \o (pending \o <<line>>)
    <3> DEFINE before == Handed \o InHand
    <3>1. typed' = (before \o pending) \o <<line>> /\ before \in Seq(Words)
      BY <2>2, <2>3
    <3> HIDE DEF before
    <3>2. typed' = before \o (pending \o <<line>>)
      BY <1>2, <3>1, WordsAssociate
    <3>3. QED
      BY <3>2 DEF before
  <2>5. QED
    BY <1>1, <2>1, <2>4 DEF LinesInOrder, Handed, InHand
<1>5. QED
  BY <1>3, <1>4

\* A question takes the line that was kept first.
LEMMA QuestionKeepsLines ==
  ASSUME ConsoleTypeOK, LinesInOrder, answer = NoAnswer, Question, UNCHANGED <<typed, used>>
  PROVE  LinesInOrder'
<1>1. typed' = Handed \o InHand \o pending /\ Handed' = Handed /\ InHand = <<>>
  BY AnswersAreApart DEF LinesInOrder, Handed, InHand
<1>2. Handed \in Seq(Words) /\ pending \in Seq(Words)
  BY LinesAreSequences DEF ConsoleTypeOK
<1>3. InHand' \o pending' = pending /\ InHand' \in Seq(Words) /\ pending' \in Seq(Words)
  <2>1. CASE pending # <<>>
    <3>1. InHand' = <<Head(pending)>> /\ pending' = Tail(pending) /\ Head(pending) \in Words
      BY <1>2, <2>1, HeadTailProperties DEF Question, InHand
    <3>2. <<Head(pending)>> \o Tail(pending) = pending
      BY <1>2, <2>1
    <3>3. QED
      BY <1>2, <2>1, <3>1, <3>2, HeadTailProperties
  <2>2. CASE pending = <<>>
    <3>1. InHand' = <<>> /\ pending' = <<>>
      BY <2>2, AnswersAreApart DEF Question, InHand
    <3>2. QED
      BY <1>2, <2>2, <3>1, ConcatEmptySeq
  <2>3. QED
    BY <2>1, <2>2
<1>4. typed' = Handed \o pending
  BY <1>1, <1>2, ConcatEmptySeq
<1>5. Handed' \o InHand' \o pending' = Handed \o pending
  <2>1. (Handed \o InHand') \o pending' = Handed \o (InHand' \o pending')
    BY <1>2, <1>3, WordsAssociate
  <2>2. QED
    BY <1>1, <1>3, <2>1
<1>6. QED
  BY <1>4, <1>5 DEF LinesInOrder, Handed, InHand

\* A line is used once it is looked at.
LEMMA ResumeKeepsLines ==
  ASSUME ConsoleTypeOK, LinesInOrder, NEW from, NEW purpose \in {"input", "approval"}, Resume(from, purpose),
         UNCHANGED <<typed, pending>>
  PROVE  /\ LinesInOrder' /\ used' \in Seq(Use)
         /\ answer \in Words => used' = Append(used, [line |-> answer, for |-> purpose])
         /\ answer = Closed => used' = used
<1>1. /\ answer \in Words \/ answer = Closed
      /\ answer' = NoAnswer /\ InHand' = <<>>
  BY AnswersAreApart DEF ConsoleTypeOK, Resume, InHand
<1>2. Handed \in Seq(Words) /\ pending \in Seq(Words) /\ typed = Handed \o InHand \o pending
  BY LinesAreSequences, LinesAreThree DEF ConsoleTypeOK
<1>3. CASE answer = Closed
  <2>1. used' = used /\ Handed' = Handed /\ InHand = <<>>
    BY <1>3, AnswersAreApart DEF Resume, Handed, InHand
  <2>2. QED
    BY <1>1, <1>2, <1>3, <2>1, AnswersAreApart DEF LinesInOrder, Handed, InHand, ConsoleTypeOK
<1>4. CASE answer \in Words
  <2> DEFINE u == [line |-> answer, for |-> purpose]
  <2>1. used' = Append(used, u) /\ u \in Use /\ InHand = <<answer>> /\ used \in Seq(Use)
    BY <1>4, AnswersAreApart DEF Resume, InHand, Use, ConsoleTypeOK
  <2>2. Handed' = Handed \o <<answer>>
    <3>1. /\ Len(used) \in Nat /\ DOMAIN used = 1..Len(used) /\ DOMAIN used' = 1..(Len(used) + 1)
          /\ \A k \in 1..Len(used) : used'[k] = used[k]
          /\ used'[Len(used) + 1] = u
      BY <2>1
    <3>2. Handed' = [k \in 1..(Len(used) + 1) |-> used'[k].line] /\ Handed = [k \in 1..Len(used) |-> used[k].line]
      BY <3>1 DEF Handed
    <3>3. Handed' \in Seq(Words) /\ Len(Handed') = Len(used) + 1 /\ Len(Handed) = Len(used)
      <4>1. \A k \in 1..(Len(used) + 1) : used'[k].line \in Words
        <5>1. \A k \in 1..Len(used) : used[k] \in Use
          BY <2>1
        <5>2. QED
          BY <1>4, <3>1, <5>1 DEF Use
      <4>2. QED
        BY <3>1, <3>2, <4>1
    <3>4. \A k \in 1..(Len(used) + 1) : Handed'[k] = (Handed \o <<answer>>)[k]
      BY <1>2, <1>4, <3>1, <3>2, <3>3
    <3>5. Handed \o <<answer>> \in Seq(Words) /\ Len(Handed \o <<answer>>) = Len(used) + 1
      BY <1>2, <1>4, <3>3
    <3>6. QED
      BY <3>3, <3>4, <3>5, SeqEqual
  <2>3. Handed \o <<answer>> \in Seq(Words)
    BY <1>2, <1>4
  <2>4. Handed' \o InHand' \o pending' = Handed \o <<answer>> \o pending
    BY <1>1, <2>2, <2>3, ConcatEmptySeq
  <2>5. typed' = Handed' \o InHand' \o pending'
    BY <1>2, <2>1, <2>4
  <2>6. LinesInOrder'
    BY <2>5 DEF LinesInOrder, Handed, InHand
  <2>7. used' \in Seq(Use)
    BY <2>1
  <2>8. QED
    BY <1>4, <2>1, <2>6, <2>7, AnswersAreApart
<1>5. QED
  BY <1>1, <1>3, <1>4
-----------------------------------------------------------------------------
(* The messages *)

\* What is kept stays approved when lines are used.
LEMMA HistoryStays ==
  ASSUME ConsoleTypeOK, HistoryIsPast, HistoryIsApproved, UNCHANGED messages,
         Len(used') >= Len(used), \A k \in 1..Len(used) : used'[k] = used[k]
  PROVE  HistoryIsApproved'
<1>1. ASSUME NEW p \in 1..(Len(messages) \div 2)
      PROVE  LET k == messages[2 * p - 1].of IN k \in 1..Len(used) /\ k + 1 \in 1..Len(used)
  <2>1. Len(messages) \in Nat /\ Len(used) \in Nat /\ Len(messages) = 2 * (Len(messages) \div 2)
    BY DEF ConsoleTypeOK, HistoryIsApproved
  <2>2. 2 * p - 1 \in 1..Len(messages)
    BY <2>1
  <2>3. messages[2 * p - 1].of \in 1..(Len(used) - 1)
    BY <2>2 DEF HistoryIsPast
  <2>4. QED
    BY <2>1, <2>3
<1>2. QED
  BY <1>1 DEF HistoryIsApproved

LEMMA TwoMore ==
  ASSUME NEW s \in Seq(Turn), NEW a \in Turn, NEW b \in Turn, NEW t, t = s \o <<a, b>>
  PROVE  /\ t \in Seq(Turn) /\ Len(t) = Len(s) + 2
         /\ \A i \in 1..Len(s) : t[i] = s[i]
         /\ t[Len(s) + 1] = a /\ t[Len(s) + 2] = b
<1>1. <<a, b>> \in Seq(Turn) /\ Len(<<a, b>>) = 2 /\ Len(s) \in Nat
  OBVIOUS
<1>2. /\ t \in Seq(Turn) /\ Len(t) = Len(s) + Len(<<a, b>>)
      /\ \A i \in 1..(Len(s) + Len(<<a, b>>)) :
           t[i] = IF i <= Len(s) THEN s[i] ELSE <<a, b>>[i - Len(s)]
  BY <1>1, ConcatProperties
<1>3. QED
  BY <1>1, <1>2

\* An exchange that is added is that of the line the loop is at.
LEMMA AnswerKeepsHistory ==
  ASSUME ConsoleTypeOK, CurrentIsInput, HistoryIsPast, HistoryIsApproved, phase = "calling",
         UNCHANGED used, phase' = "asking",
         messages' = messages \o << [role |-> "user", of |-> CurrentLine], [role |-> "assistant", of |-> CurrentLine] >>
  PROVE  messages' \in Seq(Turn) /\ HistoryIsPast' /\ HistoryIsApproved'
<1> DEFINE c == Len(used) - 1
           user == [role |-> "user", of |-> c]
           assistant == [role |-> "assistant", of |-> c]
           pairs == Len(messages) \div 2
<1>1. /\ Len(used) \in Nat /\ c \in 1..(Len(used) - 1) /\ CurrentInput = c /\ CurrentLine = c
      /\ used[c].for = "input" /\ used[c].line \notin {"exit", "blank"}
      /\ used[c + 1] = [line |-> "yes", for |-> "approval"]
  BY DEF ConsoleTypeOK, CurrentIsInput, CurrentInput, CurrentLine, IsInput, IsYes
<1>2. /\ messages \in Seq(Turn) /\ Len(messages) \in Nat /\ pairs \in Nat /\ Len(messages) = 2 * pairs
  BY DEF ConsoleTypeOK, HistoryIsApproved
<1>3. user \in Turn /\ assistant \in Turn /\ messages' = messages \o <<user, assistant>>
  BY <1>1 DEF Turn
<1> HIDE DEF user, assistant, pairs
<1>4. /\ messages' \in Seq(Turn) /\ Len(messages') = 2 * pairs + 2
      /\ \A i \in 1..(2 * pairs) : messages'[i] = messages[i]
      /\ messages'[2 * pairs + 1] = user /\ messages'[2 * pairs + 2] = assistant
  <2>1. /\ messages' \in Seq(Turn) /\ Len(messages') = Len(messages) + 2
        /\ \A i \in 1..Len(messages) : messages'[i] = messages[i]
        /\ messages'[Len(messages) + 1] = user /\ messages'[Len(messages) + 2] = assistant
    BY <1>2, <1>3, TwoMore
  <2>2. QED
    BY <1>2, <2>1
<1>5. user.of = c /\ user.role = "user" /\ assistant = [role |-> "assistant", of |-> c] /\ assistant.of = c
  BY DEF user, assistant
<1>6. HistoryIsPast'
  <2>1. ASSUME NEW i \in 1..(2 * pairs + 2) PROVE messages'[i].of \in 1..(Len(used) - 1)
    <3>1. CASE i \in 1..(2 * pairs)
      BY <1>2, <1>4, <3>1 DEF HistoryIsPast
    <3>2. CASE i \in {2 * pairs + 1, 2 * pairs + 2}
      BY <1>1, <1>4, <1>5, <3>2
    <3>3. QED
      BY <1>2, <3>1, <3>2
  <2>2. QED
    BY <1>4, <2>1 DEF HistoryIsPast
<1>7. HistoryIsApproved'
  <2>1. Len(messages') \div 2 = pairs + 1 /\ Len(messages') = 2 * (pairs + 1)
    BY <1>2, <1>4
  <2> DEFINE Approved(p) ==
        LET m == messages'[2 * p - 1]
            k == m.of
        IN /\ m.role = "user" /\ messages'[2 * p] = [role |-> "assistant", of |-> k]
           /\ used[k].for = "input" /\ used[k].line \notin {"exit", "blank"}
           /\ used[k + 1] = [line |-> "yes", for |-> "approval"]
           /\ p > 1 => messages'[2 * p - 2].of < k - 1
  <2>2. ASSUME NEW p \in 1..(pairs + 1) PROVE Approved(p)
    <3>1. CASE p \in 1..pairs
      <4>1. 2 * p \in 1..(2 * pairs) /\ 2 * p - 1 \in 1..(2 * pairs) /\ (p > 1 => 2 * p - 2 \in 1..(2 * pairs))
        BY <1>2, <3>1
      <4>2. /\ messages'[2 * p] = messages[2 * p] /\ messages'[2 * p - 1] = messages[2 * p - 1]
            /\ p > 1 => messages'[2 * p - 2] = messages[2 * p - 2]
        BY <1>4, <4>1
      <4>3. QED
        BY <3>1, <4>2 DEF HistoryIsApproved, pairs
    <3>2. CASE p = pairs + 1
      <4>1. messages'[2 * p - 1] = user /\ messages'[2 * p] = assistant
        <5>1. 2 * p - 1 = 2 * pairs + 1 /\ 2 * p = 2 * pairs + 2
          BY <1>2, <3>2
        <5>2. QED
          BY <1>4, <5>1
      <4>2. ASSUME p > 1 PROVE messages'[2 * p - 2].of < c - 1
        <5>1. 2 * p - 2 = 2 * pairs /\ 2 * pairs \in 1..(2 * pairs) /\ 2 * pairs \in 1..Len(messages)
          BY <1>2, <3>2, <4>2
        <5>2. messages[2 * pairs].of \in 1..(Len(used) - 1) /\ messages[2 * pairs].of + 1 < c
          BY <1>1, <5>1 DEF HistoryIsPast
        <5>3. messages'[2 * p - 2].of = messages[2 * pairs].of
          BY <1>4, <5>1
        <5>4. \A n : n \in 1..(Len(used) - 1) /\ n + 1 < c => n < c - 1
          BY <1>1
        <5>5. QED
          BY <5>2, <5>3, <5>4
      <4>3. QED
        BY <1>1, <1>5, <4>1, <4>2
    <3>3. QED
      <4> HIDE DEF Approved
      <4> QED
        BY <1>2, <3>1, <3>2
  <2>3. HistoryIsApproved' <=> /\ Len(messages') = 2 * (Len(messages') \div 2)
                              /\ \A p \in 1..(Len(messages') \div 2) : Approved(p)
    BY Zenon DEF HistoryIsApproved
  <2> HIDE DEF Approved
  <2>4. QED
    BY <2>1, <2>2, <2>3
<1>8. QED
  BY <1>4, <1>6, <1>7
-----------------------------------------------------------------------------
LEMMA StepKeepsConsole == ConsoleInv /\ [ConsoleNext]_consoleVars => ConsoleInv'
<1> SUFFICES ASSUME ConsoleInv, [ConsoleNext]_consoleVars PROVE ConsoleInv'
  OBVIOUS
<1> USE DEF ConsoleInv
<1>0. Len(used) \in Nat
  BY DEF ConsoleTypeOK
\* Steps that use no line and keep nothing.
<1>1. ASSUME UNCHANGED <<used, messages>>, LinesInOrder', ConsoleTypeOK', OneQuestion',
             phase' \in {"prompting", "approving", "calling"} => CurrentInput' = CurrentInput /\ phase \in {"prompting", "approving", "calling"},
             phase' = "calling" => phase = "calling"
      PROVE  ConsoleInv'
  <2>1. CurrentIsInput'
    BY <1>1 DEF CurrentIsInput, IsInput, IsYes
  <2>2. HistoryIsPast'
    BY <1>1 DEF HistoryIsPast
  <2>3. HistoryIsApproved'
    BY <1>1 DEF HistoryIsApproved
  <2>4. QED
    BY <1>1, <2>1, <2>2, <2>3
<1>2. ASSUME NEW line \in Words, Type(line) PROVE ConsoleInv'
  <2>1. LinesInOrder'
    BY <1>2, TypeKeepsLines
  <2>2. ConsoleTypeOK'
    <3>1. pending' \in Seq(Words) /\ typed' \in Seq(Words)
      <4>1. pending \in Seq(Words) /\ typed \in Seq(Words)
        BY DEF ConsoleTypeOK
      <4>2. \A s \in Seq(Words) : Append(s, line) \in Seq(Words)
        BY AppendProperties
      <4>3. QED
        BY <1>2, <4>1, <4>2 DEF Type
    <3>2. answer' \in Words \cup {NoAnswer, Closed} /\ waiting' \in BOOLEAN
      BY <1>2 DEF Type, ConsoleTypeOK
    <3>3. QED
      BY <1>2, <3>1, <3>2 DEF Type, ConsoleTypeOK
  <2>3. OneQuestion'
    BY <1>2, AnswersAreApart DEF Type, OneQuestion
  <2>4. QED
    BY <1>1, <1>2, <2>1, <2>2, <2>3 DEF Type, CurrentInput
<1>3. CASE CloseInput
  <2>1. ConsoleTypeOK'
    BY <1>3 DEF CloseInput, ConsoleTypeOK
  <2>4. OneQuestion'
    BY <1>3, AnswersAreApart DEF CloseInput, OneQuestion
  <2>2. LinesInOrder'
    BY <1>3, AnswersAreApart DEF CloseInput, LinesInOrder, OneQuestion
  <2>3. QED
    BY <1>1, <1>3, <2>1, <2>2, <2>4 DEF CloseInput, CurrentInput
<1>4. CASE AskForInput \/ AskForApproval
  <2>1. answer = NoAnswer /\ ~waiting /\ Question /\ UNCHANGED <<closed, messages, typed, used>>
    BY <1>4 DEF AskForInput, AskForApproval, OneQuestion
  <2>2. LinesInOrder'
    BY <2>1, QuestionKeepsLines
  <2>3. pending # <<>> => Head(pending) \in Words /\ Tail(pending) \in Seq(Words)
    BY HeadTailProperties DEF ConsoleTypeOK
  <2>4. ConsoleTypeOK'
    BY <1>4, <2>1, <2>3 DEF AskForInput, AskForApproval, Question, ConsoleTypeOK
  <2>5. OneQuestion'
    BY <1>4, <2>1, <2>3, AnswersAreApart DEF AskForInput, AskForApproval, Question, OneQuestion
  <2>6. QED
    BY <1>1, <1>4, <2>1, <2>2, <2>4, <2>5 DEF AskForInput, AskForApproval, CurrentInput
<1>5. ASSUME NEW from \in {"reading", "approving"}, NEW purpose \in {"input", "approval"}, Resume(from, purpose),
             UNCHANGED <<pending, waiting, messages, typed>>, closed' \in BOOLEAN,
             phase' \in {"asking", "prompting", "calling", "declined", "ended"}
      PROVE  /\ LinesInOrder' /\ HistoryIsApproved' /\ ConsoleTypeOK' /\ OneQuestion'
             /\ answer \in Words => /\ Len(used') = Len(used) + 1 /\ used'[Len(used) + 1] = [line |-> answer, for |-> purpose]
                                    /\ \A k \in 1..Len(used) : used'[k] = used[k]
             /\ answer = Closed => used' = used
             /\ answer \in Words \/ answer = Closed
  <2>1. LinesInOrder' /\ used' \in Seq(Use) /\ (answer = Closed => used' = used)
        /\ (answer \in Words => used' = Append(used, [line |-> answer, for |-> purpose]))
    BY <1>5, ResumeKeepsLines
  <2>2. answer \in Words \/ answer = Closed
    BY <1>5 DEF Resume, ConsoleTypeOK
  <2>3. answer \in Words => /\ Len(used') = Len(used) + 1 /\ used'[Len(used) + 1] = [line |-> answer, for |-> purpose]
                            /\ \A k \in 1..Len(used) : used'[k] = used[k]
    BY <2>1 DEF ConsoleTypeOK
  <2>4. HistoryIsApproved'
    BY <1>0, <1>5, <2>1, <2>2, <2>3, HistoryStays
  <2>5. ConsoleTypeOK'
    BY <1>5, <2>1 DEF Resume, ConsoleTypeOK
  <2>6. OneQuestion'
    BY <1>5 DEF Resume, OneQuestion, ConsoleTypeOK
  <2>7. QED
    BY <2>1, <2>2, <2>3, <2>4, <2>5, <2>6
<1>6. CASE ReadInput
  <2>1. /\ Resume("reading", "input") /\ phase = "reading"
        /\ UNCHANGED <<pending, waiting, messages, typed>>
        /\ closed' \in BOOLEAN /\ phase' \in {"asking", "prompting", "ended"}
        /\ phase' = "prompting" => answer \notin {Closed, "exit", "blank"}
    BY <1>6 DEF ReadInput, Resume, ConsoleTypeOK
  <2>2. /\ LinesInOrder' /\ HistoryIsApproved' /\ ConsoleTypeOK' /\ OneQuestion'
        /\ answer \in Words => /\ Len(used') = Len(used) + 1 /\ used'[Len(used) + 1] = [line |-> answer, for |-> "input"]
        /\ answer = Closed => used' = used
        /\ answer \in Words \/ answer = Closed
    BY <1>5, <2>1
  <2>3. CurrentIsInput'
    BY <1>0, <2>1, <2>2 DEF CurrentIsInput, CurrentInput, IsInput
  <2>4. HistoryIsPast'
    BY <1>0, <2>1, <2>2 DEF HistoryIsPast, CurrentInput, ConsoleTypeOK
  <2>5. QED
    BY <2>2, <2>3, <2>4
<1>7. CASE ReadApproval
  <2>1. /\ Resume("approving", "approval") /\ phase = "approving"
        /\ UNCHANGED <<pending, waiting, closed, messages, typed>>
        /\ phase' \in {"calling", "declined"} /\ (phase' = "calling" => answer = "yes")
    BY <1>7 DEF ReadApproval, Resume
  <2>2. /\ LinesInOrder' /\ HistoryIsApproved' /\ ConsoleTypeOK' /\ OneQuestion'
        /\ answer \in Words => /\ Len(used') = Len(used) + 1 /\ used'[Len(used) + 1] = [line |-> answer, for |-> "approval"]
                               /\ \A k \in 1..Len(used) : used'[k] = used[k]
        /\ answer = Closed => used' = used
        /\ answer \in Words \/ answer = Closed
    BY <1>5, <2>1 DEF ConsoleTypeOK
  <2>3. "yes" \in Words
    BY DEF Words
  <2>4. IsInput(Len(used))
    BY <2>1 DEF CurrentIsInput, CurrentInput
  <2>5. CurrentIsInput'
    BY <1>0, <2>1, <2>2, <2>3, <2>4 DEF CurrentIsInput, CurrentInput, IsInput, IsYes
  <2>6. HistoryIsPast'
    BY <1>0, <2>1, <2>2, <2>3 DEF HistoryIsPast, CurrentInput, ConsoleTypeOK
  <2>7. QED
    BY <2>2, <2>5, <2>6
<1>8. CASE Decline \/ CallRejects
  <2>1. ConsoleTypeOK'
    BY <1>8 DEF Decline, CallRejects, inputVars, ConsoleTypeOK
  <2>2. OneQuestion'
    BY <1>8 DEF Decline, CallRejects, inputVars, OneQuestion
  <2>3. LinesInOrder'
    BY <1>8 DEF Decline, CallRejects, inputVars, LinesInOrder
  <2>4. QED
    BY <1>1, <1>8, <2>1, <2>2, <2>3 DEF Decline, CallRejects, inputVars
<1>9. CASE ProviderAnswers
  <2>1. phase = "calling" /\ phase' = "asking" /\ UNCHANGED <<inputVars, typed, used>>
    BY <1>9 DEF ProviderAnswers
  <2>2. LinesInOrder' /\ OneQuestion'
    BY <2>1 DEF inputVars, LinesInOrder, OneQuestion
  <2>3. CASE UNCHANGED messages
    <3>1. ConsoleTypeOK'
      BY <2>1, <2>3 DEF inputVars, ConsoleTypeOK
    <3>2. QED
      BY <1>1, <2>1, <2>2, <2>3, <3>1
  <2>4. CASE messages' = messages \o << [role |-> "user", of |-> CurrentLine], [role |-> "assistant", of |-> CurrentLine] >>
    <3>1. messages' \in Seq(Turn) /\ HistoryIsPast' /\ HistoryIsApproved'
      BY <2>1, <2>4, AnswerKeepsHistory
    <3>2. ConsoleTypeOK' /\ CurrentIsInput'
      BY <2>1, <3>1 DEF inputVars, ConsoleTypeOK, CurrentIsInput
    <3>3. QED
      BY <2>2, <3>1, <3>2
  <2>5. QED
    BY <1>9, <2>3, <2>4 DEF ProviderAnswers
<1>10. CASE UNCHANGED consoleVars
  <2>1. ConsoleTypeOK' /\ OneQuestion' /\ LinesInOrder'
    BY <1>10 DEF consoleVars, inputVars, ConsoleTypeOK, OneQuestion, LinesInOrder
  <2>2. QED
    BY <1>1, <1>10, <2>1 DEF consoleVars, CurrentInput
<1>11. QED
  BY <1>2, <1>3, <1>4, <1>6, <1>7, <1>8, <1>9, <1>10 DEF ConsoleNext, LoopNext, Over

LEMMA ConsoleInvariant == ConsoleSpec => []ConsoleInv
<1>1. ConsoleInit => ConsoleInv
  <2> SUFFICES ASSUME ConsoleInit PROVE ConsoleInv
    OBVIOUS
  <2>1. ConsoleTypeOK /\ OneQuestion
    <3>1. /\ pending \in Seq(Words) /\ typed \in Seq(Words) /\ used \in Seq(Use) /\ messages \in Seq(Turn)
      BY EmptySeq DEF ConsoleInit
    <3>3. ConsoleTypeOK
      BY <3>1 DEF ConsoleInit, ConsoleTypeOK
    <3>2. OneQuestion
      BY DEF ConsoleInit, OneQuestion
    <3>4. QED
      BY <3>2, <3>3
  <2>2. Handed = <<>> /\ InHand = <<>>
    BY AnswersAreApart DEF ConsoleInit, Handed, InHand
  <2>3. LinesInOrder
    BY <2>2, LinesAreThree DEF ConsoleInit
  <2>4. CurrentIsInput /\ HistoryIsPast /\ HistoryIsApproved
    BY DEF ConsoleInit, CurrentIsInput, HistoryIsPast, HistoryIsApproved
  <2>5. QED
    BY <2>1, <2>3, <2>4 DEF ConsoleInv
<1>2. QED
  BY <1>1, StepKeepsConsole, PTL DEF ConsoleSpec

\* However typing, closing and the loop interleave, every line typed is handed
\* out once and in order: none is lost between a waiter and the list.
THEOREM NoLineIsLost == ConsoleSpec => []LinesInOrder
  BY ConsoleInvariant, PTL DEF ConsoleInv

\* The history sent with a call consists of whole exchanges, each of a line
\* that was approved by the yes that came right after it.
THEOREM EveryExchangeWasApproved == ConsoleSpec => []HistoryIsApproved
  BY ConsoleInvariant, PTL DEF ConsoleInv
-----------------------------------------------------------------------------
(***************************************************************************)
(*                            The memory stores                            *)
(***************************************************************************)

Piece == [of : Writes, upto : {"heading", "start", "json", "fence", "end"}]

IsDamaged(pieces) == \E n \in DOMAIN pieces : pieces[n].upto # "end" \/ pieces[n].of \in Quoting

Entries == {"allow", "deny", "denied", "failed", "invalid", "succeeded"}

MemoryTypeOK ==
  /\ place \in [Writes -> Places]
  /\ at \in [Calls -> {"idle", "deciding", "authorizing", "accessing", "closing", "over"}]
  /\ trail \in [Calls -> Seq(Entries)]
  /\ outcome \in [Calls -> {"none", "denied", "failed", "invalid", "succeeded"}]
  /\ result \in [Calls -> {"none", "ok", "error"}]
  /\ file \in [Places -> Seq(Piece)]
  /\ scanned \in [Searches -> Nat]

\* What a call has on record, by where it is.
OnRecord(c) ==
  /\ at[c] = "closing" => outcome[c] # "none"
  /\ at[c] # "over" => result[c] = "none"
  /\ at[c] \in {"idle", "deciding"} => trail[c] = <<>>
  /\ at[c] \in {"authorizing", "accessing"} => trail[c] = <<"allow">>

\* A search that goes on has a place left to read, and damage it has met stays.
ScanOK(s) ==
  /\ scan[s] \in Seq(Places) /\ scanned[s] \in Nat
  /\ at[s] \notin {"closing", "over"} => scanned[s] < Len(scan[s]) /\ outcome[s] = "none"
  /\ outcome[s] = "invalid" => \E k \in DOMAIN scan[s] : IsDamaged(file[scan[s][k]])

MemoryInv ==
  /\ MemoryTypeOK
  /\ \A c \in Calls : OnRecord(c)
  /\ \A s \in Searches : ScanOK(s)

-----------------------------------------------------------------------------
\* The loop of the parser: where a block that is looked for from i on starts
\* and ends, and what it makes of the rest.
StartsFrom(pieces, i) == {k \in i..Len(pieces) : HasStart(pieces[k])}
StartFrom(pieces, i)  == Min(StartsFrom(pieces, i))
EndsFrom(pieces, i)   == {j \in StartFrom(pieces, i)..Len(pieces) : HasEnd(pieces[j])}
NextFrom(pieces, i)   == Min(EndsFrom(pieces, i)) + 1
Stops(pieces, i)      == StartsFrom(pieces, i) = {} \/ EndsFrom(pieces, i) = {}

With(block, rest) == [ok |-> block.ok /\ rest.ok, records |-> block.records \o rest.records]

\* What is found from i on, with what is found after its block.
Found(pieces, i, rest) ==
  IF StartsFrom(pieces, i) = {} THEN [ok |-> TRUE, records |-> <<>>]
  ELSE IF EndsFrom(pieces, i) = {} THEN [ok |-> FALSE, records |-> <<>>]
  ELSE With(Block(pieces, StartFrom(pieces, i), Min(EndsFrom(pieces, i))), rest)

IsLoop(pieces, f, from) == f = [i \in from..(Len(pieces) + 1) |-> Found(pieces, i, f[NextFrom(pieces, i)])]

\* The loop moves on, and no further than the end.
LEMMA LoopMovesOn ==
  ASSUME NEW pieces \in Seq(Piece), NEW i \in 1..(Len(pieces) + 1), ~Stops(pieces, i)
  PROVE  NextFrom(pieces, i) \in (i + 1)..(Len(pieces) + 1)
<1>1. Len(pieces) \in Nat /\ StartsFrom(pieces, i) \in SUBSET Nat
  BY DEF StartsFrom
<1>2. StartFrom(pieces, i) \in StartsFrom(pieces, i)
  BY <1>1, LeastElement DEF Stops, StartFrom
<1>3. StartFrom(pieces, i) \in i..Len(pieces)
  BY <1>2 DEF StartsFrom
<1>4. EndsFrom(pieces, i) \in SUBSET Nat
  BY <1>1, <1>3 DEF EndsFrom
<1>5. Min(EndsFrom(pieces, i)) \in EndsFrom(pieces, i)
  BY <1>4, LeastElement DEF Stops
<1>6. Min(EndsFrom(pieces, i)) \in StartFrom(pieces, i)..Len(pieces)
  BY <1>5 DEF EndsFrom
<1>7. QED
  BY <1>1, <1>3, <1>6 DEF NextFrom

\* What is found at the end does not depend on what comes after.
LEMMA FoundAtStop ==
  ASSUME NEW pieces, NEW i, Stops(pieces, i), NEW r1, NEW r2
  PROVE  Found(pieces, i, r1) = Found(pieces, i, r2)
  BY DEF Found, Stops

\* There is such a loop.
LEMMA LoopExists ==
  ASSUME NEW pieces \in Seq(Piece)
  PROVE  \E f : IsLoop(pieces, f, 1)
<1> DEFINE L == Len(pieces)
           S == {m \in 1..(L + 1) : \E f : IsLoop(pieces, f, m)}
<1>1. L \in Nat
  OBVIOUS
<1>2. L + 1 \in S
  <2>1. StartsFrom(pieces, L + 1) = {}
    BY <1>1 DEF StartsFrom
  <2> DEFINE f == [i \in (L + 1)..(L + 1) |-> Found(pieces, L + 1, 0)]
  <2>2. \A i \in (L + 1)..(L + 1) : i = L + 1
    BY <1>1
  <2>3. \A i \in (L + 1)..(L + 1) : Found(pieces, i, f[NextFrom(pieces, i)]) = Found(pieces, L + 1, 0)
    BY <2>1, <2>2, FoundAtStop DEF Stops
  <2>4. IsLoop(pieces, f, L + 1)
    BY <2>3 DEF IsLoop
  <2>5. QED
    BY <1>1, <2>4
<1>3. PICK m \in S : \A x \in S : m <= x
  <2>1. S \in SUBSET Nat /\ S # {}
    BY <1>1, <1>2
  <2> HIDE DEF S
  <2>2. QED
    BY <2>1, LeastElement
<1>4. m \in 1..(L + 1) /\ \E f : IsLoop(pieces, f, m)
  OBVIOUS
<1>5. CASE m = 1
  BY <1>4, <1>5
<1>6. CASE m # 1
  <2>1. PICK g : IsLoop(pieces, g, m)
    BY <1>4
  <2> DEFINE h == [i \in (m - 1)..(L + 1) |->
                     IF i = m - 1 THEN Found(pieces, i, g[NextFrom(pieces, i)]) ELSE g[i]]
  <2>2. /\ m \in Nat /\ m - 1 \in 1..(L + 1)
        /\ \A i \in (m - 1)..(L + 1) : i \in 1..(L + 1) /\ (i # m - 1 => i \in m..(L + 1))
        /\ \A j \in m..(L + 1) : j \in (m - 1)..(L + 1) /\ j # m - 1
    BY <1>1, <1>4, <1>6
  <2>3. \A j \in m..(L + 1) : h[j] = g[j]
    BY <2>2
  <2>4. \A i \in m..(L + 1) : g[i] = Found(pieces, i, g[NextFrom(pieces, i)])
    BY <2>1 DEF IsLoop
  <2>5. \A i \in (m - 1)..(L + 1) : h[i] = Found(pieces, i, g[NextFrom(pieces, i)])
    BY <2>2, <2>4
  <2> HIDE DEF h
  <2>6. ASSUME NEW i \in (m - 1)..(L + 1)
        PROVE  Found(pieces, i, g[NextFrom(pieces, i)]) = Found(pieces, i, h[NextFrom(pieces, i)])
    <3>1. CASE Stops(pieces, i)
      BY <3>1, FoundAtStop
    <3>2. CASE ~Stops(pieces, i)
      <4>1. i \in 1..(Len(pieces) + 1)
        BY <2>2
      <4>2. NextFrom(pieces, i) \in (i + 1)..(L + 1)
        BY <3>2, <4>1, LoopMovesOn
      <4>3. NextFrom(pieces, i) \in m..(L + 1)
        BY <1>1, <2>2, <4>2
      <4>4. QED
        BY <2>3, <4>3
    <3>3. QED
      BY <3>1, <3>2
  <2>7. \A i \in (m - 1)..(L + 1) : h[i] = Found(pieces, i, h[NextFrom(pieces, i)])
    BY <2>5, <2>6
  <2>8. h = [i \in (m - 1)..(L + 1) |-> h[i]]
    BY DEF h
  <2>9. IsLoop(pieces, h, m - 1)
    BY <2>7, <2>8 DEF IsLoop
  <2>10. m - 1 \in S
    BY <2>2, <2>9
  <2> HIDE DEF S
  <2>11. m <= m - 1
    BY <1>3, <2>10
  <2>12. QED
    BY <2>2, <2>11
<1>7. QED
  BY <1>5, <1>6

\* What the parser returns is what its loop finds from the first piece on.
LEMMA ParseIsLoop ==
  ASSUME NEW pieces \in Seq(Piece)
  PROVE  \E f : IsLoop(pieces, f, 1) /\ Parse(pieces) = f[1]
<1> DEFINE f == CHOOSE h : IsLoop(pieces, h, 1)
<1>1. IsLoop(pieces, f, 1)
  BY LoopExists, Zenon
<1>2. Parse(pieces) = f[1]
  BY Zenon DEF Parse, IsLoop, Found, With, StartsFrom, StartFrom, EndsFrom, NextFrom
<1>3. QED
  BY <1>1, <1>2, Zenon
-----------------------------------------------------------------------------
\* A block of whole records is one record.
LEMMA WholeBlock ==
  ASSUME NEW pieces \in Seq(Piece), NEW j \in 1..Len(pieces), ~IsDamaged(pieces)
  PROVE  Block(pieces, j, j).ok
<1>1. j \in Nat /\ j..j = {j} /\ j..(j - 1) = {} /\ pieces[j].upto = "end" /\ pieces[j].of \notin Quoting
  BY DEF IsDamaged
<1>2. HasFence(pieces[j])
  BY <1>1 DEF HasFence
<1> DEFINE k == CHOOSE k \in j..j : HasFence(pieces[k]) /\ \A l \in j..(k - 1) : ~HasFence(pieces[l])
<1>3. k = j
  <2>1. \E x \in j..j : HasFence(pieces[x]) /\ \A l \in j..(x - 1) : ~HasFence(pieces[l])
    BY <1>1, <1>2
  <2>2. k \in j..j
    BY <2>1
  <2>3. QED
    BY <1>1, <2>2
<1>4. Block(pieces, j, j) = IF pieces[k].upto = "json" \/ (k = j /\ pieces[k].of \in Quoting)
                            THEN [ok |-> FALSE, records |-> <<>>] ELSE [ok |-> TRUE, records |-> <<pieces[k].of>>]
  BY Zenon DEF Block
<1> HIDE DEF k
<1>5. QED
  BY <1>1, <1>3, <1>4

\* A file of whole records is parsed.
LEMMA WholeFileParses ==
  ASSUME NEW pieces \in Seq(Piece), ~IsDamaged(pieces)
  PROVE  Parse(pieces).ok
<1> DEFINE L == Len(pieces)
<1>1. PICK f : IsLoop(pieces, f, 1) /\ Parse(pieces) = f[1]
  BY ParseIsLoop
<1>2. L \in Nat /\ \A i \in 1..(L + 1) : f[i] = Found(pieces, i, f[NextFrom(pieces, i)])
  BY <1>1 DEF IsLoop
<1> DEFINE S == {m \in 1..(L + 1) : \A i \in m..(L + 1) : f[i].ok}
<1>3. ASSUME NEW i \in 1..(L + 1), ~Stops(pieces, i) => f[NextFrom(pieces, i)].ok
      PROVE  f[i].ok
  <2>1. CASE StartsFrom(pieces, i) = {}
    BY <1>2, <2>1 DEF Found
  <2>2. CASE StartsFrom(pieces, i) # {}
    <3> DEFINE start == StartFrom(pieces, i)
    <3>1. StartsFrom(pieces, i) \in SUBSET Nat
      BY <1>2 DEF StartsFrom
    <3>2. start \in StartsFrom(pieces, i)
      BY <2>2, <3>1, LeastElement DEF StartFrom
    <3>3. start \in 1..L
      BY <1>2, <3>2 DEF StartsFrom
    <3> HIDE DEF start
    <3>4. HasEnd(pieces[start])
      BY <3>3 DEF HasEnd, IsDamaged
    <3>5. EndsFrom(pieces, i) \in SUBSET Nat /\ start \in EndsFrom(pieces, i) /\ \A x \in EndsFrom(pieces, i) : start <= x
      BY <1>2, <3>3, <3>4 DEF EndsFrom, start
    <3>6. Min(EndsFrom(pieces, i)) \in EndsFrom(pieces, i) /\ Min(EndsFrom(pieces, i)) <= start
      BY <3>5, LeastElement
    <3>7. Min(EndsFrom(pieces, i)) = start
      BY <1>2, <3>3, <3>5, <3>6
    <3>8. Block(pieces, start, start).ok
      BY <3>3, WholeBlock
    <3>9. ~Stops(pieces, i)
      BY <2>2, <3>5 DEF Stops
    <3>10. f[i] = With(Block(pieces, start, start), f[NextFrom(pieces, i)])
      BY <1>2, <2>2, <3>5, <3>7 DEF Found, start
    <3>11. QED
      <4>1. \A block, rest : With(block, rest).ok = (block.ok /\ rest.ok)
        BY DEF With
      <4>2. QED
        BY <1>3, <3>8, <3>9, <3>10, <4>1, Zenon
  <2>3. QED
    BY <2>1, <2>2
<1>4. L + 1 \in S
  <2>1. StartsFrom(pieces, L + 1) = {}
    BY <1>2 DEF StartsFrom
  <2>2. f[L + 1].ok
    BY <1>2, <1>3, <2>1 DEF Stops
  <2>3. QED
    BY <1>2, <2>2
<1>5. PICK m \in S : \A x \in S : m <= x
  <2>1. S \in SUBSET Nat /\ S # {}
    BY <1>2, <1>4
  <2> HIDE DEF S
  <2>2. QED
    BY <2>1, LeastElement
<1>6. m \in 1..(L + 1) /\ \A i \in m..(L + 1) : f[i].ok
  OBVIOUS
<1>7. CASE m = 1
  BY <1>1, <1>2, <1>6, <1>7
<1>8. CASE m # 1
  <2>1. m \in Nat /\ m - 1 \in 1..(L + 1) /\ \A i \in (m - 1)..(L + 1) : i = m - 1 \/ i \in m..(L + 1)
    BY <1>2, <1>6, <1>8
  <2>2. ~Stops(pieces, m - 1) => NextFrom(pieces, m - 1) \in m..(L + 1)
    BY <2>1, LoopMovesOn
  <2>3. f[m - 1].ok
    BY <1>3, <1>6, <2>1, <2>2
  <2>4. m - 1 \in S
    BY <1>6, <2>1, <2>3
  <2> HIDE DEF S
  <2>5. m <= m - 1
    BY <1>5, <2>4
  <2>6. QED
    BY <2>1, <2>5
<1>9. QED
  BY <1>7, <1>8
-----------------------------------------------------------------------------
\* The other calls stay where they are.
Moves(c) ==
  \A d \in Calls \ {c} : at'[d] = at[d] /\ outcome'[d] = outcome[d] /\ trail'[d] = trail[d] /\ result'[d] = result[d]

\* A search keeps what it has as long as files are not mended.
LEMMA ScanStays ==
  ASSUME NEW s \in Searches, ScanOK(s), scan'[s] = scan[s], scanned'[s] = scanned[s],
         \A p \in Places : IsDamaged(file[p]) => IsDamaged(file'[p]),
         outcome'[s] = "invalid" => outcome[s] = "invalid",
         at'[s] \notin {"closing", "over"} => at[s] \notin {"closing", "over"} /\ outcome'[s] = outcome[s]
  PROVE  ScanOK(s)'
<1>1. \A k \in DOMAIN scan[s] : scan[s][k] \in Places
  BY DEF ScanOK
<1>2. outcome'[s] = "invalid" => \E k \in DOMAIN scan'[s] : IsDamaged(file'[scan'[s][k]])
  BY <1>1 DEF ScanOK
<1>3. (\E k \in DOMAIN scan'[s] : IsDamaged(file'[scan'[s][k]])) <=> (\E k \in DOMAIN scan[s] : IsDamaged(file[scan[s][k]]))'
  BY DEF IsDamaged
<1>4. QED
  BY <1>2, <1>3 DEF ScanOK

LEMMA TrailGrows ==
  ASSUME trail \in [Calls -> Seq(Entries)], NEW c \in Calls, NEW r \in Entries,
         trail' = [trail EXCEPT ![c] = Append(@, r)]
  PROVE  trail' \in [Calls -> Seq(Entries)]
<1>1. Append(trail[c], r) \in Seq(Entries)
  OBVIOUS
<1>2. QED
  BY <1>1

LEMMA CallKeepsRecord ==
  ASSUME MemoryInv, NEW c \in Calls, CallStep(c)
  PROVE  MemoryInv'
<1> USE DEF MemoryInv
<1>0. \A s \in Searches : ScanOK(s)'
  <2> SUFFICES ASSUME NEW s \in Searches PROVE ScanOK(s)'
    OBVIOUS
  <2>1. UNCHANGED <<scan, scanned, file>>
    BY DEF CallStep, Call, Decide, AuthorizeFile, Close, scanVars
  <2>2. outcome'[s] = "invalid" => outcome[s] = "invalid"
    BY DEF CallStep, Call, Decide, AuthorizeFile, Close, CloseWith, Goto, MemoryTypeOK, Calls
  <2>3. at'[s] \notin {"closing", "over"} => at[s] \notin {"closing", "over"}
    BY DEF CallStep, Call, Decide, AuthorizeFile, Close, CloseWith, Goto, MemoryTypeOK, Calls
  <2>4. at'[s] \notin {"closing", "over"} => outcome'[s] = outcome[s]
    BY DEF CallStep, Call, Decide, AuthorizeFile, Close, CloseWith, Goto, MemoryTypeOK, Calls
  <2>5. QED
    BY <2>1, <2>2, <2>3, <2>4, ScanStays
<1>1. CASE Call(c)
  BY <1>0, <1>1 DEF Call, Goto, MemoryTypeOK, OnRecord
<1>2. CASE Decide(c)
  <2>1. MemoryTypeOK'
    <3>1. /\ UNCHANGED <<place, result, file, scanned>>
          /\ \E to \in {"accessing", "authorizing", "closing"} : at' = [at EXCEPT ![c] = to]
          /\ UNCHANGED outcome \/ \E how \in {"denied", "failed"} : outcome' = [outcome EXCEPT ![c] = how]
          /\ UNCHANGED trail \/ \E r \in {"allow", "deny"} : trail' = [trail EXCEPT ![c] = Append(@, r)]
      BY <1>2 DEF Decide, CloseWith, Audit, Goto, scanVars
    <3>2. trail \in [Calls -> Seq(Entries)] /\ {"allow", "deny"} \subseteq Entries
      BY DEF MemoryTypeOK, Entries
    <3>3. trail' \in [Calls -> Seq(Entries)]
      BY <3>1, <3>2, TrailGrows
    <3>4. at' \in [Calls -> {"idle", "deciding", "authorizing", "accessing", "closing", "over"}]
      BY <3>1 DEF MemoryTypeOK
    <3>5. outcome' \in [Calls -> {"none", "denied", "failed", "invalid", "succeeded"}]
      BY <3>1 DEF MemoryTypeOK
    <3>6. QED
      BY <3>1, <3>3, <3>4, <3>5 DEF MemoryTypeOK
  <2>2. Moves(c) /\ OnRecord(c)'
    BY <1>2 DEF Decide, CloseWith, Audit, Goto, MemoryTypeOK, OnRecord, Moves
  <2>3. QED
    BY <1>0, <2>1, <2>2 DEF OnRecord, Moves
<1>3. CASE AuthorizeFile(c)
  <2>1. MemoryTypeOK'
    BY <1>3 DEF AuthorizeFile, CloseWith, Goto, MemoryTypeOK, scanVars
  <2>2. Moves(c) /\ OnRecord(c)'
    BY <1>3 DEF AuthorizeFile, CloseWith, Goto, MemoryTypeOK, OnRecord, Moves
  <2>3. QED
    BY <1>0, <2>1, <2>2 DEF OnRecord, Moves
<1>4. CASE Close(c)
  <2>1. MemoryTypeOK'
    <3>1. /\ UNCHANGED <<place, outcome, file, scanned>> /\ at[c] = "closing" /\ at' = [at EXCEPT ![c] = "over"]
          /\ \E r \in {"ok", "error"} : result' = [result EXCEPT ![c] = r]
          /\ UNCHANGED trail \/ trail' = [trail EXCEPT ![c] = Append(@, outcome[c])]
      BY <1>4 DEF Close, Audit, Goto, scanVars
    <3>2. outcome[c] \in Entries
      BY <1>4 DEF Close, Goto, MemoryTypeOK, OnRecord, Entries
    <3>5. trail \in [Calls -> Seq(Entries)]
      BY DEF MemoryTypeOK
    <3>3. trail' \in [Calls -> Seq(Entries)]
      BY <3>1, <3>2, <3>5, TrailGrows
    <3>4. QED
      BY <3>1, <3>3 DEF MemoryTypeOK
  <2>2. Moves(c) /\ OnRecord(c)'
    BY <1>4 DEF Close, Audit, Goto, MemoryTypeOK, OnRecord, Moves
  <2>3. QED
    BY <1>0, <2>1, <2>2 DEF OnRecord, Moves
<1>5. QED
  BY <1>1, <1>2, <1>3, <1>4 DEF CallStep

\* A record goes to the end of the place of its write.
LEMMA AppendGoesToPlace ==
  ASSUME MemoryInv, NEW w \in Writes, AppendRecord(w)
  PROVE  /\ at[w] = "accessing" /\ at' = [at EXCEPT ![w] = "closing"]
         /\ \E how \in {"succeeded", "failed"} : outcome' = [outcome EXCEPT ![w] = how]
         /\ UNCHANGED <<place, trail, result>> /\ file' \in [Places -> Seq(Piece)]
         /\ UNCHANGED <<scan, scanned>>
         /\ \A p \in Places : IsDamaged(file[p]) => IsDamaged(file'[p])
         /\ \A p \in Places : file'[p] # file[p] =>
              p = place[w] /\ file'[p][Len(file'[p])].of = w
<1> USE DEF MemoryInv
<1>1. /\ at[w] = "accessing" /\ at' = [at EXCEPT ![w] = "closing"] /\ UNCHANGED <<place, scan, trail, result, scanned>>
      /\ \E how \in {"succeeded", "failed"} : outcome' = [outcome EXCEPT ![w] = how]
  BY DEF AppendRecord, CloseWith, Goto, MemoryTypeOK, scanVars
<1>2. UNCHANGED file \/ \E upto \in {"heading", "start", "json", "fence", "end"} : Store(w, upto)
  BY DEF AppendRecord
<1>3. CASE UNCHANGED file
  BY <1>1, <1>3 DEF MemoryTypeOK
<1>4. ASSUME NEW upto \in {"heading", "start", "json", "fence", "end"}, Store(w, upto)
      PROVE  /\ file' \in [Places -> Seq(Piece)]
             /\ \A p \in Places : IsDamaged(file[p]) => IsDamaged(file'[p])
             /\ \A p \in Places : file'[p] # file[p] => p = place[w] /\ file'[p][Len(file'[p])].of = w
  <2> DEFINE piece == [of |-> w, upto |-> upto]
  <2>1. piece \in Piece /\ piece.of = w
    BY DEF Piece
  <2>2. place[w] \in Places /\ file[place[w]] \in Seq(Piece) /\ file' = [file EXCEPT ![place[w]] = Append(@, piece)]
    BY <1>4 DEF Store, MemoryTypeOK
  <2> HIDE DEF piece
  <2>3. /\ Append(file[place[w]], piece) \in Seq(Piece)
        /\ Append(file[place[w]], piece)[Len(Append(file[place[w]], piece))] = piece
        /\ \A n \in DOMAIN file[place[w]] :
             n \in DOMAIN Append(file[place[w]], piece) /\ Append(file[place[w]], piece)[n] = file[place[w]][n]
    BY <2>1, <2>2
  <2>5. \A p \in Places : IsDamaged(file[p]) => IsDamaged(file'[p])
    BY <2>2, <2>3 DEF IsDamaged, MemoryTypeOK
  <2>4. QED
    BY <2>1, <2>2, <2>3, <2>5 DEF MemoryTypeOK
<1>5. QED
  BY <1>1, <1>2, <1>3, <1>4

\* A read that finds a file invalid has read a damaged one.
LEMMA ReadingKeepsScan ==
  ASSUME MemoryInv, NEW s \in Searches, ReadRecords(s)
  PROVE  ScanOK(s)'
<1> DEFINE p == scan[s][scanned[s] + 1]
<1>1. /\ scan[s] \in Seq(Places) /\ scanned[s] \in Nat /\ scanned[s] < Len(scan[s]) /\ outcome[s] = "none"
      /\ at[s] = "accessing" /\ UNCHANGED <<scan, file>> /\ s \in Calls
  BY DEF MemoryInv, ScanOK, ReadRecords, Calls
<1>2. scanned[s] + 1 \in DOMAIN scan[s] /\ p \in Places /\ file[p] \in Seq(Piece)
  BY <1>1 DEF MemoryInv, MemoryTypeOK
<1>3. ~Recover(p).ok => IsDamaged(file[p])
  <2>1. CASE p = Volatile
    <3>1. Recover(p).ok
      BY <2>1, Zenon DEF Recover
    <3>2. QED
      BY <3>1
  <2>2. CASE p # Volatile
    <3>1. Recover(p) = Parse(file[p])
      BY <2>2, Zenon DEF Recover
    <3>2. QED
      BY <1>2, <3>1, WholeFileParses
  <2>3. QED
    BY <2>1, <2>2
<1>4. \/ /\ scanned'[s] = scanned[s] + 1
         /\ \/ at'[s] = "closing" /\ outcome'[s] = "succeeded"
            \/ at'[s] = "authorizing" /\ outcome'[s] = outcome[s] /\ scanned[s] + 1 # Len(scan[s])
      \/ ~Recover(p).ok /\ scanned'[s] = scanned[s] /\ at'[s] = "closing" /\ outcome'[s] = "invalid"
      \/ scanned'[s] = scanned[s] /\ at'[s] = "closing" /\ outcome'[s] = "failed"
  <2>1. at \in [Calls -> {"idle", "deciding", "authorizing", "accessing", "closing", "over"}]
        /\ outcome \in [Calls -> {"none", "denied", "failed", "invalid", "succeeded"}]
        /\ scanned \in [Searches -> Nat]
    BY DEF MemoryInv, MemoryTypeOK
  <2>2. \/ /\ scanned' = [scanned EXCEPT ![s] = @ + 1]
           /\ \/ CloseWith(s, "accessing", "succeeded")
              \/ Goto(s, "accessing", "authorizing") /\ UNCHANGED outcome /\ scanned[s] + 1 # Len(scan[s])
        \/ ~Recover(p).ok /\ CloseWith(s, "accessing", "invalid") /\ UNCHANGED scanned
        \/ CloseWith(s, "accessing", "failed") /\ UNCHANGED scanned
    BY DEF ReadRecords
  <2>3. QED
    BY <1>1, <2>1, <2>2 DEF CloseWith, Goto
<1>5. scanned'[s] \in Nat /\ (at'[s] \notin {"closing", "over"} => scanned'[s] < Len(scan[s]) /\ outcome'[s] = "none")
  BY <1>1, <1>4
<1>6. outcome'[s] = "invalid" => \E k \in DOMAIN scan[s] : IsDamaged(file[scan[s][k]])
  BY <1>1, <1>2, <1>3, <1>4
<1>7. QED
  BY <1>1, <1>5, <1>6 DEF ScanOK, IsDamaged

LEMMA StepKeepsMemory == MemoryInv /\ [MemoryNext]_memVars => MemoryInv'
<1> SUFFICES ASSUME MemoryInv, [MemoryNext]_memVars PROVE MemoryInv'
  OBVIOUS
<1>1. ASSUME NEW w \in Writes, AppendRecord(w) PROVE MemoryInv'
  <2>1. /\ at[w] = "accessing" /\ at' = [at EXCEPT ![w] = "closing"]
        /\ \E how \in {"succeeded", "failed"} : outcome' = [outcome EXCEPT ![w] = how]
        /\ UNCHANGED <<place, trail, result>> /\ file' \in [Places -> Seq(Piece)]
        /\ UNCHANGED <<scan, scanned>> /\ \A p \in Places : IsDamaged(file[p]) => IsDamaged(file'[p])
    BY <1>1, AppendGoesToPlace
  <2>2. MemoryTypeOK'
    BY <2>1 DEF MemoryInv, MemoryTypeOK, Calls
  <2>3. \A c \in Calls : OnRecord(c)'
    BY <2>1 DEF MemoryInv, MemoryTypeOK, OnRecord, Calls
  <2>4. \A s \in Searches : ScanOK(s)'
    <3>1. \A s \in Searches : at'[s] = at[s] /\ outcome'[s] = outcome[s]
      BY <2>1, MemoryAssumption DEF MemoryInv, MemoryTypeOK, Calls
    <3>2. QED
      BY <2>1, <3>1, ScanStays DEF MemoryInv
  <2>5. QED
    BY <2>2, <2>3, <2>4 DEF MemoryInv
<1>2. ASSUME NEW s \in Searches, ReadRecords(s) PROVE MemoryInv'
  <2>1. /\ at[s] = "accessing" /\ UNCHANGED <<place, trail, result, file>>
        /\ \/ at' = [at EXCEPT ![s] = "authorizing"] /\ UNCHANGED outcome
           \/ \E how \in {"succeeded", "invalid", "failed"} :
                at' = [at EXCEPT ![s] = "closing"] /\ outcome' = [outcome EXCEPT ![s] = how]
        /\ UNCHANGED scanned \/ scanned' = [scanned EXCEPT ![s] = @ + 1]
    BY <1>2 DEF ReadRecords, CloseWith, Goto
  <2>2. MemoryTypeOK'
    <3>1. scanned' \in [Searches -> Nat]
      <4>1. scanned \in [Searches -> Nat] /\ scanned[s] + 1 \in Nat
        BY DEF MemoryInv, MemoryTypeOK
      <4>2. UNCHANGED scanned \/ scanned' = [scanned EXCEPT ![s] = scanned[s] + 1]
        BY <2>1
      <4>3. QED
        BY <4>1, <4>2
    <3>2. at' \in [Calls -> {"idle", "deciding", "authorizing", "accessing", "closing", "over"}]
      BY <2>1 DEF MemoryInv, MemoryTypeOK, Calls
    <3>3. outcome' \in [Calls -> {"none", "denied", "failed", "invalid", "succeeded"}]
      BY <2>1 DEF MemoryInv, MemoryTypeOK, Calls
    <3>4. QED
      BY <2>1, <3>1, <3>2, <3>3 DEF MemoryInv, MemoryTypeOK
  <2>3. \A c \in Calls : OnRecord(c)'
    BY <2>1 DEF MemoryInv, MemoryTypeOK, OnRecord, Calls
  <2>4. \A d \in Searches \ {s} : ScanOK(d)'
    <3>1. \A d \in Searches \ {s} : at'[d] = at[d] /\ outcome'[d] = outcome[d] /\ scanned'[d] = scanned[d]
      BY <1>2, <2>1 DEF ReadRecords, MemoryInv, MemoryTypeOK, Calls
    <3>2. UNCHANGED <<scan, file>>
      BY <1>2 DEF ReadRecords
    <3>3. QED
      BY <3>1, <3>2, ScanStays DEF MemoryInv
  <2>5. ScanOK(s)'
    BY <1>2, ReadingKeepsScan
  <2>6. QED
    BY <2>2, <2>3, <2>4, <2>5 DEF MemoryInv
<1>3. CASE UNCHANGED memVars
  <2>1. MemoryTypeOK' /\ \A c \in Calls : OnRecord(c)'
    BY <1>3 DEF memVars, callVars, scanVars, MemoryInv, MemoryTypeOK, OnRecord
  <2>2. \A s \in Searches : ScanOK(s)'
    BY <1>3, ScanStays DEF memVars, callVars, scanVars, MemoryInv
  <2>3. QED
    BY <2>1, <2>2 DEF MemoryInv
<1>4. QED
  BY <1>1, <1>2, <1>3, CallKeepsRecord DEF MemoryNext, WriteStep, SearchStep, AllOver, Calls

LEMMA MemoryStart == MemoryInit => MemoryInv
<1> SUFFICES ASSUME MemoryInit PROVE MemoryInv
  OBVIOUS
<1>1. place \in [Writes -> Places]
  BY MemoryAssumption DEF MemoryInit
<1>2. MemoryTypeOK /\ \A c \in Calls : OnRecord(c)
  BY <1>1 DEF MemoryInit, MemoryTypeOK, OnRecord
<1>3. \A s \in Searches : ScanOK(s)
  <2>1. scan \in [Searches -> Seq(Places) \ {<<>>}]
    BY MemoryAssumption DEF MemoryInit
  <2>2. \A s \in Searches : scan[s] \in Seq(Places) /\ scan[s] # <<>>
    BY <2>1
  <2>3. \A s \in Searches : 0 < Len(scan[s])
    BY <2>2
  <2>4. \A s \in Searches : scanned[s] = 0 /\ outcome[s] = "none"
    BY DEF MemoryInit, Calls
  <2>5. QED
    BY <2>2, <2>3, <2>4 DEF ScanOK
<1>4. QED
  BY <1>2, <1>3 DEF MemoryInv

LEMMA MemoryInvariant == MemorySpec => []MemoryInv
  BY MemoryStart, StepKeepsMemory, PTL DEF MemorySpec

\* A place grows only by a record whose write has its permission on record and
\* is still under way: no write is begun before its decision was audited, and
\* none is reported before it is over, whatever fails and however calls overlap.
THEOREM EveryWriteWasApproved == MemorySpec => WritesAreApproved
<1> DEFINE Approved ==
      \A p \in Places : file'[p] # file[p] =>
        \E w \in Writes :
          /\ file'[p][Len(file'[p])].of = w /\ place[w] = p
          /\ trail[w] = <<"allow">> /\ result[w] = "none"
<1>1. MemoryInv /\ [MemoryNext]_memVars => Approved
  <2> SUFFICES ASSUME MemoryInv, [MemoryNext]_memVars, NEW p \in Places, file'[p] # file[p]
               PROVE  \E w \in Writes :
                        /\ file'[p][Len(file'[p])].of = w /\ place[w] = p
                        /\ trail[w] = <<"allow">> /\ result[w] = "none"
    OBVIOUS
  <2>1. PICK w \in Writes : AppendRecord(w)
    BY DEF MemoryNext, WriteStep, SearchStep, CallStep, Call, Decide, AuthorizeFile, Close, ReadRecords, AllOver, memVars
  <2>2. p = place[w] /\ file'[p][Len(file'[p])].of = w /\ at[w] = "accessing"
    BY <2>1, AppendGoesToPlace
  <2>3. trail[w] = <<"allow">> /\ result[w] = "none"
    BY <2>2 DEF MemoryInv, OnRecord, Calls
  <2>4. QED
    BY <2>2, <2>3
<1>2. QED
  BY <1>1, MemoryInvariant, PTL DEF MemorySpec, WritesAreApproved

\* Whatever calls overlap and fail, a search finds memory invalid only if one of
\* its places holds a record that was cut off or quotes the end marker.
THEOREM OnlyDamageMakesInvalid == MemorySpec => []OnlyDamageFailsSearch
<1>1. MemoryInv => OnlyDamageFailsSearch
  BY DEF MemoryInv, ScanOK, IsDamaged, OnlyDamageFailsSearch
<1>2. QED
  BY <1>1, MemoryInvariant, PTL
-----------------------------------------------------------------------------
\* A sequence of positions that goes up.
Climbs(seq, pos) == \A l, m \in DOMAIN seq : l < m => pos[l] < pos[m]

\* The filter, as far as the record n.
Kept(records, n, before) ==
  IF n = 0 THEN <<>> ELSE IF records[n] \in Foreign THEN before ELSE Append(before, records[n])

IsFilter(records, f, to) == f = [n \in 0..to |-> Kept(records, n, f[n - 1])]

\* There is such a filter.
LEMMA FilterExists ==
  ASSUME NEW records \in Seq(Writes)
  PROVE  \E f : IsFilter(records, f, Len(records))
<1> DEFINE S == {n \in 0..Len(records) : ~ \E f : IsFilter(records, f, n)}
<1>1. Len(records) \in Nat
  OBVIOUS
<1>2. ASSUME S # {} PROVE FALSE
  <2>1. PICK n \in S : \A x \in S : n <= x
    <3>1. S \in SUBSET Nat
      BY <1>1
    <3> HIDE DEF S
    <3>2. QED
      BY <1>2, <3>1, LeastElement
  <2>2. n \in 0..Len(records) /\ n \in Nat /\ ~ \E f : IsFilter(records, f, n)
    BY <1>1
  <2>3. CASE n = 0
    <3> DEFINE f == [x \in 0..0 |-> <<>>]
    <3>1. IsFilter(records, f, 0)
      BY DEF IsFilter, Kept
    <3>2. QED
      BY <2>2, <2>3, <3>1
  <2>4. CASE n # 0
    <3>1. n - 1 \in 0..Len(records) /\ n - 1 \in Nat /\ ~(n <= n - 1)
      BY <1>1, <2>2, <2>4
    <3>2. n - 1 \notin S
      BY <2>1, <3>1
    <3>3. PICK g : IsFilter(records, g, n - 1)
      BY <3>1, <3>2
    <3> DEFINE h == [x \in 0..n |-> IF x = n THEN Kept(records, n, g[n - 1]) ELSE g[x]]
    <3>4. \A x \in 0..(n - 1) : g[x] = Kept(records, x, g[x - 1])
      BY <3>3 DEF IsFilter
    <3>5. /\ \A x \in 0..(n - 1) : x \in 0..n /\ x # n
          /\ \A x \in 0..n : x # n => x \in 0..(n - 1)
          /\ \A x \in 0..n : x # 0 => x - 1 \in 0..(n - 1)
      BY <2>2, <2>4
    <3>6. \A x \in 0..(n - 1) : h[x] = g[x]
      BY <3>5
    <3>7. \A x \in 0..n : h[x] = Kept(records, x, g[x - 1])
      BY <3>4, <3>5
    <3>9. h = [x \in 0..n |-> h[x]]
      OBVIOUS
    <3> HIDE DEF h
    <3>8. \A x \in 0..n : Kept(records, x, g[x - 1]) = Kept(records, x, h[x - 1])
      BY <3>5, <3>6 DEF Kept
    <3>10. \A x \in 0..n : h[x] = Kept(records, x, h[x - 1])
      BY <3>7, <3>8
    <3>11. IsFilter(records, h, n)
      BY <3>9, <3>10 DEF IsFilter
    <3>12. QED
      BY <2>2, <3>11
  <2>5. QED
    BY <2>3, <2>4
<1>3. Len(records) \notin S /\ Len(records) \in 0..Len(records)
  <2> HIDE DEF S
  <2>1. QED
    BY <1>1, <1>2
<1>4. QED
  BY <1>3

\* What the filter keeps is what is not foreign, in its order.
Filtered(records, kept, to) ==
  /\ kept \in Seq(Writes)
  /\ \E pos \in [DOMAIN kept -> 1..to] :
       /\ \A m \in DOMAIN kept : kept[m] = records[pos[m]] /\ kept[m] \notin Foreign
       /\ Climbs(kept, pos)
       /\ \A n \in 1..to : records[n] \notin Foreign => \E m \in DOMAIN kept : pos[m] = n

LEMMA OneMoreKept ==
  ASSUME NEW records \in Seq(Writes), NEW n \in 1..Len(records), NEW before, Filtered(records, before, n - 1)
  PROVE  Filtered(records, Kept(records, n, before), n)
<1>1. n \in Nat /\ n # 0 /\ records[n] \in Writes /\ n - 1 \in Nat
  OBVIOUS
<1>2. before \in Seq(Writes)
  BY DEF Filtered
<1>3. PICK pos \in [DOMAIN before -> 1..(n - 1)] :
       /\ \A m \in DOMAIN before : before[m] = records[pos[m]] /\ before[m] \notin Foreign
       /\ Climbs(before, pos)
       /\ \A x \in 1..(n - 1) : records[x] \notin Foreign => \E m \in DOMAIN before : pos[m] = x
  BY DEF Filtered
<1>4. CASE records[n] \in Foreign
  <2>1. Kept(records, n, before) = before
    BY <1>1, <1>4 DEF Kept
  <2>2. pos \in [DOMAIN before -> 1..n]
    BY <1>1
  <2>3. \A x \in 1..n : records[x] \notin Foreign => \E m \in DOMAIN before : pos[m] = x
    BY <1>1, <1>3, <1>4
  <2>4. Filtered(records, before, n)
    BY <1>2, <1>3, <2>2, <2>3, Zenon DEF Filtered
  <2>5. QED
    BY <2>1, <2>4
<1>5. CASE records[n] \notin Foreign
  <2> DEFINE kept == Append(before, records[n])
             L    == Len(before)
             top  == [m \in 1..(L + 1) |-> IF m = L + 1 THEN n ELSE pos[m]]
  <2>1. Kept(records, n, before) = kept
    BY <1>1, <1>5 DEF Kept
  <2>2. /\ L \in Nat /\ DOMAIN before = 1..L /\ DOMAIN kept = 1..(L + 1) /\ kept \in Seq(Writes)
        /\ \A m \in 1..L : kept[m] = before[m]
        /\ kept[L + 1] = records[n]
    BY <1>1, <1>2
  <2> HIDE DEF kept, L
  <2>3. \A m \in 1..(L + 1) : m = L + 1 \/ (m \in 1..L /\ m # L + 1)
    BY <2>2
  <2>4. \A m \in 1..L : m \in 1..(L + 1) /\ m # L + 1 /\ pos[m] \in 1..(n - 1) /\ top[m] = pos[m]
    BY <2>2
  <2>5. L + 1 \in 1..(L + 1) /\ top[L + 1] = n
    BY <2>2
  <2>6. top \in [DOMAIN kept -> 1..n]
    BY <1>1, <2>2, <2>3, <2>4
  <2> HIDE DEF top
  <2>7. \A m \in DOMAIN kept : kept[m] = records[top[m]] /\ kept[m] \notin Foreign
    BY <1>3, <1>5, <2>2, <2>3, <2>4, <2>5
  <2>8. Climbs(kept, top)
    <3> SUFFICES ASSUME NEW l \in 1..(L + 1), NEW m \in 1..(L + 1), l < m PROVE top[l] < top[m]
      BY <2>2 DEF Climbs
    <3>1. l \in 1..L
      BY <2>2
    <3>2. CASE m = L + 1
      BY <1>1, <2>4, <2>5, <3>1, <3>2
    <3>3. CASE m \in 1..L
      BY <1>3, <2>2, <2>4, <3>1, <3>3 DEF Climbs
    <3>4. QED
      BY <2>3, <3>2, <3>3
  <2>9. \A x \in 1..n : records[x] \notin Foreign => \E m \in DOMAIN kept : top[m] = x
    <3> SUFFICES ASSUME NEW x \in 1..n, records[x] \notin Foreign PROVE \E m \in 1..(L + 1) : top[m] = x
      BY <2>2
    <3>1. CASE x = n
      BY <2>5, <3>1
    <3>2. CASE x # n
      <4>1. x \in 1..(n - 1)
        BY <1>1, <3>2
      <4>2. PICK m \in DOMAIN before : pos[m] = x
        BY <1>3, <4>1
      <4>3. QED
        BY <2>2, <2>4, <4>2
    <3>3. QED
      BY <3>1, <3>2
  <2>10. Filtered(records, kept, n)
    <3>1. kept \in Seq(Writes)
      BY <2>2
    <3>2. QED
      BY <2>6, <2>7, <2>8, <2>9, <3>1, Zenon DEF Filtered
  <2>11. QED
    BY <2>1, <2>10
<1>6. QED
  BY <1>4, <1>5

\* The search keeps the records of its namespace, in their order.
LEMMA OursAreFiltered ==
  ASSUME NEW records \in Seq(Writes)
  PROVE  Filtered(records, Ours(records), Len(records))
<1> DEFINE f == CHOOSE h : IsFilter(records, h, Len(records))
<1>1. IsFilter(records, f, Len(records))
  BY FilterExists, Zenon
<1>2. Ours(records) = f[Len(records)]
  BY Zenon DEF Ours, IsFilter, Kept
<1> HIDE DEF f
<1>3. Len(records) \in Nat /\ \A n \in 0..Len(records) : f[n] = Kept(records, n, f[n - 1])
  BY <1>1 DEF IsFilter
<1> DEFINE S == {n \in 0..Len(records) : ~Filtered(records, f[n], n)}
<1>4. ASSUME S # {} PROVE FALSE
  <2>1. PICK n \in S : \A x \in S : n <= x
    <3>1. S \in SUBSET Nat
      BY <1>3
    <3> HIDE DEF S
    <3>2. QED
      BY <1>4, <3>1, LeastElement
  <2>2. n \in 0..Len(records) /\ n \in Nat /\ ~Filtered(records, f[n], n)
    BY <1>3
  <2>3. CASE n = 0
    <3>1. f[0] = <<>>
      BY <1>3, <2>2, <2>3 DEF Kept
    <3>2. Filtered(records, <<>>, 0)
      <4> DEFINE pos == [m \in {} |-> 0]
      <4>1. pos \in [DOMAIN <<>> -> 1..0] /\ <<>> \in Seq(Writes) /\ DOMAIN <<>> = {} /\ 1..0 = {}
        OBVIOUS
      <4> HIDE DEF pos
      <4>2. QED
        BY <4>1 DEF Filtered, Climbs
    <3>3. QED
      BY <2>2, <2>3, <3>1, <3>2
  <2>4. CASE n # 0
    <3>1. n \in 1..Len(records) /\ n - 1 \in 0..Len(records) /\ ~(n <= n - 1)
      BY <1>3, <2>2, <2>4
    <3>2. Filtered(records, f[n - 1], n - 1)
      BY <2>1, <3>1
    <3>3. Filtered(records, Kept(records, n, f[n - 1]), n)
      BY <3>1, <3>2, OneMoreKept
    <3>4. QED
      BY <1>3, <2>2, <3>3
  <2>5. QED
    BY <2>3, <2>4
<1>5. Len(records) \in 0..Len(records)
  BY <1>3
<1>6. QED
  <2> Len(records) \notin S
    BY <1>4
  <2> QED
    BY <1>2, <1>5
-----------------------------------------------------------------------------
\* A whole piece that is not its block's record: the block began with a torn one.
Swallowed(pieces, n) ==
  \E m \in 1..(n - 1) : pieces[m].upto # "end" /\ \A l \in m..(n - 1) : ~HasEnd(pieces[l])

\* Records that were recovered from the pieces from i on.
Recovered(pieces, i, records) ==
  /\ records \in Seq(Writes)
  /\ \E pos \in [DOMAIN records -> i..Len(pieces)] :
       /\ \A m \in DOMAIN records : records[m] = pieces[pos[m]].of
       /\ Climbs(records, pos)
       /\ \A n \in i..Len(pieces) : pieces[n].upto = "end" =>
            Swallowed(pieces, n) \/ \E m \in DOMAIN records : pos[m] = n

\* A block that is accepted gives the record of its first piece with a fence,
\* the last of the block or one that is torn.
LEMMA BlockRecord ==
  ASSUME NEW pieces \in Seq(Piece), NEW i \in 1..Len(pieces), NEW j \in i..Len(pieces),
         HasEnd(pieces[j]), \A l \in i..(j - 1) : ~HasEnd(pieces[l]), Block(pieces, i, j).ok
  PROVE  \E k \in i..j : /\ Block(pieces, i, j).records = <<pieces[k].of>>
                         /\ k # j => pieces[k].upto # "end"
<1> DEFINE First(k) == HasFence(pieces[k]) /\ \A l \in i..(k - 1) : ~HasFence(pieces[l])
           F == {k \in i..j : HasFence(pieces[k])}
           k == CHOOSE x \in i..j : HasFence(pieces[x]) /\ \A l \in i..(x - 1) : ~HasFence(pieces[l])
<1>1. Len(pieces) \in Nat /\ i \in Nat /\ j \in Nat /\ j \in i..j
  OBVIOUS
<1>2. HasFence(pieces[j])
  BY DEF HasEnd, HasFence
<1>3. F \in SUBSET Nat /\ F # {}
  BY <1>1, <1>2
<1>4. \E x \in i..j : First(x)
  <2>1. Min(F) \in F /\ \A x \in F : Min(F) <= x
    <3> HIDE DEF F
    <3>1. QED
      BY <1>3, LeastElement
  <2>2. Min(F) \in i..j /\ HasFence(pieces[Min(F)])
    BY <2>1
  <2>3. ASSUME NEW l \in i..(Min(F) - 1) PROVE ~HasFence(pieces[l])
    <3>1. l \in i..j /\ ~(Min(F) <= l)
      BY <1>1, <2>2
    <3>2. l \notin F
      BY <2>1, <3>1
    <3>3. QED
      BY <3>1, <3>2
  <2> HIDE DEF F
  <2>4. First(Min(F))
    BY <2>2, <2>3
  <2>5. QED
    BY <2>2, <2>4
<1>5. k \in i..j
  BY <1>4, Zenon
<1>6. Block(pieces, i, j) = IF pieces[k].upto = "json" \/ (k = j /\ pieces[k].of \in Quoting)
                            THEN [ok |-> FALSE, records |-> <<>>] ELSE [ok |-> TRUE, records |-> <<pieces[k].of>>]
  BY Zenon DEF Block
<1> HIDE DEF k
<1>7. Block(pieces, i, j).records = <<pieces[k].of>>
  BY <1>6
<1>8. k # j => pieces[k].upto # "end"
  BY <1>1, <1>5 DEF HasEnd
<1>9. QED
  BY <1>5, <1>7, <1>8

\* One more record, before those of the rest.
LEMMA OneMoreRecord ==
  ASSUME NEW pieces \in Seq(Piece), NEW i \in 1..Len(pieces), NEW j \in i..Len(pieces), NEW k \in i..j,
         NEW rest, Recovered(pieces, j + 1, rest),
         \A n \in i..j : pieces[n].upto = "end" => Swallowed(pieces, n) \/ n = k
  PROVE  Recovered(pieces, i, <<pieces[k].of>> \o rest)
<1> DEFINE records == <<pieces[k].of>> \o rest
           L == Len(rest)
<1>1. Len(pieces) \in Nat /\ i \in Nat /\ j \in Nat /\ k \in Nat /\ k \in 1..Len(pieces) /\ rest \in Seq(Writes)
  BY DEF Recovered
<1>2. PICK pos \in [DOMAIN rest -> (j + 1)..Len(pieces)] :
        /\ \A m \in DOMAIN rest : rest[m] = pieces[pos[m]].of
        /\ Climbs(rest, pos)
        /\ \A n \in (j + 1)..Len(pieces) : pieces[n].upto = "end" =>
             Swallowed(pieces, n) \/ \E m \in DOMAIN rest : pos[m] = n
  BY DEF Recovered
<1>3. pieces[k].of \in Writes
  <2>1. pieces[k] \in Piece
    BY <1>1
  <2>2. QED
    BY <2>1 DEF Piece
<1>4. /\ records \in Seq(Writes) /\ L \in Nat /\ DOMAIN rest = 1..L /\ DOMAIN records = 1..(L + 1)
      /\ records[1] = pieces[k].of /\ \A m \in 1..L : records[m + 1] = rest[m]
  <2> DEFINE w == pieces[k].of
  <2>1. w \in Writes
    BY <1>3
  <2> HIDE DEF w
  <2>2. /\ <<w>> \o rest \in Seq(Writes) /\ L \in Nat /\ DOMAIN rest = 1..L /\ DOMAIN (<<w>> \o rest) = 1..(L + 1)
        /\ (<<w>> \o rest)[1] = w /\ \A m \in 1..L : (<<w>> \o rest)[m + 1] = rest[m]
    BY <1>1, <2>1
  <2>3. QED
    BY <2>2 DEF w
<1> HIDE DEF records, L
<1> DEFINE new == [m \in 1..(L + 1) |-> IF m = 1 THEN k ELSE pos[m - 1]]
<1>5. \A m \in 1..(L + 1) : m = 1 \/ (m # 1 /\ m - 1 \in 1..L /\ (m - 1) + 1 = m)
  BY <1>4
<1>6. \A m \in 1..L : m + 1 \in 1..(L + 1) /\ new[m + 1] = pos[m] /\ pos[m] \in (j + 1)..Len(pieces)
  BY <1>4
<1>7. 1 \in 1..(L + 1) /\ new[1] = k
  BY <1>4
<1>8. \A m \in 1..(L + 1) : m # 1 => new[m] = pos[m - 1]
  OBVIOUS
<1>9. new \in [DOMAIN records -> i..Len(pieces)]
  BY <1>1, <1>4, <1>5, <1>6
<1> HIDE DEF new
<1>10. \A m \in DOMAIN records : records[m] = pieces[new[m]].of
  <2> SUFFICES ASSUME NEW m \in 1..(L + 1) PROVE records[m] = pieces[new[m]].of
    BY <1>4
  <2>1. CASE m = 1
    BY <1>4, <1>7, <2>1
  <2>2. CASE m # 1
    <3>1. m - 1 \in 1..L /\ (m - 1) + 1 = m /\ new[m] = pos[m - 1]
      BY <1>5, <1>8, <2>2
    <3>2. records[m] = rest[m - 1]
      BY <1>4, <3>1
    <3>3. rest[m - 1] = pieces[pos[m - 1]].of
      BY <1>2, <1>4, <3>1
    <3>4. QED
      BY <3>1, <3>2, <3>3
  <2>3. QED
    BY <2>1, <2>2
<1>11. Climbs(records, new)
  <2> SUFFICES ASSUME NEW l \in 1..(L + 1), NEW m \in 1..(L + 1), l < m PROVE new[l] < new[m]
    BY <1>4 DEF Climbs
  <2>1. m - 1 \in 1..L /\ new[m] = pos[m - 1] /\ pos[m - 1] \in (j + 1)..Len(pieces)
    BY <1>4, <1>5, <1>6, <1>8
  <2>2. CASE l = 1
    BY <1>1, <1>7, <2>1, <2>2
  <2>3. CASE l # 1
    <3>1. l - 1 \in 1..L /\ new[l] = pos[l - 1] /\ l - 1 < m - 1
      BY <1>4, <1>5, <1>8, <2>3
    <3>2. QED
      BY <1>2, <1>4, <2>1, <3>1 DEF Climbs
  <2>4. QED
    BY <2>2, <2>3
<1>12. ASSUME NEW n \in i..Len(pieces), pieces[n].upto = "end"
       PROVE  Swallowed(pieces, n) \/ \E m \in DOMAIN records : new[m] = n
  <2>1. CASE n \in i..j
    BY <1>4, <1>7, <1>12, <2>1
  <2>2. CASE n \notin i..j
    <3>1. n \in (j + 1)..Len(pieces)
      BY <1>1, <2>2
    <3>2. Swallowed(pieces, n) \/ \E m \in DOMAIN rest : pos[m] = n
      BY <1>2, <1>12, <3>1
    <3>3. QED
      BY <1>4, <1>6, <3>2
  <2>3. QED
    BY <2>1, <2>2
<1>13. Recovered(pieces, i, records)
  BY <1>4, <1>9, <1>10, <1>11, <1>12, Zenon DEF Recovered
<1>14. QED
  BY <1>13 DEF records

\* The loop, as far as it finds no damage.
LEMMA LoopRecovers ==
  ASSUME NEW pieces \in Seq(Piece), NEW i \in 1..(Len(pieces) + 1), NEW rest,
         ~Stops(pieces, i) /\ rest.ok => Recovered(pieces, NextFrom(pieces, i), rest.records),
         Found(pieces, i, rest).ok
  PROVE  Recovered(pieces, i, Found(pieces, i, rest).records)
<1> DEFINE start == StartFrom(pieces, i)
           end   == Min(EndsFrom(pieces, i))
<1>1. Len(pieces) \in Nat /\ i \in Nat
  OBVIOUS
<1>2. CASE StartsFrom(pieces, i) = {}
  <2>1. Found(pieces, i, rest).records = <<>>
    BY <1>2 DEF Found
  <2>2. \A n \in i..Len(pieces) : pieces[n].upto # "end"
    BY <1>2 DEF StartsFrom, HasStart
  <2> DEFINE pos == [m \in {} |-> 0]
  <2>3. pos \in [DOMAIN <<>> -> i..Len(pieces)] /\ <<>> \in Seq(Writes) /\ DOMAIN <<>> = {}
    OBVIOUS
  <2> HIDE DEF pos
  <2>4. Recovered(pieces, i, <<>>)
    BY <2>2, <2>3 DEF Recovered, Climbs
  <2>5. QED
    BY <2>1, <2>4
<1>3. CASE StartsFrom(pieces, i) # {} /\ EndsFrom(pieces, i) = {}
  <2>1. ~Found(pieces, i, rest).ok
    BY <1>3 DEF Found
  <2>2. QED
    BY <2>1
<1>4. CASE ~Stops(pieces, i)
  <2>1. start \in StartsFrom(pieces, i) /\ \A x \in StartsFrom(pieces, i) : start <= x
    <3>1. StartsFrom(pieces, i) \in SUBSET Nat
      BY <1>1 DEF StartsFrom
    <3>2. QED
      BY <1>4, <3>1, LeastElement DEF StartFrom, Stops
  <2>2. start \in i..Len(pieces) /\ start \in 1..Len(pieces)
    BY <1>1, <2>1 DEF StartsFrom
  <2> HIDE DEF start
  <2>3. EndsFrom(pieces, i) = {j \in start..Len(pieces) : HasEnd(pieces[j])}
    BY DEF EndsFrom, start
  <2>4. end \in EndsFrom(pieces, i) /\ \A x \in EndsFrom(pieces, i) : end <= x
    <3>1. EndsFrom(pieces, i) \in SUBSET Nat
      BY <1>1, <2>2, <2>3
    <3>2. QED
      BY <1>4, <3>1, LeastElement DEF Stops
  <2>5. NextFrom(pieces, i) = end + 1
    BY DEF NextFrom
  <2> HIDE DEF end
  <2>6. end \in start..Len(pieces) /\ HasEnd(pieces[end]) /\ end \in i..Len(pieces) /\ i \in 1..Len(pieces)
    BY <1>1, <2>2, <2>3, <2>4
  <2>7. \A l \in start..(end - 1) : ~HasEnd(pieces[l])
    <3> SUFFICES ASSUME NEW l \in start..(end - 1), HasEnd(pieces[l]) PROVE FALSE
      OBVIOUS
    <3>1. l \in start..Len(pieces) /\ ~(end <= l)
      BY <1>1, <2>2, <2>6
    <3>2. QED
      BY <2>3, <2>4, <3>1
  <2>8. Found(pieces, i, rest) = With(Block(pieces, start, end), rest)
    BY <1>4 DEF Found, Stops, start, end
  <2>9. Block(pieces, start, end).ok /\ rest.ok
    <3>1. With(Block(pieces, start, end), rest).ok = (Block(pieces, start, end).ok /\ rest.ok)
      BY DEF With
    <3>2. QED
      BY <2>8, <3>1, Zenon
  <2>10. Found(pieces, i, rest).records = Block(pieces, start, end).records \o rest.records
    <3>1. With(Block(pieces, start, end), rest).records = Block(pieces, start, end).records \o rest.records
      BY DEF With
    <3>2. QED
      BY <2>8, <3>1, Zenon
  <2>11. PICK k \in start..end : /\ Block(pieces, start, end).records = <<pieces[k].of>>
                                 /\ k # end => pieces[k].upto # "end"
    BY <2>2, <2>6, <2>7, <2>9, BlockRecord
  <2>12. ASSUME NEW n \in i..end, pieces[n].upto = "end"
         PROVE  Swallowed(pieces, n) \/ n = k
    <3>1. n \in Nat /\ n \in i..Len(pieces) /\ end \in Nat /\ start \in Nat /\ k \in Nat
      BY <1>1, <2>2, <2>6, <2>11
    <3>2. HasStart(pieces[n]) /\ HasEnd(pieces[n])
      BY <2>12 DEF HasStart, HasEnd
    <3>3. start <= n
      BY <2>1, <3>1, <3>2 DEF StartsFrom
    <3>4. n \notin start..(end - 1)
      BY <2>7, <3>2
    <3>5. n = end
      BY <3>1, <3>3, <3>4
    <3>6. ASSUME n # k PROVE Swallowed(pieces, n)
      <4>1. pieces[k].upto # "end"
        BY <2>11, <3>5, <3>6
      <4>2. k \in 1..(n - 1) /\ \A l \in k..(n - 1) : l \in start..(end - 1)
        BY <1>1, <2>2, <2>11, <3>1, <3>5, <3>6
      <4>3. QED
        BY <2>7, <4>1, <4>2 DEF Swallowed
    <3>7. QED
      BY <3>6
  <2>13. k \in i..end /\ Recovered(pieces, end + 1, rest.records)
    BY <1>1, <1>4, <2>2, <2>5, <2>6, <2>9, <2>11
  <2>14. Recovered(pieces, i, <<pieces[k].of>> \o rest.records)
    BY <2>6, <2>12, <2>13, OneMoreRecord
  <2>15. QED
    BY <2>10, <2>11, <2>14
<1>5. QED
  BY <1>2, <1>3, <1>4 DEF Stops

\* A file in which the parser finds no damage gives its records in their order,
\* but for those that were swallowed.
LEMMA ParseRecovers ==
  ASSUME NEW pieces \in Seq(Piece), Parse(pieces).ok
  PROVE  Recovered(pieces, 1, Parse(pieces).records)
<1> DEFINE L == Len(pieces)
<1>1. PICK f : IsLoop(pieces, f, 1) /\ Parse(pieces) = f[1]
  BY ParseIsLoop
<1>2. L \in Nat /\ \A i \in 1..(L + 1) : f[i] = Found(pieces, i, f[NextFrom(pieces, i)])
  BY <1>1 DEF IsLoop
<1> DEFINE Good(i) == f[i].ok => Recovered(pieces, i, f[i].records)
           S == {m \in 1..(L + 1) : \A i \in m..(L + 1) : Good(i)}
<1>3. ASSUME NEW i \in 1..(L + 1), ~Stops(pieces, i) => Good(NextFrom(pieces, i))
      PROVE  Good(i)
  <2> SUFFICES ASSUME f[i].ok PROVE Recovered(pieces, i, f[i].records)
    OBVIOUS
  <2> DEFINE rest == f[NextFrom(pieces, i)]
  <2>1. f[i] = Found(pieces, i, rest)
    BY <1>2
  <2>2. ~Stops(pieces, i) /\ rest.ok => Recovered(pieces, NextFrom(pieces, i), rest.records)
    BY <1>3
  <2>3. Found(pieces, i, rest).ok
    BY <2>1, Zenon
  <2> HIDE DEF rest
  <2>4. Recovered(pieces, i, Found(pieces, i, rest).records)
    BY <2>2, <2>3, LoopRecovers
  <2>5. QED
    BY <2>1, <2>4, Zenon
<1> HIDE DEF Good
<1>4. L + 1 \in S
  <2>1. Stops(pieces, L + 1)
    BY <1>2 DEF StartsFrom, Stops
  <2>2. Good(L + 1)
    BY <1>2, <1>3, <2>1
  <2>3. QED
    BY <1>2, <2>2
<1>5. PICK m \in S : \A x \in S : m <= x
  <2>1. S \in SUBSET Nat /\ S # {}
    BY <1>2, <1>4
  <2> HIDE DEF S
  <2>2. QED
    BY <2>1, LeastElement
<1>6. m \in 1..(L + 1) /\ \A i \in m..(L + 1) : Good(i)
  OBVIOUS
<1>7. CASE m = 1
  <2>1. Good(1)
    BY <1>2, <1>6, <1>7
  <2>2. QED
    BY <1>1, <2>1, Zenon DEF Good
<1>8. CASE m # 1
  <2>1. m \in Nat /\ m - 1 \in 1..(L + 1) /\ \A i \in (m - 1)..(L + 1) : i = m - 1 \/ i \in m..(L + 1)
    BY <1>2, <1>6, <1>8
  <2>2. ~Stops(pieces, m - 1) => NextFrom(pieces, m - 1) \in m..(L + 1)
    BY <2>1, LoopMovesOn
  <2>3. Good(m - 1)
    BY <1>3, <1>6, <2>1, <2>2
  <2>4. m - 1 \in S
    BY <1>6, <2>1, <2>3
  <2> HIDE DEF S
  <2>5. m <= m - 1
    BY <1>5, <2>4
  <2>6. QED
    BY <2>1, <2>5
<1>9. QED
  BY <1>7, <1>8
-----------------------------------------------------------------------------
\* A write has one piece at most, in its place, when its access is over; what
\* is in memory is whole.
OnePieceEach ==
  \A p \in Places : \A n \in DOMAIN file[p] :
    /\ place[file[p][n].of] = p /\ at[file[p][n].of] \in {"closing", "over"}
    /\ p = Volatile => file[p][n].upto = "end"
    /\ \A l \in DOMAIN file[p] : file[p][l].of = file[p][n].of => l = n

\* A write that succeeded has its whole record in its place; a call succeeds
\* with its access, and is answered when it is over.
SuccessIsStored ==
  /\ \A w \in Writes : outcome[w] = "succeeded" =>
       \E n \in DOMAIN file[place[w]] : file[place[w]][n] = [of |-> w, upto |-> "end"]
  /\ \A c \in Calls : /\ outcome[c] = "succeeded" => at[c] \in {"closing", "over"}
                      /\ result[c] = "ok" => outcome[c] = "succeeded" /\ at[c] = "over"

\* The writes that were cut off.
Torn ==
  {w \in Writes : \E n \in DOMAIN file[place[w]] :
     file[place[w]][n].of = w /\ file[place[w]][n].upto # "end"}

FewAreTorn == tears \in Nat /\ IsFiniteSet(Torn) /\ Cardinality(Torn) <= tears

\* What a search has found is at these spots, in order, and the places it has
\* read held nothing else of what was due, but for what was swallowed and for
\* what comes after its limit.
ReadAt(s, spot) ==
  /\ spot \in [DOMAIN found[s] -> Spots(s)]
  /\ TakenFrom(s, spot)
  /\ \A m \in DOMAIN found[s] : spot[m][1] <= scanned[s]
  /\ \A k \in 1..scanned[s] : \A n \in DOMAIN file[scan[s][k]] :
       file[scan[s][k]][n].upto = "end" /\ file[scan[s][k]][n].of \in due[s] \ Foreign =>
         \/ \E m \in DOMAIN found[s] : spot[m] = <<k, n>>
         \/ Swallowed(file[scan[s][k]], n)
         \/ Full(s) /\ Before(spot[Limit], <<k, n>>)

ReadInOrder(s) ==
  /\ found[s] \in Seq(Writes)
  /\ \E spot \in [DOMAIN found[s] -> Spots(s)] : ReadAt(s, spot)

\* How far a search has come, and what it is held to.
Progress(s) ==
  /\ scanned[s] <= Len(scan[s])
  /\ at[s] = "idle" => scanned[s] = 0
  /\ outcome[s] = "succeeded" => scanned[s] = Len(scan[s]) \/ Full(s)
  /\ due[s] \subseteq {w \in Writes : result[w] = "ok"}

SearchTypeOK == found \in [Searches -> Seq(Writes)] /\ due \in [Searches -> SUBSET Writes]

SearchInv ==
  /\ MemoryInv
  /\ SearchTypeOK
  /\ OnePieceEach
  /\ SuccessIsStored
  /\ FewAreTorn
  /\ \A s \in Searches : Progress(s) /\ ReadInOrder(s)
-----------------------------------------------------------------------------
LEMMA SpotsArePairs ==
  ASSUME NEW s \in Searches
  PROVE  /\ \A k \in DOMAIN scan[s] : \A n \in DOMAIN file[scan[s][k]] : <<k, n>> \in Spots(s)
         /\ \A q \in Spots(s) : /\ q = <<q[1], q[2]>>
                                /\ q[1] \in DOMAIN scan[s] /\ q[2] \in DOMAIN file[scan[s][q[1]]]
  BY DEF Spots

\* What a place gives when it can be read.
LEMMA RecoverRecovers ==
  ASSUME MemoryTypeOK, NEW p \in Places, Recover(p).ok
  PROVE  Recovered(file[p], 1, Recover(p).records)
<1>1. file[p] \in Seq(Piece)
  BY DEF MemoryTypeOK
<1>2. CASE p = Volatile
  <2> DEFINE records == [k \in DOMAIN file[p] |-> file[p][k].of]
             L == Len(file[p])
             pos == [m \in 1..L |-> m]
  <2>1. Recover(p).records = RecordsInMemory
    BY <1>2 DEF Recover
  <2>2. RecordsInMemory = records
    BY <1>2 DEF RecordsInMemory
  <2>3. L \in Nat /\ DOMAIN file[p] = 1..L /\ \A m \in 1..L : file[p][m] \in Piece
    BY <1>1
  <2> HIDE DEF L
  <2>4. \A m \in 1..L : file[p][m].of \in Writes
    BY <2>3 DEF Piece
  <2>5. records \in Seq(Writes) /\ DOMAIN records = 1..L
    BY <2>3, <2>4
  <2>6. \A m \in 1..L : records[m] = file[p][m].of
    BY <2>3
  <2> HIDE DEF records
  <2>7. pos \in [DOMAIN records -> 1..Len(file[p])]
    BY <2>5 DEF L
  <2>8. /\ \A m \in DOMAIN records : records[m] = file[p][pos[m]].of
        /\ Climbs(records, pos)
        /\ \A n \in 1..Len(file[p]) : \E m \in DOMAIN records : pos[m] = n
    BY <2>5, <2>6 DEF Climbs, L
  <2> HIDE DEF pos
  <2>9. Recovered(file[p], 1, records)
    BY <2>5, <2>7, <2>8, Zenon DEF Recovered
  <2>10. QED
    BY <2>1, <2>2, <2>9
<1>3. CASE p # Volatile
  <2>1. Recover(p) = Parse(file[p])
    BY <1>3 DEF Recover
  <2>2. Parse(file[p]).ok
    BY <2>1, Zenon
  <2>3. QED
    BY <1>1, <2>1, <2>2, ParseRecovers, Zenon
<1>4. QED
  BY <1>2, <1>3

\* What a search takes from a place that it can read: the records of its
\* namespace in order, all but those that were swallowed.
Taken(p, ours) ==
  /\ ours \in Seq(Writes)
  /\ \E pos \in [DOMAIN ours -> DOMAIN file[p]] :
       /\ \A m \in DOMAIN ours : ours[m] = file[p][pos[m]].of /\ ours[m] \notin Foreign
       /\ Climbs(ours, pos)
       /\ \A n \in DOMAIN file[p] : file[p][n].upto = "end" /\ file[p][n].of \notin Foreign =>
            Swallowed(file[p], n) \/ \E m \in DOMAIN ours : pos[m] = n

LEMMA OursAreTaken ==
  ASSUME MemoryTypeOK, NEW p \in Places, Recover(p).ok
  PROVE  Taken(p, Ours(Recover(p).records))
<1> DEFINE records == Recover(p).records
           ours    == Ours(records)
<1>1. file[p] \in Seq(Piece) /\ DOMAIN file[p] = 1..Len(file[p])
  BY DEF MemoryTypeOK
<1>2. Recovered(file[p], 1, records)
  BY RecoverRecovers
<1> HIDE DEF records
<1>3. records \in Seq(Writes)
  BY <1>2 DEF Recovered
<1>4. Filtered(records, ours, Len(records)) /\ DOMAIN records = 1..Len(records)
  BY <1>3, OursAreFiltered
<1> HIDE DEF ours
<1>5. PICK at1 \in [DOMAIN records -> 1..Len(file[p])] :
        /\ \A m \in DOMAIN records : records[m] = file[p][at1[m]].of
        /\ Climbs(records, at1)
        /\ \A n \in 1..Len(file[p]) : file[p][n].upto = "end" =>
             Swallowed(file[p], n) \/ \E m \in DOMAIN records : at1[m] = n
  BY <1>2 DEF Recovered
<1>6. PICK at2 \in [DOMAIN ours -> DOMAIN records] :
        /\ \A m \in DOMAIN ours : ours[m] = records[at2[m]] /\ ours[m] \notin Foreign
        /\ Climbs(ours, at2)
        /\ \A n \in DOMAIN records : records[n] \notin Foreign => \E m \in DOMAIN ours : at2[m] = n
  BY <1>4 DEF Filtered
<1> DEFINE pos == [m \in DOMAIN ours |-> at1[at2[m]]]
<1>7. pos \in [DOMAIN ours -> DOMAIN file[p]]
  BY <1>1
<1>8. \A m \in DOMAIN ours : ours[m] = file[p][pos[m]].of /\ ours[m] \notin Foreign
  BY <1>5, <1>6
<1>9. Climbs(ours, pos)
  BY <1>5, <1>6 DEF Climbs
<1>10. \A n \in DOMAIN file[p] : file[p][n].upto = "end" /\ file[p][n].of \notin Foreign =>
         Swallowed(file[p], n) \/ \E m \in DOMAIN ours : pos[m] = n
  <2> SUFFICES ASSUME NEW n \in DOMAIN file[p], file[p][n].upto = "end", file[p][n].of \notin Foreign,
                      ~Swallowed(file[p], n)
               PROVE  \E m \in DOMAIN ours : pos[m] = n
    OBVIOUS
  <2>1. PICK l \in DOMAIN records : at1[l] = n
    BY <1>1, <1>5
  <2>2. records[l] \notin Foreign
    BY <1>5, <2>1
  <2>3. PICK m \in DOMAIN ours : at2[m] = l
    BY <1>6, <2>2
  <2>4. QED
    BY <2>1, <2>3
<1> HIDE DEF pos
<1>11. ours \in Seq(Writes)
  BY <1>4 DEF Filtered
<1>12. Taken(p, ours)
  BY <1>7, <1>8, <1>9, <1>10, <1>11, Zenon DEF Taken
<1>13. QED
  BY <1>12 DEF ours, records

\* The limit keeps a prefix, and cuts only to the limit.
LEMMA BoundedIsPrefix ==
  ASSUME NEW s \in Searches, NEW records \in Seq(Writes)
  PROVE  LET more == Bounded(s, records) IN
         /\ more \in Seq(Writes) /\ Len(more) <= Len(records)
         /\ \A m \in 1..Len(more) : more[m] = records[m]
         /\ Len(more) # Len(records) => Dated(s) /\ Len(more) = Limit
         /\ Dated(s) /\ Len(records) >= Limit => Len(more) = Limit
<1>1. Limit \in Nat \ {0} /\ Len(records) \in Nat
  BY MemoryAssumption
<1>2. CASE Dated(s) /\ Len(records) > Limit
  <2> DEFINE cut == SubSeq(records, 1, Limit)
  <2>1. Bounded(s, records) = cut
    BY <1>2 DEF Bounded
  <2>2. cut \in Seq(Writes) /\ Len(cut) = Limit /\ \A m \in 1..Limit : cut[m] = records[m]
    BY <1>1, <1>2
  <2>3. QED
    BY <1>1, <1>2, <2>1, <2>2
<1>3. CASE ~(Dated(s) /\ Len(records) > Limit)
  <2>1. Bounded(s, records) = records
    BY <1>3 DEF Bounded
  <2>2. QED
    BY <1>1, <1>3, <2>1
<1>4. QED
  BY <1>2, <1>3
-----------------------------------------------------------------------------
\* One more place: what is taken from it goes behind what was found, up to the limit.
LEMMA NextPlaceInOrder ==
  ASSUME MemoryTypeOK, NEW s \in Searches, ReadInOrder(s),
         scan[s] \in Seq(Places), scanned[s] < Len(scan[s]),
         NEW ours, Taken(scan[s][scanned[s] + 1], ours),
         found'[s] = Bounded(s, found[s] \o ours), scanned'[s] = scanned[s] + 1,
         UNCHANGED <<scan, file, due>>
  PROVE  ReadInOrder(s)'
<1> DEFINE k0   == scanned[s] + 1
           p    == scan[s][k0]
           L    == Len(found[s])
           both == found[s] \o ours
           more == Bounded(s, both)
<1>1. PICK spot \in [DOMAIN found[s] -> Spots(s)] : ReadAt(s, spot)
  BY DEF ReadInOrder
<1>2. PICK pos \in [DOMAIN ours -> DOMAIN file[p]] :
        /\ \A m \in DOMAIN ours : ours[m] = file[p][pos[m]].of /\ ours[m] \notin Foreign
        /\ Climbs(ours, pos)
        /\ \A n \in DOMAIN file[p] : file[p][n].upto = "end" /\ file[p][n].of \notin Foreign =>
             Swallowed(file[p], n) \/ \E m \in DOMAIN ours : pos[m] = n
  BY DEF Taken
<1>3. found[s] \in Seq(Writes) /\ ours \in Seq(Writes) /\ scanned[s] \in Nat /\ k0 \in DOMAIN scan[s] /\ k0 \in Nat
  BY DEF ReadInOrder, Taken, MemoryTypeOK
<1>4. /\ both \in Seq(Writes) /\ Len(both) \in Nat /\ L \in Nat /\ Len(ours) \in Nat /\ Len(both) = L + Len(ours)
      /\ DOMAIN found[s] = 1..L /\ DOMAIN ours = 1..Len(ours)
      /\ \A m \in 1..L : both[m] = found[s][m]
      /\ \A m \in 1..Len(ours) : both[L + m] = ours[m]
  BY <1>3
<1> HIDE DEF both
<1>5. /\ more \in Seq(Writes) /\ Len(more) <= Len(both) /\ Len(more) \in Nat /\ DOMAIN more = 1..Len(more)
      /\ \A m \in 1..Len(more) : more[m] = both[m]
      /\ Len(more) # Len(both) => Dated(s) /\ Len(more) = Limit
      /\ Dated(s) /\ Len(both) >= Limit => Len(more) = Limit
  BY <1>4, BoundedIsPrefix
<1> HIDE DEF more, L
<1> DEFINE sp == [m \in 1..Len(both) |-> IF m \in 1..L THEN spot[m] ELSE <<k0, pos[m - L]>>]
           new == [m \in DOMAIN more |-> sp[m]]
\* Where the records are.
<1>6. \A m \in 1..Len(both) : m \in 1..L \/ (m \notin 1..L /\ m - L \in 1..Len(ours) /\ L + (m - L) = m /\ m \in Nat)
  BY <1>4
<1>7. \A m \in 1..L : m \in 1..Len(both) /\ sp[m] = spot[m]
  BY <1>4
<1>8. \A m \in 1..Len(both) : m \notin 1..L => sp[m] = <<k0, pos[m - L]>>
  OBVIOUS
<1>9. \A m \in 1..Len(ours) : L + m \in 1..Len(both) /\ L + m \notin 1..L /\ (L + m) - L = m
  BY <1>4
<1>10. \A m \in 1..L : spot[m] \in Spots(s) /\ spot[m][1] <= scanned[s] /\ spot[m][1] \in Nat
  <2>1. \A m \in 1..L : spot[m] \in Spots(s) /\ spot[m][1] <= scanned[s]
    BY <1>1, <1>4 DEF ReadAt
  <2>2. \A q \in Spots(s) : q[1] \in DOMAIN scan[s]
    BY SpotsArePairs
  <2>3. DOMAIN scan[s] \subseteq Nat
    OBVIOUS
  <2>4. QED
    BY <2>1, <2>2, <2>3
<1>11. \A m \in 1..Len(ours) : <<k0, pos[m]>> \in Spots(s)
  BY <1>2, <1>3, <1>4, SpotsArePairs
<1> HIDE DEF sp, p, k0
<1>12. \A m \in 1..Len(both) : sp[m] \in Spots(s)
  BY <1>6, <1>7, <1>8, <1>10, <1>11
<1>13. \A m \in 1..Len(more) : m \in 1..Len(both)
  <2>1. Len(more) \in Nat /\ Len(both) \in Nat /\ Len(more) <= Len(both)
    BY <1>4, <1>5
  <2>2. QED
    BY <2>1
<1>14. new \in [DOMAIN more -> Spots(s)] /\ \A m \in DOMAIN more : new[m] = sp[m]
  BY <1>5, <1>12, <1>13
<1> HIDE DEF new
\* They are ours, and in order.
<1>15. \A m \in 1..Len(both) : both[m] = RecordAt(s, sp[m]) /\ both[m] \notin Foreign
  <2> SUFFICES ASSUME NEW m \in 1..Len(both) PROVE both[m] = RecordAt(s, sp[m]) /\ both[m] \notin Foreign
    OBVIOUS
  <2>1. CASE m \in 1..L
    BY <1>1, <1>4, <1>7, <2>1 DEF ReadAt, TakenFrom
  <2>2. CASE m \notin 1..L
    <3>1. m - L \in 1..Len(ours) /\ both[m] = ours[m - L] /\ sp[m] = <<k0, pos[m - L]>>
      BY <1>4, <1>6, <1>8, <2>2
    <3>2. ours[m - L] = file[p][pos[m - L]].of /\ ours[m - L] \notin Foreign
      BY <1>2, <1>4, <3>1
    <3>3. RecordAt(s, <<k0, pos[m - L]>>) = file[p][pos[m - L]].of
      BY DEF RecordAt, p
    <3>4. QED
      BY <3>1, <3>2, <3>3
  <2>3. QED
    BY <2>1, <2>2
<1>16. ASSUME NEW l \in 1..Len(both), NEW m \in 1..Len(both), l < m PROVE Before(sp[l], sp[m])
  <2>1. CASE m \in 1..L
    <3>1. l \in 1..L
      BY <1>4, <1>16, <2>1
    <3>2. QED
      BY <1>1, <1>4, <1>7, <1>16, <2>1, <3>1 DEF ReadAt, TakenFrom
  <2>2. CASE m \notin 1..L
    <3>1. m - L \in 1..Len(ours) /\ sp[m] = <<k0, pos[m - L]>>
      BY <1>6, <1>8, <2>2
    <3>2. CASE l \in 1..L
      <4>1. sp[l][1] <= scanned[s] /\ sp[l][1] \in Nat
        BY <1>7, <1>10, <3>2
      <4>2. sp[l][1] < k0
        BY <1>3, <4>1 DEF k0
      <4>3. sp[m][1] = k0
        BY <3>1
      <4>4. QED
        BY <4>2, <4>3 DEF Before
    <3>3. CASE l \notin 1..L
      <4>1. l - L \in 1..Len(ours) /\ sp[l] = <<k0, pos[l - L]>> /\ l - L < m - L
        BY <1>4, <1>6, <1>8, <1>16, <3>3
      <4>2. pos[l - L] < pos[m - L]
        BY <1>2, <1>4, <3>1, <4>1 DEF Climbs
      <4>3. QED
        BY <3>1, <4>1, <4>2 DEF Before
    <3>4. QED
      BY <3>2, <3>3
  <2>3. QED
    BY <2>1, <2>2
<1>17. \A m \in 1..Len(both) : sp[m][1] <= k0
  <2> SUFFICES ASSUME NEW m \in 1..Len(both) PROVE sp[m][1] <= k0
    OBVIOUS
  <2>1. CASE m \in 1..L
    BY <1>3, <1>7, <1>10, <2>1 DEF k0
  <2>2. CASE m \notin 1..L
    BY <1>3, <1>8, <2>2
  <2>3. QED
    BY <2>1, <2>2
\* Nothing is left behind.
<1>18. /\ Dated(s)' = Dated(s) /\ Spots(s)' = Spots(s) /\ found'[s] = more /\ scanned'[s] = k0
       /\ scan' = scan /\ file' = file /\ due' = due
  BY DEF Dated, Spots, more, both, k0
<1>19. \A q : RecordAt(s, q)' = RecordAt(s, q)
  BY DEF RecordAt
<1>20. ASSUME NEW m \in 1..Len(both)
       PROVE  (\E l \in DOMAIN more : new[l] = sp[m]) \/ (Full(s)' /\ Before(new[Limit], sp[m]))
  <2>1. CASE m \in 1..Len(more)
    BY <1>5, <1>14, <2>1
  <2>2. CASE m \notin 1..Len(more)
    <3>1. Len(more) < m /\ Len(more) # Len(both)
      <4>1. Len(more) \in Nat /\ Len(both) \in Nat /\ Len(more) <= Len(both)
        BY <1>4, <1>5
      <4>2. \A a, b \in Nat : \A i \in 1..b : i \notin 1..a /\ a <= b => a < i /\ a # b
        OBVIOUS
      <4>3. QED
        BY <1>20, <2>2, <4>1, <4>2, Zenon
    <3>2. Dated(s) /\ Len(more) = Limit /\ Limit \in DOMAIN more /\ Limit \in 1..Len(both)
      BY <1>4, <1>5, <3>1, MemoryAssumption
    <3>3. new[Limit] = sp[Limit] /\ Before(sp[Limit], sp[m])
      BY <1>14, <1>16, <3>1, <3>2
    <3>4. Full(s)'
      BY <1>18, <3>2 DEF Full
    <3>5. QED
      BY <3>3, <3>4
  <2>3. QED
    BY <2>1, <2>2
<1>21. ASSUME NEW k \in 1..k0, NEW n \in DOMAIN file[scan[s][k]],
              file[scan[s][k]][n].upto = "end", file[scan[s][k]][n].of \in due[s] \ Foreign
       PROVE  \/ \E m \in DOMAIN more : new[m] = <<k, n>>
              \/ Swallowed(file[scan[s][k]], n)
              \/ Full(s)' /\ Before(new[Limit], <<k, n>>)
  <2>1. CASE k = k0
    <3>1. n \in DOMAIN file[p] /\ file[p] = file[scan[s][k]]
      BY <1>21, <2>1 DEF p
    <3>2. Swallowed(file[p], n) \/ \E m \in DOMAIN ours : pos[m] = n
      BY <1>2, <1>21, <3>1
    <3>3. ASSUME NEW m \in DOMAIN ours, pos[m] = n PROVE L + m \in 1..Len(both) /\ sp[L + m] = <<k, n>>
      BY <1>4, <1>8, <1>9, <2>1, <3>3
    <3>4. QED
      BY <1>20, <3>1, <3>2, <3>3
  <2>2. CASE k # k0
    <3>1. k \in 1..scanned[s]
      BY <1>3, <2>2 DEF k0
    <3>2. \/ \E m \in DOMAIN found[s] : spot[m] = <<k, n>>
          \/ Swallowed(file[scan[s][k]], n)
          \/ Full(s) /\ Before(spot[Limit], <<k, n>>)
      BY <1>1, <1>21, <3>1, Zenon DEF ReadAt
    <3>3. ASSUME NEW m \in DOMAIN found[s], spot[m] = <<k, n>> PROVE m \in 1..Len(both) /\ sp[m] = <<k, n>>
      BY <1>4, <1>7, <3>3
    <3>4. ASSUME Full(s) PROVE Full(s)' /\ new[Limit] = spot[Limit]
      <4>1. Dated(s) /\ L = Limit /\ Limit \in 1..L
        BY <1>4, <3>4, MemoryAssumption DEF Full, L
      <4>2. Len(more) = Limit
        <5>1. Len(both) >= Limit
          BY <1>4, <4>1
        <5>2. QED
          BY <1>5, <4>1, <5>1
      <4>3. Limit \in DOMAIN more /\ sp[Limit] = spot[Limit]
        BY <1>5, <1>7, <4>1, <4>2
      <4>4. QED
        BY <1>14, <1>18, <4>1, <4>2, <4>3 DEF Full
    <3>5. QED
      BY <1>20, <3>2, <3>3, <3>4
  <2>3. QED
    BY <2>1, <2>2
<1>22. PICK here : here = new
  OBVIOUS
<1>23. ReadAt(s, here)'
  <2>1. TakenFrom(s, here)'
    <3>1. \A m \in DOMAIN more : more[m] = RecordAt(s, here[m]) /\ more[m] \notin Foreign
      BY <1>5, <1>13, <1>14, <1>15, <1>22
    <3>2. \A l, m \in DOMAIN more : l < m => Before(here[l], here[m])
      BY <1>5, <1>13, <1>14, <1>16, <1>22
    <3>3. QED
      BY <1>18, <1>19, <3>1, <3>2 DEF TakenFrom
  <2>2. \A m \in DOMAIN more : here[m][1] <= k0
    BY <1>5, <1>13, <1>14, <1>17, <1>22
  <2>3. here \in [DOMAIN found'[s] -> Spots(s)']
    BY <1>14, <1>18, <1>22
  <2>4. \A k \in 1..scanned'[s] : \A n \in DOMAIN file'[scan'[s][k]] :
          file'[scan'[s][k]][n].upto = "end" /\ file'[scan'[s][k]][n].of \in due'[s] \ Foreign =>
            \/ \E m \in DOMAIN found'[s] : here[m] = <<k, n>>
            \/ Swallowed(file'[scan'[s][k]], n)
            \/ Full(s)' /\ Before(here[Limit], <<k, n>>)
    BY <1>18, <1>21, <1>22, Zenon
  <2>5. QED
    BY <1>18, <2>1, <2>2, <2>3, <2>4 DEF ReadAt, Swallowed
<1>24. QED
  BY <1>5, <1>14, <1>18, <1>22, <1>23 DEF ReadInOrder
-----------------------------------------------------------------------------
\* What is written stays where it is.
Grown == \A p \in Places : \A n \in DOMAIN file[p] : n \in DOMAIN file'[p] /\ file'[p][n] = file[p][n]

\* What a search has read stays in order while files grow by what it is not due.
LEMMA ReadStays ==
  ASSUME MemoryTypeOK, NEW s \in Searches, ReadInOrder(s), scan[s] \in Seq(Places), scanned[s] <= Len(scan[s]),
         Grown, file' \in [Places -> Seq(Piece)],
         \A p \in Places : \A n \in DOMAIN file'[p] : n \notin DOMAIN file[p] => file'[p][n].of \notin due[s],
         scan' = scan, found'[s] = found[s], scanned'[s] = scanned[s], due'[s] = due[s] \/ scanned[s] = 0
  PROVE  ReadInOrder(s)'
<1>1. PICK spot \in [DOMAIN found[s] -> Spots(s)] : ReadAt(s, spot)
  BY DEF ReadInOrder
<1>2. scanned[s] \in Nat /\ \A k \in DOMAIN scan[s] : scan[s][k] \in Places
  BY DEF MemoryTypeOK
<1>3. Spots(s) \subseteq Spots(s)'
  BY <1>2 DEF Spots, Grown
<1>4. \A q \in Spots(s) : RecordAt(s, q)' = RecordAt(s, q)
  <2>1. \A q \in Spots(s) : q[1] \in DOMAIN scan[s] /\ q[2] \in DOMAIN file[scan[s][q[1]]]
    BY SpotsArePairs
  <2>2. QED
    BY <1>2, <2>1 DEF RecordAt, Grown
<1>5. Full(s)' = Full(s)
  BY DEF Full, Dated
<1>6. TakenFrom(s, spot)'
  <2>1. \A m \in DOMAIN found[s] : spot[m] \in Spots(s)
    OBVIOUS
  <2>2. TakenFrom(s, spot)
    BY <1>1 DEF ReadAt
  <2>3. QED
    BY <1>4, <2>1, <2>2 DEF TakenFrom
<1>7. ASSUME NEW k \in 1..scanned[s], NEW n \in DOMAIN file'[scan[s][k]],
             file'[scan[s][k]][n].upto = "end", file'[scan[s][k]][n].of \in due'[s] \ Foreign
      PROVE  \/ \E m \in DOMAIN found[s] : spot[m] = <<k, n>>
             \/ Swallowed(file'[scan[s][k]], n)
             \/ Full(s) /\ Before(spot[Limit], <<k, n>>)
  <2> DEFINE p == scan[s][k]
  <2>1. k \in DOMAIN scan[s] /\ p \in Places /\ due'[s] = due[s]
    BY <1>2
  <2>2. n \in DOMAIN file[p] /\ file'[p][n] = file[p][n]
    BY <1>7, <2>1 DEF Grown
  <2>3. \/ \E m \in DOMAIN found[s] : spot[m] = <<k, n>>
        \/ Swallowed(file[p], n)
        \/ Full(s) /\ Before(spot[Limit], <<k, n>>)
    <3>1. file[p][n].upto = "end" /\ file[p][n].of \in due[s] \ Foreign
      BY <1>7, <2>1, <2>2
    <3>2. QED
      BY <1>1, <2>2, <3>1, Zenon DEF ReadAt
  <2>4. Swallowed(file[p], n) => Swallowed(file'[p], n)
    <3>1. \A m \in 1..(n - 1) : m \in DOMAIN file[p] /\ \A l \in m..(n - 1) : l \in DOMAIN file[p]
      <4>1. file[p] \in Seq(Piece)
        BY <2>1 DEF MemoryTypeOK
      <4>2. QED
        BY <2>2, <4>1
    <3>2. \A m \in DOMAIN file[p] : file'[p][m] = file[p][m]
      BY <2>1 DEF Grown
    <3>3. QED
      BY <3>1, <3>2 DEF Swallowed
  <2>5. QED
    BY <2>3, <2>4
<1>8. ReadAt(s, spot)'
  <2>1. spot \in [DOMAIN found'[s] -> Spots(s)']
    BY <1>3
  <2>2. \A m \in DOMAIN found'[s] : spot[m][1] <= scanned'[s]
    BY <1>1 DEF ReadAt
  <2>3. \A k \in 1..scanned'[s] : \A n \in DOMAIN file'[scan'[s][k]] :
          file'[scan'[s][k]][n].upto = "end" /\ file'[scan'[s][k]][n].of \in due'[s] \ Foreign =>
            \/ \E m \in DOMAIN found'[s] : spot[m] = <<k, n>>
            \/ Swallowed(file'[scan'[s][k]], n)
            \/ Full(s)' /\ Before(spot[Limit], <<k, n>>)
    BY <1>5, <1>7, Zenon
  <2>4. QED
    BY <1>6, <2>1, <2>2, <2>3 DEF ReadAt, Swallowed
<1>9. QED
  <2>1. spot \in [DOMAIN found'[s] -> Spots(s)']
    BY <1>3
  <2>2. found'[s] \in Seq(Writes)
    BY DEF ReadInOrder
  <2>3. QED
    BY <1>8, <2>1, <2>2 DEF ReadInOrder

\* What an append does, and how it ends.
LEMMA AppendCases ==
  ASSUME MemoryInv, NEW w \in Writes, AppendRecord(w)
  PROVE  /\ at[w] = "accessing" /\ at' = [at EXCEPT ![w] = "closing"]
         /\ UNCHANGED <<place, scan, trail, result, scanned, found, due>>
         /\ \/ Store(w, "end") /\ outcome' = [outcome EXCEPT ![w] = "succeeded"] /\ tears' = tears
            \/ /\ \E upto \in {"heading", "start", "json", "fence", "end"} : Store(w, upto)
               /\ outcome' = [outcome EXCEPT ![w] = "failed"] /\ tears' = tears + 1
               /\ place[w] # Volatile
            \/ file' = file /\ outcome' = [outcome EXCEPT ![w] = "failed"] /\ tears' = tears
<1>1. w \notin Searches
  BY MemoryAssumption
<1>2. /\ at[w] = "accessing" /\ at' = [at EXCEPT ![w] = "closing"]
      /\ UNCHANGED <<place, scan, trail, result, scanned, found, due>>
  BY DEF AppendRecord, CloseWith, Goto, scanVars
<1>3. \/ Store(w, "end") /\ outcome' = [outcome EXCEPT ![w] = "succeeded"] /\ tears' = tears
      \/ /\ \E upto \in {"heading", "start", "json", "fence", "end"} : Store(w, upto)
         /\ outcome' = [outcome EXCEPT ![w] = "failed"] /\ tears' = tears + 1
         /\ ~InVolatile(w)
      \/ file' = file /\ outcome' = [outcome EXCEPT ![w] = "failed"] /\ tears' = tears
  BY DEF AppendRecord, CloseWith
<1>4. InVolatile(w) <=> place[w] = Volatile
  BY DEF InVolatile
<1>5. QED
  BY <1>2, <1>3, <1>4

\* The file that grows, and the piece it grows by.
LEMMA StoreGrows ==
  ASSUME MemoryInv, NEW w \in Writes, NEW upto \in {"heading", "start", "json", "fence", "end"}, Store(w, upto)
  PROVE  /\ Grown /\ file' \in [Places -> Seq(Piece)] /\ place[w] \in Places
         /\ \A p \in Places \ {place[w]} : file'[p] = file[p]
         /\ \E n : /\ n \notin DOMAIN file[place[w]] /\ DOMAIN file'[place[w]] = DOMAIN file[place[w]] \cup {n}
                   /\ file'[place[w]][n] = [of |-> w, upto |-> upto]
<1> DEFINE piece == [of |-> w, upto |-> upto]
           P == place[w]
<1>1. piece \in Piece
  BY DEF Piece
<1>2. P \in Places /\ file[P] \in Seq(Piece) /\ file' = [file EXCEPT ![P] = Append(@, piece)] /\ file \in [Places -> Seq(Piece)]
  BY DEF Store, MemoryInv, MemoryTypeOK
<1> HIDE DEF piece, P
<1>3. /\ Append(file[P], piece) \in Seq(Piece)
      /\ DOMAIN Append(file[P], piece) = DOMAIN file[P] \cup {Len(file[P]) + 1}
      /\ Len(file[P]) + 1 \notin DOMAIN file[P]
      /\ Append(file[P], piece)[Len(file[P]) + 1] = piece
      /\ \A n \in DOMAIN file[P] : Append(file[P], piece)[n] = file[P][n]
  BY <1>1, <1>2
<1>4. file'[P] = Append(file[P], piece) /\ \A p \in Places \ {P} : file'[p] = file[p]
  BY <1>2
<1>5. file' \in [Places -> Seq(Piece)]
  BY <1>2, <1>3
<1>6. Grown
  BY <1>3, <1>4 DEF Grown
<1>7. QED
  BY <1>2, <1>3, <1>4, <1>5, <1>6 DEF piece, P
-----------------------------------------------------------------------------
\* The invariant when a piece is written.
LEMMA PiecesStayApart ==
  ASSUME MemoryInv, OnePieceEach, NEW w \in Writes, at[w] = "accessing", at' = [at EXCEPT ![w] = "closing"],
         place' = place, NEW upto \in {"heading", "start", "json", "fence", "end"}, Store(w, upto),
         place[w] = Volatile => upto = "end"
  PROVE  OnePieceEach'
<1> DEFINE P == place[w]
<1>1. /\ Grown /\ file' \in [Places -> Seq(Piece)] /\ P \in Places
      /\ \A p \in Places \ {P} : file'[p] = file[p]
  BY StoreGrows
<1>2. PICK N : /\ N \notin DOMAIN file[P] /\ DOMAIN file'[P] = DOMAIN file[P] \cup {N}
               /\ file'[P][N] = [of |-> w, upto |-> upto]
  BY StoreGrows
<1>3. \A p \in Places : \A n \in DOMAIN file[p] :
        /\ file[p][n].of \in Writes /\ file[p][n].of # w
        /\ at'[file[p][n].of] \in {"closing", "over"} /\ place'[file[p][n].of] = p
  <2> SUFFICES ASSUME NEW p \in Places, NEW n \in DOMAIN file[p]
               PROVE  /\ file[p][n].of \in Writes /\ file[p][n].of # w
                      /\ at'[file[p][n].of] \in {"closing", "over"} /\ place'[file[p][n].of] = p
    OBVIOUS
  <2>1. file[p][n] \in Piece
    BY DEF MemoryInv, MemoryTypeOK
  <2>2. file[p][n].of \in Writes
    BY <2>1 DEF Piece
  <2>3. at[file[p][n].of] \in {"closing", "over"} /\ place[file[p][n].of] = p
    BY DEF OnePieceEach
  <2>4. file[p][n].of # w
    BY <2>3
  <2>5. QED
    BY <2>2, <2>3, <2>4 DEF MemoryInv, MemoryTypeOK, Calls
<1>4. at'[w] = "closing"
  BY DEF MemoryInv, MemoryTypeOK, Calls
<1> SUFFICES ASSUME NEW p \in Places, NEW n \in DOMAIN file'[p]
             PROVE  /\ place'[file'[p][n].of] = p /\ at'[file'[p][n].of] \in {"closing", "over"}
                    /\ p = Volatile => file'[p][n].upto = "end"
                    /\ \A l \in DOMAIN file'[p] : file'[p][l].of = file'[p][n].of => l = n
  BY Zenon DEF OnePieceEach
<1>5. CASE p # P
  <2>1. file'[p] = file[p]
    BY <1>1, <1>5
  <2>2. QED
    BY <1>3, <2>1 DEF OnePieceEach
<1>6. CASE p = P /\ n = N
  <2>1. file'[p][n] = [of |-> w, upto |-> upto]
    BY <1>2, <1>6
  <2>2. \A l \in DOMAIN file'[p] : l # N => l \in DOMAIN file[p] /\ file'[p][l] = file[p][l]
    BY <1>1, <1>2, <1>6 DEF Grown
  <2>3. \A l \in DOMAIN file'[p] : l # N => file'[p][l].of # w
    BY <1>3, <2>2
  <2>4. QED
    BY <1>4, <1>6, <2>1, <2>3
<1>7. CASE p = P /\ n # N
  <2>1. n \in DOMAIN file[p] /\ file'[p][n] = file[p][n]
    BY <1>1, <1>2, <1>7 DEF Grown
  <2>2. \A l \in DOMAIN file'[p] : l = N \/ (l \in DOMAIN file[p] /\ file'[p][l] = file[p][l])
    BY <1>1, <1>2, <1>7 DEF Grown
  <2>3. file'[p][N].of = w /\ file[p][n].of # w
    BY <1>2, <1>3, <1>7, <2>1
  <2>4. \A l \in DOMAIN file'[p] : file'[p][l].of = file'[p][n].of => l = n
    BY <2>1, <2>2, <2>3 DEF OnePieceEach
  <2>5. QED
    BY <1>3, <2>1, <2>4 DEF OnePieceEach
<1>8. QED
  BY <1>5, <1>6, <1>7

LEMMA FewMoreAreTorn ==
  ASSUME MemoryInv, FewAreTorn, NEW w \in Writes, place' = place,
         NEW upto \in {"heading", "start", "json", "fence", "end"}, Store(w, upto),
         IF upto = "end" THEN tears' \in {tears, tears + 1} ELSE tears' = tears + 1
  PROVE  FewAreTorn'
<1>1. /\ Grown /\ place[w] \in Places /\ \A p \in Places \ {place[w]} : file'[p] = file[p]
      /\ \E n : /\ n \notin DOMAIN file[place[w]] /\ DOMAIN file'[place[w]] = DOMAIN file[place[w]] \cup {n}
                /\ file'[place[w]][n] = [of |-> w, upto |-> upto]
  BY StoreGrows
<1>2. \A v \in Torn' : v \in Torn \/ (v = w /\ upto # "end")
  <2> SUFFICES ASSUME NEW v \in Writes, NEW n \in DOMAIN file'[place[v]],
                      file'[place[v]][n].of = v, file'[place[v]][n].upto # "end"
               PROVE  v \in Torn \/ (v = w /\ upto # "end")
    BY DEF Torn
  <2>1. CASE n \in DOMAIN file[place[v]]
    <3>1. file'[place[v]][n] = file[place[v]][n]
      BY <1>1, <2>1 DEF Grown, MemoryInv, MemoryTypeOK
    <3>2. QED
      BY <2>1, <3>1 DEF Torn
  <2>2. CASE n \notin DOMAIN file[place[v]]
    <3>1. place[v] = place[w]
      BY <1>1, <2>2 DEF MemoryInv, MemoryTypeOK
    <3>2. file'[place[v]][n] = [of |-> w, upto |-> upto]
      BY <1>1, <2>2, <3>1
    <3>3. QED
      BY <3>2
  <2>3. QED
    BY <2>1, <2>2
<1>3. /\ tears \in Nat /\ IsFiniteSet(Torn) /\ Cardinality(Torn) <= tears /\ Cardinality(Torn) \in Nat
  BY FS_CardinalityType DEF FewAreTorn
<1>4. CASE upto = "end"
  <2>1. Torn' \in SUBSET Torn
    BY <1>2, <1>4
  <2>2. IsFiniteSet(Torn') /\ Cardinality(Torn') <= Cardinality(Torn)
    BY <1>3, <2>1, FS_Subset
  <2>3. Cardinality(Torn') \in Nat
    BY <2>2, FS_CardinalityType
  <2>4. tears' \in Nat /\ tears <= tears'
    BY <1>3, <1>4
  <2>5. IsFiniteSet(Torn)' <=> IsFiniteSet(Torn')
    OBVIOUS
  <2>6. QED
    BY <1>3, <2>2, <2>3, <2>4 DEF FewAreTorn
<1>5. CASE upto # "end"
  <2>1. Torn' \in SUBSET (Torn \cup {w})
    BY <1>2
  <2>2. IsFiniteSet(Torn \cup {w}) /\ Cardinality(Torn \cup {w}) \in {Cardinality(Torn), Cardinality(Torn) + 1}
    BY <1>3, FS_AddElement
  <2>3. IsFiniteSet(Torn') /\ Cardinality(Torn') <= Cardinality(Torn \cup {w})
    BY <2>1, <2>2, FS_Subset
  <2>4. Cardinality(Torn') \in Nat
    BY <2>3, FS_CardinalityType
  <2>5. tears' = tears + 1
    BY <1>5
  <2>6. Cardinality(Torn') <= tears'
    BY <1>3, <2>2, <2>3, <2>4, <2>5
  <2>7. QED
    BY <1>3, <2>3, <2>5, <2>6 DEF FewAreTorn
<1>6. QED
  BY <1>4, <1>5

\* What was stored stays stored, and what succeeds is stored.
LEMMA StoredStays ==
  ASSUME MemoryTypeOK, Grown, place' = place, NEW w \in Writes,
         \E n \in DOMAIN file[place[w]] : file[place[w]][n] = [of |-> w, upto |-> "end"]
  PROVE  \E n \in DOMAIN file'[place'[w]] : file'[place'[w]][n] = [of |-> w, upto |-> "end"]
  BY DEF Grown, MemoryTypeOK

LEMMA AppendKeepsSearch ==
  ASSUME SearchInv, NEW w \in Writes, AppendRecord(w)
  PROVE  /\ SearchTypeOK' /\ OnePieceEach' /\ SuccessIsStored' /\ FewAreTorn'
         /\ \A s \in Searches : Progress(s)' /\ ReadInOrder(s)'
<1>1. /\ at[w] = "accessing" /\ at' = [at EXCEPT ![w] = "closing"]
      /\ UNCHANGED <<place, scan, trail, result, scanned, found, due>>
      /\ \/ Store(w, "end") /\ outcome' = [outcome EXCEPT ![w] = "succeeded"] /\ tears' = tears
         \/ /\ \E upto \in {"heading", "start", "json", "fence", "end"} : Store(w, upto)
            /\ outcome' = [outcome EXCEPT ![w] = "failed"] /\ tears' = tears + 1
            /\ place[w] # Volatile
         \/ file' = file /\ outcome' = [outcome EXCEPT ![w] = "failed"] /\ tears' = tears
  BY AppendCases DEF SearchInv
<1>2. w \in Calls /\ w \notin Searches /\ result[w] = "none" /\ MemoryInv
  BY <1>1, MemoryAssumption DEF SearchInv, MemoryInv, OnRecord, Calls
<1>3. at \in [Calls -> {"idle", "deciding", "authorizing", "accessing", "closing", "over"}]
      /\ outcome \in [Calls -> {"none", "denied", "failed", "invalid", "succeeded"}]
  BY <1>2 DEF MemoryInv, MemoryTypeOK
\* The files.
<1>4. /\ Grown /\ file' \in [Places -> Seq(Piece)]
      /\ \A p \in Places : \A n \in DOMAIN file'[p] : n \notin DOMAIN file[p] => file'[p][n].of = w
  <2>1. CASE file' = file
    BY <1>2, <2>1 DEF Grown, MemoryInv, MemoryTypeOK
  <2>2. ASSUME NEW upto \in {"heading", "start", "json", "fence", "end"}, Store(w, upto)
        PROVE  /\ Grown /\ file' \in [Places -> Seq(Piece)]
               /\ \A p \in Places : \A n \in DOMAIN file'[p] : n \notin DOMAIN file[p] => file'[p][n].of = w
    <3>1. /\ Grown /\ file' \in [Places -> Seq(Piece)] /\ \A p \in Places \ {place[w]} : file'[p] = file[p]
          /\ \E n : /\ DOMAIN file'[place[w]] = DOMAIN file[place[w]] \cup {n}
                    /\ file'[place[w]][n] = [of |-> w, upto |-> upto]
      BY <1>2, <2>2, StoreGrows
    <3>2. [of |-> w, upto |-> upto].of = w
      OBVIOUS
    <3>3. \A n \in DOMAIN file'[place[w]] : n \notin DOMAIN file[place[w]] => file'[place[w]][n].of = w
      BY <3>1, <3>2
    <3>4. QED
      BY <3>1, <3>3
  <2>3. QED
    BY <1>1, <2>1, <2>2
<1>5. OnePieceEach'
  <2>1. CASE file' = file
    <3>1. \A p \in Places : \A n \in DOMAIN file[p] : at'[file[p][n].of] \in {"closing", "over"}
      <4> SUFFICES ASSUME NEW p \in Places, NEW n \in DOMAIN file[p] PROVE at'[file[p][n].of] \in {"closing", "over"}
        OBVIOUS
      <4>1. file[p][n] \in Piece
        BY <1>2 DEF MemoryInv, MemoryTypeOK
      <4>2. file[p][n].of \in Calls /\ at[file[p][n].of] \in {"closing", "over"}
        BY <4>1 DEF Piece, Calls, SearchInv, OnePieceEach
      <4>3. QED
        BY <1>1, <1>3, <4>2
    <3>2. QED
      BY <1>1, <2>1, <3>1 DEF SearchInv, OnePieceEach
  <2>2. ASSUME NEW upto \in {"heading", "start", "json", "fence", "end"}, Store(w, upto),
               place[w] = Volatile => upto = "end"
        PROVE  OnePieceEach'
    BY <1>1, <1>2, <2>2, PiecesStayApart DEF SearchInv
  <2>3. QED
    BY <1>1, <2>1, <2>2
<1>6. FewAreTorn'
  <2>1. CASE file' = file /\ tears' = tears
    <3>1. Torn' = Torn
      BY <1>1, <2>1 DEF Torn
    <3>2. QED
      BY <2>1, <3>1 DEF SearchInv, FewAreTorn
  <2>2. ASSUME NEW upto \in {"heading", "start", "json", "fence", "end"}, Store(w, upto),
               IF upto = "end" THEN tears' \in {tears, tears + 1} ELSE tears' = tears + 1
        PROVE  FewAreTorn'
    BY <1>1, <1>2, <2>2, FewMoreAreTorn DEF SearchInv
  <2>3. QED
    BY <1>1, <2>1, <2>2
<1>7. SuccessIsStored'
  <2>1. ASSUME NEW v \in Writes, outcome'[v] = "succeeded"
        PROVE  \E n \in DOMAIN file'[place'[v]] : file'[place'[v]][n] = [of |-> v, upto |-> "end"]
    <3>1. CASE v # w
      <4>1. outcome[v] = "succeeded"
        BY <1>1, <1>3, <2>1, <3>1 DEF Calls
      <4>2. QED
        BY <1>1, <1>2, <1>4, <4>1, StoredStays DEF SearchInv, SuccessIsStored, MemoryInv
    <3>2. CASE v = w
      <4>1. Store(w, "end")
        BY <1>1, <1>2, <1>3, <2>1, <3>2
      <4>2. \E n : /\ DOMAIN file'[place[w]] = DOMAIN file[place[w]] \cup {n}
                   /\ file'[place[w]][n] = [of |-> w, upto |-> "end"]
        BY <1>2, <4>1, StoreGrows
      <4>3. QED
        BY <1>1, <3>2, <4>2
    <3>3. QED
      BY <3>1, <3>2
  <2>2. \A c \in Calls : /\ outcome'[c] = "succeeded" => at'[c] \in {"closing", "over"}
                         /\ result'[c] = "ok" => outcome'[c] = "succeeded" /\ at'[c] = "over"
    BY <1>1, <1>2, <1>3 DEF SearchInv, SuccessIsStored
  <2>3. QED
    BY <2>1, <2>2 DEF SuccessIsStored
<1>8. ASSUME NEW s \in Searches PROVE Progress(s)' /\ ReadInOrder(s)'
  <2>1. at'[s] = at[s] /\ outcome'[s] = outcome[s] /\ (Full(s)' = Full(s))
    BY <1>1, <1>2, <1>3 DEF Calls, Full, Dated
  <2>2. Progress(s)'
    BY <1>1, <2>1 DEF SearchInv, Progress
  <2>3. w \notin due[s]
    BY <1>2 DEF SearchInv, Progress
  <2>4. scan[s] \in Seq(Places) /\ scanned[s] <= Len(scan[s]) /\ ReadInOrder(s) /\ MemoryTypeOK
    BY <1>2 DEF SearchInv, Progress, MemoryInv, ScanOK
  <2>5. \A p \in Places : \A n \in DOMAIN file'[p] : n \notin DOMAIN file[p] => file'[p][n].of \notin due[s]
    BY <1>4, <2>3
  <2>6. ReadInOrder(s)'
    BY <1>1, <1>4, <2>4, <2>5, ReadStays
  <2>7. QED
    BY <2>2, <2>6
<1>9. SearchTypeOK'
  BY <1>1 DEF SearchInv, SearchTypeOK
<1>10. QED
  BY <1>5, <1>6, <1>7, <1>8, <1>9
-----------------------------------------------------------------------------
\* The files stay, and so do the calls whose access is over.
LEMMA PiecesStay ==
  ASSUME MemoryTypeOK, OnePieceEach, FewAreTorn, place' = place, file' = file, tears' = tears,
         \A w \in Writes : at[w] \in {"closing", "over"} => at'[w] \in {"closing", "over"}
  PROVE  OnePieceEach' /\ FewAreTorn'
<1>1. \A p \in Places : \A n \in DOMAIN file[p] : at'[file[p][n].of] \in {"closing", "over"}
  <2> SUFFICES ASSUME NEW p \in Places, NEW n \in DOMAIN file[p] PROVE at'[file[p][n].of] \in {"closing", "over"}
    OBVIOUS
  <2>1. file[p][n] \in Piece
    BY DEF MemoryTypeOK
  <2>2. file[p][n].of \in Writes /\ at[file[p][n].of] \in {"closing", "over"}
    BY <2>1 DEF Piece, OnePieceEach
  <2>3. QED
    BY <2>2
<1>2. OnePieceEach'
  BY <1>1 DEF OnePieceEach
<1>3. Torn' = Torn
  BY DEF Torn
<1>4. QED
  BY <1>2, <1>3 DEF FewAreTorn

\* What a search is due grows with what is acknowledged; calls without access
\* to a place change nothing else of it.
LEMMA CallKeepsSearch ==
  ASSUME SearchInv, NEW c \in Calls, CallStep(c)
  PROVE  /\ SearchTypeOK' /\ OnePieceEach' /\ SuccessIsStored' /\ FewAreTorn'
         /\ \A s \in Searches : Progress(s)' /\ ReadInOrder(s)'
<1>1. MemoryInv /\ UNCHANGED <<place, scan, file, scanned, found, tears>>
  BY DEF CallStep, Call, Decide, AuthorizeFile, Close, scanVars, SearchInv
<1>2. /\ at \in [Calls -> {"idle", "deciding", "authorizing", "accessing", "closing", "over"}]
      /\ outcome \in [Calls -> {"none", "denied", "failed", "invalid", "succeeded"}]
      /\ result \in [Calls -> {"none", "ok", "error"}]
  BY <1>1 DEF MemoryInv, MemoryTypeOK
<1>3. \A d \in Calls : /\ at[d] \in {"closing", "over"} => at'[d] \in {"closing", "over"}
                       /\ at'[d] = "idle" => at[d] = "idle"
                       /\ outcome'[d] = "succeeded" <=> outcome[d] = "succeeded"
                       /\ result[d] = "ok" => result'[d] = "ok"
                       /\ result'[d] = "ok" => result[d] = "ok" \/ (outcome[d] = "succeeded" /\ at'[d] = "over")
                       /\ at[d] = "over" => at'[d] = "over"
  <2>1. CASE Call(c)
    BY <1>2, <2>1 DEF Call, Goto
  <2>2. CASE Decide(c)
    <3>1. outcome[c] # "succeeded"
      BY <2>2 DEF Decide, CloseWith, Goto, SearchInv, SuccessIsStored
    <3>2. QED
      BY <1>2, <2>2, <3>1 DEF Decide, CloseWith, Goto
  <2>3. CASE AuthorizeFile(c)
    <3>1. outcome[c] # "succeeded"
      BY <2>3 DEF AuthorizeFile, CloseWith, Goto, SearchInv, SuccessIsStored
    <3>2. QED
      BY <1>2, <2>3, <3>1 DEF AuthorizeFile, CloseWith, Goto
  <2>4. CASE Close(c)
    <3>1. result[c] = "none"
      BY <1>1, <2>4 DEF Close, Goto, MemoryInv, OnRecord
    <3>2. QED
      BY <1>2, <2>4, <3>1 DEF Close, Goto
  <2>5. QED
    BY <2>1, <2>2, <2>3, <2>4 DEF CallStep
<1>4. OnePieceEach' /\ FewAreTorn'
  BY <1>1, <1>3, PiecesStay DEF SearchInv, MemoryInv, Calls
<1>5. SuccessIsStored'
  BY <1>1, <1>3 DEF SearchInv, SuccessIsStored, Calls
<1>6. ASSUME NEW s \in Searches PROVE Progress(s)' /\ ReadInOrder(s)'
  <2>1. due'[s] = due[s] \/ (at[s] = "idle" /\ due'[s] = {w \in Writes : result[w] = "ok"})
    <3>1. due \in [Searches -> SUBSET Writes]
      BY DEF SearchInv, SearchTypeOK
    <3>2. due' = due \/ Call(c)
      BY DEF CallStep, Decide, AuthorizeFile, Close, scanVars
    <3>3. QED
      BY <3>1, <3>2 DEF Call, Goto
  <2>2. s \in Calls /\ Progress(s) /\ ReadInOrder(s) /\ ScanOK(s)
    BY DEF SearchInv, MemoryInv, Calls
  <2>3. Full(s)' = Full(s)
    BY <1>1 DEF Full, Dated
  <2>4. due'[s] \subseteq {w \in Writes : result'[w] = "ok"}
    BY <1>3, <2>1, <2>2 DEF Progress, Calls
  <2>5. Progress(s)'
    BY <1>1, <1>3, <2>2, <2>3, <2>4 DEF Progress
  <2>6. scan[s] \in Seq(Places) /\ scanned[s] <= Len(scan[s]) /\ (due'[s] = due[s] \/ scanned[s] = 0)
    BY <2>1, <2>2 DEF Progress, ScanOK
  <2>7. Grown /\ file' \in [Places -> Seq(Piece)] /\ MemoryTypeOK
        /\ \A p \in Places : \A n \in DOMAIN file'[p] : n \notin DOMAIN file[p] => file'[p][n].of \notin due[s]
    BY <1>1 DEF Grown, MemoryInv, MemoryTypeOK
  <2>8. ReadInOrder(s)'
    BY <1>1, <2>2, <2>6, <2>7, ReadStays
  <2>9. QED
    BY <2>5, <2>8
<1>7. SearchTypeOK'
  <2>1. due' = due \/ \E S \in SUBSET Writes : due' = [due EXCEPT ![c] = S]
    BY DEF CallStep, Call, Decide, AuthorizeFile, Close, scanVars
  <2>2. QED
    BY <1>1, <2>1 DEF SearchInv, SearchTypeOK
<1>8. QED
  BY <1>4, <1>5, <1>6, <1>7

\* A search that reads.
LEMMA ReadKeepsSearch ==
  ASSUME SearchInv, NEW s \in Searches, ReadRecords(s)
  PROVE  /\ SearchTypeOK' /\ OnePieceEach' /\ SuccessIsStored' /\ FewAreTorn'
         /\ \A r \in Searches : Progress(r)' /\ ReadInOrder(r)'
<1> DEFINE p    == scan[s][scanned[s] + 1]
           read == Recover(p)
           ours == Ours(read.records)
           more == Bounded(s, found[s] \o ours)
           last == scanned[s] + 1 = Len(scan[s]) \/ (Dated(s) /\ Len(more) = Limit)
<1>1. /\ MemoryInv /\ s \in Calls /\ at[s] = "accessing" /\ UNCHANGED <<place, scan, trail, result, file, due, tears>>
      /\ scan[s] \in Seq(Places) /\ scanned[s] \in Nat /\ scanned[s] < Len(scan[s]) /\ outcome[s] = "none"
      /\ p \in Places
  <2>1. /\ MemoryInv /\ s \in Calls /\ at[s] = "accessing" /\ UNCHANGED <<place, scan, trail, result, file, due, tears>>
    BY DEF SearchInv, ReadRecords, Calls
  <2>2. scan[s] \in Seq(Places) /\ scanned[s] \in Nat /\ scanned[s] < Len(scan[s]) /\ outcome[s] = "none"
    BY <2>1 DEF MemoryInv, ScanOK
  <2>3. p \in Places
    BY <2>2
  <2>4. QED
    BY <2>1, <2>2, <2>3
<1>2. /\ at \in [Calls -> {"idle", "deciding", "authorizing", "accessing", "closing", "over"}]
      /\ outcome \in [Calls -> {"none", "denied", "failed", "invalid", "succeeded"}]
      /\ scanned \in [Searches -> Nat] /\ found \in [Searches -> Seq(Writes)] /\ Searches \cap Writes = {}
  BY <1>1, MemoryAssumption DEF MemoryInv, MemoryTypeOK, SearchInv, SearchTypeOK
<1>3. \/ /\ read.ok /\ found' = [found EXCEPT ![s] = more] /\ scanned' = [scanned EXCEPT ![s] = @ + 1]
         /\ \/ last /\ at' = [at EXCEPT ![s] = "closing"] /\ outcome' = [outcome EXCEPT ![s] = "succeeded"]
            \/ at' = [at EXCEPT ![s] = "authorizing"] /\ outcome' = outcome
      \/ /\ UNCHANGED <<found, scanned>> /\ at' = [at EXCEPT ![s] = "closing"]
         /\ \E how \in {"invalid", "failed"} : outcome' = [outcome EXCEPT ![s] = how]
  BY DEF ReadRecords, CloseWith, Goto
<1>4. read.ok => Taken(p, ours)
  BY <1>1, OursAreTaken DEF MemoryInv
<1> HIDE DEF ours, read
<1>5. read.ok => more \in Seq(Writes)
  <2> SUFFICES ASSUME read.ok PROVE more \in Seq(Writes)
    OBVIOUS
  <2>1. found[s] \in Seq(Writes) /\ ours \in Seq(Writes)
    BY <1>2, <1>4 DEF Taken
  <2>2. found[s] \o ours \in Seq(Writes)
    BY <2>1
  <2>3. QED
    BY <2>2, BoundedIsPrefix
<1>6. SearchTypeOK'
  <2>1. found' \in [Searches -> Seq(Writes)]
    <3> HIDE DEF more, last
    <3>1. QED
      BY <1>2, <1>3, <1>5
  <2>2. QED
    BY <1>1, <2>1 DEF SearchInv, SearchTypeOK
<1>7. OnePieceEach' /\ FewAreTorn'
  <2>1. \A w \in Writes : at'[w] = at[w]
    BY <1>2, <1>3 DEF Calls
  <2>2. QED
    BY <1>1, <2>1, PiecesStay DEF SearchInv, MemoryInv
<1>8. SuccessIsStored'
  <2>1. \A w \in Writes : outcome'[w] = outcome[w]
    BY <1>2, <1>3 DEF Calls
  <2>2. \A c \in Calls : /\ outcome'[c] = "succeeded" => at'[c] \in {"closing", "over"}
                         /\ result'[c] = "ok" => outcome'[c] = "succeeded" /\ at'[c] = "over"
    <3> SUFFICES ASSUME NEW c \in Calls
                 PROVE  /\ outcome'[c] = "succeeded" => at'[c] \in {"closing", "over"}
                        /\ result'[c] = "ok" => outcome'[c] = "succeeded" /\ at'[c] = "over"
      OBVIOUS
    <3>1. CASE c = s
      <4>1. result[c] # "ok"
        BY <1>1, <3>1 DEF SearchInv, SuccessIsStored
      <4>2. QED
        BY <1>1, <1>2, <1>3, <3>1, <4>1
    <3>2. CASE c # s
      <4>1. at'[c] = at[c] /\ outcome'[c] = outcome[c] /\ result'[c] = result[c]
        BY <1>1, <1>2, <1>3, <3>2
      <4>2. QED
        BY <4>1 DEF SearchInv, SuccessIsStored
    <3>3. QED
      BY <3>1, <3>2
  <2>3. QED
    BY <1>1, <2>1, <2>2 DEF SearchInv, SuccessIsStored
<1>9. ASSUME NEW r \in Searches, r # s \/ UNCHANGED <<found, scanned>> PROVE Progress(r)' /\ ReadInOrder(r)'
  <2>1. r \in Calls /\ Progress(r) /\ ReadInOrder(r) /\ ScanOK(r)
    BY <1>1 DEF SearchInv, MemoryInv, Calls
  <2>2. found'[r] = found[r] /\ scanned'[r] = scanned[r]
    BY <1>2, <1>3, <1>9
  <2>3. /\ outcome'[r] = "succeeded" => outcome[r] = "succeeded"
        /\ at'[r] = "idle" => at[r] = "idle"
    <3>1. CASE r # s
      BY <1>2, <1>3, <2>1, <3>1
    <3>2. CASE r = s /\ UNCHANGED <<found, scanned>>
      <4>1. scanned[s] # scanned[s] + 1
        BY <1>1
      <4>2. ~(scanned' = [scanned EXCEPT ![s] = @ + 1])
        BY <1>2, <3>2, <4>1
      <4>3. QED
        BY <1>1, <1>2, <1>3, <3>2, <4>2
    <3>3. QED
      BY <1>9, <3>1, <3>2
  <2>4. Full(r)' = Full(r)
    BY <1>1, <2>2 DEF Full, Dated
  <2>5. Progress(r)'
    BY <1>1, <2>1, <2>2, <2>3, <2>4 DEF Progress
  <2>6. scan[r] \in Seq(Places) /\ scanned[r] <= Len(scan[r])
    BY <2>1 DEF Progress, ScanOK
  <2>7. Grown /\ file' \in [Places -> Seq(Piece)] /\ MemoryTypeOK
        /\ \A q \in Places : \A n \in DOMAIN file'[q] : n \notin DOMAIN file[q] => file'[q][n].of \notin due[r]
    BY <1>1 DEF Grown, MemoryInv, MemoryTypeOK
  <2>8. ReadInOrder(r)'
    BY <1>1, <2>1, <2>2, <2>6, <2>7, ReadStays
  <2>9. QED
    BY <2>5, <2>8
<1>10. ASSUME read.ok, found' = [found EXCEPT ![s] = more], scanned' = [scanned EXCEPT ![s] = @ + 1],
              \/ last /\ at' = [at EXCEPT ![s] = "closing"] /\ outcome' = [outcome EXCEPT ![s] = "succeeded"]
              \/ at' = [at EXCEPT ![s] = "authorizing"] /\ outcome' = outcome
       PROVE  Progress(s)' /\ ReadInOrder(s)'
  <2>1. found'[s] = more /\ scanned'[s] = scanned[s] + 1
    BY <1>2, <1>10
  <2>2. Progress(s) /\ ReadInOrder(s) /\ MemoryTypeOK
    BY <1>1 DEF SearchInv, MemoryInv
  <2>3. last <=> scanned'[s] = Len(scan[s]) \/ Full(s)'
    BY <1>1, <2>1 DEF Full, Dated
  <2>4. at'[s] # "idle" /\ (outcome'[s] = "succeeded" => last) /\ scanned'[s] <= Len(scan[s])
    <3> HIDE DEF last
    <3>1. scanned'[s] <= Len(scan[s])
      BY <1>1, <2>1
    <3>2. QED
      BY <1>1, <1>2, <1>10, <3>1
  <2> HIDE DEF last
  <2>5. Progress(s)'
    BY <1>1, <2>2, <2>3, <2>4 DEF Progress
  <2>6. ReadInOrder(s)'
    <3>1. Taken(scan[s][scanned[s] + 1], ours)
      BY <1>4, <1>10
    <3>2. QED
      BY <1>1, <2>1, <2>2, <3>1, NextPlaceInOrder
  <2>7. QED
    BY <2>5, <2>6
<1>11. QED
  BY <1>3, <1>6, <1>7, <1>8, <1>9, <1>10

LEMMA StepKeepsSearch == SearchInv /\ [MemoryNext]_memVars => SearchInv'
<1> SUFFICES ASSUME SearchInv, [MemoryNext]_memVars PROVE SearchInv'
  OBVIOUS
<1>1. MemoryInv'
  BY StepKeepsMemory DEF SearchInv
<1>2. CASE UNCHANGED memVars
  <2>1. UNCHANGED <<place, scan, at, outcome, trail, result, file, scanned, found, due, tears>>
    BY <1>2 DEF memVars, callVars, scanVars
  <2>2. SearchTypeOK' /\ OnePieceEach' /\ SuccessIsStored'
    BY <2>1 DEF SearchInv, SearchTypeOK, OnePieceEach, SuccessIsStored
  <2>3. FewAreTorn'
    <3>1. Torn' = Torn
      BY <2>1 DEF Torn
    <3>2. QED
      BY <2>1, <3>1 DEF SearchInv, FewAreTorn
  <2>4. ASSUME NEW s \in Searches PROVE Progress(s)' /\ ReadInOrder(s)'
    <3>1. Progress(s) /\ ReadInOrder(s) /\ ScanOK(s) /\ MemoryTypeOK
      BY DEF SearchInv, MemoryInv
    <3>2. Progress(s)'
      BY <2>1, <3>1 DEF Progress, Full, Dated
    <3>3. Grown /\ file' \in [Places -> Seq(Piece)]
          /\ \A p \in Places : \A n \in DOMAIN file'[p] : n \notin DOMAIN file[p] => file'[p][n].of \notin due[s]
      BY <2>1, <3>1 DEF Grown, MemoryTypeOK
    <3>4. ReadInOrder(s)'
      BY <2>1, <3>1, <3>3, ReadStays DEF Progress, ScanOK
    <3>5. QED
      BY <3>2, <3>4
  <2>5. QED
    BY <1>1, <2>2, <2>3, <2>4 DEF SearchInv
<1>3. CASE MemoryNext /\ ~UNCHANGED memVars
  <2>1. \/ \E w \in Writes : AppendRecord(w)
        \/ \E s \in Searches : ReadRecords(s)
        \/ \E c \in Calls : CallStep(c)
    BY <1>3 DEF MemoryNext, WriteStep, SearchStep, AllOver, Calls
  <2>2. /\ SearchTypeOK' /\ OnePieceEach' /\ SuccessIsStored' /\ FewAreTorn'
        /\ \A s \in Searches : Progress(s)' /\ ReadInOrder(s)'
    BY <2>1, AppendKeepsSearch, ReadKeepsSearch, CallKeepsSearch
  <2>3. QED
    BY <1>1, <2>2 DEF SearchInv
<1>4. QED
  BY <1>2, <1>3
-----------------------------------------------------------------------------
LEMMA SearchInvariant == MemorySpec => []SearchInv
<1>1. MemoryInit => SearchInv
  <2> SUFFICES ASSUME MemoryInit PROVE SearchInv
    OBVIOUS
  <2>1. MemoryInv
    BY MemoryStart
  <2>2. SearchTypeOK
    BY DEF MemoryInit, SearchTypeOK
  <2>3. place \in [Writes -> Places] /\ \A p \in Places : file[p] = <<>> /\ DOMAIN file[p] = {}
    BY <2>1 DEF MemoryInit, MemoryInv, MemoryTypeOK
  <2>4. OnePieceEach
    BY <2>3 DEF OnePieceEach
  <2>5. SuccessIsStored
    BY DEF MemoryInit, SuccessIsStored, Calls
  <2>6. FewAreTorn
    <3>1. Torn = {}
      BY <2>3 DEF Torn
    <3>2. QED
      BY <3>1, FS_EmptySet DEF MemoryInit, FewAreTorn
  <2>7. ASSUME NEW s \in Searches PROVE Progress(s) /\ ReadInOrder(s)
    <3>1. scan[s] \in Seq(Places)
      BY <2>1 DEF MemoryInv, ScanOK
    <3>2. Progress(s)
      BY <3>1 DEF MemoryInit, Progress, Calls
    <3> DEFINE spot == [m \in {} |-> 0]
    <3>3. found[s] = <<>> /\ DOMAIN found[s] = {} /\ scanned[s] = 0 /\ found[s] \in Seq(Writes)
      BY DEF MemoryInit
    <3>4. spot \in [DOMAIN found[s] -> Spots(s)]
      BY <3>3
    <3> HIDE DEF spot
    <3>5. ReadAt(s, spot)
      BY <3>3, <3>4 DEF ReadAt, TakenFrom
    <3>6. QED
      BY <3>2, <3>3, <3>4, <3>5 DEF ReadInOrder
  <2>8. QED
    BY <2>1, <2>2, <2>4, <2>5, <2>6, <2>7 DEF SearchInv
<1>2. QED
  BY <1>1, StepKeepsSearch, PTL DEF MemorySpec

\* The torn write before a whole one, in the same block.
Swallows(t, w) ==
  \E m, n \in DOMAIN file[place[w]] :
    /\ file[place[w]][m].of = t /\ file[place[w]][m].upto # "end"
    /\ file[place[w]][n] = [of |-> w, upto |-> "end"]
    /\ m < n /\ \A l \in m..(n - 1) : ~HasEnd(file[place[w]][l])

\* It swallows no other.
LEMMA SwallowsOne ==
  ASSUME MemoryTypeOK, OnePieceEach, NEW t \in Writes, NEW v \in Writes, NEW w \in Writes, Swallows(t, v), Swallows(t, w)
  PROVE  v = w
<1>1. PICK m, n \in DOMAIN file[place[v]] :
        /\ file[place[v]][m].of = t /\ file[place[v]][n] = [of |-> v, upto |-> "end"]
        /\ m < n /\ \A l \in m..(n - 1) : ~HasEnd(file[place[v]][l])
  BY DEF Swallows
<1>2. PICK x, y \in DOMAIN file[place[w]] :
        /\ file[place[w]][x].of = t /\ file[place[w]][y] = [of |-> w, upto |-> "end"]
        /\ x < y /\ \A l \in x..(y - 1) : ~HasEnd(file[place[w]][l])
  BY DEF Swallows
<1>3. place[v] \in Places /\ place[w] \in Places
  BY DEF MemoryTypeOK
<1>4. place[v] = place[w]
  BY <1>1, <1>2, <1>3 DEF OnePieceEach
<1>5. m = x
  BY <1>1, <1>2, <1>3, <1>4 DEF OnePieceEach
<1>6. m \in Nat /\ n \in Nat /\ y \in Nat
  <2>1. file[place[v]] \in Seq(Piece)
    BY <1>3 DEF MemoryTypeOK
  <2>2. DOMAIN file[place[v]] \subseteq Nat
    BY <2>1
  <2>3. QED
    BY <1>4, <2>2
<1>7. HasEnd(file[place[v]][n]) /\ HasEnd(file[place[w]][y])
  BY <1>1, <1>2 DEF HasEnd
<1>8. ~(n < y) /\ ~(y < n)
  <2>1. n < y => n \in x..(y - 1)
    BY <1>1, <1>5, <1>6
  <2>2. y < n => y \in m..(n - 1)
    BY <1>2, <1>5, <1>6
  <2>3. QED
    BY <1>1, <1>2, <1>4, <1>7, <2>1, <2>2
<1>9. n = y
  BY <1>6, <1>8
<1>10. QED
  BY <1>1, <1>2, <1>4, <1>9

\* What a search that succeeded has skipped was swallowed.
LEMMA SkippedIsSwallowed ==
  ASSUME SearchInv, NEW s \in Searches, Succeeded(s), NEW spot \in [DOMAIN found[s] -> Spots(s)], ReadAt(s, spot),
         NEW w \in Skipped(s, spot)
  PROVE  \E t \in Torn : Swallows(t, w)
<1>1. /\ w \in due[s] \ Foreign /\ \E k \in DOMAIN scan[s] : place[w] = scan[s][k]
      /\ \A q \in Spots(s) : RecordAt(s, q) = w =>
           (\A m \in DOMAIN found[s] : spot[m] # q) /\ (Full(s) => ~Before(spot[Limit], q))
  BY DEF Skipped
<1>2. w \in Writes /\ w \in Calls /\ s \in Calls /\ result[w] = "ok" /\ result[s] = "ok"
  BY <1>1 DEF SearchInv, Progress, Succeeded, Calls
<1>3. outcome[w] = "succeeded" /\ outcome[s] = "succeeded"
  BY <1>2 DEF SearchInv, SuccessIsStored
<1>4. PICK n \in DOMAIN file[place[w]] : file[place[w]][n] = [of |-> w, upto |-> "end"]
  BY <1>2, <1>3 DEF SearchInv, SuccessIsStored
<1>5. PICK k \in DOMAIN scan[s] : place[w] = scan[s][k]
  BY <1>1
<1>6. <<k, n>> \in Spots(s) /\ RecordAt(s, <<k, n>>) = w
  <2>1. <<k, n>> \in Spots(s)
    BY <1>4, <1>5, SpotsArePairs
  <2>2. RecordAt(s, <<k, n>>) = file[place[w]][n].of
    BY <1>5 DEF RecordAt
  <2>3. QED
    BY <1>4, <2>1, <2>2
<1>7. scan[s] \in Seq(Places) /\ scanned[s] \in Nat /\ (scanned[s] = Len(scan[s]) \/ Full(s)) /\ found[s] \in Seq(Writes)
  BY <1>3 DEF SearchInv, MemoryInv, ScanOK, Progress, ReadInOrder
<1>8. k \in 1..scanned[s]
  <2>1. k \in Nat /\ k \in 1..Len(scan[s])
    BY <1>7
  <2>2. CASE scanned[s] = Len(scan[s])
    BY <2>1, <2>2
  <2>3. CASE Full(s)
    <3>1. Limit \in DOMAIN found[s]
      BY <1>7, <2>3, MemoryAssumption DEF Full
    <3>2. spot[Limit][1] <= scanned[s] /\ spot[Limit] \in Spots(s)
      BY <3>1 DEF ReadAt
    <3>3. spot[Limit][1] \in Nat
      BY <1>7, <3>2, SpotsArePairs
    <3>4. ~Before(spot[Limit], <<k, n>>)
      BY <1>1, <1>6, <2>3
    <3>5. ~(spot[Limit][1] < k)
      BY <3>4 DEF Before
    <3>6. QED
      BY <1>7, <2>1, <3>2, <3>3, <3>5
  <2>4. QED
    BY <1>7, <2>2, <2>3
<1>9. Swallowed(file[place[w]], n)
  <2>1. file[scan[s][k]][n].upto = "end" /\ file[scan[s][k]][n].of \in due[s] \ Foreign /\ n \in DOMAIN file[scan[s][k]]
    BY <1>1, <1>4, <1>5
  <2>2. \/ \E m \in DOMAIN found[s] : spot[m] = <<k, n>>
        \/ Swallowed(file[scan[s][k]], n)
        \/ Full(s) /\ Before(spot[Limit], <<k, n>>)
    BY <1>8, <2>1, Zenon DEF ReadAt
  <2>3. QED
    BY <1>1, <1>5, <1>6, <2>2
<1>10. PICK m \in 1..(n - 1) : file[place[w]][m].upto # "end" /\ \A l \in m..(n - 1) : ~HasEnd(file[place[w]][l])
  BY <1>9 DEF Swallowed
<1>11. place[w] \in Places /\ file[place[w]] \in Seq(Piece)
  BY <1>2 DEF SearchInv, MemoryInv, MemoryTypeOK
<1>12. m \in DOMAIN file[place[w]] /\ m < n
  BY <1>4, <1>11
<1>13. file[place[w]][m].of \in Writes
  <2>1. file[place[w]][m] \in Piece
    BY <1>11, <1>12
  <2>2. QED
    BY <2>1 DEF Piece
<1>14. place[file[place[w]][m].of] = place[w]
  BY <1>11, <1>12 DEF SearchInv, OnePieceEach
<1>15. file[place[w]][m].of \in Torn
  BY <1>10, <1>12, <1>13, <1>14 DEF Torn
<1>16. Swallows(file[place[w]][m].of, w)
  BY <1>4, <1>10, <1>12 DEF Swallows
<1>17. QED
  BY <1>15, <1>16

\* A search that succeeds returns, in order, all that had been acknowledged when
\* it was called, up to its limit, but for one record at most per append that
\* was cut off: whatever is written, fails or is read while it goes through its
\* places, and however the pieces of records lie in their files.
THEOREM SearchFindsWhatIsDue == MemorySpec => []SearchIsComplete
<1>1. SearchInv => SearchIsComplete
  <2> SUFFICES ASSUME SearchInv, NEW s \in Searches, Succeeded(s)
               PROVE  \E spot \in [DOMAIN found[s] -> Spots(s)] :
                        TakenFrom(s, spot) /\ Cardinality(Skipped(s, spot)) <= tears
    BY DEF SearchIsComplete
  <2>1. PICK spot \in [DOMAIN found[s] -> Spots(s)] : ReadAt(s, spot)
    BY DEF SearchInv, ReadInOrder
  <2> DEFINE S == Skipped(s, spot)
             torn == [w \in S |-> CHOOSE t \in Torn : Swallows(t, w)]
  <2>2. \A w \in S : \E t \in Torn : Swallows(t, w)
    BY <2>1, SkippedIsSwallowed
  <2>3. S \subseteq Writes /\ Torn \subseteq Writes /\ MemoryTypeOK /\ OnePieceEach
    BY DEF Skipped, Torn, SearchInv, SearchTypeOK, MemoryInv
  <2> HIDE DEF S
  <2>4. \A w \in S : torn[w] \in Torn /\ Swallows(torn[w], w)
    BY <2>2
  <2>5. torn \in [S -> Torn]
    BY <2>4
  <2> HIDE DEF torn
  <2>6. ASSUME NEW v \in S, NEW w \in S, torn[v] = torn[w] PROVE v = w
    BY <2>3, <2>4, <2>6, SwallowsOne
  <2>7. torn \in Injection(S, Torn)
    BY <2>5, <2>6 DEF Injection, IsInjective
  <2>8. IsFiniteSet(Torn) /\ Cardinality(Torn) <= tears /\ tears \in Nat
    BY DEF SearchInv, FewAreTorn
  <2>9. IsFiniteSet(S) /\ Cardinality(S) <= Cardinality(Torn)
    BY <2>7, <2>8, FS_Injection
  <2>10. Cardinality(S) \in Nat /\ Cardinality(Torn) \in Nat
    BY <2>8, <2>9, FS_CardinalityType
  <2>11. Cardinality(S) <= tears
    BY <2>8, <2>9, <2>10
  <2>12. TakenFrom(s, spot)
    BY <2>1 DEF ReadAt
  <2>13. QED
    BY <2>11, <2>12 DEF S
<1>2. QED
  BY <1>1, SearchInvariant, PTL
=============================================================================

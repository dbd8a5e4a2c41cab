------------------------------ MODULE EventBus ------------------------------
(***************************************************************************)
(* LocalRuntimeEventBus of packages/core/src/event-bus.ts.  emit iterates  *)
(* over the live Set of subscribers and awaits each of them, so the Set    *)
(* can change, and other events can be emitted, between two deliveries.    *)
(*                                                                         *)
(* entries is the order in which a Set is iterated over: an element that   *)
(* is deleted keeps its place as a dead entry, one that is added again     *)
(* goes to the end, and cursor[e] is how far the iteration for e has come. *)
(* An event is a pair of its emitter and a number; an emitter awaits each  *)
(* emit before the next, as the runner does within a turn.                 *)
(*                                                                         *)
(* Left out: the deep-frozen copy each subscriber is given, and the log    *)
(* line for one that throws, after which the loop goes on all the same.    *)
(***************************************************************************)
EXTENDS Naturals, Sequences, FiniteSets, FiniteSetsExt

CONSTANTS
  Subscriptions, \* calls of subscribe
  Subscribers,
  SubscriberOf,  \* the function a subscription passes
  Events         \* pairs <<emitter, number>>

ASSUME BusAssumption ==
  /\ SubscriberOf \in [Subscriptions -> Subscribers]
  /\ \A e \in Events : e[2] \in Nat

VARIABLES
  entries,   \* the Set of subscribers
  handles,   \* subscriptions made, whose unsubscribe can be called
  emitting,  \* state of the call emit(e)
  cursor,    \* entries the iteration for e has passed
  delivered, \* history: the events each subscriber was called with
  owed,      \* history: subscribers in the Set ever since emit(e) was called
  departures \* history: how often a subscriber left during the emission of e

busVars == <<entries, handles, emitting, cursor, delivered, owed, departures>>

Alive(i) == entries[i].alive
Present == {entries[i].who : i \in {j \in DOMAIN entries : Alive(j)}}

BusInit ==
  /\ entries = <<>>
  /\ handles = {}
  /\ emitting = [e \in Events |-> "no"]
  /\ cursor = [e \in Events |-> 0]
  /\ delivered = [s \in Subscribers |-> <<>>]
  /\ owed = [e \in Events |-> {}]
  /\ departures = [e \in Events |-> [s \in Subscribers |-> 0]]
-----------------------------------------------------------------------------
\* Set.prototype.add does nothing for an element that is there.
Subscribe(h) ==
  /\ h \notin handles
  /\ handles' = handles \cup {h}
  /\ entries' = IF SubscriberOf[h] \in Present
                THEN entries
                ELSE Append(entries, [who |-> SubscriberOf[h], alive |-> TRUE])
  /\ UNCHANGED <<emitting, cursor, delivered, owed, departures>>

\* What the histories keep of it when s leaves.
Leave(s) ==
  LET awaiting == {e \in Events : emitting[e] = "awaiting"} IN
  /\ owed' = [e \in Events |-> IF e \in awaiting THEN owed[e] \ {s} ELSE owed[e]]
  /\ departures' = [e \in Events |-> [q \in Subscribers |->
       IF e \in awaiting /\ q = s THEN departures[e][q] + 1 ELSE departures[e][q]]]

\* unsubscribe of h removes the function, whoever subscribed it meanwhile.
Unsubscribe(h) ==
  /\ h \in handles /\ SubscriberOf[h] \in Present
  /\ entries' = [i \in DOMAIN entries |->
       IF entries[i].who = SubscriberOf[h] THEN [entries[i] EXCEPT !.alive = FALSE] ELSE entries[i]]
  /\ Leave(SubscriberOf[h])
  /\ UNCHANGED <<handles, emitting, cursor, delivered>>

\* Bug (mutation runs only): the loop goes on over the entries it once saw.
BugAdvanceIgnoresDeletion(e) ==
  /\ IF cursor[e] < Len(entries)
     THEN LET i == cursor[e] + 1
              s == entries[i].who
          IN /\ cursor' = [cursor EXCEPT ![e] = i]
             /\ delivered' = [delivered EXCEPT ![s] = Append(@, e)]
             /\ emitting' = [emitting EXCEPT ![e] = "awaiting"]
     ELSE /\ emitting' = [emitting EXCEPT ![e] = "done"]
          /\ UNCHANGED <<cursor, delivered>>
  /\ UNCHANGED <<entries, handles, departures>>

\* The loop goes on to the next live entry and calls it, or ends.
Advance(e) ==
  LET ahead == {i \in DOMAIN entries : i > cursor[e] /\ Alive(i)} IN
  /\ IF ahead # {}
     THEN LET s == entries[Min(ahead)].who
          IN /\ cursor' = [cursor EXCEPT ![e] = Min(ahead)]
             /\ delivered' = [delivered EXCEPT ![s] = Append(@, e)]
             /\ emitting' = [emitting EXCEPT ![e] = "awaiting"]
     ELSE /\ emitting' = [emitting EXCEPT ![e] = "done"]
          /\ UNCHANGED <<cursor, delivered>>
  /\ UNCHANGED <<entries, handles, departures>>

\* Bug (mutation runs only): an emitter does not await its earlier events.
BugEmitUnawaited(e) ==
  /\ emitting[e] = "no"
  /\ \A f \in Events : f[1] = e[1] /\ f[2] < e[2] => emitting[f] # "no"
  /\ owed' = [owed EXCEPT ![e] = Present]
  /\ Advance(e)

\* emit calls the first subscriber before it returns to its caller.
Emit(e) ==
  /\ emitting[e] = "no"
  /\ \A f \in Events : f[1] = e[1] /\ f[2] < e[2] => emitting[f] = "done"
  /\ owed' = [owed EXCEPT ![e] = Present]
  /\ Advance(e)

\* Bug (mutation runs only): a subscriber that throws ends the loop.
BugAnswerEndsLoop(e) ==
  /\ emitting[e] = "awaiting"
  /\ \/ Advance(e) /\ UNCHANGED owed
     \/ /\ emitting' = [emitting EXCEPT ![e] = "done"]
        /\ UNCHANGED <<entries, handles, cursor, delivered, owed, departures>>

\* The subscriber's promise settles, either way.
Answer(e) ==
  /\ emitting[e] = "awaiting"
  /\ Advance(e)
  /\ UNCHANGED owed

AllEmitted == (\A e \in Events : emitting[e] = "done") /\ UNCHANGED busVars

BusNext ==
  \/ \E h \in Subscriptions : Subscribe(h) \/ Unsubscribe(h)
  \/ \E e \in Events : Emit(e) \/ Answer(e)
  \/ AllEmitted

BusSpec == BusInit /\ [][BusNext]_busVars
-----------------------------------------------------------------------------
Times(s, e) == Cardinality({i \in DOMAIN delivered[s] : delivered[s][i] = e})

\* A subscriber that was in the Set from the call of emit to its end has been
\* called with the event, whatever the others did: threw, left or came.
NobodyIsSkipped ==
  \A e \in Events : emitting[e] = "done" =>
    \A s \in owed[e] : Times(s, e) > 0

\* Events of one emitter reach a subscriber in the order they were emitted.
EmitterOrder ==
  \A s \in Subscribers : \A i, j \in DOMAIN delivered[s] :
    LET e == delivered[s][i]
        f == delivered[s][j]
    IN i < j /\ e[1] = f[1] => e[2] <= f[2]

\* No call is made to a subscriber that has left, not even for an event whose
\* emission had begun before it did, and an event is delivered a second time only
\* to one that left and came back during its emission: once more for each time.
OneCallPerStay ==
  [][\A s \in Subscribers, e \in Events :
       Times(s, e)' > Times(s, e) => s \in Present /\ Times(s, e) <= departures[e][s]]_busVars
=============================================================================

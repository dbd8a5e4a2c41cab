-------------------------- MODULE SessionTurnQueue --------------------------
(***************************************************************************)
(* SessionTurnQueue of packages/core/src/session-routing.ts: a chain of    *)
(* promises per routing key, kept in a Map from the key to the last link.  *)
(*                                                                         *)
(* A turn t stands for one call of enqueue and for the three promises the  *)
(* call makes: `previous` (prev[t]), `current` (stage[t]) and `settled`    *)
(* (whether t is in the set settled).  The Map holds the settled promise   *)
(* of a turn, written queues[k] = t; NoTurn stands for a key that is not   *)
(* in the Map, and for the Promise.resolve() that enqueue then chains on.  *)
(*                                                                         *)
(* The `finally` callback is registered inside enqueue, before any later   *)
(* turn can chain on `settled`, so JavaScript runs it before the operation *)
(* of the next turn: that is why Start waits for settled and Settle does   *)
(* the clean-up in the same step.                                          *)
(*                                                                         *)
(* arrivals and ticket are history variables: they record the order of the *)
(* calls of enqueue and no action reads them.                              *)
(***************************************************************************)
EXTENDS Naturals

CONSTANTS
  Turns,    \* calls of enqueue, one per turn
  Keys,     \* routing keys
  KeyOf,    \* the key a turn is enqueued under
  NoTurn    \* "no entry", an already fulfilled promise

ASSUME QueueAssumption ==
  /\ KeyOf \in [Turns -> Keys]
  /\ NoTurn \notin Turns

VARIABLES
  queues,   \* SessionTurnQueue.queues: the last turn chained for a key
  prev,     \* the turn whose settled promise this one waits for
  stage,    \* state of the promise enqueue returned, and of its operation
  settled,  \* turns whose settled promise is fulfilled
  arrivals, \* history: number of calls so far
  ticket    \* history: which call of enqueue a turn was, 0 if not called yet

queueVars == <<queues, prev, stage, settled, arrivals, ticket>>

Finished == {"resolved", "rejected"}
Stages == {"new", "queued", "running"} \cup Finished

Enqueued(t) == stage[t] # "new"
Started(t)  == stage[t] = "running" \/ stage[t] \in Finished

QueueInit ==
  /\ queues = [k \in Keys |-> NoTurn]
  /\ prev = [t \in Turns |-> NoTurn]
  /\ stage = [t \in Turns |-> "new"]
  /\ settled = {}
  /\ arrivals = 0
  /\ ticket = [t \in Turns |-> 0]

-----------------------------------------------------------------------------
(***************************************************************************)
(* Bugs this code could have, for the mutation runs; no action uses them.  *)
(***************************************************************************)

\* The finally callback deletes the key without looking whose entry it is.
BugSettleAlwaysDeletes(t) ==
  /\ stage[t] \in Finished
  /\ t \notin settled
  /\ settled' = settled \cup {t}
  /\ queues' = [queues EXCEPT ![KeyOf[t]] = NoTurn]
  /\ UNCHANGED <<prev, stage, arrivals, ticket>>

\* No clean-up at all: the Map keeps one promise for every key ever used.
BugSettleNeverDeletes(t) ==
  /\ stage[t] \in Finished
  /\ t \notin settled
  /\ settled' = settled \cup {t}
  /\ UNCHANGED <<queues, prev, stage, arrivals, ticket>>

\* `settled` has no rejection handler: one rejected turn poisons its key.
BugSettleOnlyResolved(t) ==
  /\ stage[t] = "resolved"
  /\ t \notin settled
  /\ settled' = settled \cup {t}
  /\ queues' = IF queues[KeyOf[t]] = t
               THEN [queues EXCEPT ![KeyOf[t]] = NoTurn]
               ELSE queues
  /\ UNCHANGED <<prev, stage, arrivals, ticket>>

\* Every turn is chained on the first entry of the key, never on the last.
BugEnqueueKeepsHead(t) ==
  /\ stage[t] = "new"
  /\ prev' = [prev EXCEPT ![t] = queues[KeyOf[t]]]
  /\ queues' = IF queues[KeyOf[t]] = NoTurn
               THEN [queues EXCEPT ![KeyOf[t]] = t]
               ELSE queues
  /\ stage' = [stage EXCEPT ![t] = "queued"]
  /\ arrivals' = arrivals + 1
  /\ ticket' = [ticket EXCEPT ![t] = arrivals + 1]
  /\ UNCHANGED settled

\* The outcome of the operation is not passed on.
BugFinishDropsOutcome(t, outcome) ==
  /\ stage[t] = "running"
  /\ stage' = [stage EXCEPT ![t] = "finished"]
  /\ UNCHANGED <<queues, prev, settled, arrivals, ticket>>
-----------------------------------------------------------------------------
\* enqueue(key, operation): the whole method, which runs without an await.
Enqueue(t) ==
  /\ stage[t] = "new"
  /\ prev' = [prev EXCEPT ![t] = queues[KeyOf[t]]]
  /\ queues' = [queues EXCEPT ![KeyOf[t]] = t]
  /\ stage' = [stage EXCEPT ![t] = "queued"]
  /\ arrivals' = arrivals + 1
  /\ ticket' = [ticket EXCEPT ![t] = arrivals + 1]
  /\ UNCHANGED settled

\* previous.then(operation): the reaction of the previous link runs.
Start(t) ==
  /\ stage[t] = "queued"
  /\ prev[t] = NoTurn \/ prev[t] \in settled
  /\ stage' = [stage EXCEPT ![t] = "running"]
  /\ UNCHANGED <<queues, prev, settled, arrivals, ticket>>

\* The operation's promise resolves or rejects, and `current` with it.
Finish(t, outcome) ==
  /\ stage[t] = "running"
  /\ stage' = [stage EXCEPT ![t] = outcome]
  /\ UNCHANGED <<queues, prev, settled, arrivals, ticket>>

\* `settled` is fulfilled whatever the outcome was, and its finally callback
\* removes the key unless another turn was chained meanwhile.
Settle(t) ==
  /\ stage[t] \in Finished
  /\ t \notin settled
  /\ settled' = settled \cup {t}
  /\ queues' = IF queues[KeyOf[t]] = t
               THEN [queues EXCEPT ![KeyOf[t]] = NoTurn]
               ELSE queues
  /\ UNCHANGED <<prev, stage, arrivals, ticket>>

TurnStep(t) ==
  \/ Enqueue(t)
  \/ Start(t)
  \/ \E outcome \in Finished : Finish(t, outcome)
  \/ Settle(t)

\* A finished and settled turn has nothing left to do.
AllSettled == settled = Turns /\ UNCHANGED queueVars

QueueNext == (\E t \in Turns : TurnStep(t)) \/ AllSettled

QueueSpec == QueueInit /\ [][QueueNext]_queueVars

\* The reactions of a fulfilled promise are jobs of the microtask queue and
\* always run.
MicrotaskFairness ==
  \A t \in Turns : WF_queueVars(Start(t)) /\ WF_queueVars(Settle(t))

MicrotaskSpec == QueueSpec /\ MicrotaskFairness

-----------------------------------------------------------------------------
QueueTypeOK ==
  /\ queues \in [Keys -> Turns \cup {NoTurn}]
  /\ prev \in [Turns -> Turns \cup {NoTurn}]
  /\ stage \in [Turns -> Stages]
  /\ settled \in SUBSET Turns
  /\ arrivals \in Nat
  /\ ticket \in [Turns -> Nat]

\* Turns of one key never run at the same time.
MutualExclusion ==
  \A t, u \in Turns :
    t # u /\ KeyOf[t] = KeyOf[u] => ~(stage[t] = "running" /\ stage[u] = "running")

Before(u, t) ==
  /\ KeyOf[u] = KeyOf[t]
  /\ Enqueued(u)
  /\ Enqueued(t)
  /\ ticket[u] < ticket[t]

\* A turn starts only after every turn of its key that was enqueued before it
\* is over, whether it resolved or rejected and however the clean-up of the
\* Map was interleaved with later calls of enqueue.
FifoOrder ==
  \A t, u \in Turns : Before(u, t) /\ Started(t) => stage[u] \in Finished

\* The Map has an entry for a key exactly while a turn of the key is
\* unsettled, and the entry is the last one enqueued: the clean-up neither
\* leaks an entry nor removes one a later turn still has to be chained to.
EntryIsLastPending ==
  \A k \in Keys :
    LET pending == {t \in Turns : KeyOf[t] = k /\ Enqueued(t) /\ t \notin settled}
    IN IF pending = {}
       THEN queues[k] = NoTurn
       ELSE /\ queues[k] \in pending
            /\ \A t \in pending : ticket[t] <= ticket[queues[k]]

\* A turn starts as soon as its predecessors are over even if the operations
\* of other keys never end, and even if a predecessor rejected.
HeadOfLineStarts ==
  \A t \in Turns :
    (stage[t] = "queued" /\ \A u \in Turns : Before(u, t) => stage[u] \in Finished)
      ~> Started(t)

\* The refinement mapping: hide the promises and the Map.
StatusOf(t) ==
  CASE stage[t] = "new" -> "away"
    [] stage[t] = "queued" -> "waiting"
    [] stage[t] = "running" -> "active"
    [] OTHER -> "ended"

Fifo == INSTANCE FifoTurns WITH status <- [t \in Turns |-> StatusOf(t)]

\* Whatever a caller can tell from when its operation runs, a FIFO line per
\* key could have done: every step of the promise chain is an arrival, a
\* beginning or an end in FifoTurns, or is invisible.
ImplementsFifo == Fifo!FifoSpec
=============================================================================

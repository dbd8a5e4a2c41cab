----------------------- MODULE SessionTurnQueueProofs -----------------------
(***************************************************************************)
(* For every set of turns and keys: the promise chains of SessionTurnQueue *)
(* keep the turns of a key in the order of the calls of enqueue, never run *)
(* two of them together, keep the Map exact, and implement FifoTurns.      *)
(*                                                                         *)
(* FifoOrder alone is not inductive: it says nothing of what a turn that   *)
(* has not started waits for.  ChainInv adds that: a turn waits for the    *)
(* turn of its key enqueued just before it, or for nobody when all those   *)
(* were settled at the call (PrevIsPredecessor), the Map holds the last    *)
(* turn of a key until it settles (EntryIsLast), and settled turns and all *)
(* those before them are finished (SettledIsFinished, FifoOrder).          *)
(***************************************************************************)
EXTENDS SessionTurnQueue, TLAPS

TicketInv ==
  /\ \A t \in Turns : Enqueued(t) <=> ticket[t] # 0
  /\ \A t \in Turns : ticket[t] <= arrivals
  /\ \A t, u \in Turns : ticket[t] = ticket[u] /\ Enqueued(t) => t = u

SettledIsFinished == \A t \in settled : stage[t] \in Finished

\* What enqueue read from the Map still describes the turn's predecessors.
PrevIsPredecessor ==
  \A t \in Turns : Enqueued(t) =>
    /\ prev[t] = NoTurn => \A u \in Turns : Before(u, t) => u \in settled
    /\ prev[t] # NoTurn =>
         /\ Before(prev[t], t)
         /\ \A u \in Turns : Before(u, t) => u = prev[t] \/ Before(u, prev[t])

\* What the Map holds describes the turns of the key enqueued so far.
EntryIsLast ==
  \A k \in Keys :
    /\ queues[k] = NoTurn => \A u \in Turns : KeyOf[u] = k /\ Enqueued(u) => u \in settled
    /\ queues[k] # NoTurn =>
         /\ KeyOf[queues[k]] = k
         /\ Enqueued(queues[k])
         /\ queues[k] \notin settled
         /\ \A u \in Turns : KeyOf[u] = k /\ Enqueued(u) => ticket[u] <= ticket[queues[k]]

\* A turn that settled has nobody before it left to settle.
SettledInOrder ==
  \A t, u \in Turns : Before(u, t) /\ Started(t) => u \in settled

ChainInv ==
  /\ QueueTypeOK
  /\ TicketInv
  /\ SettledIsFinished
  /\ PrevIsPredecessor
  /\ EntryIsLast
  /\ SettledInOrder
-----------------------------------------------------------------------------
LEMMA TypeStep == QueueTypeOK /\ [QueueNext]_queueVars => QueueTypeOK'
<1> SUFFICES ASSUME QueueTypeOK, [QueueNext]_queueVars
             PROVE  QueueTypeOK'
  OBVIOUS
<1> USE QueueAssumption DEF QueueTypeOK, Stages, Finished
<1>1. ASSUME NEW t \in Turns, Enqueue(t) PROVE QueueTypeOK'
  BY <1>1 DEF Enqueue
<1>2. ASSUME NEW t \in Turns, Start(t) PROVE QueueTypeOK'
  BY <1>2 DEF Start
<1>3. ASSUME NEW t \in Turns, NEW o \in Finished, Finish(t, o) PROVE QueueTypeOK'
  BY <1>3 DEF Finish
<1>4. ASSUME NEW t \in Turns, Settle(t) PROVE QueueTypeOK'
  BY <1>4 DEF Settle
<1>5. CASE UNCHANGED queueVars
  BY <1>5 DEF queueVars
<1>6. QED
  BY <1>1, <1>2, <1>3, <1>4, <1>5 DEF QueueNext, TurnStep, AllSettled

\* Type correctness of the promise chains: what the Map, the captured
\* predecessors and the promise states can be.
THEOREM TypeCorrect == QueueSpec => []QueueTypeOK
<1>1. QueueInit => QueueTypeOK
  BY QueueAssumption DEF QueueInit, QueueTypeOK, Stages
<1>2. QED
  BY <1>1, TypeStep, PTL DEF QueueSpec
-----------------------------------------------------------------------------
\* enqueue keeps the chain: the new turn is the last one of its key and waits
\* for the entry it replaces.
LEMMA EnqueueKeepsChain ==
  ASSUME ChainInv, NEW t \in Turns, Enqueue(t)
  PROVE  ChainInv'
<1> USE QueueAssumption DEF ChainInv, Enqueued, Started, Finished
<1>1. QueueTypeOK'
  BY TypeStep DEF QueueNext, TurnStep
<1>2. /\ stage[t] = "new" /\ ticket[t] = 0 /\ t \notin settled
      /\ ticket'[t] = arrivals + 1 /\ stage'[t] = "queued"
      /\ prev'[t] = queues[KeyOf[t]] /\ queues'[KeyOf[t]] = t
      /\ settled' = settled
      /\ \A u \in Turns \ {t} : ticket'[u] = ticket[u] /\ stage'[u] = stage[u] /\ prev'[u] = prev[u]
      /\ \A k \in Keys \ {KeyOf[t]} : queues'[k] = queues[k]
  BY DEF QueueTypeOK, Enqueue, TicketInv, SettledIsFinished
<1>3. \A u \in Turns \ {t} : ticket'[u] < ticket'[t]
  BY <1>2 DEF QueueTypeOK, TicketInv
<1>4. TicketInv'
  BY <1>2, <1>3 DEF QueueTypeOK, TicketInv, Enqueue
<1>5. SettledIsFinished'
  BY <1>2 DEF QueueTypeOK, SettledIsFinished
<1>6. \A u, v \in Turns : Before(u, v)' <=>
        IF v = t THEN u # t /\ KeyOf[u] = KeyOf[t] /\ Enqueued(u) ELSE Before(u, v)
  BY <1>2, <1>3 DEF Before, QueueTypeOK, TicketInv
<1>7. PrevIsPredecessor'
  <2> SUFFICES ASSUME NEW v \in Turns, Enqueued(v)'
               PROVE  /\ prev'[v] = NoTurn => \A u \in Turns : Before(u, v)' => u \in settled'
                      /\ prev'[v] # NoTurn =>
                           /\ Before(prev[v], v)'
                           /\ \A u \in Turns : Before(u, v)' => u = prev'[v] \/ Before(u, prev[v])'
    BY DEF PrevIsPredecessor
  <2>1. CASE v = t
    <3>1. CASE queues[KeyOf[t]] = NoTurn
      BY <1>2, <1>6, <2>1, <3>1 DEF EntryIsLast, QueueTypeOK
    <3>2. CASE queues[KeyOf[t]] # NoTurn
      <4>1. PICK p \in Turns :
              p = queues[KeyOf[t]] /\ KeyOf[p] = KeyOf[t] /\ Enqueued(p) /\ p # t
        BY <1>2, <3>2 DEF EntryIsLast, QueueTypeOK
      <4>2. \A u \in Turns : KeyOf[u] = KeyOf[t] /\ Enqueued(u) => u = p \/ Before(u, p)
        BY <4>1, <3>2 DEF EntryIsLast, QueueTypeOK, TicketInv, Before
      <4>3. \A u \in Turns : Before(u, p)' <=> Before(u, p)
        BY <1>6, <4>1
      <4>4. prev'[v] = p /\ Before(p, v)'
        BY <1>2, <1>6, <2>1, <4>1
      <4> QED
        BY <1>6, <2>1, <4>1, <4>2, <4>3, <4>4, <3>2
    <3>3. QED
      BY <3>1, <3>2
  <2>2. CASE v # t
    <3>1. Enqueued(v) /\ prev'[v] = prev[v] /\ \A u \in Turns : Before(u, v)' <=> Before(u, v)
      BY <1>2, <1>6, <2>2
    <3>2. prev[v] # NoTurn => prev[v] \in Turns /\ prev[v] # t /\ Before(prev[v], v)
      BY <1>2, <3>1 DEF PrevIsPredecessor, QueueTypeOK, Before
    <3>3. prev[v] # NoTurn => \A u \in Turns : Before(u, prev[v])' <=> Before(u, prev[v])
      BY <1>6, <3>1, <3>2
    <3> QED
      BY <1>2, <3>1, <3>2, <3>3 DEF PrevIsPredecessor
  <2>3. QED
    BY <2>1, <2>2
<1>8. EntryIsLast'
  <2> SUFFICES ASSUME NEW k \in Keys
               PROVE  /\ queues'[k] = NoTurn => \A u \in Turns : KeyOf[u] = k /\ Enqueued(u)' => u \in settled'
                      /\ queues'[k] # NoTurn =>
                           /\ KeyOf[queues'[k]] = k
                           /\ stage'[queues'[k]] # "new"
                           /\ queues'[k] \notin settled'
                           /\ \A u \in Turns : KeyOf[u] = k /\ Enqueued(u)' => ticket'[u] <= ticket'[queues'[k]]
    BY DEF EntryIsLast
  <2>1. CASE k = KeyOf[t]
    BY <1>1, <1>2, <1>3, <2>1 DEF QueueTypeOK
  <2>2. CASE k # KeyOf[t]
    <3>1. queues'[k] = queues[k] /\ \A u \in Turns : KeyOf[u] = k => u # t
      BY <1>2, <2>2
    <3>2. queues[k] # NoTurn => queues[k] \in Turns \ {t}
      BY <3>1 DEF EntryIsLast, QueueTypeOK
    <3> QED
      BY <1>2, <3>1, <3>2 DEF EntryIsLast
  <2>3. QED
    BY <2>1, <2>2
<1>9. SettledInOrder'
  BY <1>2, <1>6 DEF SettledInOrder
<1>10. QED
  BY <1>1, <1>4, <1>5, <1>7, <1>8, <1>9

\* Start leaves the chain alone; that a turn only starts once all those before
\* it are settled is where PrevIsPredecessor and SettledInOrder meet.
LEMMA StartKeepsChain ==
  ASSUME ChainInv, NEW t \in Turns, Start(t)
  PROVE  ChainInv'
<1> USE QueueAssumption DEF ChainInv
<1>1. QueueTypeOK'
  BY TypeStep DEF QueueNext, TurnStep
<1>2. /\ stage[t] = "queued" /\ stage'[t] = "running"
      /\ \A u \in Turns \ {t} : stage'[u] = stage[u]
      /\ UNCHANGED <<queues, prev, settled, arrivals, ticket>>
  BY DEF Start, QueueTypeOK
<1>3. \A u \in Turns : Enqueued(u)' <=> Enqueued(u)
  BY <1>2 DEF Enqueued
<1>4. \A u, v \in Turns : Before(u, v)' <=> Before(u, v)
  BY <1>2, <1>3 DEF Before
<1>5. TicketInv' /\ SettledIsFinished'
  BY <1>2, <1>3 DEF TicketInv, SettledIsFinished, QueueTypeOK, Finished
<1>6. PrevIsPredecessor' /\ EntryIsLast'
  <2>1. \A v \in Turns : prev[v] # NoTurn => prev[v] \in Turns
    BY DEF QueueTypeOK
  <2>2. PrevIsPredecessor'
    BY <1>2, <1>3, <1>4, <2>1 DEF PrevIsPredecessor
  <2>3. \A k \in Keys : queues[k] # NoTurn => queues[k] \in Turns
    BY DEF QueueTypeOK
  <2>4. EntryIsLast'
    BY <1>2, <1>3, <2>3 DEF EntryIsLast
  <2>5. QED
    BY <2>2, <2>4
<1>7. \A u \in Turns : Before(u, t) => u \in settled
  <2>1. CASE prev[t] = NoTurn
    BY <1>2, <2>1 DEF PrevIsPredecessor, Enqueued
  <2>2. CASE prev[t] # NoTurn
    <3>1. PICK p \in Turns : p = prev[t] /\ p \in settled
      BY <2>2 DEF Start, QueueTypeOK
    <3>2. \A u \in Turns : Before(u, t) => u = p \/ Before(u, p)
      BY <1>2, <2>2, <3>1 DEF PrevIsPredecessor, Enqueued
    <3>3. Started(p)
      BY <3>1 DEF SettledIsFinished, Started
    <3>4. QED
      BY <3>1, <3>2, <3>3 DEF SettledInOrder
  <2>3. QED
    BY <2>1, <2>2
<1>8. SettledInOrder'
  BY <1>2, <1>4, <1>7 DEF SettledInOrder, Started
<1>9. QED
  BY <1>1, <1>5, <1>6, <1>8

LEMMA FinishKeepsChain ==
  ASSUME ChainInv, NEW t \in Turns, NEW outcome \in Finished, Finish(t, outcome)
  PROVE  ChainInv'
<1> USE QueueAssumption DEF ChainInv
<1>1. QueueTypeOK'
  BY TypeStep DEF QueueNext, TurnStep
<1>2. /\ stage[t] = "running" /\ stage'[t] \in Finished
      /\ \A u \in Turns \ {t} : stage'[u] = stage[u]
      /\ UNCHANGED <<queues, prev, settled, arrivals, ticket>>
  BY DEF Finish, QueueTypeOK
<1>3. \A u \in Turns : (Enqueued(u)' <=> Enqueued(u)) /\ (Started(u)' <=> Started(u))
  BY <1>2 DEF Enqueued, Started, Finished
<1>4. \A u, v \in Turns : Before(u, v)' <=> Before(u, v)
  BY <1>2, <1>3 DEF Before
<1>5. TicketInv' /\ SettledIsFinished' /\ SettledInOrder'
  BY <1>2, <1>3, <1>4 DEF TicketInv, SettledIsFinished, SettledInOrder, QueueTypeOK
<1>6. \A v \in Turns : prev[v] # NoTurn => prev[v] \in Turns
  BY DEF QueueTypeOK
<1>7. PrevIsPredecessor'
  BY <1>2, <1>3, <1>4, <1>6 DEF PrevIsPredecessor
<1>8. \A k \in Keys : queues[k] # NoTurn => queues[k] \in Turns
  BY DEF QueueTypeOK
<1>9. EntryIsLast'
  BY <1>2, <1>3, <1>8 DEF EntryIsLast
<1>10. QED
  BY <1>1, <1>5, <1>7, <1>9

\* The clean-up removes an entry only when nothing of the key is left to wait
\* for: the entry is the last turn, and SettledInOrder covers the others.
LEMMA SettleKeepsChain ==
  ASSUME ChainInv, NEW t \in Turns, Settle(t)
  PROVE  ChainInv'
<1> USE QueueAssumption DEF ChainInv
<1>1. QueueTypeOK'
  BY TypeStep DEF QueueNext, TurnStep
<1>2. /\ stage[t] \in Finished /\ settled' = settled \cup {t}
      /\ UNCHANGED <<prev, stage, arrivals, ticket>>
  BY DEF Settle
<1>3. \A u \in Turns : (Enqueued(u)' <=> Enqueued(u)) /\ (Started(u)' <=> Started(u))
  BY <1>2 DEF Enqueued, Started
<1>4. \A u, v \in Turns : Before(u, v)' <=> Before(u, v)
  BY <1>2, <1>3 DEF Before
<1>5. TicketInv' /\ SettledIsFinished' /\ SettledInOrder'
  BY <1>2, <1>3, <1>4 DEF TicketInv, SettledIsFinished, SettledInOrder
<1>6. PrevIsPredecessor'
  <2>1. \A v \in Turns : prev[v] # NoTurn => prev[v] \in Turns
    BY DEF QueueTypeOK
  <2>2. QED
    BY <1>2, <1>3, <1>4, <2>1 DEF PrevIsPredecessor
<1>7. Enqueued(t) /\ Started(t)
  BY <1>2 DEF Enqueued, Started, Finished
<1>8. ASSUME NEW k \in Keys, queues'[k] = queues[k], queues[k] # t
      PROVE  /\ queues'[k] = NoTurn => \A u \in Turns : KeyOf[u] = k /\ Enqueued(u)' => u \in settled'
             /\ queues'[k] # NoTurn =>
                  /\ KeyOf[queues'[k]] = k
                  /\ stage'[queues'[k]] # "new"
                  /\ queues'[k] \notin settled'
                  /\ \A u \in Turns : KeyOf[u] = k /\ Enqueued(u)' => ticket'[u] <= ticket'[queues'[k]]
  BY <1>2, <1>3, <1>8 DEF EntryIsLast, Enqueued
<1>9. CASE queues[KeyOf[t]] = t
  <2>1. \A u \in Turns : KeyOf[u] = KeyOf[t] /\ Enqueued(u) => u = t \/ Before(u, t)
    BY <1>7, <1>9 DEF EntryIsLast, TicketInv, QueueTypeOK, Before
  <2>2. \A u \in Turns : KeyOf[u] = KeyOf[t] /\ Enqueued(u)' => u \in settled'
    BY <1>2, <1>3, <1>7, <2>1 DEF SettledInOrder
  <2>3. queues' = [queues EXCEPT ![KeyOf[t]] = NoTurn]
    BY <1>9 DEF Settle
  <2>4. \A k \in Keys : k # KeyOf[t] => queues'[k] = queues[k] /\ queues[k] # t
    BY <2>3 DEF QueueTypeOK, EntryIsLast
  <2>5. queues'[KeyOf[t]] = NoTurn
    BY <2>3 DEF QueueTypeOK
  <2>6. QED
    BY <1>1, <1>5, <1>6, <1>8, <2>2, <2>4, <2>5 DEF EntryIsLast, Enqueued
<1>10. CASE queues[KeyOf[t]] # t
  <2>1. \A k \in Keys : queues'[k] = queues[k] /\ queues[k] # t
    BY <1>10 DEF Settle, QueueTypeOK, EntryIsLast
  <2>2. QED
    BY <1>1, <1>5, <1>6, <1>8, <2>1 DEF EntryIsLast, Enqueued
<1>11. QED
  BY <1>9, <1>10
-----------------------------------------------------------------------------
LEMMA ChainInvariant == QueueSpec => []ChainInv
<1>1. QueueInit => ChainInv
  BY QueueAssumption
  DEF QueueInit, ChainInv, QueueTypeOK, Stages, TicketInv, SettledIsFinished,
      PrevIsPredecessor, EntryIsLast, SettledInOrder, Before, Enqueued
<1>2. ChainInv /\ [QueueNext]_queueVars => ChainInv'
  <2>1. ASSUME ChainInv, UNCHANGED queueVars PROVE ChainInv'
    BY <2>1
    DEF queueVars, ChainInv, QueueTypeOK, TicketInv, SettledIsFinished,
        PrevIsPredecessor, EntryIsLast, SettledInOrder, Before, Enqueued, Started
  <2>2. QED
    BY <2>1, EnqueueKeepsChain, StartKeepsChain, FinishKeepsChain, SettleKeepsChain
    DEF QueueNext, TurnStep, AllSettled
<1>3. QED
  BY <1>1, <1>2, PTL DEF QueueSpec

\* A turn starts only when every turn enqueued before it under its key has
\* finished, however rejections and clean-ups were interleaved with enqueue.
THEOREM FirstInFirstOut == QueueSpec => []FifoOrder
<1>1. ChainInv => FifoOrder
  BY DEF ChainInv, FifoOrder, SettledInOrder, SettledIsFinished
<1>2. QED
  BY <1>1, ChainInvariant, PTL

\* Two turns of one routing key never run together.
THEOREM NoTwoTurnsTogether == QueueSpec => []MutualExclusion
<1>1. ChainInv => MutualExclusion
  <2> SUFFICES ASSUME ChainInv, NEW t \in Turns, NEW u \in Turns, t # u, KeyOf[t] = KeyOf[u],
                      stage[t] = "running", stage[u] = "running"
               PROVE  FALSE
    BY DEF MutualExclusion
  <2>1. Before(t, u) \/ Before(u, t)
    BY DEF ChainInv, TicketInv, QueueTypeOK, Before, Enqueued
  <2>2. QED
    BY <2>1 DEF ChainInv, SettledInOrder, SettledIsFinished, Started, Finished
<1>2. QED
  BY <1>1, ChainInvariant, PTL

\* The Map holds the last unsettled turn of a key and nothing else: no entry
\* leaks and none is removed that a later turn has to be chained to.
THEOREM MapIsExact == QueueSpec => []EntryIsLastPending
<1>1. ChainInv => EntryIsLastPending
  <2> SUFFICES ASSUME ChainInv, NEW k \in Keys
               PROVE  LET pending == {t \in Turns : KeyOf[t] = k /\ Enqueued(t) /\ t \notin settled}
                      IN IF pending = {}
                         THEN queues[k] = NoTurn
                         ELSE /\ queues[k] \in pending
                              /\ \A t \in pending : ticket[t] <= ticket[queues[k]]
    BY DEF EntryIsLastPending
  <2> DEFINE pending == {t \in Turns : KeyOf[t] = k /\ Enqueued(t) /\ t \notin settled}
  <2>1. CASE queues[k] = NoTurn
    BY <2>1 DEF ChainInv, EntryIsLast
  <2>2. CASE queues[k] # NoTurn
    <3>1. queues[k] \in pending
      BY <2>2 DEF ChainInv, EntryIsLast, QueueTypeOK
    <3>2. \A t \in pending : ticket[t] <= ticket[queues[k]]
      BY <2>2 DEF ChainInv, EntryIsLast
    <3>3. QED
      BY <3>1, <3>2
  <2>3. QED
    BY <2>1, <2>2
<1>2. QED
  BY <1>1, ChainInvariant, PTL
-----------------------------------------------------------------------------
\* The promise chains implement the FIFO line per key: enqueue is an arrival,
\* a start is a beginning FifoTurns allows, a settlement is invisible.
THEOREM QueueImplementsFifo == QueueSpec => ImplementsFifo
<1>1. QueueInit => Fifo!FifoInit
  BY DEF QueueInit, Fifo!FifoInit, StatusOf
<1>2. ChainInv /\ [QueueNext]_queueVars => [Fifo!FifoNext]_(Fifo!fifoVars)
  <2> SUFFICES ASSUME ChainInv, [QueueNext]_queueVars
               PROVE  [Fifo!FifoNext]_(Fifo!fifoVars)
    OBVIOUS
  <2> DEFINE status == [t \in Turns |-> StatusOf(t)]
  <2> USE DEF StatusOf, Finished
  <2>1. ASSUME NEW t \in Turns, Enqueue(t) PROVE Fifo!Arrive(t)
    <3>1. stage' = [stage EXCEPT ![t] = "queued"] /\ stage[t] = "new"
      BY <2>1 DEF Enqueue
    <3>2. status[t] = "away" /\ status' = [status EXCEPT ![t] = "waiting"]
      BY <3>1 DEF ChainInv, QueueTypeOK
    <3>3. QED
      BY <2>1, <3>2 DEF Fifo!Arrive, Enqueue
  <2>2. ASSUME NEW t \in Turns, Start(t) PROVE Fifo!Begin(t)
    <3>1. stage' = [stage EXCEPT ![t] = "running"] /\ stage[t] = "queued"
      BY <2>2 DEF Start
    <3>2. status[t] = "waiting" /\ status' = [status EXCEPT ![t] = "active"]
      BY <3>1 DEF ChainInv, QueueTypeOK
    <3>3. \A u \in Turns : Fifo!Earlier(u, t) => status[u] = "ended"
      <4>1. ChainInv'
        BY <2>2, StartKeepsChain
      <4>2. SUFFICES ASSUME NEW u \in Turns, Fifo!Earlier(u, t)
                     PROVE  stage[u] \in Finished
        BY DEF ChainInv, QueueTypeOK
      <4>3. Before(u, t)' /\ Started(t)' /\ u # t
        BY <2>2, <3>1, <4>2
        DEF Fifo!Earlier, Before, Started, Enqueued, Start, ChainInv, TicketInv, QueueTypeOK
      <4>4. u \in settled
        BY <2>2, <4>1, <4>3 DEF ChainInv, SettledInOrder, Start
      <4>5. QED
        BY <4>4 DEF ChainInv, SettledIsFinished
    <3>4. QED
      BY <2>2, <3>2, <3>3 DEF Fifo!Begin, Start
  <2>3. ASSUME NEW t \in Turns, NEW o \in Finished, Finish(t, o) PROVE Fifo!End(t)
    <3>1. stage' = [stage EXCEPT ![t] = o] /\ stage[t] = "running"
      BY <2>3 DEF Finish
    <3>2. status[t] = "active" /\ status' = [status EXCEPT ![t] = "ended"]
      BY <3>1 DEF ChainInv, QueueTypeOK
    <3>3. QED
      BY <2>3, <3>2 DEF Fifo!End, Finish
  <2>4. ASSUME NEW t \in Turns, Settle(t) PROVE UNCHANGED Fifo!fifoVars
    BY <2>4 DEF Settle, Fifo!fifoVars
  <2>5. CASE UNCHANGED queueVars
    BY <2>5 DEF queueVars, Fifo!fifoVars
  <2>6. QED
    BY <2>1, <2>2, <2>3, <2>4, <2>5 DEF QueueNext, TurnStep, AllSettled, Fifo!FifoNext
<1>3. QED
  BY <1>1, <1>2, ChainInvariant, PTL DEF QueueSpec, ImplementsFifo, Fifo!FifoSpec

=============================================================================

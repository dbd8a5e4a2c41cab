----------------------------- MODULE FifoTurns -----------------------------
(***************************************************************************)
(* What a per-key turn queue promises to its callers, with no promise, map *)
(* or callback in sight: turns arrive one after the other, a turn may      *)
(* begin only when every turn of its routing key that arrived before it    *)
(* has ended, and turns of different keys know nothing of each other.      *)
(* SessionTurnQueue implements this specification.                         *)
(***************************************************************************)
EXTENDS Naturals

CONSTANTS
  Turns,    \* the operations handed to the queue
  Keys,     \* routing keys
  KeyOf     \* the routing key of each turn

VARIABLES
  arrivals, \* how many turns have arrived
  ticket,   \* arrival number of a turn, 0 before it arrives
  status    \* where the turn is in its life

fifoVars == <<arrivals, ticket, status>>

Earlier(u, t) ==
  /\ KeyOf[u] = KeyOf[t]
  /\ ticket[u] # 0
  /\ ticket[u] < ticket[t]

FifoInit ==
  /\ arrivals = 0
  /\ ticket = [t \in Turns |-> 0]
  /\ status = [t \in Turns |-> "away"]

Arrive(t) ==
  /\ status[t] = "away"
  /\ arrivals' = arrivals + 1
  /\ ticket' = [ticket EXCEPT ![t] = arrivals + 1]
  /\ status' = [status EXCEPT ![t] = "waiting"]

Begin(t) ==
  /\ status[t] = "waiting"
  /\ \A u \in Turns : Earlier(u, t) => status[u] = "ended"
  /\ status' = [status EXCEPT ![t] = "active"]
  /\ UNCHANGED <<arrivals, ticket>>

End(t) ==
  /\ status[t] = "active"
  /\ status' = [status EXCEPT ![t] = "ended"]
  /\ UNCHANGED <<arrivals, ticket>>

FifoNext == \E t \in Turns : Arrive(t) \/ Begin(t) \/ End(t)

FifoSpec == FifoInit /\ [][FifoNext]_fifoVars
=============================================================================

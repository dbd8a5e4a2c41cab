---------------------------- MODULE RoutedTurns ----------------------------
(***************************************************************************)
(* The turn queue with the keys its turns come with: AgentRunner.runTurn   *)
(* makes one of the session of a turn, or is given one for its channel.    *)
(***************************************************************************)
EXTENDS SessionTurnQueue, SessionRouting

CONSTANT InputOf \* what the routing key of a turn is made of

ASSUME RoutingAssumption ==
  /\ InputOf \in [Turns -> CliInputs \cup ChannelInputs]
  /\ \A t \in Turns : Acceptable(InputOf[t]) /\ KeyOf[t] = RoutingKey(InputOf[t])

\* Turns of one conversation never run together, however their inputs spell
\* it, and a turn is never queued behind one of another conversation: "Core
\* exposes deterministic CLI and channel routing key helpers", "AgentRunner
\* serializes turns per routing key while separate routing keys can run
\* concurrently" (docs/tasks.json, P05-T07).
ConversationsApart ==
  \A t, u \in Turns : t # u =>
    IF SameConversation(InputOf[t], InputOf[u])
    THEN ~(stage[t] = "running" /\ stage[u] = "running")
    ELSE ~(stage[t] = "queued" /\ prev[t] = u)
=============================================================================

--------------------------- MODULE MCAgentRunner ---------------------------
(***************************************************************************)
(* Two turns of one session and one routing key, so that the second waits  *)
(* for the first and meets what it left behind.                            *)
(***************************************************************************)
EXTENDS AgentRunner

CONSTANTS t1, t2, k1, s1

MCTurns    == {t1, t2}
MCKeys     == {k1}
MCSessions == {s1}
OneKey     == [t \in MCTurns |-> k1]
OneSession == [t \in MCTurns |-> s1]
MCFirst    == {t1}
=============================================================================

------------------------- MODULE MCSessionTurnQueue -------------------------
(***************************************************************************)
(* Four turns, three of them of one conversation, so that a clean-up can   *)
(* meet a chain of two later turns while another conversation has a turn   *)
(* of its own.  The three spell their thread differently, and one of them  *)
(* gives the scope that the others have by default.                        *)
(***************************************************************************)
EXTENDS RoutedTurns

CONSTANTS t1, t2, t3, t4, n1, n2

MCTurns     == {t1, t2, t3, t4}
MCNames     == {n1, n2}
MCSpellings == {"plain", "padded"}

Turn(thread, spelling, scope) ==
  [kind |-> "channel", channel |-> [name |-> n1, spelling |-> "plain"],
   ids |-> [f \in {"room", "thread"} |->
             IF f = "room" THEN [name |-> n1, spelling |-> "plain"]
             ELSE [name |-> thread, spelling |-> spelling]],
   scope |-> scope]

MCInputOf ==
  [t \in MCTurns |->
    CASE t = t1 -> Turn(n1, "plain", "default")
      [] t = t2 -> Turn(n1, "padded", "default")
      [] t = t3 -> Turn(n1, "plain", "thread")
      [] OTHER  -> Turn(n2, "plain", "default")]

MCKeyOf == [t \in MCTurns |-> RoutingKey(MCInputOf[t])]
MCKeys  == {MCKeyOf[t] : t \in MCTurns}
=============================================================================

----------------------------- MODULE MCServices -----------------------------
(***************************************************************************)
(* A command; or one call of a provider, through the registry or not, of   *)
(* either provider; or the resolution of three secrets; or an edit that    *)
(* sets a placeholder; or three calls on a configuration of three fields   *)
(* at the same time: edits that set the first field, unset it and set the  *)
(* second, or the last of these beside a merge of the first and third and  *)
(* an overwrite.  The environment sets the third.                          *)
(***************************************************************************)
EXTENDS Services

CONSTANTS sh, p1, p2, p3, p4, r1, e1, e2, e3, e4, e5, w1, f1, f2, f3

MCChatCalls   == {p1, p2, p3, p4}
MCDirect      == {p2, p4}
MCMocked      == {p3, p4}
MCResolutions == {r1}
MCActiveOf    == [c \in {p1, p2, r1} |-> IF c = r1 THEN <<FALSE, TRUE, FALSE>> ELSE <<TRUE>>]
MCEdits       == {e1, e2, e3, e4, e5}
MCOverwrites  == {w1}
MCFields      == {f1, f2, f3}
MCOverridden  == {f3}

MCPatchOf ==
  [c \in MCEdits \cup MCOverwrites |->
    CASE c = e1 -> [f \in {f1} |-> c]
      [] c = e2 -> [f \in {f1} |-> Unset]
      [] c = e3 -> [f \in {f2} |-> c]
      [] c = e4 -> [f \in {f1, f3} |-> c]
      [] c = e5 -> [f \in {f2} |-> Redacted]
      [] OTHER  -> [f \in MCFields |-> IF f = f1 THEN c ELSE Unset]]

MCCalls     == {sh} \cup MCChatCalls \cup MCResolutions \cup MCEdits \cup MCOverwrites
MCTogether  == {{c} : c \in {sh} \cup MCChatCalls \cup MCResolutions} \cup {{e1, e2, e3}, {e3, e4, w1}, {e5}}
MCShellOnly == {{sh}}
=============================================================================

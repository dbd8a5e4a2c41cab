------------------------- MODULE MCTranscriptStore -------------------------
(***************************************************************************)
(* Three appends and a read of one session: enough for a torn line, the    *)
(* line it spoils and a line after that.                                   *)
(***************************************************************************)
EXTENDS TranscriptStore

CONSTANTS a1, a2, a3, r1, s1

MCAppends  == {a1, a2, a3}
MCReads    == {r1}
MCSessions == {s1}
OneSession == [x \in MCAppends \cup MCReads |-> s1]
=============================================================================

------------------------------ MODULE MCTools ------------------------------
(***************************************************************************)
(* A file that may be there or not and three calls at the same time: one   *)
(* that creates it beside one that overwrites and one that reads it, two   *)
(* that overwrite it beside a reader, or three that overwrite it; or a     *)
(* request beside a read.  There are two milliseconds in which overwrites  *)
(* choose their temporary files.                                           *)
(***************************************************************************)
EXTENDS Tools

CONSTANTS c1, o1, o2, o3, r1, w1, n1, n2

MCCreates    == {c1}
MCOverwrites == {o1, o2, o3}
MCReads      == {r1}
MCWebCalls   == {w1}
MCCalls      == {c1, o1, o2, o3, r1, w1}
MCTogether   == {{c1, o1, r1}, {o1, o2, r1}, {o1, o2, o3}, {r1, w1}}
MCNames      == {n1, n2}
=============================================================================

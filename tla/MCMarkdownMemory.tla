-------------------------- MODULE MCMarkdownMemory --------------------------
(***************************************************************************)
(* Three writes and a search: all in the root file, all in memory, all in  *)
(* the notes of one day, or in those of two days, both of which the search *)
(* goes through.  One of the writes quotes the end marker; it is in        *)
(* another namespace than that of the search.                              *)
(***************************************************************************)
EXTENDS MarkdownMemory

CONSTANTS w1, w2, w3, s1, root, day1, day2, memory

MCWrites   == {w1, w2, w3}
MCSearches == {s1}
MCDays     == {day1, day2}
MCScenarios ==
  LET both(p) == [place |-> [w \in MCWrites |-> p], scan |-> [s \in MCSearches |-> <<p>>]]
  IN {both(root), both(memory), both(day1)} \cup
     {[place |-> (w1 :> d1 @@ w2 :> d2 @@ w3 :> day2), scan |-> (s1 :> <<day1, day2>>)] :
        d1 \in {day1, day2}, d2 \in {day1, day2}}
=============================================================================

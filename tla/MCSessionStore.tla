--------------------------- MODULE MCSessionStore ---------------------------
(***************************************************************************)
(* A session that is created, touched and noted, a second one that is      *)
(* created, and a list.  Either the first session has a caller of its own  *)
(* beside whom the second is created and the list made, or it has two at   *)
(* the same time.                                                          *)
(***************************************************************************)
EXTENDS SessionStore, TLC

CONSTANTS c1, c2, u1, u2, l1, s1, s2

MCSessions  == {s1, s2}
MCSessionOf == (c1 :> s1) @@ (u1 :> s1) @@ (u2 :> s1) @@ (c2 :> s2)
OnePerSession == (c1 :> 1) @@ (u1 :> 1) @@ (u2 :> 1) @@ (c2 :> 2) @@ (l1 :> 2)
\* u1 and u2 are called by turns under different routing keys.
TwoPerSession == (c1 :> 1) @@ (u1 :> 1) @@ (u2 :> 2) @@ (c2 :> 1) @@ (l1 :> 1)
MCCallings == {OnePerSession, TwoPerSession}
=============================================================================

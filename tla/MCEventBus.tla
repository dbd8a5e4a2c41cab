----------------------------- MODULE MCEventBus -----------------------------
(***************************************************************************)
(* Two subscribers, one of them subscribed twice, so that one can leave    *)
(* and come back behind the cursor; one emitter with two events, another   *)
(* with one that overlaps them.                                            *)
(***************************************************************************)
EXTENDS EventBus

CONSTANTS h1, h2, h3, s1, s2, m1, m2

MCSubscriptions == {h1, h2, h3}
MCSubscribers   == {s1, s2}
MCSubscriberOf  == [h \in MCSubscriptions |-> IF h = h2 THEN s2 ELSE s1]
MCEvents        == {<<m1, 1>>, <<m1, 2>>, <<m2, 1>>}
=============================================================================

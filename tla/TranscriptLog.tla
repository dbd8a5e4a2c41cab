--------------------------- MODULE TranscriptLog ---------------------------
(***************************************************************************)
(* What a caller of the transcript store can hope for: per session one log *)
(* to which an event is added at once and at most once, reads that return  *)
(* the whole log as it stands at some moment during the read, and an event *)
(* that stays for ever once it was both in the log and acknowledged.  Only *)
(* the last event, if nobody acknowledged it, may vanish, and no more than *)
(* MaxLost acknowledgements are given for events that are not in the log.  *)
(* With MaxLost = 0 this is the log one would like to have.                *)
(***************************************************************************)
EXTENDS Sequences, Naturals, FiniteSets

CONSTANTS
  Appends, Reads, Sessions,
  SessionOf, \* the session an append or a read is about
  Unread,    \* what a read that has not returned has seen
  MaxLost    \* acknowledged events that are not in the log

VARIABLES
  log,       \* the events of each session, by numbers that only give their order
  acked,     \* the appends that were acknowledged
  seen       \* what each read returned

logSpecVars == <<log, acked, seen>>

LogInit ==
  /\ log = [s \in Sessions |-> <<>>]
  /\ acked = {}
  /\ seen = [r \in Reads |-> Unread]

InLog(a) == \E i \in DOMAIN log[SessionOf[a]] : log[SessionOf[a]][i] = a

AddEvent(a) ==
  LET events == log[SessionOf[a]] IN
  /\ ~InLog(a) /\ a \notin acked
  /\ \E n \in DOMAIN log'[SessionOf[a]] :
       /\ \A i \in DOMAIN events : i < n
       /\ log' = [log EXCEPT ![SessionOf[a]] =
                    [i \in DOMAIN events \cup {n} |-> IF i = n THEN a ELSE events[i]]]
  /\ UNCHANGED <<acked, seen>>

RetractEvent(a) ==
  LET events == log[SessionOf[a]] IN
  /\ a \notin acked
  /\ \E n \in DOMAIN events :
       /\ events[n] = a
       /\ \A i \in DOMAIN events : i <= n
       /\ log' = [log EXCEPT ![SessionOf[a]] = [i \in DOMAIN events \ {n} |-> events[i]]]
  /\ UNCHANGED <<acked, seen>>

Acknowledge(a) ==
  /\ a \notin acked
  /\ acked' = acked \cup {a}
  /\ Cardinality({b \in acked' : ~InLog(b)}) <= MaxLost
  /\ UNCHANGED <<log, seen>>

ReadLog(r) ==
  /\ seen[r] = Unread
  /\ seen' = [seen EXCEPT ![r] = log[SessionOf[r]]]
  /\ UNCHANGED <<log, acked>>

LogNext ==
  \/ \E a \in Appends : AddEvent(a) \/ RetractEvent(a) \/ Acknowledge(a)
  \/ \E r \in Reads : ReadLog(r)

LogSpec == LogInit /\ [][LogNext]_logSpecVars
=============================================================================

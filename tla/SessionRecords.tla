--------------------------- MODULE SessionRecords ---------------------------
(***************************************************************************)
(* What a caller of the session store can hope for: a record per session   *)
(* that a creation puts there, an update changes in one step and a failure *)
(* or a crash leaves as it was before or after.  A record is the set of    *)
(* operations that made it what it is.                                     *)
(***************************************************************************)
CONSTANTS
  Creates, Updates, Sessions,
  SessionOf  \* the session an operation is about

VARIABLE record \* {} while there is none

RecordsInit == record = [s \in Sessions |-> {}]

CreateRecord(o) ==
  /\ record[SessionOf[o]] = {}
  /\ record' = [record EXCEPT ![SessionOf[o]] = {o}]

UpdateRecord(o) ==
  /\ record[SessionOf[o]] # {}
  /\ o \notin record[SessionOf[o]]
  /\ record' = [record EXCEPT ![SessionOf[o]] = @ \cup {o}]

RecordsNext == (\E o \in Creates : CreateRecord(o)) \/ (\E o \in Updates : UpdateRecord(o))

RecordsSpec == RecordsInit /\ [][RecordsNext]_record
=============================================================================

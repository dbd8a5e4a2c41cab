---------------------------- MODULE SessionStore ----------------------------
(***************************************************************************)
(* DirectorySessionStore of packages/core/src/session-store.ts: a JSON     *)
(* document per session, written to <path>.tmp and renamed over <path>.    *)
(* The store takes no lock: an update is a load, a write of the whole      *)
(* document and a rename, with other operations between any two of them.   *)
(*                                                                         *)
(* Files are inodes, because a rename moves the file another writer may    *)
(* still have open.  An inode is named after the operation that created it *)
(* and holds a set of pieces: {} when empty or truncated, {d} when it is   *)
(* the whole document d and nothing else; a scrap is an unfinished write.  *)
(*                                                                         *)
(* Operations of one lane are called one after the other, as the turns of  *)
(* one routing key do; those of different lanes run together.              *)
(*                                                                         *)
(* Left out: attribute values, of which the set of updates they come from  *)
(* is kept; the audit records of the file accesses.                        *)
(***************************************************************************)
EXTENDS Naturals, FiniteSets, FiniteSetsExt

CONSTANTS
  Creates, Touches, Notes, Lists, \* operations; Touches and Notes are updates
  Sessions,
  SessionOf,  \* the session a create or update is about
  Callings,   \* who may call which operation: functions from operations to lanes
  NoFile,     \* no such directory entry
  Scrap,      \* the piece an unfinished write leaves
  MaxCrashes  \* bound on restarts of the process

Updates == Touches \cup Notes
Writers == Creates \cup Updates
Ops     == Writers \cup Lists

Documents == [edits : SUBSET Writers, touchedAt : Nat, updatedAt : Nat]

ASSUME SessionStoreAssumption ==
  /\ Creates \cap Updates = {} /\ Writers \cap Lists = {}
  /\ Scrap \notin Documents
  /\ SessionOf \in [Writers -> Sessions]
  /\ \A c, d \in Creates : SessionOf[c] = SessionOf[d] => c = d \* session ids are fresh
  /\ \A calling \in Callings : DOMAIN calling = Ops
  /\ NoFile \notin Ops
  /\ MaxCrashes \in Nat

VARIABLES
  at,      \* the await at which an operation stands
  result,  \* what it returned
  next,    \* the document a writer is about to write
  handle,  \* the file a writer has open
  content, \* the pieces in a file
  tmp,     \* the entry <id>.json.tmp
  live,    \* the entry <id>.json
  todo,    \* sessions a list has still to load
  got,     \* what a list has found
  unread,  \* history: sessions a list left out as their files could not be read
  laneOf,  \* the caller of each operation, chosen initially
  clock,   \* reads of the clock so far
  stamp,   \* history: when a writer read the clock
  before,  \* history: creates and updates acknowledged when a list was called
  crashes  \* restarts so far

fileVars == <<handle, content, tmp, live>>
listVars == <<todo, got, unread>>
histVars == <<clock, stamp>>
sessionVars == <<at, result, next, fileVars, listVars, histVars, before, laneOf, crashes>>

NoDocument == [edits |-> {}, touchedAt |-> 0, updatedAt |-> 0]

SessionInit ==
  /\ at = [o \in Ops |-> "idle"]
  /\ result = [o \in Ops |-> "none"]
  /\ next = [o \in Writers |-> NoDocument]
  /\ handle = [o \in Writers |-> NoFile]
  /\ content = [o \in Writers |-> {}]
  /\ tmp = [s \in Sessions |-> NoFile]
  /\ live = [s \in Sessions |-> NoFile]
  /\ todo = [o \in Lists |-> {}]
  /\ got = [o \in Lists |-> {}]
  /\ unread = [o \in Lists |-> {}]
  /\ laneOf \in Callings
  /\ clock = 0
  /\ stamp = [o \in Writers |-> 0]
  /\ before = [o \in Lists |-> {}]
  /\ crashes = 0

Whole(i) == i # NoFile /\ Cardinality(content[i]) = 1 /\ Scrap \notin content[i]
DocumentIn(i) == CHOOSE d \in content[i] : TRUE
Acked(o) == result[o] = "ok"

Goto(o, from, to) == at[o] = from /\ at' = [at EXCEPT ![o] = to]
Return(o, from, r) == Goto(o, from, "over") /\ result' = [result EXCEPT ![o] = r]

\* clock.nowIso(), and the document built with it.
Stamp(o, doc) ==
  /\ clock' = clock + 1
  /\ stamp' = [stamp EXCEPT ![o] = clock + 1]
  /\ next' = [next EXCEPT ![o] = doc]
-----------------------------------------------------------------------------
(* Calls *)

LaneIsFree(o) == \A p \in Ops : laneOf[p] = laneOf[o] => at[p] \in {"idle", "over"}

CallCreate(o) ==
  /\ LaneIsFree(o)
  /\ Goto(o, "idle", "authorizing")
  /\ Stamp(o, [edits |-> {o}, touchedAt |-> 0, updatedAt |-> clock + 1])
  /\ UNCHANGED <<result, fileVars, listVars, before, laneOf, crashes>>

CallUpdate(o) ==
  /\ LaneIsFree(o)
  /\ Goto(o, "idle", "loading")
  /\ UNCHANGED <<result, next, fileVars, listVars, histVars, before, laneOf, crashes>>

CallList(o) ==
  /\ LaneIsFree(o)
  /\ Goto(o, "idle", "listing")
  /\ before' = [before EXCEPT ![o] = {p \in Writers : Acked(p)}]
  /\ UNCHANGED <<result, next, fileVars, listVars, histVars, laneOf, crashes>>
-----------------------------------------------------------------------------
(* load, as update and list use it, and the first half of update *)

\* What load(id) finds: a document, or an error.
LoadError(s) ==
  IF live[s] = NoFile THEN "not_found" ELSE IF Whole(live[s]) THEN "none" ELSE "invalid"

\* An unsafe id, a path outside the roots, an unreadable or malformed file.
FailLoad(o) ==
  /\ \E e \in {"invalid", LoadError(SessionOf[o])} : e # "none" /\ Return(o, "loading", e)
  /\ UNCHANGED <<next, fileVars, listVars, histVars, before, laneOf, crashes>>

\* Bug (mutation runs only): any write counts as an interaction.
BugLoadForUpdateAlwaysTouches(o) ==
  LET current == DocumentIn(live[SessionOf[o]]) IN
  /\ o \in Updates
  /\ LoadError(SessionOf[o]) = "none"
  /\ Goto(o, "loading", "authorizing")
  /\ Stamp(o, [edits |-> current.edits \cup {o}, touchedAt |-> clock + 1, updatedAt |-> clock + 1])
  /\ UNCHANGED <<result, fileVars, listVars, before, laneOf, crashes>>

\* The new document is built from the one that was read, right after the read.
LoadForUpdate(o) ==
  LET current == DocumentIn(live[SessionOf[o]]) IN
  /\ o \in Updates
  /\ LoadError(SessionOf[o]) = "none"
  /\ Goto(o, "loading", "authorizing")
  /\ Stamp(o, [edits |-> current.edits \cup {o},
               touchedAt |-> IF o \in Touches THEN clock + 1 ELSE current.touchedAt,
               updatedAt |-> clock + 1])
  /\ UNCHANGED <<result, fileVars, listVars, before, laneOf, crashes>>
-----------------------------------------------------------------------------
(* list: the directory is read, then each session is loaded *)

\* Bug (mutation runs only): a session being written is not listed.
BugReadDirectoryOnlySettled(o) ==
  /\ Goto(o, "listing", "collecting")
  /\ todo' = [todo EXCEPT ![o] = {s \in Sessions : live[s] # NoFile /\ tmp[s] = NoFile}]
  /\ UNCHANGED <<result, next, fileVars, got, unread, histVars, before, laneOf, crashes>>

\* A missing directory is an empty list, any other error a failure.
ReadDirectory(o) ==
  /\ \/ /\ Goto(o, "listing", "collecting")
        /\ todo' = [todo EXCEPT ![o] = {s \in Sessions : live[s] # NoFile}]
        /\ UNCHANGED result
     \/ Return(o, "listing", "invalid") /\ UNCHANGED todo
  /\ UNCHANGED <<next, fileVars, got, unread, histVars, before, laneOf, crashes>>

\* load(id): a session without a whole document, or one whose path does not
\* resolve or whose read rejects, is left out without a word.
LoadListed(o, s) ==
  \/ /\ LoadError(s) = "none"
     /\ got' = [got EXCEPT ![o] = @ \cup { [of |-> s, doc |-> DocumentIn(live[s])] }]
     /\ UNCHANGED unread
  \/ LoadError(s) # "none" /\ UNCHANGED <<got, unread>>
  \/ unread' = [unread EXCEPT ![o] = @ \cup {s}] /\ UNCHANGED got

Collect(o) ==
  /\ at[o] = "collecting"
  /\ \E s \in todo[o] :
       /\ todo' = [todo EXCEPT ![o] = @ \ {s}]
       /\ LoadListed(o, s)
  /\ UNCHANGED <<at, result, next, fileVars, histVars, before, laneOf, crashes>>

ReturnList(o) ==
  /\ o \in Lists /\ todo[o] = {}
  /\ Return(o, "collecting", "ok")
  /\ UNCHANGED <<next, fileVars, listVars, histVars, before, laneOf, crashes>>
-----------------------------------------------------------------------------
(* writeSession *)

Authorize(o) ==
  /\ \/ Goto(o, "authorizing", "opening") /\ UNCHANGED result
     \/ Return(o, "authorizing", "denied")
  /\ UNCHANGED <<next, fileVars, listVars, histVars, before, laneOf, crashes>>

\* Bug (mutation runs only): the document is written in place.
BugOpenTempIsLive(o) ==
  LET s == SessionOf[o]
      i == IF live[s] = NoFile THEN o ELSE live[s] IN
  /\ Goto(o, "opening", "writing")
  /\ handle' = [handle EXCEPT ![o] = i]
  /\ content' = [content EXCEPT ![i] = {}]
  /\ live' = [live EXCEPT ![s] = i]
  /\ UNCHANGED <<result, next, tmp, listVars, histVars, before, laneOf, crashes>>

\* Bug (mutation runs only): a file left behind is not truncated.
BugOpenTempKeepsBytes(o) ==
  LET s == SessionOf[o]
      i == IF tmp[s] = NoFile THEN o ELSE tmp[s] IN
  /\ Goto(o, "opening", "writing")
  /\ handle' = [handle EXCEPT ![o] = i]
  /\ tmp' = [tmp EXCEPT ![s] = i]
  /\ UNCHANGED <<result, next, content, live, listVars, histVars, before, laneOf, crashes>>

\* writeFile opens the temporary file, the one another writer has open included.
OpenTemp(o) ==
  LET s == SessionOf[o]
      i == IF tmp[s] = NoFile THEN o ELSE tmp[s] IN
  /\ Goto(o, "opening", "writing")
  /\ handle' = [handle EXCEPT ![o] = i]
  /\ content' = [content EXCEPT ![i] = {}]
  /\ tmp' = [tmp EXCEPT ![s] = i]
  /\ UNCHANGED <<result, next, live, listVars, histVars, before, laneOf, crashes>>

\* Then it writes from the start of the file: over what is there, with or
\* without a remainder.
WriteTemp(o) ==
  LET i == handle[o] IN
  /\ Goto(o, "writing", "renaming")
  /\ \E kept \in {{}, content[i]} : content' = [content EXCEPT ![i] = kept \cup {next[o]}]
  /\ handle' = [handle EXCEPT ![o] = NoFile]
  /\ UNCHANGED <<result, next, tmp, live, listVars, histVars, before, laneOf, crashes>>

Rename(o) ==
  LET s == SessionOf[o] IN
  /\ tmp[s] # NoFile
  /\ Return(o, "renaming", "ok")
  /\ live' = [live EXCEPT ![s] = tmp[s]]
  /\ tmp' = [tmp EXCEPT ![s] = NoFile]
  /\ UNCHANGED <<next, handle, content, listVars, histVars, before, laneOf, crashes>>

\* What a write that does not come to its end may have put into the file.
Unfinished(o) ==
  \/ UNCHANGED content
  \/ at[o] = "writing" /\ content' = [content EXCEPT ![handle[o]] = @ \cup {Scrap}]

\* mkdir, writeFile or rename rejects; rename must when another writer has
\* renamed the temporary file away.
FailWrite(o) ==
  /\ \E from \in {"opening", "writing", "renaming"} : Return(o, from, "write_failed")
  /\ Unfinished(o)
  /\ handle' = [handle EXCEPT ![o] = NoFile]
  /\ UNCHANGED <<next, tmp, live, listVars, histVars, before, laneOf, crashes>>
-----------------------------------------------------------------------------
\* The process dies with what it was doing; the files stay.
Crash ==
  LET inFlight == {o \in Ops : at[o] \notin {"idle", "over"}}
      writing  == {o \in inFlight : at[o] = "writing"}
  IN /\ crashes < MaxCrashes
     /\ inFlight # {}
     /\ crashes' = crashes + 1
     /\ at' = [o \in Ops |-> IF o \in inFlight THEN "over" ELSE at[o]]
     /\ result' = [o \in Ops |-> IF o \in inFlight THEN "lost" ELSE result[o]]
     /\ \E cut \in SUBSET writing :
          content' = [i \in Writers |->
            IF \E o \in cut : handle[o] = i THEN content[i] \cup {Scrap} ELSE content[i]]
     /\ handle' = [o \in Writers |-> NoFile]
     /\ UNCHANGED <<next, tmp, live, listVars, histVars, before, laneOf>>

AllOver == (\A o \in Ops : at[o] = "over") /\ UNCHANGED sessionVars

SessionNext ==
  \/ \E o \in Creates : CallCreate(o)
  \/ \E o \in Updates : CallUpdate(o) \/ FailLoad(o) \/ LoadForUpdate(o)
  \/ \E o \in Lists : CallList(o) \/ ReadDirectory(o) \/ Collect(o) \/ ReturnList(o)
  \/ \E o \in Writers :
       Authorize(o) \/ OpenTemp(o) \/ WriteTemp(o) \/ Rename(o) \/ FailWrite(o)
  \/ Crash
  \/ AllOver

SessionSpec == SessionInit /\ [][SessionNext]_sessionVars
-----------------------------------------------------------------------------
(* Properties *)

\* The operations on s have one caller.
Serial(s) == \A o, p \in {w \in Writers : SessionOf[w] = s} : laneOf[o] = laneOf[p]

Contains(s, o) == Whole(live[s]) /\ o \in DocumentIn(live[s]).edits

\* If the operations on a session come one after the other, what they report is
\* so, whatever failures, crashes and the files they leave behind: the document
\* is whole and has every update that was acknowledged from then on, and no
\* trace of one that was reported as failed.
ReportsAreTrue ==
  \A o \in Writers : Serial(SessionOf[o]) =>
    /\ Acked(o) => Contains(SessionOf[o], o)
    /\ result[o] \in {"not_found", "invalid", "denied", "write_failed"} => ~Contains(SessionOf[o], o)

\* A list that succeeds has every session with one caller whose creation was
\* acknowledged before the list was called, with every update acknowledged by
\* then, though it reads the files one by one while they are being replaced.
\* Missing is only a session whose file could not be read when its turn came,
\* of which the list says nothing; no session is missing for being written.
ListIsComplete ==
  \A o \in Lists : Acked(o) =>
    \A p \in before[o] : Serial(SessionOf[p]) =>
      \/ \E g \in got[o] : g.of = SessionOf[p] /\ p \in g.doc.edits
      \/ SessionOf[p] \in unread[o]

\* Whoever writes at the same time, the timestamps of a document that can be
\* read are those of the updates it contains: a background write does not make
\* the last interaction any later (docs/tasks.json, P05-T02), and an update
\* that is lost takes its timestamp with it.
TimestampsMatchEdits ==
  \A s \in Sessions : Whole(live[s]) =>
    LET d == DocumentIn(live[s])
        Latest(S) == Max({0} \cup {stamp[o] : o \in S})
    IN d.updatedAt = Latest(d.edits) /\ d.touchedAt = Latest(d.edits \cap Touches)

\* The refinement mapping: a session is the operations in its document.
Records ==
  INSTANCE SessionRecords WITH
    record <- [s \in Sessions |->
                 IF Serial(s) /\ Whole(live[s]) THEN DocumentIn(live[s]).edits ELSE {}]

\* A session with one caller is a record that changes atomically, crashes and
\* failures at every step included.
ImplementsRecords == Records!RecordsSpec
=============================================================================

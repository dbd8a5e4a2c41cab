-------------------------- MODULE TranscriptStore --------------------------
(***************************************************************************)
(* DirectoryTranscriptStore of packages/core/src/transcript-store.ts: one  *)
(* JSONL file per session, appends chained per session exactly as          *)
(* SessionTurnQueue chains turns, reads that wait for the tail of the      *)
(* chain.                                                                  *)
(*                                                                         *)
(* A file is a sequence of lines and a line a sequence of parts, each what *)
(* one append put there: `whole` when its JSON text is complete.  A line   *)
(* is `ended` when its newline is there.  Bytes are added to the line that *)
(* is not ended, if there is one: that is how an append that was cut off   *)
(* shares its line with the next one.  Session files of a run survive a    *)
(* crash of the process, the chains and the calls in progress do not.      *)
(*                                                                         *)
(* Left out: payload contents, of which only validity matters; the audit   *)
(* of the file access; power failures, against which nothing is synced.    *)
(***************************************************************************)
EXTENDS Naturals, Sequences, FiniteSets

CONSTANTS
  Appends,    \* calls of append
  Reads,      \* calls of read
  Sessions,
  SessionOf,  \* the session an append or a read is about
  NoAppend,   \* no entry in writeQueues
  Unread,     \* what a read that has not returned has seen
  MaxTears,   \* bound on appends cut off inside their line
  MaxCrashes  \* bound on restarts of the process

ASSUME StoreAssumption ==
  /\ Appends \cap Reads = {}
  /\ SessionOf \in [Appends \cup Reads -> Sessions]
  /\ NoAppend \notin Appends
  /\ MaxTears \in Nat /\ MaxCrashes \in Nat

VARIABLES
  writeQueues, prev, stage, settled, arrivals, ticket, \* the chains of appends
  file,       \* the lines of each session's file
  written,    \* what of its line an append has put into the file: "none" or,
              \* while it is "authorizing", "nothing"; "torn", "body" or all
              \* of the "line"
  outcome,    \* what the append returned: "none" yet, "ok", "invalid",
              \* "denied", "write_failed" or "lost" with the process
  reading,    \* a read is "idle", "waiting", "reading", "returned" or "failed"
  waitsFor,   \* the append a read found at the tail of the chain
  since,      \* history: appends called before the read was
  seen,       \* the events a read returned
  crashes     \* restarts so far

W == INSTANCE SessionTurnQueue WITH
       Turns <- Appends, Keys <- Sessions, NoTurn <- NoAppend, queues <- writeQueues,
       KeyOf <- [a \in Appends |-> SessionOf[a]]

chainVars == <<writeQueues, prev, stage, settled, arrivals, ticket>>
readVars  == <<reading, waitsFor, since, seen>>
storeVars == <<chainVars, file, written, outcome, readVars, crashes>>

StoreInit ==
  /\ W!QueueInit
  /\ file = [s \in Sessions |-> <<>>]
  /\ written = [a \in Appends |-> "none"]
  /\ outcome = [a \in Appends |-> "none"]
  /\ reading = [r \in Reads |-> "idle"]
  /\ waitsFor = [r \in Reads |-> NoAppend]
  /\ since = [r \in Reads |-> 0]
  /\ seen = [r \in Reads |-> Unread]
  /\ crashes = 0

InProgress == {"torn", "body"}
\* Appends that ended with their line unfinished.
Torn == {a \in Appends : written[a] \in InProgress /\ outcome[a] \in {"write_failed", "lost"}}
-----------------------------------------------------------------------------
(* The file *)

HasOpenLine(f) == f # <<>> /\ ~f[Len(f)].ended

\* Bug (mutation runs only): the newline is left to whoever comes next.
BugAddBytesUnterminated(f, a, whole, ended) ==
  LET parts == IF f = <<>> THEN <<>> ELSE f[1].parts
      part  == [by |-> a, whole |-> whole]
      own   == parts # <<>> /\ parts[Len(parts)].by = a
  IN << [parts |-> IF own THEN [parts EXCEPT ![Len(parts)] = part] ELSE Append(parts, part),
         ended |-> FALSE] >>

\* Bug (mutation runs only): the file is written, not appended to.
BugAddBytesTruncates(f, a, whole, ended) ==
  << [parts |-> << [by |-> a, whole |-> whole] >>, ended |-> ended] >>

\* The file f after append a has got as far as `whole` and `ended` say.
AddBytes(f, a, whole, ended) ==
  LET open  == HasOpenLine(f)
      parts == IF open THEN f[Len(f)].parts ELSE <<>>
      own   == parts # <<>> /\ parts[Len(parts)].by = a
      part  == [by |-> a, whole |-> whole /\ (own \/ written[a] = "nothing")]
      line  == [parts |-> IF own THEN [parts EXCEPT ![Len(parts)] = part] ELSE Append(parts, part),
                ended |-> ended]
  IN IF open THEN [f EXCEPT ![Len(f)] = line] ELSE Append(f, line)

\* A line is an event when it holds one complete JSON text and nothing else;
\* the last line needs no newline for that.
IsEvent(line) == Len(line.parts) = 1 /\ line.parts[1].whole

\* The events by the number of their line.  The array read returns closes the
\* gaps; the numbers in between are those of its malformedLines.
EventsIn(f) == [i \in {i \in DOMAIN f : IsEvent(f[i])} |-> f[i].parts[1].by]

Readable(s) == LET e == EventsIn(file[s]) IN {e[i] : i \in DOMAIN e}
-----------------------------------------------------------------------------
(* append and appendNow *)

\* A session id that is no safe file name is refused before the chain.
RefuseAppend(a) ==
  /\ stage[a] = "new" /\ outcome[a] = "none"
  /\ outcome' = [outcome EXCEPT ![a] = "invalid"]
  /\ UNCHANGED <<chainVars, file, written, readVars, crashes>>

CallAppend(a) ==
  /\ outcome[a] = "none"
  /\ W!Enqueue(a)
  /\ UNCHANGED <<file, written, outcome, readVars, crashes>>

BeginAppend(a) ==
  /\ W!Start(a)
  /\ written' = [written EXCEPT ![a] = "authorizing"]
  /\ UNCHANGED <<file, outcome, readVars, crashes>>

\* appendNow catches everything: its promise resolves with a Result.
ReturnAppend(a, o) ==
  /\ W!Finish(a, "resolved")
  /\ outcome' = [outcome EXCEPT ![a] = o]

\* An invalid payload, a path outside the roots or a denial, which is also what
\* becomes of a policy or an audit sink that throws, end the append before
\* anything is written.
AuthorizeAppend(a) ==
  /\ written[a] = "authorizing" /\ stage[a] = "running"
  /\ \/ written' = [written EXCEPT ![a] = "nothing"] /\ UNCHANGED <<chainVars, outcome>>
     \/ \E o \in {"invalid", "denied"} : ReturnAppend(a, o) /\ UNCHANGED written
  /\ UNCHANGED <<file, readVars, crashes>>

\* appendFile writes in as many pieces as the system takes.
WritePiece(a) ==
  /\ stage[a] = "running"
  /\ \E p \in {"torn", "body", "line"} :
       /\ \/ written[a] = "nothing"
          \/ written[a] = "torn" /\ p # "torn"
          \/ written[a] = "body" /\ p = "line"
       /\ written' = [written EXCEPT ![a] = p]
       /\ file' = [file EXCEPT ![SessionOf[a]] = AddBytes(@, a, p # "torn", p = "line")]
  /\ UNCHANGED <<chainVars, outcome, readVars, crashes>>

AckAppend(a) ==
  /\ written[a] = "line"
  /\ ReturnAppend(a, "ok")
  /\ UNCHANGED <<file, written, readVars, crashes>>

\* mkdir or appendFile fails; what has been written stays.
FailAppend(a) ==
  /\ written[a] \in {"nothing", "torn", "body", "line"}
  /\ written[a] \in InProgress => Cardinality(Torn) < MaxTears
  /\ ReturnAppend(a, "write_failed")
  /\ UNCHANGED <<file, written, readVars, crashes>>

SettleAppend(a) ==
  /\ W!Settle(a)
  /\ UNCHANGED <<file, written, outcome, readVars, crashes>>
-----------------------------------------------------------------------------
(* read *)

\* An unsafe session id.
RefuseRead(r) ==
  /\ reading[r] = "idle"
  /\ reading' = [reading EXCEPT ![r] = "failed"]
  /\ UNCHANGED <<chainVars, file, written, outcome, waitsFor, since, seen, crashes>>

\* The tail of the chain is looked up at once and awaited.
CallRead(r) ==
  /\ reading[r] = "idle"
  /\ reading' = [reading EXCEPT ![r] = "waiting"]
  /\ waitsFor' = [waitsFor EXCEPT ![r] = writeQueues[SessionOf[r]]]
  /\ since' = [since EXCEPT ![r] = arrivals]
  /\ UNCHANGED <<chainVars, file, written, outcome, seen, crashes>>

\* Bug (mutation runs only): the read looks at the chain and does not await it.
BugResumeReadAtOnce(r) ==
  /\ reading[r] = "waiting"
  /\ reading' = [reading EXCEPT ![r] = "reading"]
  /\ UNCHANGED <<chainVars, file, written, outcome, waitsFor, since, seen, crashes>>

ResumeRead(r) ==
  /\ reading[r] = "waiting"
  /\ waitsFor[r] = NoAppend \/ waitsFor[r] \in settled
  /\ reading' = [reading EXCEPT ![r] = "reading"]
  /\ UNCHANGED <<chainVars, file, written, outcome, waitsFor, since, seen, crashes>>

\* readFile returns what is there, appends in progress included; a file that
\* does not exist yet counts as empty, any other error as a failure.
ReadFile(r) ==
  /\ reading[r] = "reading"
  /\ \/ /\ reading' = [reading EXCEPT ![r] = "returned"]
        /\ seen' = [seen EXCEPT ![r] = EventsIn(file[SessionOf[r]])]
     \/ /\ reading' = [reading EXCEPT ![r] = "failed"]
        /\ UNCHANGED seen
  /\ UNCHANGED <<chainVars, file, written, outcome, waitsFor, since, crashes>>
-----------------------------------------------------------------------------
\* The process dies and a new one starts with empty chains on the same files.
Crash ==
  LET inFlight == {a \in Appends : stage[a] \in {"queued", "running"}}
  IN /\ crashes < MaxCrashes
     /\ Cardinality(Torn \cup {a \in inFlight : written[a] \in InProgress}) <= MaxTears
     /\ crashes' = crashes + 1
     /\ outcome' = [a \in Appends |-> IF a \in inFlight THEN "lost" ELSE outcome[a]]
     /\ stage' = [a \in Appends |-> IF a \in inFlight THEN "rejected" ELSE stage[a]]
     /\ settled' = {a \in Appends : stage[a] # "new"}
     /\ writeQueues' = [s \in Sessions |-> NoAppend]
     /\ reading' = [r \in Reads |-> IF reading[r] \in {"waiting", "reading"} THEN "failed" ELSE reading[r]]
     /\ UNCHANGED <<prev, arrivals, ticket, file, written, waitsFor, since, seen>>

AllReturned ==
  /\ \A a \in Appends : a \in settled \/ outcome[a] = "invalid"
  /\ \A r \in Reads : reading[r] \in {"returned", "failed"}
  /\ UNCHANGED storeVars

StoreNext ==
  \/ \E a \in Appends :
       \/ RefuseAppend(a) \/ CallAppend(a) \/ BeginAppend(a) \/ AuthorizeAppend(a)
       \/ WritePiece(a) \/ AckAppend(a) \/ FailAppend(a) \/ SettleAppend(a)
  \/ \E r \in Reads : RefuseRead(r) \/ CallRead(r) \/ ResumeRead(r) \/ ReadFile(r)
  \/ Crash
  \/ AllReturned

StoreSpec == StoreInit /\ [][StoreNext]_storeVars
-----------------------------------------------------------------------------
(* Properties *)

Acked(a) == outcome[a] = "ok"

\* An append that was cut off makes at most one acknowledged event unreadable:
\* the next one ends the line for those that follow.
OneLossPerTear ==
  Cardinality({a \in Appends : Acked(a) /\ a \notin Readable(SessionOf[a])}) <= Cardinality(Torn)

\* A read returns every readable event whose append was called before the read
\* and succeeded, even if it was still in the chain at the time, and the events
\* come back once each and in the order of the calls of append.
ReadsFollowCalls ==
  \A r \in Reads : reading[r] = "returned" =>
    /\ \A i, j \in DOMAIN seen[r] : i < j => ticket[seen[r][i]] < ticket[seen[r][j]]
    /\ \A a \in Appends :
         /\ SessionOf[a] = SessionOf[r] /\ Acked(a) /\ ticket[a] <= since[r]
         /\ a \in Readable(SessionOf[a])
         => \E i \in DOMAIN seen[r] : seen[r][i] = a

\* docs/tasks.json, P05-T03: "Transcript files are JSONL and recoverable line
\* by line."  An event the store acknowledged is there for whoever reads.
AcknowledgedIsReadable ==
  \A a \in Appends : Acked(a) => a \in Readable(SessionOf[a])

\* Seen from outside the store is a log per session with atomic appends and
\* reads, from which nothing vanishes that was acknowledged while it was in it:
\* across failures, crashes and appends cut off anywhere, each of which costs
\* one acknowledged event at most.
Log == INSTANCE TranscriptLog WITH
         log <- [s \in Sessions |-> EventsIn(file[s])],
         acked <- {a \in Appends : Acked(a)},
         MaxLost <- MaxTears

ImplementsLog == Log!LogSpec
=============================================================================

--------------------------- MODULE MarkdownMemory ---------------------------
(***************************************************************************)
(* The stores of packages/memory/src/index.ts: MarkdownMemoryStore with    *)
(* its root file (write, search) and its daily notes (appendDailyNote,     *)
(* searchDailyNotes), and InMemoryStore (write, search), a place that      *)
(* needs no authorization of a file and cannot be damaged.                 *)
(*                                                                         *)
(* A Markdown file is a sequence of pieces, a piece the formatted text of  *)
(* a record or, after an append that was cut off, the first part of one:   *)
(*   "heading"  up to somewhere before the start marker,                   *)
(*   "start"    up to the start marker,                                    *)
(*   "json"     up to somewhere before the closing fence,                  *)
(*   "fence"    up to the closing fence,                                   *)
(*   "end"      up to the end marker, the whole.                           *)
(* A quoting record is one with the text of the end marker in its content, *)
(* which is found before the marker itself.                                *)
(*                                                                         *)
(* The file access is the host's: an append is one write, which may be     *)
(* cut off, and a read sees what has been written.                         *)
(*                                                                         *)
(* Left out: validation of the input, fields of a record but the           *)
(* namespace, ids that are given twice.                                    *)
(***************************************************************************)
EXTENDS Naturals, Sequences, FiniteSets, SequencesExt

CONSTANTS
  Writes,    \* calls of write and appendDailyNote
  Searches,  \* calls of search and searchDailyNotes
  Foreign,   \* writes in another namespace than that of the searches
  Quoting,   \* writes whose content quotes the end marker
  Volatile,  \* the place that is an InMemoryStore
  Scenarios, \* what is called: for each write the place it goes to, and for
             \* each search the places it goes through
  Days,      \* the places that are daily notes
  Limit,     \* limit of a search through daily notes
  MaxTears,  \* bound on appends that are cut off
  MaxFaults  \* bound on other failures

Places == UNION {ToSet(chosen.scan[s]) : chosen \in Scenarios, s \in Searches}

ASSUME MemoryAssumption ==
  /\ Foreign \cup Quoting \subseteq Writes /\ Writes \cap Searches = {}
  /\ \A chosen \in Scenarios :
       chosen.place \in [Writes -> Places] /\ chosen.scan \in [Searches -> Seq(Places) \ {<<>>}]
  /\ Volatile \notin Days
  /\ Limit \in Nat \ {0} /\ MaxTears \in Nat /\ MaxFaults \in Nat

VARIABLES
  place,   \* where a write goes
  scan,    \* the places a search goes through
  at,      \* where a call is
  outcome, \* what its last audit record will say
  trail,   \* its audit records, oldest first
  result,  \* "none", "ok" or "error"
  file,    \* the pieces in each place
  scanned, \* how many places a search has read
  found,   \* the records it has collected
  due,     \* history: the writes acknowledged when it was called
  tears, faults

callVars == <<at, outcome, trail, result>>
scanVars == <<scanned, found, due>>
memVars  == <<place, scan, callVars, file, scanVars, tears, faults>>

Calls == Writes \cup Searches

MemoryInit ==
  /\ \E chosen \in Scenarios : place = chosen.place /\ scan = chosen.scan
  /\ at = [c \in Calls |-> "idle"]
  /\ outcome = [c \in Calls |-> "none"]
  /\ trail = [c \in Calls |-> <<>>]
  /\ result = [c \in Calls |-> "none"]
  /\ file = [p \in Places |-> <<>>]
  /\ scanned = [s \in Searches |-> 0]
  /\ found = [s \in Searches |-> <<>>]
  /\ due = [s \in Searches |-> {}]
  /\ tears = 0 /\ faults = 0
-----------------------------------------------------------------------------
(* parseMarkdownMemoryRecords *)

HasStart(piece) == piece.upto # "heading"
HasFence(piece) == piece.upto \in {"json", "fence", "end"}
HasEnd(piece)   == piece.upto = "end" \/ (piece.upto = "fence" /\ piece.of \in Quoting)

\* The record in the pieces from i to j, of which j has the end: the first
\* fence decides, and it must be closed before the next one and before the end.
Block(pieces, i, j) ==
  LET k == CHOOSE k \in i..j : HasFence(pieces[k]) /\ \A l \in i..(k - 1) : ~HasFence(pieces[l])
  IN IF pieces[k].upto = "json" \/ (k = j /\ pieces[k].of \in Quoting)
     THEN [ok |-> FALSE, records |-> <<>>]
     ELSE [ok |-> TRUE, records |-> <<pieces[k].of>>]

\* Bug (mutation runs only): damage ends the loop instead of failing the call.
BugParseStopsAtDamage(pieces) ==
  LET from[i \in 1..(Len(pieces) + 1)] ==
        LET starts == {k \in i..Len(pieces) : HasStart(pieces[k])} IN
        IF starts = {} THEN [ok |-> TRUE, records |-> <<>>]
        ELSE LET start == Min(starts)
                 ends  == {j \in start..Len(pieces) : HasEnd(pieces[j])}
             IN IF ends = {} \/ ~Block(pieces, start, Min(ends)).ok THEN [ok |-> TRUE, records |-> <<>>]
                ELSE [ok |-> TRUE,
                      records |-> Block(pieces, start, Min(ends)).records \o from[Min(ends) + 1].records]
  IN from[1]

\* Block after block, each from a start marker to the next end marker.
Parse(pieces) ==
  LET from[i \in 1..(Len(pieces) + 1)] ==
        LET starts == {k \in i..Len(pieces) : HasStart(pieces[k])} IN
        IF starts = {} THEN [ok |-> TRUE, records |-> <<>>]
        ELSE LET start == Min(starts)
                 ends  == {j \in start..Len(pieces) : HasEnd(pieces[j])}
             IN IF ends = {} THEN [ok |-> FALSE, records |-> <<>>]
                ELSE LET block == Block(pieces, start, Min(ends))
                         rest  == from[Min(ends) + 1]
                     IN [ok |-> block.ok /\ rest.ok, records |-> block.records \o rest.records]
  IN from[1]
-----------------------------------------------------------------------------
(* Calls, decisions, authorization *)

Goto(c, from, to) == at[c] = from /\ at' = [at EXCEPT ![c] = to]
Fault == faults < MaxFaults /\ faults' = faults + 1
Audit(c, record) == trail' = [trail EXCEPT ![c] = Append(@, record)]

\* The last await of a call that will report this outcome.
CloseWith(c, from, how) == Goto(c, from, "closing") /\ outcome' = [outcome EXCEPT ![c] = how]

InVolatile(c) == IF c \in Writes THEN place[c] = Volatile ELSE scan[c] = <<Volatile>>

Call(c) ==
  /\ Goto(c, "idle", "deciding")
  /\ due' = IF c \in Searches THEN [due EXCEPT ![c] = {w \in Writes : result[w] = "ok"}] ELSE due
  /\ UNCHANGED <<place, scan, outcome, trail, result, file, scanned, found, tears, faults>>

\* Bug (mutation runs only): a decision that could not be audited is acted upon.
BugDecideSinkIgnored(c) ==
  /\ \/ Goto(c, "deciding", IF InVolatile(c) THEN "accessing" ELSE "authorizing") /\ UNCHANGED outcome
     \/ CloseWith(c, "deciding", "denied")
  /\ \/ Audit(c, IF at'[c] = "closing" THEN "deny" ELSE "allow") /\ UNCHANGED faults
     \/ Fault /\ UNCHANGED trail
  /\ UNCHANGED <<place, scan, result, file, scanVars, tears>>

\* The decision and its record; a policy or a sink that throws fails the call.
Decide(c) ==
  /\ \/ /\ Goto(c, "deciding", IF InVolatile(c) THEN "accessing" ELSE "authorizing")
        /\ Audit(c, "allow")
        /\ UNCHANGED <<outcome, faults>>
     \/ CloseWith(c, "deciding", "denied") /\ Audit(c, "deny") /\ UNCHANGED faults
     \/ CloseWith(c, "deciding", "failed") /\ Fault /\ UNCHANGED trail
  /\ UNCHANGED <<place, scan, result, file, scanVars, tears>>

\* The authorizer of the host grants access to the file, denies it, or fails.
AuthorizeFile(c) ==
  /\ \/ Goto(c, "authorizing", "accessing") /\ UNCHANGED <<outcome, faults>>
     \/ CloseWith(c, "authorizing", "denied") /\ UNCHANGED faults
     \/ CloseWith(c, "authorizing", "failed") /\ Fault
  /\ UNCHANGED <<place, scan, trail, result, file, scanVars, tears>>

\* The outcome is audited before it is reported; a sink that throws replaces it.
Close(c) ==
  /\ Goto(c, "closing", "over")
  /\ \/ /\ Audit(c, outcome[c])
        /\ result' = [result EXCEPT ![c] = IF outcome[c] = "succeeded" THEN "ok" ELSE "error"]
        /\ UNCHANGED faults
     \/ result' = [result EXCEPT ![c] = "error"] /\ Fault /\ UNCHANGED trail
  /\ UNCHANGED <<place, scan, outcome, file, scanVars, tears>>
-----------------------------------------------------------------------------
(* Access to the places *)

Store(w, upto) == file' = [file EXCEPT ![place[w]] = Append(@, [of |-> w, upto |-> upto])]

\* appendText, or the set of the Map: the whole record, or an error before or
\* after a part of it, perhaps all of it, was written.
AppendRecord(w) ==
  /\ \/ CloseWith(w, "accessing", "succeeded") /\ Store(w, "end") /\ UNCHANGED <<tears, faults>>
     \/ /\ ~InVolatile(w) /\ CloseWith(w, "accessing", "failed")
        /\ tears < MaxTears /\ tears' = tears + 1
        /\ \E upto \in {"heading", "start", "json", "fence", "end"} : Store(w, upto)
        /\ UNCHANGED faults
     \/ ~InVolatile(w) /\ CloseWith(w, "accessing", "failed") /\ Fault /\ UNCHANGED <<file, tears>>
  /\ UNCHANGED <<place, scan, trail, result, scanVars>>

\* A search through daily notes stops at its limit.
Dated(s) == ToSet(scan[s]) \subseteq Days
Bounded(s, records) == IF Dated(s) /\ Len(records) > Limit THEN SubSeq(records, 1, Limit) ELSE records

\* A Map is read as it is.
RecordsInMemory == [k \in DOMAIN file[Volatile] |-> file[Volatile][k].of]

\* Bug (mutation runs only): a file that is not there counts as damaged.
BugRecoverNothing(p) ==
  IF file[p] = <<>> THEN [ok |-> FALSE, records |-> <<>>] ELSE Parse(file[p])

\* A file that is not there has no records.
Recover(p) == IF p = Volatile THEN [ok |-> TRUE, records |-> RecordsInMemory] ELSE Parse(file[p])

\* filter: the records of the namespace that is searched.
Ours(records) ==
  LET kept[n \in 0..Len(records)] ==
        IF n = 0 THEN <<>>
        ELSE IF records[n] \in Foreign THEN kept[n - 1] ELSE Append(kept[n - 1], records[n])
  IN kept[Len(records)]

\* readText, parsing, the filter and the decision to go on with the next file.
ReadRecords(s) ==
  /\ at[s] = "accessing"
  /\ LET read == Recover(scan[s][scanned[s] + 1])
         more == Bounded(s, found[s] \o Ours(read.records))
         last == scanned[s] + 1 = Len(scan[s]) \/ (Dated(s) /\ Len(more) = Limit)
     IN \/ /\ read.ok
           /\ found' = [found EXCEPT ![s] = more]
           /\ scanned' = [scanned EXCEPT ![s] = @ + 1]
           /\ IF last THEN CloseWith(s, "accessing", "succeeded")
              ELSE Goto(s, "accessing", "authorizing") /\ UNCHANGED outcome
           /\ UNCHANGED faults
        \/ ~read.ok /\ CloseWith(s, "accessing", "invalid") /\ UNCHANGED <<found, scanned, faults>>
        \/ ~InVolatile(s) /\ CloseWith(s, "accessing", "failed") /\ Fault /\ UNCHANGED <<found, scanned>>
  /\ UNCHANGED <<place, scan, trail, result, file, due, tears>>
-----------------------------------------------------------------------------
AllOver == (\A c \in Calls : at[c] = "over") /\ UNCHANGED memVars

CallStep(c) == Call(c) \/ Decide(c) \/ AuthorizeFile(c) \/ Close(c)

WriteStep(w)  == CallStep(w) \/ AppendRecord(w)
SearchStep(s) == CallStep(s) \/ ReadRecords(s)

MemoryNext ==
  \/ \E w \in Writes : WriteStep(w)
  \/ \E s \in Searches : SearchStep(s)
  \/ AllOver

MemorySpec == MemoryInit /\ [][MemoryNext]_memVars
-----------------------------------------------------------------------------
(* Properties *)

Succeeded(s) == s \in Searches /\ result[s] = "ok"

\* The spots of the records in the places of a search, and their order: that of
\* the places and, in a place, of the appends.
Spots(s) == UNION {{k} \X DOMAIN file[scan[s][k]] : k \in DOMAIN scan[s]}
RecordAt(s, spot) == file[scan[s][spot[1]]][spot[2]].of
Before(a, b) == a[1] < b[1] \/ (a[1] = b[1] /\ a[2] < b[2])

\* The search has what is at these spots, in their order.
TakenFrom(s, spot) ==
  /\ \A m \in DOMAIN found[s] : found[s][m] = RecordAt(s, spot[m]) /\ found[s][m] \notin Foreign
  /\ \A l, m \in DOMAIN found[s] : l < m => Before(spot[l], spot[m])

Full(s) == Dated(s) /\ Len(found[s]) = Limit

\* What was acknowledged when the search was called, in a place of the search,
\* and is neither at these spots nor, when the limit was reached, after them.
Skipped(s, spot) ==
  {w \in due[s] \ Foreign :
     /\ \E k \in DOMAIN scan[s] : place[w] = scan[s][k]
     /\ \A q \in Spots(s) : RecordAt(s, q) = w =>
          (\A m \in DOMAIN found[s] : spot[m] # q) /\ (Full(s) => ~Before(spot[Limit], q))}

\* A search that succeeds returns what was acknowledged when it was called, but
\* for one record per append that was cut off, up to its limit and no further;
\* what it returns is of its namespace and in the order of days and appends.
SearchIsComplete ==
  \A s \in Searches : Succeeded(s) =>
    \E spot \in [DOMAIN found[s] -> Spots(s)] :
      TakenFrom(s, spot) /\ Cardinality(Skipped(s, spot)) <= tears

\* Memory that is not damaged can be searched: only an append that was cut off,
\* or a record that quotes the end marker, makes a search fail for what it reads.
OnlyDamageFailsSearch ==
  \A s \in Searches : outcome[s] = "invalid" =>
    \E k \in DOMAIN scan[s] : \E n \in DOMAIN file[scan[s][k]] :
      LET piece == file[scan[s][k]][n] IN piece.upto # "end" \/ piece.of \in Quoting

\* "Writes require memory.write and filesystem.write where appropriate"
\* (docs/tasks.json, P08-T02): a place grows only by a record whose write was
\* allowed, on record, and has not been reported yet.
WritesAreApproved ==
  [][\A p \in Places : file'[p] # file[p] =>
       \E w \in Writes :
         /\ file'[p][Len(file'[p])].of = w /\ place[w] = p
         /\ trail[w] = <<"allow">> /\ result[w] = "none"]_memVars
=============================================================================

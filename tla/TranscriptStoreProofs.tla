------------------------ MODULE TranscriptStoreProofs ------------------------
(***************************************************************************)
(* For any appends, reads, sessions, bounds on failures and restarts: the  *)
(* store is a log per session, a read follows the calls that were made     *)
(* before it, and a cut off append costs one acknowledged event at most.   *)
(*                                                                         *)
(* The invariant has four parts.  The chains of appends are the queue of   *)
(* SessionTurnQueue, restarts included, so that its invariant holds of     *)
(* them (CallsInv, which adds what an append has written and returned by   *)
(* the state of its promise).  The parts of a file are what its appends    *)
(* have put, each once, in the order of their calls; all of a line but its *)
(* last part is of appends that were cut off (FilesInv).  What a read was  *)
(* asked to wait for has settled when it reads, and what has settled does  *)
(* not become readable any more (ReadsInv).  And the guards bound how many *)
(* appends are cut off (TornBound).                                        *)
(***************************************************************************)
EXTENDS TranscriptStore, FiniteSetTheorems, TLAPS
-----------------------------------------------------------------------------
(* Appends and their chains *)

Chain == INSTANCE SessionTurnQueueProofs WITH
           Turns <- Appends, Keys <- Sessions, NoTurn <- NoAppend, queues <- writeQueues,
           KeyOf <- [a \in Appends |-> SessionOf[a]]

Put       == InProgress \cup {"line"}
Finished  == {"resolved", "rejected"}
Written   == {"none", "authorizing", "nothing"} \cup Put
Outcomes  == {"none", "ok", "invalid", "denied", "write_failed", "lost"}

CallsTypeOK == written \in [Appends -> Written] /\ outcome \in [Appends -> Outcomes]

\* What an append has written and returned, by the state of its promise.
CallInv(a) ==
  /\ stage[a] = "new" => written[a] = "none" /\ outcome[a] \in {"none", "invalid"}
  /\ stage[a] = "queued" => written[a] = "none" /\ outcome[a] = "none"
  /\ stage[a] = "running" => written[a] # "none" /\ outcome[a] = "none"
  /\ stage[a] \in Finished => outcome[a] # "none"
  /\ outcome[a] = "ok" => written[a] = "line"
  /\ written[a] \in InProgress => outcome[a] \in {"none", "write_failed", "lost"}

CallsInv == Chain!ChainInv /\ CallsTypeOK /\ \A a \in Appends : CallInv(a)

AppendStep(a) ==
  \/ RefuseAppend(a) \/ CallAppend(a) \/ BeginAppend(a) \/ AuthorizeAppend(a)
  \/ WritePiece(a) \/ AckAppend(a) \/ FailAppend(a) \/ SettleAppend(a)

ReadStep(r) == RefuseRead(r) \/ CallRead(r) \/ ResumeRead(r) \/ ReadFile(r)

\* The chain of appends is the queue of SessionTurnQueue.
LEMMA ChainFacts ==
  /\ Chain!QueueAssumption
  /\ \A a \in Appends : [b \in Appends |-> SessionOf[b]][a] = SessionOf[a] /\ SessionOf[a] \in Sessions
  /\ \A r \in Reads : SessionOf[r] \in Sessions
BY StoreAssumption DEF Chain!QueueAssumption

\* The parts of the chain's invariant that the store's own rests on.
LEMMA ChainSays ==
  ASSUME Chain!ChainInv
  PROVE  /\ stage \in [Appends -> {"new", "queued", "running"} \cup Finished] /\ settled \subseteq Appends
         /\ writeQueues \in [Sessions -> Appends \cup {NoAppend}] /\ arrivals \in Nat /\ ticket \in [Appends -> Nat]
         /\ \A a \in Appends : (stage[a] # "new" <=> ticket[a] # 0) /\ ticket[a] <= arrivals
         /\ \A a, b \in Appends : ticket[a] = ticket[b] /\ stage[a] # "new" => a = b
         /\ \A a \in settled : stage[a] \in Finished
         /\ \A a, b \in Appends :
              SessionOf[a] = SessionOf[b] /\ stage[a] # "new" /\ ticket[a] < ticket[b]
              /\ stage[b] \in Finished \cup {"running"} => a \in settled
         /\ \A s \in Sessions :
              /\ writeQueues[s] = NoAppend => \A a \in Appends : SessionOf[a] = s /\ stage[a] # "new" => a \in settled
              /\ writeQueues[s] # NoAppend =>
                   /\ writeQueues[s] \in Appends /\ SessionOf[writeQueues[s]] = s /\ stage[writeQueues[s]] # "new"
                   /\ \A a \in Appends : SessionOf[a] = s /\ stage[a] # "new" => ticket[a] <= ticket[writeQueues[s]]
<1> USE ChainFacts DEF Chain!ChainInv, Chain!Enqueued, Finished
<1>1. /\ stage \in [Appends -> {"new", "queued", "running"} \cup Finished] /\ settled \subseteq Appends
      /\ writeQueues \in [Sessions -> Appends \cup {NoAppend}] /\ arrivals \in Nat /\ ticket \in [Appends -> Nat]
  BY DEF Chain!QueueTypeOK, Chain!Stages, Chain!Finished
<1>2. /\ \A a \in Appends : (stage[a] # "new" <=> ticket[a] # 0) /\ ticket[a] <= arrivals
      /\ \A a, b \in Appends : ticket[a] = ticket[b] /\ stage[a] # "new" => a = b
  BY DEF Chain!TicketInv
<1>3. \A a \in settled : stage[a] \in Finished
  BY DEF Chain!SettledIsFinished, Chain!Finished
<1>4. ASSUME NEW a \in Appends, NEW b \in Appends, SessionOf[a] = SessionOf[b], stage[a] # "new", ticket[a] < ticket[b],
             stage[b] \in Finished \cup {"running"}
      PROVE  a \in settled
  <2>1. stage[b] # "new"
    BY <1>4
  <2>2. Chain!Before(a, b)
    BY <1>4, <2>1 DEF Chain!Before
  <2>3. Chain!Started(b)
    BY <1>4 DEF Chain!Started, Chain!Finished
  <2>4. QED
    BY <2>2, <2>3 DEF Chain!SettledInOrder
<1>5. \A s \in Sessions :
        /\ writeQueues[s] = NoAppend => \A a \in Appends : SessionOf[a] = s /\ stage[a] # "new" => a \in settled
        /\ writeQueues[s] # NoAppend =>
             /\ writeQueues[s] \in Appends /\ SessionOf[writeQueues[s]] = s /\ stage[writeQueues[s]] # "new"
             /\ \A a \in Appends : SessionOf[a] = s /\ stage[a] # "new" => ticket[a] <= ticket[writeQueues[s]]
  BY <1>1 DEF Chain!EntryIsLast
<1>6. QED
  BY <1>1, <1>2, <1>3, <1>4, <1>5

\* A restart leaves no chain, and nothing to wait for.
LEMMA CrashKeepsChain ==
  ASSUME Chain!ChainInv, Crash
  PROVE  Chain!ChainInv'
<1> USE ChainFacts DEF Chain!ChainInv, Chain!Enqueued, Finished
<1>1. /\ \A a \in Appends : stage'[a] = IF stage[a] \in {"queued", "running"} THEN "rejected" ELSE stage[a]
      /\ settled' = {a \in Appends : stage[a] # "new"} /\ writeQueues' = [s \in Sessions |-> NoAppend]
      /\ stage' = [a \in Appends |-> stage'[a]] /\ UNCHANGED <<prev, arrivals, ticket>>
  BY DEF Crash
<1>2. \A a \in Appends : (stage'[a] = "new" <=> stage[a] = "new") /\ (stage'[a] # "new" => stage'[a] \in Finished)
  BY <1>1, ChainSays
<1>3. Chain!QueueTypeOK'
  <2>1. stage' \in [Appends -> Chain!Stages]
    BY <1>1, <1>2 DEF Chain!Stages, Chain!Finished
  <2>2. QED
    BY <1>1, <2>1 DEF Chain!QueueTypeOK
<1>4. Chain!TicketInv'
  BY <1>1, <1>2 DEF Chain!TicketInv
<1>5. Chain!SettledIsFinished'
  BY <1>1, <1>2 DEF Chain!SettledIsFinished, Chain!Finished
<1>6. \A a, b \in Appends : Chain!Before(a, b)' <=> Chain!Before(a, b)
  BY <1>1, <1>2 DEF Chain!Before
<1>7. \A a, b \in Appends : Chain!Before(a, b)' => a \in settled'
  BY <1>1, <1>2 DEF Chain!Before
<1>8. Chain!PrevIsPredecessor'
  <2>1. \A a \in Appends : prev[a] # NoAppend => prev[a] \in Appends
    BY DEF Chain!QueueTypeOK
  <2>2. QED
    BY <1>1, <1>2, <1>6, <1>7, <2>1 DEF Chain!PrevIsPredecessor
<1>9. Chain!EntryIsLast'
  BY <1>1, <1>2 DEF Chain!EntryIsLast
<1>10. Chain!SettledInOrder'
  BY <1>7 DEF Chain!SettledInOrder
<1>11. QED
  BY <1>3, <1>4, <1>5, <1>8, <1>9, <1>10

\* Every other step is one of the chain, or leaves it alone.
LEMMA StepKeepsChain ==
  ASSUME Chain!ChainInv, [StoreNext]_storeVars
  PROVE  Chain!ChainInv'
<1>1. ASSUME NEW a \in Appends, W!Enqueue(a) PROVE Chain!ChainInv'
  <2>1. Chain!Enqueue(a)
    BY <1>1 DEF W!Enqueue, Chain!Enqueue
  <2>2. QED
    BY <2>1, ChainFacts, Chain!EnqueueKeepsChain
<1>2. ASSUME NEW a \in Appends, W!Start(a) PROVE Chain!ChainInv'
  <2>1. Chain!Start(a)
    BY <1>2 DEF W!Start, Chain!Start
  <2>2. QED
    BY <2>1, ChainFacts, Chain!StartKeepsChain
<1>3. ASSUME NEW a \in Appends, W!Finish(a, "resolved") PROVE Chain!ChainInv'
  <2>1. Chain!Finish(a, "resolved") /\ "resolved" \in Chain!Finished
    BY <1>3 DEF W!Finish, Chain!Finish, Chain!Finished
  <2>2. QED
    BY <2>1, ChainFacts, Chain!FinishKeepsChain
<1>4. ASSUME NEW a \in Appends, W!Settle(a) PROVE Chain!ChainInv'
  <2>1. Chain!Settle(a)
    BY <1>4 DEF W!Settle, Chain!Settle, W!Finished, Chain!Finished
  <2>2. QED
    BY <2>1, ChainFacts, Chain!SettleKeepsChain
<1>5. ASSUME UNCHANGED chainVars PROVE Chain!ChainInv'
  <2> USE <1>5 DEF chainVars, Chain!ChainInv, Chain!Enqueued
  <2>1. Chain!QueueTypeOK' /\ Chain!TicketInv' /\ Chain!SettledIsFinished' /\ Chain!EntryIsLast'
    BY DEF Chain!QueueTypeOK, Chain!TicketInv, Chain!SettledIsFinished, Chain!EntryIsLast
  <2>2. Chain!PrevIsPredecessor'
    BY DEF Chain!PrevIsPredecessor, Chain!Before
  <2>3. Chain!SettledInOrder'
    BY DEF Chain!SettledInOrder, Chain!Before, Chain!Started
  <2>4. QED
    BY <2>1, <2>2, <2>3
<1>6. ASSUME NEW a \in Appends, AppendStep(a) PROVE Chain!ChainInv'
  BY <1>1, <1>2, <1>3, <1>4, <1>5, <1>6 DEF AppendStep, RefuseAppend, CallAppend, BeginAppend, AuthorizeAppend,
     WritePiece, AckAppend, FailAppend, SettleAppend, ReturnAppend
<1>7. ASSUME NEW r \in Reads, ReadStep(r) PROVE Chain!ChainInv'
  BY <1>5, <1>7 DEF ReadStep, RefuseRead, CallRead, ResumeRead, ReadFile
<1>8. QED
  BY <1>5, <1>6, <1>7, CrashKeepsChain DEF StoreNext, AppendStep, ReadStep, AllReturned, storeVars

\* What a step of an append does to it, and to nobody else.
LEMMA AppendKeepsCalls ==
  ASSUME CallsInv, NEW a \in Appends, AppendStep(a)
  PROVE  /\ CallsTypeOK' /\ CallInv(a)' /\ UNCHANGED <<readVars, crashes>>
         /\ \A b \in Appends \ {a} : stage'[b] = stage[b] /\ written'[b] = written[b] /\ outcome'[b] = outcome[b]
<1> USE DEF CallsInv, CallsTypeOK, CallInv, Finished, InProgress, Put, Written, Outcomes
<1>0. stage \in [Appends -> {"new", "queued", "running"} \cup Finished]
  BY ChainSays
<1>1. CASE RefuseAppend(a)
  BY <1>0, <1>1 DEF RefuseAppend, chainVars
<1>2. CASE CallAppend(a)
  BY <1>0, <1>2 DEF CallAppend, W!Enqueue
<1>3. CASE BeginAppend(a)
  BY <1>0, <1>3 DEF BeginAppend, W!Start
<1>4. CASE AuthorizeAppend(a)
  BY <1>0, <1>4 DEF AuthorizeAppend, ReturnAppend, W!Finish, chainVars
<1>5. CASE WritePiece(a)
  BY <1>0, <1>5 DEF WritePiece, chainVars
<1>6. CASE AckAppend(a)
  BY <1>0, <1>6 DEF AckAppend, ReturnAppend, W!Finish
<1>7. CASE FailAppend(a)
  BY <1>0, <1>7 DEF FailAppend, ReturnAppend, W!Finish
<1>8. CASE SettleAppend(a)
  BY <1>0, <1>8 DEF SettleAppend, W!Settle
<1>9. QED
  BY <1>1, <1>2, <1>3, <1>4, <1>5, <1>6, <1>7, <1>8 DEF AppendStep

\* Calls and their chain, whoever steps.
LEMMA StepKeepsCalls == CallsInv /\ [StoreNext]_storeVars => CallsInv'
<1> SUFFICES ASSUME CallsInv, [StoreNext]_storeVars PROVE CallsInv'
  OBVIOUS
<1>1. Chain!ChainInv'
  BY StepKeepsChain DEF CallsInv
<1>2. ASSUME NEW a \in Appends, AppendStep(a) PROVE CallsInv'
  BY <1>1, <1>2, AppendKeepsCalls DEF CallsInv, CallInv
<1>3. ASSUME UNCHANGED <<chainVars, written, outcome>> PROVE CallsInv'
  BY <1>1, <1>3 DEF CallsInv, CallsTypeOK, CallInv, chainVars
<1>4. CASE Crash
  <2>1. stage \in [Appends -> {"new", "queued", "running"} \cup Finished]
    BY ChainSays DEF CallsInv
  <2>2. \A a \in Appends :
          /\ stage'[a] = IF stage[a] \in {"queued", "running"} THEN "rejected" ELSE stage[a]
          /\ outcome'[a] = IF stage[a] \in {"queued", "running"} THEN "lost" ELSE outcome[a]
    BY <1>4 DEF Crash
  <2>3. CallsTypeOK'
    BY <1>4, <2>2 DEF Crash, CallsInv, CallsTypeOK, Outcomes
  <2>4. \A a \in Appends : CallInv(a)'
    BY <1>4, <2>1, <2>2 DEF Crash, CallsInv, CallInv, Finished, InProgress
  <2>5. QED
    BY <1>1, <2>3, <2>4 DEF CallsInv
<1>5. ASSUME NEW r \in Reads, ReadStep(r) PROVE CallsInv'
  BY <1>3, <1>5 DEF ReadStep, RefuseRead, CallRead, ResumeRead, ReadFile
<1>6. QED
  BY <1>2, <1>3, <1>4, <1>5 DEF StoreNext, AppendStep, ReadStep, AllReturned, storeVars

-----------------------------------------------------------------------------
(* Files *)

Parts == [by : Appends, whole : BOOLEAN]
Lines == [parts : Seq(Parts), ended : BOOLEAN]

\* A file f of session s: every part is what some append of s has put, once,
\* and the parts of a line but the last are of appends that were cut off.
FileOK(f, s) ==
  /\ f \in Seq(Lines)
  /\ \A i \in 1..Len(f) : Len(f[i].parts) > 0 /\ (i < Len(f) => f[i].ended)
  /\ \A i \in 1..Len(f) : \A j \in 1..Len(f[i].parts) :
       LET a == f[i].parts[j].by IN
       /\ SessionOf[a] = s /\ written[a] \in Put
       /\ f[i].parts[j].whole <=> written[a] # "torn"
       /\ j < Len(f[i].parts) => a \in Torn
       /\ j = Len(f[i].parts) => (f[i].ended <=> written[a] = "line")
  /\ \A i, k \in 1..Len(f) : \A j \in 1..Len(f[i].parts), l \in 1..Len(f[k].parts) :
       /\ f[i].parts[j].by = f[k].parts[l].by => i = k /\ j = l
       /\ i < k => ticket[f[i].parts[j].by] < ticket[f[k].parts[l].by]

\* Append a has put something into file f.
PutInto(a, f) == \E i \in 1..Len(f) : \E j \in 1..Len(f[i].parts) : f[i].parts[j].by = a

FilesInv ==
  /\ file = [s \in Sessions |-> file[s]]
  /\ \A s \in Sessions : FileOK(file[s], s)
  /\ \A a \in Appends : written[a] \in Put => PutInto(a, file[SessionOf[a]])

\* Where the next bytes of append a go: behind what it has put already, behind
\* what another left of a line, or to a line of their own.
Position(f, a, n, m) ==
  \/ n = Len(f) + 1 /\ m = 1 /\ written[a] = "nothing" /\ (f = <<>> \/ f[Len(f)].ended)
  \/ n = Len(f) /\ n > 0 /\ ~f[n].ended /\ m = Len(f[n].parts) + 1 /\ written[a] = "nothing"
  \/ n = Len(f) /\ n > 0 /\ ~f[n].ended /\ m = Len(f[n].parts) /\ written[a] \in InProgress /\ f[n].parts[m].by = a

\* File g is f with a part of append a at line n, part m.
Grown(f, g, a, p, n, m) ==
  /\ g \in Seq(Lines) /\ Len(g) = n
  /\ \A i \in 1..(n - 1) : g[i] = f[i]
  /\ Len(g[n].parts) = m /\ (g[n].ended <=> p = "line")
  /\ \A j \in 1..(m - 1) : g[n].parts[j] = f[n].parts[j]
  /\ g[n].parts[m].by = a /\ (g[n].parts[m].whole <=> p # "torn")

\* What files are made of.
LEMMA FileFacts ==
  ASSUME NEW f, NEW s, FileOK(f, s)
  PROVE  /\ f \in Seq(Lines) /\ Len(f) \in Nat
         /\ \A i \in 1..Len(f) :
              /\ f[i] \in Lines /\ f[i].parts \in Seq(Parts) /\ Len(f[i].parts) \in Nat \ {0}
              /\ \A j \in 1..Len(f[i].parts) : f[i].parts[j] \in Parts /\ f[i].parts[j].by \in Appends
<1>1. f \in Seq(Lines) /\ \A i \in 1..Len(f) : Len(f[i].parts) > 0
  BY DEF FileOK
<1>2. ASSUME NEW i \in 1..Len(f)
      PROVE  /\ f[i] \in Lines /\ f[i].parts \in Seq(Parts) /\ Len(f[i].parts) \in Nat \ {0}
             /\ \A j \in 1..Len(f[i].parts) : f[i].parts[j] \in Parts /\ f[i].parts[j].by \in Appends
  <2>1. f[i] \in Lines
    BY <1>1
  <2>2. f[i].parts \in Seq(Parts) /\ Len(f[i].parts) \in Nat \ {0}
    BY <1>1, <2>1 DEF Lines
  <2>3. \A j \in 1..Len(f[i].parts) : f[i].parts[j] \in Parts
    BY <2>2
  <2>4. QED
    BY <2>1, <2>2, <2>3 DEF Parts
<1>3. QED
  BY <1>1, <1>2

\* A running append that has begun its line is at its end.
LEMMA OwnIsLast ==
  ASSUME CallsInv, FilesInv, NEW a \in Appends, stage[a] = "running", written[a] \in InProgress
  PROVE  LET f == file[SessionOf[a]] n == Len(f)
         IN n > 0 /\ ~f[n].ended /\ f[n].parts[Len(f[n].parts)].by = a
<1> DEFINE s == SessionOf[a]
<1> DEFINE f == file[s]
<1>1. FileOK(f, s)
  BY ChainFacts DEF FilesInv
<1>2. PICK i \in 1..Len(f) : \E j \in 1..Len(f[i].parts) : f[i].parts[j].by = a
  BY DEF FilesInv, PutInto, Put
<1>3. PICK j \in 1..Len(f[i].parts) : f[i].parts[j].by = a
  BY <1>2
<1>4. a \notin Torn
  BY DEF Torn, CallsInv, CallInv
<1>5. f[i] \in Lines /\ Len(f[i].parts) \in Nat /\ Len(f) \in Nat
  BY <1>1, FileFacts
<1>6. j = Len(f[i].parts)
  BY <1>1, <1>3, <1>4, <1>5 DEF FileOK
<1>7. ~f[i].ended
  BY <1>1, <1>3, <1>6 DEF FileOK, InProgress
<1>8. i = Len(f)
  BY <1>1, <1>5, <1>7 DEF FileOK
<1>9. QED
  BY <1>3, <1>5, <1>6, <1>7, <1>8

\* One more element of a sequence.
LEMMA OneMore ==
  ASSUME NEW S, NEW q \in Seq(S), NEW e \in S
  PROVE  /\ Append(q, e) \in Seq(S) /\ Len(q) \in Nat /\ Len(Append(q, e)) = Len(q) + 1
         /\ Append(q, e)[Len(q) + 1] = e /\ \A j \in 1..Len(q) : Append(q, e)[j] = q[j]
OBVIOUS

\* A file whose last line is new, or has a new last part.
LEMMA GrownBy ==
  ASSUME NEW f, NEW g \in Seq(Lines), NEW a, NEW p, NEW n \in Nat, NEW m \in Nat, NEW line,
         Len(g) = n, g[n] = line, \A i \in 1..(n - 1) : g[i] = f[i],
         Len(line.parts) = m, line.ended = (p = "line"), line.parts[m] = [by |-> a, whole |-> p # "torn"],
         \A j \in 1..(m - 1) : line.parts[j] = f[n].parts[j]
  PROVE  Grown(f, g, a, p, n, m)
<1>1. line.ended <=> p = "line"
  OBVIOUS
<1>2. line.parts[m].by = a /\ line.parts[m].whole = (p # "torn")
  OBVIOUS
<1>3. line.parts[m].whole <=> p # "torn"
  BY <1>2
<1>4. QED
  BY <1>1, <1>2, <1>3 DEF Grown

\* What AddBytes does to a file.
LEMMA BytesGrow ==
  ASSUME CallsInv, FilesInv, NEW a \in Appends, WritePiece(a)
  PROVE  LET s == SessionOf[a] IN
         \E p \in Put, n \in Nat, m \in Nat :
           /\ written[a] \in {"nothing"} \cup InProgress /\ written' = [written EXCEPT ![a] = p]
           /\ written[a] = "body" => p = "line"
           /\ Position(file[s], a, n, m) /\ Grown(file[s], file'[s], a, p, n, m)
           /\ file' = [file EXCEPT ![s] = file'[s]]
<1> DEFINE s == SessionOf[a]
<1> DEFINE f == file[s]
<1>0. FileOK(f, s) /\ s \in Sessions
  BY ChainFacts DEF FilesInv
<1>1. f \in Seq(Lines) /\ Len(f) \in Nat
  BY <1>0, FileFacts
<1>2. PICK p \in {"torn", "body", "line"} :
        /\ \/ written[a] = "nothing"
           \/ written[a] = "torn" /\ p # "torn"
           \/ written[a] = "body" /\ p = "line"
        /\ written' = [written EXCEPT ![a] = p]
        /\ file' = [file EXCEPT ![s] = AddBytes(f, a, p # "torn", p = "line")]
  BY DEF WritePiece
<1>3. file'[s] = AddBytes(f, a, p # "torn", p = "line") /\ stage[a] = "running" /\ file' = [file EXCEPT ![s] = file'[s]]
  <2> DEFINE g == AddBytes(f, a, p # "torn", p = "line")
  <2>1. file' = [file EXCEPT ![s] = g] /\ DOMAIN file = Sessions
    BY <1>2 DEF FilesInv
  <2> HIDE DEF g
  <2>2. file'[s] = g
    BY <1>0, <2>1
  <2>3. QED
    BY <2>1, <2>2 DEF WritePiece, g
<1> DEFINE n == Len(f)
<1> DEFINE part == [by |-> a, whole |-> p # "torn"]
<1> DEFINE m == Len(f[n].parts)
<1>4. n \in Nat /\ (n > 0 => f[n] \in Lines /\ f[n].parts \in Seq(Parts) /\ m \in Nat /\ m > 0)
  BY <1>0, <1>1, FileFacts
<1>5. part \in Parts
  BY DEF Parts
<1>6. (p # "torn") \in BOOLEAN /\ (p = "line") \in BOOLEAN
  OBVIOUS
<1>7. HasOpenLine(f) <=> n > 0 /\ ~f[n].ended
  BY <1>1, <1>4 DEF HasOpenLine
<1>8. ASSUME written[a] \in InProgress PROVE \E k \in Nat, l \in Nat : Position(f, a, k, l) /\ Grown(f, file'[s], a, p, k, l)
  <2>1. n > 0 /\ ~f[n].ended /\ f[n].parts[m].by = a
    BY <1>3, <1>8, OwnIsLast
  <2> DEFINE line == [parts |-> [f[n].parts EXCEPT ![m] = part], ended |-> p = "line"]
  <2>2. file'[s] = [f EXCEPT ![n] = line]
    <3> DEFINE own == f[n].parts # <<>> /\ f[n].parts[m].by = a
    <3> DEFINE piece == [by |-> a, whole |-> (p # "torn") /\ (own \/ written[a] = "nothing")]
    <3>1. own /\ f[n].parts # <<>>
      BY <1>4, <2>1
    <3>2. piece = part
      BY <3>1
    <3>3. AddBytes(f, a, p # "torn", p = "line") = [f EXCEPT ![n] = [parts |-> [f[n].parts EXCEPT ![m] = piece], ended |-> p = "line"]]
      BY <1>7, <2>1, <3>1 DEF AddBytes
    <3>4. QED
      BY <1>3, <3>2, <3>3
  <2>3. line \in Lines /\ Len(line.parts) = m /\ line.parts[m] = part /\ \A j \in 1..(m - 1) : line.parts[j] = f[n].parts[j]
    BY <1>4, <1>5, <1>6, <2>1 DEF Lines
  <2> HIDE DEF line
  <2>4. file'[s] \in Seq(Lines) /\ Len(file'[s]) = n /\ file'[s][n] = line /\ \A i \in 1..(n - 1) : file'[s][i] = f[i]
    BY <1>1, <1>4, <2>1, <2>2, <2>3
  <2>7. Grown(f, file'[s], a, p, n, m)
    <3>1. line.ended = (p = "line")
      BY DEF line
    <3> HIDE DEF f, n, m
    <3>2. QED
      BY <1>4, <2>1, <2>3, <2>4, <3>1, GrownBy
  <2>5. Position(f, a, n, m)
    BY <1>8, <2>1 DEF Position
  <2>6. QED
    BY <1>4, <2>1, <2>5, <2>7
<1>9. ASSUME written[a] = "nothing", n > 0, ~f[n].ended
      PROVE  \E k \in Nat, l \in Nat : Position(f, a, k, l) /\ Grown(f, file'[s], a, p, k, l)
  <2>1. f[n].parts[m].by # a
    <3>1. n \in 1..Len(f) /\ m \in 1..Len(f[n].parts)
      BY <1>1, <1>4, <1>9
    <3>2. written[f[n].parts[m].by] \in Put
      BY <1>0, <3>1 DEF FileOK
    <3>3. QED
      BY <1>9, <3>2 DEF Put, InProgress
  <2> DEFINE line == [parts |-> Append(f[n].parts, part), ended |-> p = "line"]
  <2>2. file'[s] = [f EXCEPT ![n] = line]
    BY <1>3, <1>4, <1>7, <1>9, <2>1 DEF AddBytes
  <2>3. line \in Lines /\ Len(line.parts) = m + 1 /\ line.parts[m + 1] = part /\ \A j \in 1..m : line.parts[j] = f[n].parts[j]
    <3>1. f[n].parts \in Seq(Parts) /\ m = Len(f[n].parts) /\ m \in Nat
      BY <1>4, <1>9
    <3> HIDE DEF part
    <3>2. PICK q \in Seq(Parts) : q = f[n].parts
      BY <3>1
    <3>3. PICK e \in Parts : e = part
      BY <1>5
    <3>4. /\ Append(q, e) \in Seq(Parts) /\ Len(q) \in Nat /\ Len(Append(q, e)) = Len(q) + 1
          /\ Append(q, e)[Len(q) + 1] = e /\ \A j \in 1..Len(q) : Append(q, e)[j] = q[j]
      BY OneMore
    <3>5. line = [parts |-> Append(q, e), ended |-> p = "line"]
      BY <3>2, <3>3
    <3>6. line.parts = Append(q, e) /\ line \in Lines
      BY <1>6, <3>4, <3>5 DEF Lines
    <3>7. m = Len(q)
      BY <3>2
    <3>8. QED
      BY <3>2, <3>3, <3>4, <3>6, <3>7
  <2> HIDE DEF line
  <2>4. file'[s] \in Seq(Lines) /\ Len(file'[s]) = n /\ file'[s][n] = line /\ \A i \in 1..(n - 1) : file'[s][i] = f[i]
    BY <1>1, <1>4, <1>9, <2>2, <2>3
  <2>7. Grown(f, file'[s], a, p, n, m + 1)
    <3>1. line.ended = (p = "line") /\ m + 1 \in Nat /\ (m + 1) - 1 = m
      BY <1>4, <1>9 DEF line
    <3> HIDE DEF f, n, m
    <3>2. QED
      BY <1>4, <1>9, <2>3, <2>4, <3>1, GrownBy
  <2>5. Position(f, a, n, m + 1)
    BY <1>9 DEF Position
  <2>6. QED
    <3>1. n \in Nat /\ m + 1 \in Nat
      BY <1>4, <1>9
    <3> HIDE DEF f, n, m
    <3>2. QED
      BY <2>5, <2>7, <3>1
<1>10. ASSUME written[a] = "nothing", n = 0 \/ f[n].ended
       PROVE  \E k \in Nat, l \in Nat : Position(f, a, k, l) /\ Grown(f, file'[s], a, p, k, l)
  <2> DEFINE line == [parts |-> <<part>>, ended |-> p = "line"]
  <2>1. file'[s] = Append(f, line)
    <3>1. Append(<<>>, part) = <<part>> /\ ~HasOpenLine(f)
      BY <1>7, <1>10
    <3> DEFINE piece == [by |-> a, whole |-> (p # "torn") /\ (FALSE \/ written[a] = "nothing")]
    <3>2. piece = part
      BY <1>10
    <3>3. AddBytes(f, a, p # "torn", p = "line") = Append(f, [parts |-> Append(<<>>, piece), ended |-> p = "line"])
      BY <3>1 DEF AddBytes
    <3>4. QED
      BY <1>3, <3>1, <3>2, <3>3
  <2>2. line \in Lines /\ Len(line.parts) = 1 /\ line.parts[1] = part
    BY <1>5, <1>6 DEF Lines
  <2> HIDE DEF line
  <2>6. /\ file'[s] \in Seq(Lines) /\ Len(file'[s]) = n + 1 /\ file'[s][n + 1] = line
        /\ \A i \in 1..((n + 1) - 1) : file'[s][i] = f[i]
    BY <1>1, <2>1, <2>2
  <2>3. Grown(f, file'[s], a, p, n + 1, 1)
    <3>1. line.ended = (p = "line") /\ n + 1 \in Nat /\ 1 \in Nat
      BY <1>4 DEF line
    <3>2. line.parts[1] = [by |-> a, whole |-> p # "torn"] /\ \A j \in 1..(1 - 1) : line.parts[j] = f[n + 1].parts[j]
      BY <2>2
    <3> HIDE DEF f, n, m
    <3>3. QED
      BY <2>2, <2>6, <3>1, <3>2, GrownBy
  <2>4. Position(f, a, n + 1, 1)
    BY <1>1, <1>4, <1>10 DEF Position
  <2>5. QED
    <3>1. n + 1 \in Nat
      BY <1>4
    <3> HIDE DEF f, n, m
    <3>2. QED
      BY <2>3, <2>4, <3>1
<1>11. QED
  <2>1. written[a] \in {"nothing"} \cup InProgress /\ p \in Put /\ (written[a] = "body" => p = "line")
    BY <1>2 DEF InProgress, Put
  <2>2. PICK k \in Nat, l \in Nat : Position(f, a, k, l) /\ Grown(f, file'[s], a, p, k, l)
    <3>1. n = 0 \/ f[n].ended \/ (n > 0 /\ ~f[n].ended)
      BY <1>4
    <3>2. QED
      BY <1>8, <1>9, <1>10, <2>1, <3>1
  <2> HIDE DEF f
  <2>3. QED
    BY <1>2, <1>3, <2>1, <2>2 DEF f

\* What is in the file of a running append but its own is of appends called
\* before it, which have finished.
LEMMA OthersAreOver ==
  ASSUME CallsInv, NEW a \in Appends, NEW b \in Appends, a # b, SessionOf[a] = SessionOf[b],
         stage[a] = "running", written[b] \in Put
  PROVE  ticket[b] < ticket[a] /\ (written[b] \in InProgress => b \in Torn)
<1>1. stage[b] \in Finished \cup {"running"}
  BY ChainSays DEF CallsInv, CallInv, Put, InProgress
<1>2. stage[a] # "new" /\ stage[b] # "new" /\ stage[a] \notin Finished
  BY <1>1 DEF Finished
<1>3. ticket[a] \in Nat /\ ticket[b] \in Nat /\ ticket[a] # ticket[b]
  BY <1>2, ChainSays DEF CallsInv
<1>4. ~(ticket[a] < ticket[b])
  BY <1>1, <1>2, ChainSays DEF CallsInv
<1>5. ticket[b] < ticket[a]
  BY <1>3, <1>4
<1>6. b \in settled
  BY <1>2, <1>5, ChainSays DEF CallsInv
<1>7. stage[b] \in Finished
  BY <1>6, ChainSays DEF CallsInv
<1>8. QED
  BY <1>5, <1>7 DEF CallsInv, CallInv, Torn

\* The parts of a file that has grown are those it had and the new one.
GrownParts(f, g, a, n, m) ==
  /\ n > 0 /\ m > 0
  /\ \A i \in 1..Len(g) : \A j \in 1..Len(g[i].parts) :
       \/ i = n /\ j = m
       \/ i \in 1..Len(f) /\ j \in 1..Len(f[i].parts) /\ g[i].parts[j] = f[i].parts[j] /\ f[i].parts[j].by # a
  /\ \A i \in 1..Len(f) : \A j \in 1..Len(f[i].parts) :
       \/ f[i].parts[j].by = a
       \/ i \in 1..Len(g) /\ j \in 1..Len(g[i].parts) /\ g[i].parts[j] = f[i].parts[j]

\* And they are.
LEMMA PartsOfGrown ==
  ASSUME NEW f, NEW g, NEW s, NEW a \in Appends, NEW p, NEW n \in Nat, NEW m \in Nat,
         FileOK(f, s), Position(f, a, n, m), Grown(f, g, a, p, n, m)
  PROVE  GrownParts(f, g, a, n, m)
<1>1. /\ f \in Seq(Lines) /\ Len(f) \in Nat
      /\ \A i \in 1..Len(f) : Len(f[i].parts) \in Nat \ {0}
  BY FileFacts
<1>2. n > 0 /\ m > 0 /\ n - 1 <= Len(f) /\ Len(f) <= n
  BY <1>1 DEF Position
<1>3. Len(f) = n => m - 1 <= Len(f[n].parts) /\ Len(f[n].parts) <= m
  BY <1>1, <1>2 DEF Position
<1>4. Len(f) # n => m = 1 /\ Len(f) = n - 1
  BY <1>1, <1>2 DEF Position
<1>5. ASSUME NEW i \in 1..Len(f), NEW j \in 1..Len(f[i].parts), f[i].parts[j].by = a PROVE i = n /\ j = m
  <2>1. written[a] \in Put
    BY <1>5 DEF FileOK
  <2>2. Len(f) = n /\ m = Len(f[n].parts) /\ f[n].parts[m].by = a
    BY <2>1 DEF Position, Put, InProgress
  <2>3. n \in 1..Len(f) /\ m \in 1..Len(f[n].parts)
    BY <1>1, <1>2, <2>2
  <2>4. f[i].parts[j].by = f[n].parts[m].by
    BY <1>5, <2>2
  <2>5. QED
    BY <1>5, <2>3, <2>4 DEF FileOK
<1>6. Len(g) = n /\ Len(g[n].parts) = m /\ (\A i \in 1..(n - 1) : g[i] = f[i]) /\ \A j \in 1..(m - 1) : g[n].parts[j] = f[n].parts[j]
  BY DEF Grown
<1>7. ASSUME NEW i \in 1..Len(g), NEW j \in 1..Len(g[i].parts), ~(i = n /\ j = m)
      PROVE  i \in 1..Len(f) /\ j \in 1..Len(f[i].parts) /\ g[i].parts[j] = f[i].parts[j] /\ f[i].parts[j].by # a
  <2>1. CASE i < n
    <3>1. i \in 1..(n - 1)
      BY <1>6, <2>1
    <3>2. i \in 1..Len(f)
      BY <1>1, <1>2, <3>1
    <3>4. g[i] = f[i]
      BY <1>6, <3>1
    <3>3. QED
      BY <1>5, <1>7, <2>1, <3>2, <3>4
  <2>2. CASE i = n
    <3>1. j \in 1..(m - 1)
      BY <1>6, <1>7, <2>2
    <3>2. Len(f) = n
      BY <1>4, <3>1
    <3>3. g[n].parts[j] = f[n].parts[j] /\ j \in 1..Len(f[n].parts) /\ n \in 1..Len(f) /\ j # m
      BY <1>1, <1>2, <1>3, <1>6, <3>1, <3>2
    <3>4. QED
      BY <1>5, <2>2, <3>3
  <2>3. QED
    BY <1>6, <2>1, <2>2
<1>8. ASSUME NEW i \in 1..Len(f), NEW j \in 1..Len(f[i].parts), f[i].parts[j].by # a
      PROVE  i \in 1..Len(g) /\ j \in 1..Len(g[i].parts) /\ g[i].parts[j] = f[i].parts[j]
  <2>1. CASE i < n
    <3>1. i \in 1..(n - 1) /\ i \in 1..Len(g)
      BY <1>1, <1>6, <2>1
    <3>2. g[i] = f[i]
      BY <1>6, <3>1
    <3>3. QED
      BY <3>1, <3>2
  <2>2. CASE i = n
    <3>1. Len(f) = n
      BY <1>1, <1>2, <2>2
    <3>2. j # m
      <4>1. CASE written[a] = "nothing"
        BY <1>1, <3>1, <2>2, <4>1 DEF Position, InProgress
      <4>2. CASE written[a] # "nothing"
        BY <1>8, <2>2, <4>2 DEF Position
      <4>3. QED
        BY <4>1, <4>2
    <3>3. j \in 1..(m - 1) /\ j \in 1..m
      BY <1>1, <1>3, <2>2, <3>1, <3>2
    <3>4. QED
      BY <1>2, <1>6, <2>2, <3>3
  <2>3. QED
    BY <1>1, <1>2, <2>1, <2>2
<1>9. QED
  BY <1>2, <1>7, <1>8 DEF GrownParts

\* A write keeps the file of its session as it should be.
LEMMA WriteKeepsFile ==
  ASSUME CallsInv, NEW f, NEW g, NEW a \in Appends, NEW p \in Put, NEW n \in Nat, NEW m \in Nat,
         FileOK(f, SessionOf[a]), Position(f, a, n, m), Grown(f, g, a, p, n, m), stage[a] = "running",
         written' = [written EXCEPT ![a] = p], UNCHANGED <<outcome, ticket>>
  PROVE  FileOK(g, SessionOf[a])'
<1> DEFINE s == SessionOf[a]
<1> HIDE DEF s
<1>0. FileOK(f, s) /\ s = SessionOf[a]
  BY DEF s
<1>1. /\ f \in Seq(Lines) /\ Len(f) \in Nat
      /\ \A i \in 1..Len(f) : Len(f[i].parts) \in Nat \ {0} /\ \A j \in 1..Len(f[i].parts) : f[i].parts[j].by \in Appends
  BY <1>0, FileFacts
<1>2. /\ n > 0 /\ m > 0
      /\ \A i \in 1..Len(g) : \A j \in 1..Len(g[i].parts) :
           \/ i = n /\ j = m
           \/ i \in 1..Len(f) /\ j \in 1..Len(f[i].parts) /\ g[i].parts[j] = f[i].parts[j] /\ f[i].parts[j].by # a
  <2>1. GrownParts(f, g, a, n, m)
    BY <1>0, PartsOfGrown
  <2>2. QED
    BY <2>1 DEF GrownParts
<1>3. /\ g \in Seq(Lines) /\ Len(g) = n /\ Len(g[n].parts) = m
      /\ (\A i \in 1..(n - 1) : g[i] = f[i]) /\ (g[n].ended <=> p = "line")
      /\ g[n].parts[m].by = a /\ (g[n].parts[m].whole <=> p # "torn")
  BY DEF Grown
<1>4. written'[a] = p /\ (\A b \in Appends \ {a} : written'[b] = written[b])
  BY DEF CallsInv, CallsTypeOK
<1>5. /\ a \notin Torn
      /\ \A b \in Appends : b \in Torn' <=> b \in Torn
  BY <1>4 DEF Torn, CallsInv, CallInv
<1>6. ASSUME NEW i \in 1..Len(f), NEW j \in 1..Len(f[i].parts), f[i].parts[j].by # a
      PROVE  LET b == f[i].parts[j].by IN
             /\ b \in Appends /\ SessionOf[b] = s /\ written[b] \in Put /\ written'[b] = written[b]
             /\ ticket[b] < ticket[a] /\ (written[b] \in InProgress => b \in Torn)
  <2>1. PICK b \in Appends : b = f[i].parts[j].by
    BY <1>1
  <2>2. SessionOf[b] = s /\ written[b] \in Put
    BY <1>0, <2>1 DEF FileOK
  <2>3. ticket[b] < ticket[a] /\ (written[b] \in InProgress => b \in Torn)
    BY <1>0, <1>6, <2>1, <2>2, OthersAreOver
  <2>4. QED
    BY <1>4, <1>6, <2>1, <2>2, <2>3
<1>7. \A i \in 1..(n - 1) : i \in 1..Len(f) /\ f[i].ended /\ (i = Len(f) => Len(f) # n)
  <2>1. n - 1 <= Len(f) /\ (n - 1 = Len(f) => f = <<>> \/ f[Len(f)].ended)
    BY <1>1 DEF Position
  <2>2. ASSUME NEW i \in 1..(n - 1) PROVE i \in 1..Len(f) /\ f[i].ended
    <3>1. i \in 1..Len(f)
      BY <1>1, <2>1
    <3>2. CASE i < Len(f)
      BY <1>0, <3>1, <3>2 DEF FileOK
    <3>3. CASE i = Len(f)
      <4>1. n - 1 = Len(f) /\ f # <<>>
        BY <1>1, <2>1, <3>1, <3>3
      <4>2. QED
        BY <2>1, <3>1, <3>3, <4>1
    <3>4. QED
      BY <1>1, <3>1, <3>2, <3>3
  <2>3. QED
    BY <2>2
<1>8. \A i \in 1..Len(g) : Len(g[i].parts) > 0 /\ (i < Len(g) => g[i].ended)
  <2>1. ASSUME NEW i \in 1..(n - 1) PROVE Len(g[i].parts) > 0 /\ g[i].ended
    <3>1. g[i] = f[i] /\ i \in 1..Len(f) /\ f[i].ended
      BY <1>3, <1>7
    <3>2. QED
      BY <1>1, <3>1
  <2>2. Len(g[n].parts) > 0
    BY <1>2, <1>3
  <2>3. \A i \in 1..Len(g) : i = n \/ i \in 1..(n - 1)
    BY <1>3
  <2>4. QED
    BY <1>3, <2>1, <2>2, <2>3
<1>9. ASSUME NEW i \in 1..Len(g), NEW j \in 1..Len(g[i].parts)
      PROVE  LET b == g[i].parts[j].by IN
             /\ SessionOf[b] = SessionOf[a] /\ written'[b] \in Put
             /\ g[i].parts[j].whole <=> written'[b] # "torn"
             /\ j < Len(g[i].parts) => b \in Torn'
             /\ j = Len(g[i].parts) => (g[i].ended <=> written'[b] = "line")
  <2>1. CASE i = n /\ j = m
    BY <1>3, <1>4, <2>1
  <2>2. CASE ~(i = n /\ j = m)
    <3>1. i \in 1..Len(f) /\ j \in 1..Len(f[i].parts) /\ g[i].parts[j] = f[i].parts[j] /\ f[i].parts[j].by # a
      BY <1>2, <2>2
    <3>2. PICK b \in Appends : b = f[i].parts[j].by /\ b = g[i].parts[j].by
      BY <1>1, <3>1
    <3>3. /\ SessionOf[b] = s /\ written[b] \in Put /\ written'[b] = written[b]
          /\ (written[b] \in InProgress => b \in Torn)
      BY <1>6, <3>1, <3>2
    <3>4. f[i].parts[j].whole <=> written[b] # "torn"
      BY <1>0, <3>1, <3>2 DEF FileOK
    <3>5. CASE i < n
      <4>1. g[i] = f[i]
        BY <1>3, <3>5
      <4>2. /\ j < Len(f[i].parts) => b \in Torn
            /\ j = Len(f[i].parts) => (f[i].ended <=> written[b] = "line")
        BY <1>0, <3>1, <3>2 DEF FileOK
      <4>3. QED
        BY <1>0, <1>5, <3>1, <3>2, <3>3, <3>4, <4>1, <4>2
    <3>6. CASE i = n
      <4>1. j < m /\ Len(f) = n /\ j <= Len(f[n].parts)
        BY <1>1, <1>2, <1>3, <2>2, <3>1, <3>6 DEF Position
      <4>2. written[b] \in InProgress
        <5>1. CASE j < Len(f[n].parts)
          BY <1>0, <3>1, <3>2, <3>6, <5>1 DEF FileOK, Torn
        <5>2. CASE j = Len(f[n].parts)
          <6>1. ~f[n].ended
            BY <1>2, <4>1, <5>2 DEF Position
          <6>2. written[b] # "line"
            BY <1>0, <3>1, <3>2, <3>6, <5>2, <6>1 DEF FileOK
          <6>3. QED
            BY <3>3, <6>2 DEF Put
        <5>3. QED
          BY <1>1, <3>1, <3>6, <4>1, <5>1, <5>2
      <4>3. b \in Torn'
        BY <1>5, <3>3, <4>2
      <4>4. j # Len(g[i].parts)
        BY <1>3, <3>6, <4>1
      <4>5. QED
        BY <1>0, <3>1, <3>2, <3>3, <3>4, <4>3, <4>4
    <3>7. QED
      BY <1>3, <3>5, <3>6
  <2>3. QED
    BY <2>1, <2>2
<1>10. ASSUME NEW i \in 1..Len(g), NEW k \in 1..Len(g), NEW j \in 1..Len(g[i].parts), NEW l \in 1..Len(g[k].parts)
       PROVE  /\ g[i].parts[j].by = g[k].parts[l].by => i = k /\ j = l
              /\ i < k => ticket'[g[i].parts[j].by] < ticket'[g[k].parts[l].by]
  <2>1. CASE i = n /\ j = m
    <3>1. CASE k = n /\ l = m
      BY <2>1, <3>1
    <3>2. CASE ~(k = n /\ l = m)
      BY <1>2, <1>3, <2>1, <3>2
    <3>3. QED
      BY <3>1, <3>2
  <2>2. CASE ~(i = n /\ j = m)
    <3>1. i \in 1..Len(f) /\ j \in 1..Len(f[i].parts) /\ g[i].parts[j] = f[i].parts[j] /\ f[i].parts[j].by # a
      BY <1>2, <2>2
    <3>2. CASE k = n /\ l = m
      BY <1>3, <1>6, <3>1, <3>2
    <3>3. CASE ~(k = n /\ l = m)
      <4>1. k \in 1..Len(f) /\ l \in 1..Len(f[k].parts) /\ g[k].parts[l] = f[k].parts[l]
        BY <1>2, <3>3
      <4>2. /\ f[i].parts[j].by = f[k].parts[l].by => i = k /\ j = l
            /\ i < k => ticket[f[i].parts[j].by] < ticket[f[k].parts[l].by]
        BY <1>0, <3>1, <4>1 DEF FileOK
      <4>3. QED
        BY <3>1, <4>1, <4>2
    <3>4. QED
      BY <3>2, <3>3
  <2>3. QED
    BY <2>1, <2>2
<1>11. QED
  BY <1>3, <1>8, <1>9, <1>10 DEF FileOK

\* A file nobody writes to stays as it is: its appends keep what they have put
\* and their tickets, and one that was cut off stays so.
LEMMA QuietFile ==
  ASSUME NEW f, NEW s, FileOK(f, s),
         \A b \in Appends : SessionOf[b] = s /\ written[b] \in Put =>
           written'[b] = written[b] /\ ticket'[b] = ticket[b] /\ (b \in Torn => b \in Torn')
  PROVE  FileOK(f, s)'
<1>1. ASSUME NEW i \in 1..Len(f), NEW j \in 1..Len(f[i].parts)
      PROVE  LET b == f[i].parts[j].by IN
             /\ b \in Appends /\ SessionOf[b] = s /\ written[b] \in Put
             /\ written'[b] = written[b] /\ ticket'[b] = ticket[b] /\ (b \in Torn => b \in Torn')
  <2>1. PICK b \in Appends : b = f[i].parts[j].by
    BY FileFacts
  <2>2. SessionOf[b] = s /\ written[b] \in Put
    BY <2>1 DEF FileOK
  <2>3. QED
    BY <2>1, <2>2
<1>2. ASSUME NEW i \in 1..Len(f), NEW j \in 1..Len(f[i].parts)
      PROVE  LET b == f[i].parts[j].by IN
             /\ SessionOf[b] = s /\ written'[b] \in Put
             /\ f[i].parts[j].whole <=> written'[b] # "torn"
             /\ j < Len(f[i].parts) => b \in Torn'
             /\ j = Len(f[i].parts) => (f[i].ended <=> written'[b] = "line")
  <2>1. PICK b : b = f[i].parts[j].by
    OBVIOUS
  <2>2. /\ SessionOf[b] = s /\ written[b] \in Put /\ (f[i].parts[j].whole <=> written[b] # "torn")
        /\ j < Len(f[i].parts) => b \in Torn
        /\ j = Len(f[i].parts) => (f[i].ended <=> written[b] = "line")
    BY <2>1 DEF FileOK
  <2>3. written'[b] = written[b] /\ (b \in Torn => b \in Torn')
    BY <1>1, <2>1
  <2>4. QED
    BY <2>1, <2>2, <2>3
<1>3. ASSUME NEW i \in 1..Len(f), NEW k \in 1..Len(f), NEW j \in 1..Len(f[i].parts), NEW l \in 1..Len(f[k].parts)
      PROVE  /\ f[i].parts[j].by = f[k].parts[l].by => i = k /\ j = l
             /\ i < k => ticket'[f[i].parts[j].by] < ticket'[f[k].parts[l].by]
  <2>1. PICK b, c : b = f[i].parts[j].by /\ c = f[k].parts[l].by
    OBVIOUS
  <2>2. (b = c => i = k /\ j = l) /\ (i < k => ticket[b] < ticket[c])
    BY <2>1 DEF FileOK
  <2>3. ticket'[b] = ticket[b] /\ ticket'[c] = ticket[c]
    BY <1>1, <2>1
  <2>4. QED
    BY <2>1, <2>2, <2>3
<1>4. f \in Seq(Lines) /\ \A i \in 1..Len(f) : Len(f[i].parts) > 0 /\ (i < Len(f) => f[i].ended)
  BY DEF FileOK
<1>5. QED
  BY <1>2, <1>3, <1>4 DEF FileOK

\* Steps that write nothing.
LEMMA QuietFiles ==
  ASSUME FilesInv, UNCHANGED file, NEW a \in Appends,
         \A b \in Appends \ {a} : written'[b] = written[b] /\ ticket'[b] = ticket[b] /\ (b \in Torn => b \in Torn'),
         \/ written'[a] = written[a] /\ ticket'[a] = ticket[a] /\ (a \in Torn => a \in Torn')
         \/ written[a] \notin Put /\ written'[a] \notin Put
  PROVE  FilesInv'
<1>1. \A b \in Appends : written[b] \in Put =>
        written'[b] = written[b] /\ ticket'[b] = ticket[b] /\ (b \in Torn => b \in Torn')
  OBVIOUS
<1>2. \A s \in Sessions : FileOK(file[s], s)'
  BY <1>1, QuietFile DEF FilesInv
<1>3. \A b \in Appends : written'[b] \in Put => PutInto(b, file[SessionOf[b]])'
  <2>1. \A b \in Appends : written'[b] \in Put => written[b] \in Put
    OBVIOUS
  <2>2. QED
    BY <2>1 DEF FilesInv, PutInto
<1>4. QED
  BY <1>2, <1>3 DEF FilesInv

\* The steps of an append.
LEMMA AppendKeepsFiles ==
  ASSUME CallsInv, FilesInv, NEW a \in Appends, AppendStep(a)
  PROVE  FilesInv'
<1>1. /\ \A b \in Appends \ {a} : stage'[b] = stage[b] /\ written'[b] = written[b] /\ outcome'[b] = outcome[b]
      /\ CallsTypeOK' /\ CallInv(a)'
  BY AppendKeepsCalls
<1>2. \A b \in Appends \ {a} : ticket'[b] = ticket[b] /\ (b \in Torn <=> b \in Torn')
  <2>1. \A b \in Appends \ {a} : b \in Torn <=> b \in Torn'
    BY <1>1 DEF Torn
  <2>2. UNCHANGED ticket \/ W!Enqueue(a)
    BY DEF AppendStep, RefuseAppend, CallAppend, BeginAppend, AuthorizeAppend, WritePiece, AckAppend, FailAppend,
       SettleAppend, ReturnAppend, chainVars, W!Start, W!Finish, W!Settle
  <2>3. \A b \in Appends \ {a} : ticket'[b] = ticket[b]
    BY <2>2, ChainSays DEF CallsInv, W!Enqueue
  <2>4. QED
    BY <2>1, <2>3
<1>3. CASE RefuseAppend(a) \/ CallAppend(a) \/ BeginAppend(a) \/ AuthorizeAppend(a)
  <2>1. UNCHANGED file /\ written[a] \notin Put /\ written'[a] \notin Put
    BY <1>3 DEF CallsInv, CallInv, CallsTypeOK, RefuseAppend, CallAppend, BeginAppend, AuthorizeAppend, ReturnAppend,
       W!Enqueue, W!Start, Put, InProgress
  <2>2. QED
    BY <1>1, <1>2, <2>1, QuietFiles
<1>4. CASE AckAppend(a) \/ FailAppend(a) \/ SettleAppend(a)
  <2>1. UNCHANGED <<file, written, ticket>>
    BY <1>4 DEF AckAppend, FailAppend, SettleAppend, ReturnAppend, W!Finish, W!Settle
  <2>2. a \in Torn => a \in Torn'
    BY <1>4 DEF CallsInv, CallInv, CallsTypeOK, AckAppend, FailAppend, SettleAppend, ReturnAppend, W!Finish, Torn, InProgress
  <2>3. QED
    BY <1>1, <1>2, <2>1, <2>2, QuietFiles
<1>5. CASE WritePiece(a)
  <2> DEFINE s == SessionOf[a]
  <2>1. PICK p \in Put, n \in Nat, m \in Nat :
          /\ written' = [written EXCEPT ![a] = p]
          /\ Position(file[s], a, n, m) /\ Grown(file[s], file'[s], a, p, n, m)
          /\ file' = [file EXCEPT ![s] = file'[s]]
    BY <1>5, BytesGrow
  <2>2. PICK f, g : f = file[s] /\ g = file'[s]
    OBVIOUS
  <2>3. s \in Sessions /\ FileOK(f, s) /\ stage[a] = "running" /\ UNCHANGED <<outcome, ticket>>
    BY <1>5, <2>2, ChainFacts DEF FilesInv, WritePiece, chainVars
  <2>4. FileOK(g, s)'
    BY <2>1, <2>2, <2>3, WriteKeepsFile
  <2>5. GrownParts(f, g, a, n, m) /\ Len(g) = n /\ Len(g[n].parts) = m /\ g[n].parts[m].by = a
    <3>1. Grown(f, g, a, p, n, m) /\ Position(f, a, n, m)
      BY <2>1, <2>2
    <3>2. GrownParts(f, g, a, n, m)
      BY <2>3, <3>1, PartsOfGrown
    <3>3. QED
      BY <3>1, <3>2 DEF Grown
  <2>6. \A t \in Sessions \ {s} : FileOK(file[t], t)' /\ file'[t] = file[t]
    <3>1. \A t \in Sessions \ {s} : file'[t] = file[t]
      BY <2>1 DEF FilesInv
    <3>2. ASSUME NEW t \in Sessions \ {s} PROVE FileOK(file[t], t)'
      <4>1. PICK h : h = file[t] /\ h = file'[t]
        BY <3>1
      <4>2. FileOK(h, t)'
        BY <1>1, <1>2, <4>1, QuietFile DEF FilesInv
      <4>3. QED
        BY <4>1, <4>2
    <3>3. QED
      BY <3>1, <3>2
  <2>7. ASSUME NEW b \in Appends, written'[b] \in Put PROVE PutInto(b, file[SessionOf[b]])'
    <3>1. CASE b = a
      <4>1. n \in 1..Len(g) /\ m \in 1..Len(g[n].parts)
        BY <2>5 DEF GrownParts
      <4>2. QED
        BY <2>2, <2>5, <3>1, <4>1 DEF PutInto
    <3>2. CASE b # a
      <4>1. PutInto(b, file[SessionOf[b]])
        BY <1>1, <2>7, <3>2 DEF FilesInv
      <4>2. CASE SessionOf[b] = s
        <5>1. PICK i \in 1..Len(f) : \E j \in 1..Len(f[i].parts) : f[i].parts[j].by = b
          BY <2>2, <4>1, <4>2 DEF PutInto
        <5>2. PICK j \in 1..Len(f[i].parts) : f[i].parts[j].by = b
          BY <5>1
        <5>3. i \in 1..Len(g) /\ j \in 1..Len(g[i].parts) /\ g[i].parts[j] = f[i].parts[j]
          BY <2>5, <3>2, <5>2 DEF GrownParts
        <5>4. QED
          BY <2>2, <4>2, <5>2, <5>3 DEF PutInto
      <4>3. CASE SessionOf[b] # s
        BY <2>6, <4>1, <4>3, ChainFacts DEF PutInto
      <4>4. QED
        BY <4>2, <4>3
    <3>3. QED
      BY <3>1, <3>2
  <2>8. file' = [t \in Sessions |-> file'[t]]
    BY <2>1 DEF FilesInv
  <2>9. \A t \in Sessions : FileOK(file[t], t)'
    BY <2>2, <2>4, <2>6
  <2>10. QED
    BY <2>7, <2>8, <2>9 DEF FilesInv
<1>6. QED
  BY <1>3, <1>4, <1>5 DEF AppendStep

\* A restart leaves the files, and cuts off whoever was writing.
LEMMA StepKeepsFiles == CallsInv /\ FilesInv /\ [StoreNext]_storeVars => FilesInv'
<1> SUFFICES ASSUME CallsInv, FilesInv, [StoreNext]_storeVars PROVE FilesInv'
  OBVIOUS
<1>1. ASSUME UNCHANGED <<file, written, ticket>>, \A b \in Torn : b \in Torn' PROVE FilesInv'
  <2>1. \A s \in Sessions : FileOK(file[s], s)'
    BY <1>1, QuietFile DEF FilesInv
  <2>2. QED
    BY <1>1, <2>1 DEF FilesInv, PutInto
<1>2. CASE Crash
  <2>1. UNCHANGED <<file, written, ticket>> /\ \A b \in Torn : b \in Torn'
    BY <1>2 DEF Crash, Torn, CallsInv, CallInv
  <2>2. QED
    BY <1>1, <2>1
<1>3. ASSUME NEW r \in Reads, ReadStep(r) PROVE FilesInv'
  BY <1>1, <1>3 DEF ReadStep, RefuseRead, CallRead, ResumeRead, ReadFile, Torn, chainVars
<1>4. CASE UNCHANGED storeVars
  BY <1>1, <1>4 DEF storeVars, chainVars, Torn
<1>5. QED
  BY <1>2, <1>3, <1>4, AppendKeepsFiles DEF StoreNext, AppendStep, ReadStep, AllReturned

-----------------------------------------------------------------------------
(* Events and reads *)

\* The events of a file, in the order of its lines and of the calls of append.
EventsOK(f, s) ==
  /\ DOMAIN EventsIn(f) = {i \in 1..Len(f) : IsEvent(f[i])} /\ Len(f) \in Nat
  /\ \A i \in DOMAIN EventsIn(f) :
       /\ EventsIn(f)[i] = f[i].parts[1].by /\ EventsIn(f)[i] \in Appends
       /\ SessionOf[EventsIn(f)[i]] = s /\ written[EventsIn(f)[i]] \in {"body", "line"}
  /\ \A i, j \in DOMAIN EventsIn(f) :
       /\ i < j => ticket[EventsIn(f)[i]] < ticket[EventsIn(f)[j]]
       /\ EventsIn(f)[i] = EventsIn(f)[j] => i = j

\* What read makes of a file.
LEMMA EventFacts ==
  ASSUME NEW f, NEW s, FileOK(f, s)
  PROVE  EventsOK(f, s)
<1>1. /\ f \in Seq(Lines) /\ Len(f) \in Nat /\ DOMAIN f = 1..Len(f)
      /\ \A i \in 1..Len(f) : \A j \in 1..Len(f[i].parts) : f[i].parts[j].by \in Appends
  BY FileFacts
<1>2. /\ DOMAIN EventsIn(f) = {i \in 1..Len(f) : IsEvent(f[i])}
      /\ \A i \in DOMAIN EventsIn(f) : EventsIn(f)[i] = f[i].parts[1].by
  BY <1>1 DEF EventsIn
<1>3. \A i \in DOMAIN EventsIn(f) : i \in 1..Len(f) /\ 1 \in 1..Len(f[i].parts) /\ f[i].parts[1].whole
  BY <1>2 DEF IsEvent
<1>4. ASSUME NEW i \in DOMAIN EventsIn(f)
      PROVE  /\ EventsIn(f)[i] \in Appends
             /\ SessionOf[EventsIn(f)[i]] = s /\ written[EventsIn(f)[i]] \in {"body", "line"}
  <2>1. PICK a \in Appends : a = EventsIn(f)[i] /\ a = f[i].parts[1].by
    BY <1>1, <1>2, <1>3
  <2>2. SessionOf[a] = s /\ written[a] \in Put /\ (f[i].parts[1].whole <=> written[a] # "torn")
    BY <1>3, <2>1 DEF FileOK
  <2>3. QED
    BY <1>3, <2>1, <2>2 DEF Put, InProgress
<1>5. ASSUME NEW i \in DOMAIN EventsIn(f), NEW j \in DOMAIN EventsIn(f)
      PROVE  /\ i < j => ticket[EventsIn(f)[i]] < ticket[EventsIn(f)[j]]
             /\ EventsIn(f)[i] = EventsIn(f)[j] => i = j
  <2>1. PICK k : k = 1 /\ k \in 1..Len(f[i].parts) /\ k \in 1..Len(f[j].parts)
    BY <1>3
  <2>2. i \in 1..Len(f) /\ j \in 1..Len(f)
    BY <1>3
  <2>3. /\ f[i].parts[k].by = f[j].parts[k].by => i = j
        /\ i < j => ticket[f[i].parts[k].by] < ticket[f[j].parts[k].by]
    BY <2>1, <2>2 DEF FileOK
  <2>4. QED
    BY <1>2, <2>1, <2>3
<1>6. QED
  BY <1>1, <1>2, <1>4, <1>5 DEF EventsOK

\* Lines before the last stay what they are; the last is an event when it holds
\* no more than the whole text of the append.
LEMMA GrownEvents ==
  ASSUME NEW f, NEW g, NEW a, NEW p, NEW n \in Nat \ {0}, NEW m \in Nat \ {0}, Grown(f, g, a, p, n, m)
  PROVE  /\ DOMAIN EventsIn(g) = {i \in 1..n : IsEvent(g[i])}
         /\ \A i \in 1..(n - 1) : g[i] = f[i] /\ (IsEvent(g[i]) <=> IsEvent(f[i]))
         /\ IsEvent(g[n]) <=> m = 1 /\ p # "torn"
         /\ m = 1 => g[n].parts[1].by = a
         /\ \A i \in DOMAIN EventsIn(g) : EventsIn(g)[i] = g[i].parts[1].by
BY DEF Grown, EventsIn, IsEvent

\* What read waits for.
Asked(r) == {a \in Appends : SessionOf[a] = SessionOf[r] /\ stage[a] # "new" /\ ticket[a] <= since[r]}

ReadInv(r) ==
  /\ reading[r] # "returned" => seen[r] = Unread
  /\ since[r] \in Nat /\ since[r] <= arrivals
  /\ reading[r] = "waiting" /\ waitsFor[r] = NoAppend => Asked(r) \subseteq settled
  /\ reading[r] = "waiting" /\ waitsFor[r] # NoAppend =>
       /\ waitsFor[r] \in Appends /\ SessionOf[waitsFor[r]] = SessionOf[r] /\ stage[waitsFor[r]] # "new"
       /\ \A a \in Asked(r) : ticket[a] <= ticket[waitsFor[r]]
  /\ reading[r] \in {"reading", "returned"} => Asked(r) \subseteq settled
  /\ reading[r] = "returned" =>
       /\ \A i \in DOMAIN seen[r] : seen[r][i] \in Appends /\ stage[seen[r][i]] # "new"
       /\ \A i, j \in DOMAIN seen[r] : i < j => ticket[seen[r][i]] < ticket[seen[r][j]]
       /\ \A a \in Asked(r) : Acked(a) /\ a \in Readable(SessionOf[a]) => \E i \in DOMAIN seen[r] : seen[r][i] = a

ReadsInv ==
  /\ reading \in [Reads -> {"idle", "waiting", "reading", "returned", "failed"}]
  /\ waitsFor = [r \in Reads |-> waitsFor[r]] /\ since = [r \in Reads |-> since[r]] /\ seen = [r \in Reads |-> seen[r]]
  /\ \A r \in Reads : ReadInv(r)

\* Calls come after those that were made before, and what has settled does not
\* become readable any more.
Onward ==
  /\ settled \subseteq settled' /\ arrivals' \in Nat /\ arrivals <= arrivals'
  /\ \A a \in Appends :
       /\ stage[a] # "new" => stage'[a] # "new" /\ ticket'[a] = ticket[a]
       /\ stage[a] = "new" /\ stage'[a] # "new" => arrivals < ticket'[a]
       /\ a \in settled /\ Acked(a)' /\ (a \in Readable(SessionOf[a]))' => Acked(a) /\ a \in Readable(SessionOf[a])

\* A read that takes no part in a step, or fails.
LEMMA OnwardKeepsRead ==
  ASSUME CallsInv, CallsInv', Onward, NEW r \in Reads, ReadInv(r), reading'[r] \in {reading[r], "failed"},
         waitsFor'[r] = waitsFor[r], since'[r] = since[r], seen'[r] = seen[r],
         reading[r] = "returned" => reading'[r] = "returned"
  PROVE  ReadInv(r)'
<1>1. /\ arrivals \in Nat /\ ticket \in [Appends -> Nat] /\ ticket' \in [Appends -> Nat] /\ since[r] \in Nat
      /\ arrivals' \in Nat /\ since[r] <= arrivals
  <2>1. Chain!ChainInv /\ (Chain!ChainInv)'
    BY DEF CallsInv
  <2>2. ticket' \in [Appends -> Nat]
    BY <2>1 DEF Chain!ChainInv, Chain!QueueTypeOK
  <2>3. QED
    BY <2>1, <2>2, ChainSays DEF ReadInv, Onward
<1>2. Asked(r)' = Asked(r)
  BY <1>1 DEF Onward, Asked
<1>3. ASSUME reading'[r] = "waiting", waitsFor[r] # NoAppend
      PROVE  /\ waitsFor[r] \in Appends /\ SessionOf[waitsFor[r]] = SessionOf[r] /\ stage'[waitsFor[r]] # "new"
             /\ \A a \in Asked(r) : ticket'[a] <= ticket'[waitsFor[r]]
  BY <1>3 DEF ReadInv, Onward, Asked
<1>4. Asked(r) \subseteq settled => Asked(r) \subseteq settled'
  BY DEF Onward
<1>5. ASSUME reading'[r] = "returned"
      PROVE  /\ \A i \in DOMAIN seen[r] : seen[r][i] \in Appends /\ stage'[seen[r][i]] # "new"
             /\ \A i, j \in DOMAIN seen[r] : i < j => ticket'[seen[r][i]] < ticket'[seen[r][j]]
             /\ \A a \in Asked(r) : Acked(a)' /\ (a \in Readable(SessionOf[a]))' => \E i \in DOMAIN seen[r] : seen[r][i] = a
  <2>1. reading[r] = "returned"
    BY <1>5
  <2>2. Asked(r) \subseteq settled /\ Asked(r) \subseteq Appends
    BY <2>1 DEF ReadInv, Asked
  <2>3. \A a \in Asked(r) : Acked(a)' /\ (a \in Readable(SessionOf[a]))' => Acked(a) /\ a \in Readable(SessionOf[a])
    BY <2>2 DEF Onward
  <2>4. \A i \in DOMAIN seen[r] : seen[r][i] \in Appends /\ stage'[seen[r][i]] # "new" /\ ticket'[seen[r][i]] = ticket[seen[r][i]]
    BY <2>1 DEF ReadInv, Onward
  <2>5. QED
    BY <2>1, <2>3, <2>4 DEF ReadInv
<1>6. /\ reading'[r] # "returned" => seen'[r] = Unread
      /\ since'[r] \in Nat /\ since'[r] <= arrivals'
  BY <1>1 DEF ReadInv, Onward
<1>7. /\ reading'[r] = "waiting" /\ waitsFor'[r] = NoAppend => Asked(r)' \subseteq settled'
      /\ reading'[r] \in {"reading", "returned"} => Asked(r)' \subseteq settled'
  BY <1>2, <1>4 DEF ReadInv
<1>8. reading'[r] = "waiting" /\ waitsFor'[r] # NoAppend =>
        /\ waitsFor'[r] \in Appends /\ SessionOf[waitsFor'[r]] = SessionOf[r] /\ stage'[waitsFor'[r]] # "new"
        /\ \A a \in Asked(r)' : ticket'[a] <= ticket'[waitsFor'[r]]
  BY <1>2, <1>3
<1>9. reading'[r] = "returned" =>
        /\ \A i \in DOMAIN seen'[r] : seen'[r][i] \in Appends /\ stage'[seen'[r][i]] # "new"
        /\ \A i, j \in DOMAIN seen'[r] : i < j => ticket'[seen'[r][i]] < ticket'[seen'[r][j]]
        /\ \A a \in Asked(r)' : Acked(a)' /\ (a \in Readable(SessionOf[a]))' => \E i \in DOMAIN seen'[r] : seen'[r][i] = a
  BY <1>2, <1>5
<1>10. QED
  BY <1>6, <1>7, <1>8, <1>9 DEF ReadInv

\* An event is readable when read would find it.
LEMMA ReadableIs ==
  ASSUME NEW a, NEW s
  PROVE  /\ a \in Readable(s) <=> \E i \in DOMAIN EventsIn(file[s]) : EventsIn(file[s])[i] = a
         /\ (a \in Readable(s))' <=> \E i \in DOMAIN EventsIn(file'[s]) : EventsIn(file'[s])[i] = a
<1>1. a \in Readable(s) <=> \E i \in DOMAIN EventsIn(file[s]) : EventsIn(file[s])[i] = a
  BY DEF Readable
<1>2. (a \in Readable(s))' <=> \E i \in DOMAIN EventsIn(file'[s]) : EventsIn(file'[s])[i] = a
  BY DEF Readable, EventsIn, IsEvent
<1>3. QED
  BY <1>1, <1>2

\* Bytes only make the event of their own append readable.
LEMMA WriteReveals ==
  ASSUME CallsInv, FilesInv, NEW a \in Appends, WritePiece(a), NEW b \in Appends \ {a}, (b \in Readable(SessionOf[b]))'
  PROVE  b \in Readable(SessionOf[b])
<1>1. PICK p \in Put, n \in Nat, m \in Nat :
        /\ Position(file[SessionOf[a]], a, n, m) /\ Grown(file[SessionOf[a]], file'[SessionOf[a]], a, p, n, m)
        /\ file' = [file EXCEPT ![SessionOf[a]] = file'[SessionOf[a]]]
  BY BytesGrow
<1>2. CASE SessionOf[b] # SessionOf[a]
  <2>1. file'[SessionOf[b]] = file[SessionOf[b]]
    BY <1>1, <1>2, ChainFacts DEF FilesInv
  <2>2. QED
    BY <2>1, ReadableIs
<1>3. CASE SessionOf[b] = SessionOf[a]
  <2>1. PICK f, g, s : f = file[s] /\ g = file'[s] /\ s = SessionOf[a]
    OBVIOUS
  <2>2. FileOK(f, s) /\ Grown(f, g, a, p, n, m) /\ Position(f, a, n, m)
    BY <1>1, <2>1, ChainFacts DEF FilesInv
  <2>3. n \in Nat \ {0} /\ m \in Nat \ {0}
    <3>1. GrownParts(f, g, a, n, m)
      BY <2>2, PartsOfGrown
    <3>2. QED
      BY <3>1 DEF GrownParts
  <2>4. PICK i \in DOMAIN EventsIn(g) : EventsIn(g)[i] = b
    BY <1>3, <2>1, ReadableIs
  <2>5. /\ DOMAIN EventsIn(g) = {k \in 1..n : IsEvent(g[k])}
        /\ \A k \in 1..(n - 1) : g[k] = f[k] /\ (IsEvent(g[k]) <=> IsEvent(f[k]))
        /\ IsEvent(g[n]) <=> m = 1 /\ p # "torn"
        /\ m = 1 => g[n].parts[1].by = a
        /\ \A k \in DOMAIN EventsIn(g) : EventsIn(g)[k] = g[k].parts[1].by
    BY <2>2, <2>3, GrownEvents
  <2>6. i # n
    BY <2>4, <2>5
  <2>7. i \in 1..(n - 1) /\ IsEvent(f[i]) /\ f[i].parts[1].by = b
    BY <2>3, <2>4, <2>5, <2>6
  <2>8. Len(f) \in Nat /\ DOMAIN f = 1..Len(f) /\ n - 1 <= Len(f)
    BY <2>2, FileFacts DEF Position
  <2>9. i \in DOMAIN f
    BY <2>3, <2>7, <2>8
  <2>10. i \in DOMAIN EventsIn(f) /\ EventsIn(f)[i] = b
    BY <2>7, <2>9 DEF EventsIn
  <2>11. QED
    BY <1>3, <2>1, <2>10, ReadableIs
<1>4. QED
  BY <1>2, <1>3

\* Time goes on with the steps of appends.
LEMMA AppendIsOnward ==
  ASSUME CallsInv, FilesInv, NEW a \in Appends, AppendStep(a)
  PROVE  Onward
<1>1. \A b \in Appends \ {a} : stage'[b] = stage[b] /\ outcome'[b] = outcome[b]
  BY AppendKeepsCalls
<1>2. /\ stage \in [Appends -> {"new", "queued", "running"} \cup Finished] /\ settled \subseteq Appends
      /\ arrivals \in Nat /\ ticket \in [Appends -> Nat] /\ \A b \in settled : stage[b] \in Finished
  BY ChainSays DEF CallsInv
<1>3. /\ settled \subseteq settled' /\ (stage[a] # "new" => stage'[a] # "new")
      /\ \/ UNCHANGED <<arrivals, ticket>> /\ (stage[a] = "new" => stage'[a] = "new")
         \/ /\ stage[a] = "new" /\ arrivals' = arrivals + 1
            /\ ticket' = [ticket EXCEPT ![a] = arrivals + 1]
  BY <1>2 DEF AppendStep, RefuseAppend, CallAppend, BeginAppend, AuthorizeAppend, WritePiece, AckAppend, FailAppend,
     SettleAppend, ReturnAppend, chainVars, W!Enqueue, W!Start, W!Finish, W!Settle, Finished
<1>4. ASSUME NEW b \in settled, Acked(b)', (b \in Readable(SessionOf[b]))'
      PROVE  Acked(b) /\ b \in Readable(SessionOf[b])
  <2>1. b \in Appends /\ stage[b] \in Finished
    BY <1>2
  <2>2. CASE SettleAppend(a)
    BY <1>4, <2>2, ReadableIs DEF SettleAppend, Acked
  <2>3. CASE ~SettleAppend(a)
    <3>1. b # a
      BY <2>1, <2>3 DEF AppendStep, RefuseAppend, CallAppend, BeginAppend, AuthorizeAppend, WritePiece, AckAppend,
         FailAppend, ReturnAppend, W!Enqueue, W!Start, W!Finish, Finished
    <3>2. Acked(b)
      BY <1>1, <1>4, <2>1, <3>1 DEF Acked
    <3>3. CASE WritePiece(a)
      BY <1>4, <2>1, <3>1, <3>2, <3>3, WriteReveals
    <3>4. CASE ~WritePiece(a)
      <4>1. UNCHANGED file
        BY <2>3, <3>4 DEF AppendStep, RefuseAppend, CallAppend, BeginAppend, AuthorizeAppend, AckAppend, FailAppend
      <4>2. QED
        BY <1>4, <3>2, <4>1, ReadableIs
    <3>5. QED
      BY <3>3, <3>4
  <2>4. QED
    BY <2>2, <2>3
<1>5. QED
  BY <1>1, <1>2, <1>3, <1>4 DEF Onward

\* And with every other step.
LEMMA StepIsOnward == CallsInv /\ FilesInv /\ [StoreNext]_storeVars => Onward
<1> SUFFICES ASSUME CallsInv, FilesInv, [StoreNext]_storeVars PROVE Onward
  OBVIOUS
<1>1. /\ stage \in [Appends -> {"new", "queued", "running"} \cup Finished] /\ settled \subseteq Appends
      /\ arrivals \in Nat /\ ticket \in [Appends -> Nat] /\ \A b \in settled : stage[b] \in Finished
  BY ChainSays DEF CallsInv
<1>2. ASSUME UNCHANGED file, \A b \in Appends : Acked(b)' => Acked(b), UNCHANGED <<arrivals, ticket>>, settled \subseteq settled',
             \A b \in Appends : stage'[b] = "new" <=> stage[b] = "new"
      PROVE  Onward
  <2>1. \A b \in Appends : (b \in Readable(SessionOf[b]))' => b \in Readable(SessionOf[b])
    BY <1>2, ReadableIs
  <2>2. QED
    BY <1>1, <1>2, <2>1 DEF Onward
<1>3. CASE Crash
  <2>1. \A b \in Appends : Acked(b)' => Acked(b)
    BY <1>3 DEF Crash, Acked
  <2>2. settled \subseteq settled' /\ \A b \in Appends : stage'[b] = "new" <=> stage[b] = "new"
    BY <1>1, <1>3 DEF Crash, Finished
  <2>3. QED
    BY <1>2, <1>3, <2>1, <2>2 DEF Crash
<1>4. ASSUME UNCHANGED <<chainVars, file, outcome>> PROVE Onward
  BY <1>2, <1>4 DEF chainVars, Acked
<1>5. ASSUME NEW r \in Reads, ReadStep(r) PROVE Onward
  BY <1>4, <1>5 DEF ReadStep, RefuseRead, CallRead, ResumeRead, ReadFile
<1>6. QED
  BY <1>3, <1>4, <1>5, AppendIsOnward DEF StoreNext, AppendStep, ReadStep, AllReturned, storeVars

\* What a step of a read does to it: the steps of the call, then of readFile.
LEMMA CallKeepsRead ==
  ASSUME CallsInv, ReadsInv, NEW r \in Reads, CallRead(r)
  PROVE  ReadInv(r)'
<1>1. /\ reading[r] = "idle" /\ reading'[r] = "waiting" /\ waitsFor'[r] = writeQueues[SessionOf[r]]
      /\ since'[r] = arrivals /\ seen'[r] = Unread /\ UNCHANGED <<chainVars, file, outcome>>
  BY DEF CallRead, ReadsInv, ReadInv
<1>2. /\ UNCHANGED <<writeQueues, stage, settled, arrivals, ticket>> /\ arrivals \in Nat /\ SessionOf[r] \in Sessions
      /\ ticket \in [Appends -> Nat]
  BY <1>1, ChainFacts, ChainSays DEF chainVars, CallsInv
<1>3. Asked(r)' \subseteq {a \in Appends : SessionOf[a] = SessionOf[r] /\ stage[a] # "new"}
  BY <1>2 DEF Asked
<1>4. PICK w, s : w = waitsFor'[r] /\ s = SessionOf[r] /\ w = writeQueues[s] /\ s \in Sessions
  BY <1>1, <1>2
<1>5. /\ w = NoAppend => \A a \in Appends : SessionOf[a] = s /\ stage[a] # "new" => a \in settled
      /\ w # NoAppend =>
           /\ w \in Appends /\ SessionOf[w] = s /\ stage[w] # "new"
           /\ \A a \in Appends : SessionOf[a] = s /\ stage[a] # "new" => ticket[a] <= ticket[w]
  BY <1>4, ChainSays DEF CallsInv
<1>6. waitsFor'[r] = NoAppend => Asked(r)' \subseteq settled'
  BY <1>2, <1>3, <1>4, <1>5
<1>7. waitsFor'[r] # NoAppend =>
        /\ waitsFor'[r] \in Appends /\ SessionOf[waitsFor'[r]] = SessionOf[r] /\ stage'[waitsFor'[r]] # "new"
        /\ \A a \in Asked(r)' : ticket'[a] <= ticket'[waitsFor'[r]]
  BY <1>2, <1>3, <1>4, <1>5
<1>8. QED
  BY <1>1, <1>2, <1>6, <1>7 DEF ReadInv

\* All that the read was asked to wait for has settled when its turn comes.
LEMMA ResumeKeepsRead ==
  ASSUME CallsInv, ReadsInv, NEW r \in Reads, ResumeRead(r)
  PROVE  ReadInv(r)'
<1>1. /\ reading[r] = "waiting" /\ reading'[r] = "reading" /\ UNCHANGED <<stage, settled, arrivals, ticket>>
      /\ UNCHANGED <<waitsFor, since, seen>> /\ (waitsFor[r] = NoAppend \/ waitsFor[r] \in settled)
  BY DEF ResumeRead, ReadsInv, chainVars
<1>2. ReadInv(r) /\ Asked(r)' = Asked(r)
  BY <1>1 DEF ReadsInv, Asked
<1>3. ASSUME waitsFor[r] # NoAppend, NEW a \in Asked(r) PROVE a \in settled
  <2>1. PICK w : w = waitsFor[r]
    OBVIOUS
  <2>2. w \in settled /\ w \in Appends /\ SessionOf[w] = SessionOf[r] /\ ticket[a] <= ticket[w]
    BY <1>1, <1>2, <1>3, <2>1 DEF ReadInv
  <2>3. a \in Appends /\ SessionOf[a] = SessionOf[w] /\ stage[a] # "new" /\ ticket[a] \in Nat /\ ticket[w] \in Nat
    BY <2>2, ChainSays DEF Asked, CallsInv
  <2>4. CASE ticket[a] = ticket[w]
    BY <2>2, <2>3, <2>4, ChainSays DEF CallsInv
  <2>5. CASE ticket[a] < ticket[w]
    BY <2>2, <2>3, <2>5, ChainSays DEF CallsInv
  <2>6. QED
    BY <2>2, <2>3, <2>4, <2>5
<1>4. Asked(r)' \subseteq settled'
  BY <1>1, <1>2, <1>3 DEF ReadInv
<1>5. seen'[r] = Unread /\ since'[r] \in Nat /\ since'[r] <= arrivals'
  BY <1>1, <1>2 DEF ReadInv
<1>6. QED
  BY <1>1, <1>4, <1>5 DEF ReadInv

\* What readFile returns is what the file's events say at that moment.
LEMMA FileKeepsRead ==
  ASSUME CallsInv, FilesInv, ReadsInv, NEW r \in Reads, ReadFile(r)
  PROVE  ReadInv(r)'
<1>1. /\ reading[r] = "reading" /\ UNCHANGED <<stage, settled, arrivals, ticket, file, outcome, waitsFor, since>>
      /\ \/ reading'[r] = "returned" /\ seen'[r] = EventsIn(file[SessionOf[r]])
         \/ reading'[r] = "failed" /\ seen'[r] = seen[r]
  BY DEF ReadFile, ReadsInv, chainVars
<1>2. ReadInv(r) /\ Asked(r)' = Asked(r)
  BY <1>1 DEF ReadsInv, Asked
<1>3. /\ reading'[r] # "returned" => seen'[r] = Unread
      /\ since'[r] \in Nat /\ since'[r] <= arrivals' /\ Asked(r)' \subseteq settled'
  BY <1>1, <1>2 DEF ReadInv
<1>4. ASSUME reading'[r] = "returned"
      PROVE  /\ \A i \in DOMAIN seen'[r] : seen'[r][i] \in Appends /\ stage'[seen'[r][i]] # "new"
             /\ \A i, j \in DOMAIN seen'[r] : i < j => ticket'[seen'[r][i]] < ticket'[seen'[r][j]]
             /\ \A a \in Asked(r)' : Acked(a)' /\ (a \in Readable(SessionOf[a]))' => \E i \in DOMAIN seen'[r] : seen'[r][i] = a
  <2>1. PICK e, f, s : e = seen'[r] /\ f = file[s] /\ s = SessionOf[r] /\ e = EventsIn(f)
    BY <1>1, <1>4
  <2>2. FileOK(f, s)
    BY <2>1, ChainFacts DEF FilesInv
  <2>3. EventsOK(f, s)
    BY <2>2, EventFacts
  <2>4. \A i \in DOMAIN e : e[i] \in Appends /\ stage[e[i]] # "new"
    <3>1. \A i \in DOMAIN e : e[i] \in Appends /\ written[e[i]] \in {"body", "line"}
      BY <2>1, <2>3 DEF EventsOK
    <3>2. QED
      BY <3>1 DEF CallsInv, CallInv
  <2>5. \A i, j \in DOMAIN e : i < j => ticket[e[i]] < ticket[e[j]]
    BY <2>1, <2>3 DEF EventsOK
  <2>6. ASSUME NEW a \in Asked(r), (a \in Readable(SessionOf[a]))' PROVE \E i \in DOMAIN e : e[i] = a
    <3>1. SessionOf[a] = s /\ file'[s] = f
      BY <1>1, <2>1 DEF Asked
    <3>2. QED
      BY <2>1, <2>6, <3>1, ReadableIs
  <2>7. QED
    BY <1>1, <1>2, <2>1, <2>4, <2>5, <2>6
<1>5. reading'[r] \in {"returned", "failed"}
  BY <1>1
<1>6. QED
  BY <1>3, <1>4, <1>5 DEF ReadInv

\* Reads, whoever steps.
LEMMA StepKeepsReads == CallsInv /\ FilesInv /\ ReadsInv /\ [StoreNext]_storeVars => ReadsInv'
<1> SUFFICES ASSUME CallsInv, FilesInv, ReadsInv, [StoreNext]_storeVars PROVE ReadsInv'
  OBVIOUS
<1>1. CallsInv' /\ Onward
  BY StepKeepsCalls, StepIsOnward
<1>2. ASSUME UNCHANGED readVars PROVE ReadsInv'
  <2>1. \A r \in Reads : ReadInv(r)'
    BY <1>1, <1>2, OnwardKeepsRead DEF ReadsInv, readVars
  <2>2. QED
    BY <1>2, <2>1 DEF ReadsInv, readVars
<1>3. CASE Crash
  <2>1. \A r \in Reads : reading'[r] = IF reading[r] \in {"waiting", "reading"} THEN "failed" ELSE reading[r]
    BY <1>3 DEF Crash
  <2>2. UNCHANGED <<waitsFor, since, seen>>
    BY <1>3 DEF Crash
  <2>3. \A r \in Reads : ReadInv(r)'
    BY <1>1, <2>1, <2>2, OnwardKeepsRead DEF ReadsInv
  <2>4. reading' \in [Reads -> {"idle", "waiting", "reading", "returned", "failed"}]
    BY <1>3 DEF Crash, ReadsInv
  <2>5. QED
    BY <2>2, <2>3, <2>4 DEF ReadsInv
<1>4. ASSUME NEW a \in Appends, AppendStep(a) PROVE ReadsInv'
  BY <1>2, <1>4, AppendKeepsCalls
<1>5. ASSUME NEW r \in Reads, ReadStep(r) PROVE ReadsInv'
  <2>1. /\ reading' \in [Reads -> {"idle", "waiting", "reading", "returned", "failed"}]
        /\ waitsFor' = [x \in Reads |-> waitsFor'[x]] /\ since' = [x \in Reads |-> since'[x]]
        /\ seen' = [x \in Reads |-> seen'[x]]
    BY <1>5 DEF ReadsInv, ReadStep, RefuseRead, CallRead, ResumeRead, ReadFile
  <2>2. ASSUME NEW x \in Reads \ {r} PROVE ReadInv(x)'
    <3>1. reading'[x] = reading[x] /\ waitsFor'[x] = waitsFor[x] /\ since'[x] = since[x] /\ seen'[x] = seen[x]
      BY <1>5 DEF ReadsInv, ReadStep, RefuseRead, CallRead, ResumeRead, ReadFile
    <3>2. QED
      BY <1>1, <3>1, OnwardKeepsRead DEF ReadsInv
  <2>3. ReadInv(r)'
    <3>1. CASE RefuseRead(r)
      <4>1. /\ reading[r] = "idle" /\ reading'[r] = "failed"
            /\ waitsFor'[r] = waitsFor[r] /\ since'[r] = since[r] /\ seen'[r] = seen[r]
        BY <3>1 DEF ReadsInv, RefuseRead
      <4>2. QED
        BY <1>1, <4>1, OnwardKeepsRead DEF ReadsInv
    <3>2. QED
      BY <1>5, <3>1, CallKeepsRead, ResumeKeepsRead, FileKeepsRead DEF ReadStep
  <2>4. QED
    BY <2>1, <2>2, <2>3 DEF ReadsInv
<1>6. QED
  BY <1>2, <1>3, <1>4, <1>5 DEF StoreNext, AppendStep, ReadStep, AllReturned, storeVars

\* The whole invariant.
StoreInv == CallsInv /\ FilesInv /\ ReadsInv

\* Every step keeps it.
LEMMA StoreStep == StoreInv /\ [StoreNext]_storeVars => StoreInv'
BY StepKeepsCalls, StepKeepsFiles, StepKeepsReads DEF StoreInv

\* It holds of empty files, and nothing called.
LEMMA StoreStart == StoreInit => StoreInv
<1> SUFFICES ASSUME StoreInit PROVE StoreInv
  OBVIOUS
<1>1. Chain!ChainInv
  <2>1. Chain!QueueInit
    BY DEF StoreInit, W!QueueInit, Chain!QueueInit
  <2>2. QED
    BY <2>1, ChainFacts DEF Chain!QueueInit, Chain!ChainInv, Chain!QueueTypeOK, Chain!Stages, Chain!TicketInv, Chain!Enqueued,
       Chain!SettledIsFinished, Chain!PrevIsPredecessor, Chain!EntryIsLast, Chain!SettledInOrder, Chain!Before
<1>2. stage = [a \in Appends |-> "new"] /\ settled = {} /\ arrivals = 0
  BY DEF StoreInit, W!QueueInit
<1>3. CallsInv
  BY <1>1, <1>2 DEF StoreInit, CallsInv, CallsTypeOK, CallInv, Written, Outcomes, InProgress, Finished
<1>4. FilesInv
  <2>1. \A s \in Sessions : file[s] = <<>> /\ <<>> \in Seq(Lines) /\ Len(file[s]) = 0
    BY DEF StoreInit
  <2>2. QED
    BY <2>1 DEF StoreInit, FilesInv, FileOK, Put, InProgress
<1>5. ReadsInv
  BY <1>2 DEF StoreInit, ReadsInv, ReadInv
<1>6. QED
  BY <1>3, <1>4, <1>5 DEF StoreInv

-----------------------------------------------------------------------------
\* A read returns, once each and in the order of the calls of append, every
\* readable event whose append was called before the read and succeeded.
THEOREM ReadsFollowTheCalls == StoreSpec => []ReadsFollowCalls
<1>1. StoreInv => ReadsFollowCalls
  <2> SUFFICES ASSUME StoreInv, NEW r \in Reads, reading[r] = "returned"
               PROVE  /\ \A i, j \in DOMAIN seen[r] : i < j => ticket[seen[r][i]] < ticket[seen[r][j]]
                      /\ \A a \in Appends :
                           /\ SessionOf[a] = SessionOf[r] /\ Acked(a) /\ ticket[a] <= since[r]
                           /\ a \in Readable(SessionOf[a])
                           => \E i \in DOMAIN seen[r] : seen[r][i] = a
    BY DEF ReadsFollowCalls
  <2>1. ReadInv(r)
    BY DEF StoreInv, ReadsInv
  <2>2. \A a \in Appends : Acked(a) => stage[a] # "new"
    BY DEF StoreInv, CallsInv, CallInv, Acked
  <2>3. QED
    BY <2>1, <2>2 DEF ReadInv, Asked
<1>2. QED
  BY <1>1, StoreStart, StoreStep, PTL DEF StoreSpec

-----------------------------------------------------------------------------
(* Losses *)

\* Maps that keep elements apart, and what they say of sizes.
LEMMA NoMoreThan ==
  ASSUME NEW S, NEW T, NEW f \in [S -> T], \A x, y \in S : f[x] = f[y] => x = y, IsFiniteSet(T)
  PROVE  IsFiniteSet(S) /\ Cardinality(S) <= Cardinality(T)
<1>1. f \in Injection(S, T)
  BY DEF Injection, IsInjective
<1>2. QED
  BY <1>1, FS_Injection

\* Only so many appends have been called, and those that were cut off are among them.
LEMMA TornIsFinite ==
  ASSUME CallsInv
  PROVE  IsFiniteSet(Torn) /\ Cardinality(Torn) \in Nat
<1> DEFINE f == [a \in Torn |-> ticket[a]]
<1>1. arrivals \in Nat /\ IsFiniteSet(0..arrivals)
  BY ChainSays, FS_Interval DEF CallsInv
<1>2. \A a \in Torn : a \in Appends /\ stage[a] # "new"
  BY DEF CallsInv, CallInv, Torn, InProgress
<1>3. f \in [Torn -> 0..arrivals]
  BY <1>1, <1>2, ChainSays DEF CallsInv
<1>4. \A a, b \in Torn : f[a] = f[b] => a = b
  BY <1>2, ChainSays DEF CallsInv
<1> HIDE DEF f
<1>5. IsFiniteSet(Torn)
  BY <1>1, <1>3, <1>4, NoMoreThan
<1>6. QED
  BY <1>5, FS_CardinalityType

\* The bound on them is the guards'.
TornBound == Cardinality(Torn) <= MaxTears

\* A step of an append cuts nobody else off.
LEMMA AppendKeepsTorn ==
  ASSUME CallsInv, TornBound, NEW a \in Appends, AppendStep(a)
  PROVE  TornBound'
<1>1. \A b \in Appends \ {a} : written'[b] = written[b] /\ outcome'[b] = outcome[b]
  BY AppendKeepsCalls
<1>2. a \in Torn => a \in Torn'
  BY DEF Torn, InProgress, CallsInv, CallsTypeOK, CallInv, AppendStep, RefuseAppend, CallAppend, BeginAppend, AuthorizeAppend,
     WritePiece, AckAppend, FailAppend, SettleAppend, ReturnAppend, W!Enqueue, W!Start, W!Finish, W!Settle, Finished
<1>3. Torn' \in {Torn, Torn \cup {a}}
  <2>1. \A b \in Appends \ {a} : b \in Torn' <=> b \in Torn
    BY <1>1 DEF Torn
  <2>2. Torn \subseteq Appends /\ Torn' \subseteq Appends
    BY DEF Torn
  <2>3. QED
    BY <1>2, <2>1, <2>2
<1>4. CASE FailAppend(a) /\ written[a] \in InProgress
  <2>1. Cardinality(Torn) < MaxTears /\ IsFiniteSet(Torn) /\ Cardinality(Torn) \in Nat /\ MaxTears \in Nat
    BY <1>4, TornIsFinite, StoreAssumption DEF FailAppend
  <2>2. Cardinality(Torn') <= Cardinality(Torn) + 1
    BY <1>3, <2>1, FS_AddElement
  <2>3. Cardinality(Torn') \in Nat
    BY <1>3, <2>1, FS_AddElement, FS_CardinalityType
  <2>4. QED
    BY <2>1, <2>2, <2>3 DEF TornBound
<1>5. CASE ~(FailAppend(a) /\ written[a] \in InProgress)
  <2>1. a \in Torn' => a \in Torn
    BY <1>5 DEF Torn, InProgress, CallsInv, CallsTypeOK, CallInv, AppendStep, RefuseAppend, CallAppend, BeginAppend,
       AuthorizeAppend, WritePiece, AckAppend, FailAppend, SettleAppend, ReturnAppend, W!Enqueue, W!Start, W!Finish,
       W!Settle, Finished
  <2>2. Torn' = Torn
    BY <1>3, <2>1
  <2>3. QED
    BY <2>2 DEF TornBound
<1>6. QED
  BY <1>4, <1>5

\* Nor does another step cut off more than its guard allows.
LEMMA StepKeepsTorn == CallsInv /\ TornBound /\ [StoreNext]_storeVars => TornBound'
<1> SUFFICES ASSUME CallsInv, TornBound, [StoreNext]_storeVars PROVE TornBound'
  OBVIOUS
<1>1. CASE Crash
  <2> DEFINE inFlight == {a \in Appends : stage[a] \in {"queued", "running"}}
  <2>1. Cardinality(Torn \cup {a \in inFlight : written[a] \in InProgress}) <= MaxTears
    BY <1>1 DEF Crash
  <2>2. \A a \in Appends : outcome'[a] = IF a \in inFlight THEN "lost" ELSE outcome[a]
    BY <1>1 DEF Crash
  <2>3. Torn' = Torn \cup {a \in inFlight : written[a] \in InProgress}
    BY <1>1, <2>2 DEF Crash, Torn, CallsInv, CallInv
  <2>4. QED
    BY <2>1, <2>3 DEF TornBound
<1>2. CASE UNCHANGED <<written, outcome>>
  <2>1. Torn' = Torn
    BY <1>2 DEF Torn
  <2>2. QED
    BY <2>1 DEF TornBound
<1>3. ASSUME NEW r \in Reads, ReadStep(r) PROVE TornBound'
  BY <1>2, <1>3 DEF ReadStep, RefuseRead, CallRead, ResumeRead, ReadFile
<1>4. QED
  BY <1>1, <1>2, <1>3, AppendKeepsTorn DEF StoreNext, AppendStep, ReadStep, AllReturned, storeVars

\* An event that was acknowledged and cannot be read stands behind what
\* another left of the line, and nobody else does.
LEMMA LostBehindTorn ==
  ASSUME CallsInv, FilesInv, NEW a \in Appends, Acked(a), a \notin Readable(SessionOf[a])
  PROVE  \E i \in 1..Len(file[SessionOf[a]]) :
           LET l == file[SessionOf[a]][i].parts
           IN Len(l) \in Nat /\ Len(l) > 0 /\ l[Len(l)].by = a /\ l[1].by \in Torn /\ SessionOf[l[1].by] = SessionOf[a]
<1>1. PICK f, s : f = file[s] /\ s = SessionOf[a]
  OBVIOUS
<1>2. FileOK(f, s) /\ PutInto(a, f) /\ written[a] = "line" /\ a \notin Torn
  BY <1>1, ChainFacts DEF FilesInv, CallsInv, CallInv, Acked, Put, Torn
<1>3. PICK i \in 1..Len(f) : \E j \in 1..Len(f[i].parts) : f[i].parts[j].by = a
  BY <1>2 DEF PutInto
<1>4. PICK j \in 1..Len(f[i].parts) : f[i].parts[j].by = a
  BY <1>3
<1>5. Len(f[i].parts) \in Nat \ {0}
  BY <1>2, FileFacts
<1>6. j = Len(f[i].parts) /\ f[i].parts[j].whole
  BY <1>2, <1>4, <1>5 DEF FileOK
<1>7. Len(f[i].parts) # 1
  <2> SUFFICES ASSUME Len(f[i].parts) = 1 PROVE FALSE
    OBVIOUS
  <2>1. IsEvent(f[i]) /\ i \in DOMAIN f /\ f[i].parts[1].by = a
    BY <1>2, <1>4, <1>6, FileFacts DEF IsEvent
  <2>2. i \in DOMAIN EventsIn(f) /\ EventsIn(f)[i] = a
    BY <2>1 DEF EventsIn
  <2>3. QED
    BY <1>1, <2>2, ReadableIs
<1>8. f[i].parts[1].by \in Torn /\ SessionOf[f[i].parts[1].by] = s
  <2>0. PICK n \in Nat \ {0} : n = Len(f[i].parts) /\ n # 1
    BY <1>5, <1>7
  <2>1. PICK k \in 1..n : k = 1
    BY <2>0
  <2>2. PICK b : b = f[i].parts[k].by
    OBVIOUS
  <2>3. k \in 1..Len(f[i].parts) /\ k < Len(f[i].parts)
    <3>1. k < n /\ k \in 1..n
      <4>1. n \in Nat \ {0} /\ n # 1 /\ k = 1
        BY <2>0, <2>1
      <4>2. QED
        BY <4>1
    <3>2. n = Len(f[i].parts)
      BY <2>0
    <3>3. QED
      BY <3>1, <3>2, Zenon
  <2>4. b \in Torn /\ SessionOf[b] = s
    BY <1>2, <2>2, <2>3 DEF FileOK
  <2>5. QED
    BY <2>1, <2>2, <2>4
<1>9. PICK l : l = f[i].parts
  OBVIOUS
<1>10. Len(l) \in Nat /\ Len(l) > 0 /\ l[Len(l)].by = a /\ l[1].by \in Torn /\ SessionOf[l[1].by] = SessionOf[a]
  <2>1. l[j].by = a /\ j = Len(l)
    BY <1>4, <1>6, <1>9
  <2>2. l[Len(l)].by = a
    BY <2>1
  <2>3. QED
    BY <1>1, <1>5, <1>8, <1>9, <2>2
<1>11. QED
  BY <1>1, <1>9, <1>10

\* The acknowledged events a reader does not find, and how many there can be.
Lost == {a \in Appends : Acked(a) /\ a \notin Readable(SessionOf[a])}

Losses ==
  /\ Cardinality(Torn) \in Nat /\ Cardinality(Lost) \in Nat
  /\ Cardinality(Lost) <= Cardinality(Torn)

\* Append b, which was cut off, begins the line append a ends.
Behind(a, b) ==
  \E i \in 1..Len(file[SessionOf[a]]) :
    LET l == file[SessionOf[a]][i].parts
    IN Len(l) \in Nat /\ Len(l) > 0 /\ l[Len(l)].by = a /\ l[1].by = b /\ b \in Torn /\ SessionOf[b] = SessionOf[a]

\* No two events stand behind the same append.
LEMMA LossesAreFew == StoreInv => Losses
<1> SUFFICES ASSUME StoreInv PROVE Losses
  OBVIOUS
<1> DEFINE f == [a \in Lost |-> CHOOSE b \in Torn : Behind(a, b)]
<1>1. \A a \in Lost : \E b \in Torn : Behind(a, b)
  BY LostBehindTorn DEF StoreInv, Lost, Behind
<1>2. ASSUME NEW a \in Appends, NEW c \in Appends, NEW b, Behind(a, b), Behind(c, b) PROVE a = c
  <2>1. PICK g, s : g = file[s] /\ s = SessionOf[a] /\ s = SessionOf[c]
    BY <1>2 DEF Behind
  <2>2. PICK i \in 1..Len(g) : Len(g[i].parts) \in Nat /\ Len(g[i].parts) > 0 /\ g[i].parts[Len(g[i].parts)].by = a /\ g[i].parts[1].by = b
    BY <1>2, <2>1 DEF Behind
  <2>3. PICK k \in 1..Len(g) : Len(g[k].parts) \in Nat /\ Len(g[k].parts) > 0 /\ g[k].parts[Len(g[k].parts)].by = c /\ g[k].parts[1].by = b
    BY <1>2, <2>1 DEF Behind
  <2>4. FileOK(g, s)
    BY <2>1, ChainFacts DEF StoreInv, FilesInv
  <2>5. 1 \in 1..Len(g[i].parts) /\ 1 \in 1..Len(g[k].parts)
    BY <2>2, <2>3
  <2>6. i = k
    BY <2>2, <2>3, <2>4, <2>5 DEF FileOK
  <2>7. QED
    BY <2>2, <2>3, <2>6
<1>3. f \in [Lost -> Torn] /\ \A a \in Lost : Behind(a, f[a])
  BY <1>1
<1>4. \A a, c \in Lost : f[a] = f[c] => a = c
  BY <1>2, <1>3 DEF Lost
<1> HIDE DEF f
<1>5. IsFiniteSet(Torn) /\ Cardinality(Torn) \in Nat
  BY TornIsFinite DEF StoreInv
<1>6. IsFiniteSet(Lost) /\ Cardinality(Lost) <= Cardinality(Torn)
  BY <1>3, <1>4, <1>5, NoMoreThan
<1>7. QED
  BY <1>5, <1>6, FS_CardinalityType DEF Losses

\* However appends fail, are cut off and follow each other, no more acknowledged
\* events are lost to readers than appends were cut off inside their line.
THEOREM OneLossPerCutOff == StoreSpec => []OneLossPerTear
<1>1. StoreInv => OneLossPerTear
  BY LossesAreFew DEF Losses, OneLossPerTear, Lost
<1>2. QED
  BY <1>1, StoreStart, StoreStep, PTL DEF StoreSpec

-----------------------------------------------------------------------------
(* The log *)

Logs == [s \in Sessions |-> EventsIn(file[s])]
AckedNow == {a \in Appends : Acked(a)}

\* Events F are those of E but for line n, which is one when a has the line for itself.
NewLastLine(E, F, a, p, n, m) ==
  /\ F = [i \in (DOMAIN E \ {n}) \cup (IF m = 1 /\ p # "torn" THEN {n} ELSE {}) |-> IF i = n THEN a ELSE E[i]]
  /\ \A i \in DOMAIN E : i \in Nat /\ i <= n

\* The events of a file that has grown are those it had, but for the last line.
LEMMA EventsOfGrown ==
  ASSUME NEW f, NEW g, NEW s, NEW a \in Appends, NEW p, NEW n \in Nat, NEW m \in Nat,
         FileOK(f, s), Position(f, a, n, m), Grown(f, g, a, p, n, m)
  PROVE  NewLastLine(EventsIn(f), EventsIn(g), a, p, n, m)
<1>1. n \in Nat \ {0} /\ m \in Nat \ {0}
  <2>1. GrownParts(f, g, a, n, m)
    BY PartsOfGrown
  <2>2. QED
    BY <2>1 DEF GrownParts
<1>2. /\ DOMAIN EventsIn(g) = {i \in 1..n : IsEvent(g[i])}
      /\ \A i \in 1..(n - 1) : g[i] = f[i] /\ (IsEvent(g[i]) <=> IsEvent(f[i]))
      /\ IsEvent(g[n]) <=> m = 1 /\ p # "torn"
      /\ m = 1 => g[n].parts[1].by = a
      /\ \A i \in DOMAIN EventsIn(g) : EventsIn(g)[i] = g[i].parts[1].by
  BY <1>1, GrownEvents
<1>3. EventsOK(f, s)
  BY EventFacts
<1>4. /\ DOMAIN EventsIn(f) = {i \in 1..Len(f) : IsEvent(f[i])} /\ Len(f) \in Nat
      /\ \A i \in DOMAIN EventsIn(f) : EventsIn(f)[i] = f[i].parts[1].by
  BY <1>3 DEF EventsOK
<1>5. n = Len(f) \/ n = Len(f) + 1
  BY DEF Position
<1>6. \A i \in DOMAIN EventsIn(f) : i \in Nat /\ i <= n
  BY <1>4, <1>5
<1>7. DOMAIN EventsIn(g) = (DOMAIN EventsIn(f) \ {n}) \cup (IF m = 1 /\ p # "torn" THEN {n} ELSE {})
  <2>1. ASSUME NEW i, i # n PROVE i \in DOMAIN EventsIn(g) <=> i \in DOMAIN EventsIn(f)
    <3>1. i \in 1..n <=> i \in 1..(n - 1)
      BY <1>1, <2>1
    <3>2. i \in 1..(n - 1) => i \in 1..Len(f)
      BY <1>1, <1>4, <1>5
    <3>3. i \in 1..Len(f) => i \in 1..n
      BY <1>1, <1>4, <1>5
    <3>4. QED
      BY <1>2, <1>4, <3>1, <3>2, <3>3
  <2>2. n \in DOMAIN EventsIn(g) <=> m = 1 /\ p # "torn"
    BY <1>1, <1>2
  <2>3. QED
    BY <2>1, <2>2
<1>8. \A i \in DOMAIN EventsIn(g) : EventsIn(g)[i] = IF i = n THEN a ELSE EventsIn(f)[i]
  <2>1. ASSUME NEW i \in DOMAIN EventsIn(g), i # n PROVE EventsIn(g)[i] = EventsIn(f)[i]
    <3>1. i \in 1..(n - 1) /\ i \in DOMAIN EventsIn(f)
      BY <1>1, <1>2, <1>7, <2>1
    <3>2. QED
      BY <1>2, <1>4, <2>1, <3>1
  <2>2. n \in DOMAIN EventsIn(g) => EventsIn(g)[n] = a
    BY <1>2
  <2>3. QED
    BY <2>1, <2>2
<1>9. EventsIn(g) = [i \in DOMAIN EventsIn(g) |-> EventsIn(g)[i]]
  BY DEF EventsIn
<1>10. QED
  BY <1>6, <1>7, <1>8, <1>9 DEF NewLastLine

\* What a write does to the log: an event appears at its end, the event at its
\* end vanishes, or nothing happens.
Appears(E, F, a) ==
  /\ \A i \in DOMAIN E : E[i] # a
  /\ \E n \in DOMAIN F : (\A i \in DOMAIN E : i < n) /\ F = [i \in DOMAIN E \cup {n} |-> IF i = n THEN a ELSE E[i]]

Vanishes(E, F, b) ==
  \E n \in DOMAIN E : E[n] = b /\ (\A i \in DOMAIN E : i <= n) /\ F = [i \in DOMAIN E \ {n} |-> E[i]]

\* And that is all a write does.
LEMMA WriteToLog ==
  ASSUME CallsInv, FilesInv, NEW a \in Appends, WritePiece(a), NEW s, s = SessionOf[a]
  PROVE  LET E == EventsIn(file[s]) F == EventsIn(file'[s]) IN
         \/ F = E
         \/ Appears(E, F, a)
         \/ \E b \in Appends : SessionOf[b] = s /\ ~Acked(b) /\ Vanishes(E, F, b)
<1>1. PICK p \in Put, n \in Nat, m \in Nat :
        /\ written[a] \in {"nothing"} \cup InProgress /\ (written[a] = "body" => p = "line")
        /\ Position(file[s], a, n, m) /\ Grown(file[s], file'[s], a, p, n, m)
  BY BytesGrow
<1>2. PICK f, g, E, F : f = file[s] /\ g = file'[s] /\ E = EventsIn(f) /\ F = EventsIn(g)
  OBVIOUS
<1>3. FileOK(f, s) /\ Position(f, a, n, m) /\ Grown(f, g, a, p, n, m)
  BY <1>1, <1>2, ChainFacts DEF FilesInv
<1>4. /\ F = [i \in (DOMAIN E \ {n}) \cup (IF m = 1 /\ p # "torn" THEN {n} ELSE {}) |-> IF i = n THEN a ELSE E[i]]
      /\ \A i \in DOMAIN E : i \in Nat /\ i <= n
  <2>1. NewLastLine(EventsIn(f), EventsIn(g), a, p, n, m)
    BY <1>3, EventsOfGrown
  <2>2. QED
    BY <1>2, <2>1 DEF NewLastLine
<1>5. EventsOK(f, s)
  BY <1>3, EventFacts
<1>6. /\ \A i \in DOMAIN E : i \in 1..Len(f) /\ Len(f[i].parts) = 1 /\ f[i].parts[1].whole /\ E[i] = f[i].parts[1].by
      /\ \A i \in DOMAIN E : E[i] \in Appends /\ SessionOf[E[i]] = s /\ written[E[i]] \in {"body", "line"}
      /\ E = [i \in DOMAIN E |-> E[i]] /\ Len(f) \in Nat
  <2>1. DOMAIN E = {i \in 1..Len(f) : IsEvent(f[i])}
    BY <1>2, <1>5 DEF EventsOK
  <2>2. E = [i \in DOMAIN E |-> E[i]]
    BY <1>2 DEF EventsIn
  <2>3. QED
    BY <1>2, <1>5, <2>1, <2>2 DEF EventsOK, IsEvent
<1>7. CASE n \notin DOMAIN E /\ ~(m = 1 /\ p # "torn")
  BY <1>2, <1>4, <1>6, <1>7
<1>8. CASE n \notin DOMAIN E /\ m = 1 /\ p # "torn"
  <2>1. ASSUME NEW i \in DOMAIN E PROVE E[i] # a
    <3> SUFFICES ASSUME E[i] = a PROVE FALSE
      OBVIOUS
    <3>1. written[a] = "body" /\ f[i].parts[1].by = a
      BY <1>1, <1>6 DEF InProgress
    <3>2. n = Len(f) /\ n > 0 /\ m = Len(f[n].parts) /\ f[n].parts[m].by = a
      BY <1>3, <3>1 DEF Position
    <3>3. n \in 1..Len(f) /\ 1 \in 1..Len(f[n].parts) /\ 1 \in 1..Len(f[i].parts) /\ i \in 1..Len(f)
      BY <1>6, <1>8, <3>2
    <3>4. f[i].parts[1].by = f[n].parts[1].by
      BY <1>8, <3>1, <3>2
    <3>5. i = n
      BY <1>3, <3>3, <3>4 DEF FileOK
    <3>6. QED
      BY <1>8, <3>5
  <2>2. \A i \in DOMAIN E : i < n
    BY <1>4, <1>8
  <2>3. F = [i \in DOMAIN E \cup {n} |-> IF i = n THEN a ELSE E[i]] /\ n \in DOMAIN F
    BY <1>4, <1>8
  <2>4. Appears(E, F, a)
    BY <2>1, <2>2, <2>3 DEF Appears
  <2>5. QED
    BY <1>2, <2>4
<1>9. CASE n \in DOMAIN E
  <2>1. n \in 1..Len(f) /\ n = Len(f) /\ Len(f[n].parts) = 1 /\ f[n].parts[1].whole /\ E[n] = f[n].parts[1].by
    BY <1>3, <1>6, <1>9 DEF Position
  <2>2. ~f[n].ended /\ (m = 2 \/ (m = 1 /\ written[a] \in InProgress /\ f[n].parts[1].by = a))
    BY <1>3, <1>6, <2>1 DEF Position
  <2>3. PICK b \in Appends : b = E[n] /\ SessionOf[b] = s
    BY <1>6, <1>9
  <2>4. written[b] = "body"
    <3>1. 1 \in 1..Len(f[n].parts) /\ 1 = Len(f[n].parts)
      BY <2>1
    <3>2. f[n].ended <=> written[b] = "line"
      BY <1>3, <2>1, <2>3, <3>1 DEF FileOK
    <3>3. QED
      BY <1>6, <1>9, <2>2, <2>3, <3>2
  <2>5. CASE m = 1
    <3>1. b = a /\ p = "line"
      BY <1>1, <2>1, <2>2, <2>3, <2>4, <2>5
    <3>2. F = E
      BY <1>4, <1>6, <1>9, <2>3, <2>5, <3>1
    <3>3. QED
      BY <1>2, <3>2
  <2>6. CASE m = 2
    <3>1. F = [i \in DOMAIN E \ {n} |-> E[i]]
      BY <1>4, <2>6
    <3>2. Vanishes(E, F, b)
      BY <1>4, <1>9, <2>3, <3>1 DEF Vanishes
    <3>3. ~Acked(b)
      BY <2>4 DEF Acked, CallsInv, CallInv
    <3>4. QED
      BY <1>2, <2>3, <3>2, <3>3
  <2>7. QED
    BY <2>2, <2>5, <2>6
<1>10. QED
  BY <1>7, <1>8, <1>9

\* The log and the acknowledgements before and after a step.
LEMMA MappedState ==
  /\ \A s \in Sessions : Logs[s] = EventsIn(file[s]) /\ Logs'[s] = EventsIn(file'[s])
  /\ Logs = [s \in Sessions |-> Logs[s]] /\ DOMAIN Logs = Sessions /\ Logs' = [s \in Sessions |-> EventsIn(file'[s])]
  /\ \A a \in Appends : (a \in AckedNow <=> Acked(a)) /\ (a \in AckedNow' <=> Acked(a)')
  /\ AckedNow \subseteq Appends /\ AckedNow' \subseteq Appends
<1>1. Logs' = [s \in Sessions |-> EventsIn(file'[s])]
  BY DEF Logs, EventsIn, IsEvent
<1>2. QED
  BY <1>1 DEF Logs, AckedNow

\* All that is known of the state and of its bound.
LEMMA StoreInvariant == StoreSpec => [](StoreInv /\ TornBound /\ Losses)
<1>1. StoreInit => TornBound
  <2> SUFFICES ASSUME StoreInit PROVE TornBound
    OBVIOUS
  <2>1. Torn = {}
    BY DEF StoreInit, Torn, InProgress
  <2>2. QED
    BY <2>1, FS_EmptySet, StoreAssumption DEF TornBound
<1>2. StoreInv /\ TornBound /\ [StoreNext]_storeVars => TornBound'
  BY StepKeepsTorn DEF StoreInv
<1>3. QED
  BY <1>1, <1>2, LossesAreFew, StoreStart, StoreStep, PTL DEF StoreSpec

\* TranscriptLog counts as this module does.
LEMMA LogCounts == \A S : Log!Cardinality(S) = Cardinality(S)
BY DEF Log!Cardinality, Cardinality

\* The steps of the log, in terms of the log L before and M after.
Adds(L, M, s, a) ==
  /\ ~\E i \in DOMAIN L[s] : L[s][i] = a
  /\ \E n \in DOMAIN M[s] :
       /\ \A i \in DOMAIN L[s] : i < n
       /\ M = [L EXCEPT ![s] = [i \in DOMAIN L[s] \cup {n} |-> IF i = n THEN a ELSE L[s][i]]]

Retracts(L, M, s, b) ==
  \E n \in DOMAIN L[s] :
    /\ L[s][n] = b
    /\ \A i \in DOMAIN L[s] : i <= n
    /\ M = [L EXCEPT ![s] = [i \in DOMAIN L[s] \ {n} |-> L[s][i]]]

\* A write is an event that appears or vanishes, or nothing.
LEMMA WriteImplements ==
  ASSUME StoreInv, NEW a \in Appends, WritePiece(a)
  PROVE  [Log!LogNext]_(Log!logSpecVars)
<1>1. PICK s, E, F : s = SessionOf[a] /\ s \in Sessions /\ E = EventsIn(file[s]) /\ F = EventsIn(file'[s])
  BY ChainFacts
<1>2. UNCHANGED <<outcome, seen>> /\ \A t \in Sessions \ {s} : file'[t] = file[t]
  BY <1>1 DEF WritePiece, StoreInv, FilesInv, readVars
<1>3. Logs[s] = E /\ Logs'[s] = F /\ Logs' = [Logs EXCEPT ![s] = F]
  <2>1. Logs[s] = E /\ Logs'[s] = F
    BY <1>1, MappedState
  <2>2. \A t \in Sessions \ {s} : Logs'[t] = Logs[t]
    BY <1>2, MappedState
  <2>3. DOMAIN Logs = Sessions /\ Logs' = [t \in Sessions |-> Logs'[t]]
    BY MappedState
  <2>4. QED
    BY <1>1, <2>1, <2>2, <2>3
<1>4. AckedNow' = AckedNow /\ \A b \in Appends : b \in AckedNow <=> Acked(b)
  BY <1>2 DEF AckedNow, Acked
<1>5. Logs = [Logs EXCEPT ![s] = E]
  BY <1>1, MappedState
<1>6. ~Acked(a)
  BY DEF WritePiece, StoreInv, CallsInv, CallInv, Acked
<1>7. CASE F = E
  <2>1. Logs' = Logs
    BY <1>3, <1>5, <1>7
  <2>2. QED
    BY <1>2, <1>4, <2>1 DEF Logs, AckedNow, Log!logSpecVars
<1>8. CASE Appears(E, F, a)
  <2>1. PICK n \in DOMAIN F : (\A i \in DOMAIN E : i < n) /\ F = [i \in DOMAIN E \cup {n} |-> IF i = n THEN a ELSE E[i]]
    BY <1>8 DEF Appears
  <2>2. \A i \in DOMAIN E : E[i] # a
    BY <1>8 DEF Appears
  <2>3. Adds(Logs, Logs', SessionOf[a], a) /\ a \notin AckedNow
    <3>1. PICK L, M : L = Logs /\ M = Logs'
      OBVIOUS
    <3>2. L[s] = E /\ M[s] = F /\ M = [L EXCEPT ![s] = F] /\ a \notin AckedNow
      BY <1>3, <1>4, <1>6, <3>1
    <3>3. M = [L EXCEPT ![s] = [i \in DOMAIN L[s] \cup {n} |-> IF i = n THEN a ELSE L[s][i]]]
      BY <2>1, <3>2
    <3>4. \E k \in DOMAIN M[s] :
             /\ \A i \in DOMAIN L[s] : i < k
             /\ M = [L EXCEPT ![s] = [i \in DOMAIN L[s] \cup {k} |-> IF i = k THEN a ELSE L[s][i]]]
      BY <2>1, <3>2, <3>3
    <3>5. QED
      <4>1. Adds(L, M, s, a)
        BY <2>2, <3>2, <3>4 DEF Adds
      <4>2. QED
        BY <1>1, <3>1, <3>2, <4>1
  <2>4. Log!AddEvent(a)
    BY <1>2, <1>4, <2>3 DEF Adds, Logs, AckedNow, Log!AddEvent, Log!InLog
  <2>5. QED
    BY <2>4 DEF Log!LogNext
<1>9. CASE \E b \in Appends : SessionOf[b] = s /\ ~Acked(b) /\ Vanishes(E, F, b)
  <2>1. PICK b \in Appends : SessionOf[b] = s /\ ~Acked(b) /\ Vanishes(E, F, b)
    BY <1>9
  <2>2. PICK n \in DOMAIN E : E[n] = b /\ (\A i \in DOMAIN E : i <= n) /\ F = [i \in DOMAIN E \ {n} |-> E[i]]
    BY <2>1 DEF Vanishes
  <2>3. Retracts(Logs, Logs', SessionOf[b], b) /\ b \notin AckedNow
    <3>1. PICK L, M : L = Logs /\ M = Logs'
      OBVIOUS
    <3>2. L[s] = E /\ M = [L EXCEPT ![s] = F] /\ b \notin AckedNow
      BY <1>3, <1>4, <2>1, <3>1
    <3>3. M = [L EXCEPT ![s] = [i \in DOMAIN L[s] \ {n} |-> L[s][i]]]
      BY <2>2, <3>2
    <3>4. \E k \in DOMAIN L[s] :
             /\ L[s][k] = b
             /\ \A i \in DOMAIN L[s] : i <= k
             /\ M = [L EXCEPT ![s] = [i \in DOMAIN L[s] \ {k} |-> L[s][i]]]
      BY <2>2, <3>2, <3>3
    <3>5. QED
      <4>1. Retracts(L, M, s, b)
        BY <3>4 DEF Retracts
      <4>2. QED
        BY <2>1, <3>1, <3>2, <4>1
  <2>4. Log!RetractEvent(b)
    BY <1>2, <1>4, <2>3 DEF Retracts, Logs, AckedNow, Log!RetractEvent
  <2>5. QED
    BY <2>4 DEF Log!LogNext
<1>10. QED
  BY <1>1, <1>7, <1>8, <1>9, WriteToLog DEF StoreInv

\* An acknowledgement is given for what is in the log, or for one more event
\* that is not: no more of them than appends that were cut off.
LEMMA AckImplements ==
  ASSUME StoreInv, (TornBound /\ Losses)', NEW a \in Appends, AckAppend(a)
  PROVE  [Log!LogNext]_(Log!logSpecVars)
<1>1. UNCHANGED <<file, seen>> /\ outcome' = [outcome EXCEPT ![a] = "ok"] /\ outcome[a] = "none"
  BY DEF AckAppend, ReturnAppend, W!Finish, StoreInv, CallsInv, CallInv, readVars
<1>2. a \notin AckedNow /\ AckedNow' = AckedNow \cup {a}
  BY <1>1 DEF AckedNow, Acked, StoreInv, CallsInv, CallsTypeOK
<1>3. Logs' = Logs
  BY <1>1 DEF Logs
<1>4. Cardinality({b \in AckedNow' : ~\E i \in DOMAIN Logs[SessionOf[b]] : Logs[SessionOf[b]][i] = b}) <= MaxTears
  <2>2. Lost' = {b \in AckedNow' : ~\E i \in DOMAIN Logs[SessionOf[b]] : Logs[SessionOf[b]][i] = b}
    <3>1. \A b \in Appends : (b \in Readable(SessionOf[b]))' <=> \E i \in DOMAIN Logs[SessionOf[b]] : Logs[SessionOf[b]][i] = b
      <4> SUFFICES ASSUME NEW b \in Appends
                   PROVE  (b \in Readable(SessionOf[b]))' <=> \E i \in DOMAIN Logs[SessionOf[b]] : Logs[SessionOf[b]][i] = b
        OBVIOUS
      <4>1. PICK t, f : t \in Sessions /\ t = SessionOf[b] /\ f = file[t] /\ f = file'[t] /\ Logs[t] = EventsIn(f)
        <5>1. SessionOf[b] \in Sessions /\ file' = file
          BY <1>1, ChainFacts
        <5>2. Logs[SessionOf[b]] = EventsIn(file[SessionOf[b]])
          BY <5>1, MappedState
        <5>3. QED
          BY <5>1, <5>2
      <4>2. (b \in Readable(t))' <=> \E i \in DOMAIN EventsIn(f) : EventsIn(f)[i] = b
        <5>1. (b \in Readable(t))' <=> \E i \in DOMAIN EventsIn(file'[t]) : EventsIn(file'[t])[i] = b
          BY ReadableIs
        <5>2. QED
          BY <4>1, <5>1
      <4>3. QED
        BY <4>1, <4>2
    <3>2. QED
      BY <3>1 DEF AckedNow, Lost
  <2>3. Cardinality(Lost') \in Nat /\ Cardinality(Torn') \in Nat /\ Cardinality(Lost') <= Cardinality(Torn')
        /\ Cardinality(Torn') <= MaxTears
    BY DEF Losses, TornBound
  <2>4. Cardinality(Lost') <= MaxTears
    BY <2>3, StoreAssumption
  <2>5. QED
    BY <2>2, <2>4
<1>5. Log!Acknowledge(a)
  <2>1. a \notin AckedNow /\ AckedNow' = AckedNow \cup {a} /\ Logs' = Logs /\ UNCHANGED seen
    BY <1>1, <1>2, <1>3
  <2>2. QED
    BY <1>4, <2>1, LogCounts DEF Log!Acknowledge, Log!InLog, Logs, AckedNow
<1>6. QED
  BY <1>5 DEF Log!LogNext

\* A read that returns reads the log, once.
LEMMA ReadImplements ==
  ASSUME StoreInv, NEW r \in Reads, ReadFile(r)
  PROVE  [Log!LogNext]_(Log!logSpecVars)
<1>1. UNCHANGED <<file, outcome>> /\ seen[r] = Unread /\ SessionOf[r] \in Sessions
  BY ChainFacts DEF ReadFile, StoreInv, ReadsInv, ReadInv
<1>2. Logs' = Logs /\ AckedNow' = AckedNow /\ Logs[SessionOf[r]] = EventsIn(file[SessionOf[r]])
  BY <1>1, MappedState DEF Logs, AckedNow, Acked
<1>3. CASE UNCHANGED seen
  BY <1>2, <1>3 DEF Logs, AckedNow, Log!logSpecVars
<1>4. CASE seen' = [seen EXCEPT ![r] = Logs[SessionOf[r]]]
  <2>1. Log!ReadLog(r)
    BY <1>1, <1>2, <1>4 DEF Logs, AckedNow, Log!ReadLog
  <2>2. QED
    BY <2>1 DEF Log!LogNext
<1>5. QED
  BY <1>2, <1>3, <1>4 DEF ReadFile

\* The store is a log per session with atomic appends and reads, which gives no
\* more acknowledgements for events that are not in it than appends were cut
\* off inside their line.
THEOREM StoreIsALog == StoreSpec => ImplementsLog
<1>1. StoreInit => Log!LogInit
  <2> SUFFICES ASSUME StoreInit PROVE Log!LogInit
    OBVIOUS
  <2>1. \A s \in Sessions : EventsIn(file[s]) = <<>>
    BY DEF StoreInit, EventsIn
  <2>2. \A a \in Appends : ~Acked(a)
    BY DEF StoreInit, Acked
  <2>3. QED
    BY <2>1, <2>2 DEF StoreInit, Log!LogInit
<1>2. ASSUME StoreInv, StoreInv', (TornBound /\ Losses)', [StoreNext]_storeVars
      PROVE  [Log!LogNext]_(Log!logSpecVars)
  <2>1. ASSUME UNCHANGED <<file, seen>>, \A a \in Appends : Acked(a)' <=> Acked(a) PROVE UNCHANGED Log!logSpecVars
    <3>1. Logs' = Logs /\ AckedNow' = AckedNow
      BY <2>1 DEF Logs, AckedNow
    <3>2. QED
      BY <2>1, <3>1 DEF Logs, AckedNow, Log!logSpecVars
  <2>2. ASSUME NEW a \in Appends, AppendStep(a) PROVE [Log!LogNext]_(Log!logSpecVars)
    <3>1. CASE WritePiece(a)
      BY <1>2, <3>1, WriteImplements
    <3>2. CASE AckAppend(a)
      BY <1>2, <3>2, AckImplements DEF StoreInv
    <3>3. CASE ~WritePiece(a) /\ ~AckAppend(a)
      <4>1. UNCHANGED <<file, seen>>
        BY <2>2, <3>3 DEF AppendStep, RefuseAppend, CallAppend, BeginAppend, AuthorizeAppend, FailAppend, SettleAppend, readVars
      <4>2. outcome'[a] = "ok" <=> outcome[a] = "ok"
        BY <1>2, <2>2, <3>3 DEF AppendStep, RefuseAppend, CallAppend, BeginAppend, AuthorizeAppend, FailAppend, SettleAppend,
           ReturnAppend, W!Finish, StoreInv, CallsInv, CallsTypeOK, CallInv
      <4>3. \A b \in Appends : Acked(b)' <=> Acked(b)
        BY <1>2, <2>2, <4>2, AppendKeepsCalls DEF Acked, StoreInv
      <4>4. QED
        BY <2>1, <4>1, <4>3
    <3>4. QED
      BY <3>1, <3>2, <3>3
  <2>3. ASSUME NEW r \in Reads, ReadStep(r) PROVE [Log!LogNext]_(Log!logSpecVars)
    <3>1. CASE ReadFile(r)
      BY <1>2, <3>1, ReadImplements
    <3>2. CASE ~ReadFile(r)
      BY <2>1, <2>3, <3>2 DEF ReadStep, RefuseRead, CallRead, ResumeRead, Acked
    <3>3. QED
      BY <3>1, <3>2
  <2>4. CASE Crash
    <3>1. \A a \in Appends : Acked(a)' <=> Acked(a)
      BY <1>2, <2>4 DEF Crash, Acked, StoreInv, CallsInv, CallInv
    <3>2. QED
      BY <2>1, <2>4, <3>1 DEF Crash
  <2>5. CASE UNCHANGED storeVars
    BY <2>1, <2>5 DEF storeVars, readVars, Acked
  <2>6. QED
    BY <1>2, <2>2, <2>3, <2>4, <2>5 DEF StoreNext, AppendStep, ReadStep, AllReturned
<1>3. QED
  BY <1>1, <1>2, StoreInvariant, PTL DEF StoreSpec, ImplementsLog, Log!LogSpec
=============================================================================

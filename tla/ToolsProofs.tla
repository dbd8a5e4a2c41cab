---------------------------- MODULE ToolsProofs ----------------------------
(***************************************************************************)
(* Nothing is written, put in place or sent for a tool call before both of *)
(* its permissions were granted and recorded, however calls share their    *)
(* temporary files: one that renames another's has had it from a call that *)
(* was permitted itself.                                                   *)
(*                                                                         *)
(* An invocation of a tool that returns has exactly one closing record,    *)
(* the last one, which says what it returned.  The invariant of this part  *)
(* says of every await what kind of records a call may have by then.       *)
(*                                                                         *)
(* And the file at the path is whole, and is what the records of the calls *)
(* that write it say.  The invariant of this part follows the temporary    *)
(* file of an overwrite: while the call writes it, it is the call's own,   *)
(* or gone because the other call of that name has removed it and left.    *)
(***************************************************************************)
EXTENDS Tools, ToolRegistryProofs

Chosen == {"checking", "opening", "filling", "renaming", "removing"}

FilesTypeOK ==
  /\ name \in [Overwrites -> Names \cup {NoFile}]
  /\ \A c \in Overwrites : at[c] \in Chosen => name[c] \in Names
  /\ tmp = [n \in Names |-> tmp[n]]
  /\ content = [i \in Inodes |-> content[i]]

\* How many permissions of a call are on record where it is.
Consent(c) ==
  /\ at[c] \in Entry => Allowed(c) = 0
  /\ at[c] \in {"executing", "authorizing", "granting"} => Allowed(c) = 1
  /\ at[c] \in {"placing", "sending"} \cup Chosen => Allowed(c) = 2

\* A call that has written to a file was permitted to, and asks no more.
Permitted(c) == at[c] \in {"filling", "renaming", "removing"} \cup Left /\ Allowed(c) = 2

ToolsInv ==
  /\ CallsTypeOK /\ FilesTypeOK
  /\ \A c \in Calls : Consent(c)
  /\ \A n \in Names : tmp[n] \in Writes \cup {NoFile}
  /\ \A n \in Names, d \in Writes : tmp[n] = d => Permitted(d)

\* The calls of the two handlers.
FileCallStep(c) ==
  \/ c \in FileCalls /\ AuthorizeStep(c)
  \/ c \in Writes /\ WriteStep(c)
  \/ c \in Creates /\ OpenNew(c)
  \/ c \in Overwrites /\ OverwriteStep(c)
  \/ c \in Reads /\ ReadStep(c)

WebCallStep(c) == RefuseRequest(c) \/ AskForRequest(c) \/ Send(c) \/ Respond(c)

\* A step of a file call keeps to that call, and to its place in the order of
\* permissions.
LEMMA FileCallMoves ==
  ASSUME CallsTypeOK, NEW c \in Calls, Consent(c), FileCallStep(c)
  PROVE  StepOf(c) /\ Consent(c)' /\ (Permitted(c) => Permitted(c)')
<1>1. CASE AskForAccess(c)
  <2>1. StepOf(c)
    BY <1>1, AskStep DEF AskForAccess
  <2>2. QED
    BY <1>1, <2>1, AskConsent DEF AskForAccess, AccessCheck, Consent, Entry, Chosen, Permitted, Left
<1>2. CASE ~AskForAccess(c)
  <2>1. UNCHANGED trail
    BY <1>2 DEF FileCallStep, AuthorizeStep, ResolvePath, WriteStep, Place, CheckTarget, OpenNew, Fill, OverwriteStep,
       OpenTemp, Rename, RemoveTemp, ReadStep, OpenRead, ReadBytes
  <2>2. Allowed(c)' = Allowed(c)
    BY <2>1 DEF Allowed, Records
  <2>3. /\ DOMAIN at' = Calls /\ at' = [d \in Calls |-> at'[d]] /\ \A d \in Calls \ {c} : at'[d] = at[d]
        /\ \/ at[c] = "executing" /\ at'[c] = "authorizing"
           \/ at[c] \in {"placing"} \cup Chosen /\ at'[c] \in Chosen \cup {"reading"}
              /\ (at[c] \in {"filling", "renaming", "removing"} => at'[c] \in {"filling", "renaming", "removing"})
           \/ at[c] \notin Left /\ at'[c] \in {"operation_failed", "operation_done"}
    BY <1>2 DEF CallsTypeOK, Goto, Fail, FileCallStep, AuthorizeStep, ResolvePath, WriteStep, Place, CheckTarget,
       OpenNew, Fill, OverwriteStep, OpenTemp, Rename, RemoveTemp, ReadStep, OpenRead, ReadBytes, Chosen, Left
  <2>4. QED
    BY <2>1, <2>2, <2>3 DEF StepOf, CallsTypeOK, Consent, Permitted, Entry, Chosen, Left
<1>3. QED
  BY <1>1, <1>2

\* So does a step of a web call.
LEMMA WebCallMoves ==
  ASSUME CallsTypeOK, NEW c \in Calls, Consent(c), WebCallStep(c)
  PROVE  StepOf(c) /\ Consent(c)' /\ (Permitted(c) => Permitted(c)')
<1>1. CASE AskForRequest(c)
  <2>1. StepOf(c)
    BY <1>1, AskStep DEF AskForRequest
  <2>2. QED
    BY <1>1, <2>1, AskConsent DEF AskForRequest, RequestCheck, Consent, Entry, Chosen, Permitted, Left
<1>2. CASE ~AskForRequest(c)
  <2>1. UNCHANGED trail
    BY <1>2 DEF WebCallStep, RefuseRequest, Send, Respond
  <2>2. Allowed(c)' = Allowed(c)
    BY <2>1 DEF Allowed, Records
  <2>3. QED
    BY <1>2, <2>1, <2>2 DEF CallsTypeOK, StepOf, Goto, Fail, WebCallStep, RefuseRequest, Send, Respond, Consent,
       Permitted, Entry, Chosen, Left
<1>3. QED
  BY <1>1, <1>2

\* And a step of the registry.
LEMMA InvocationKeepsConsent ==
  ASSUME CallsTypeOK, NEW c \in Calls, Consent(c), InvocationStep(c)
  PROVE  StepOf(c) /\ Consent(c)' /\ (Permitted(c) => Permitted(c)')
BY InvocationMoves, InvocationConsent DEF Consent, Permitted, Entry, Chosen, Left

\* A step of one call takes no permission from another.
LEMMA OthersKeepConsent ==
  ASSUME CallsTypeOK, NEW c \in Calls, StepOf(c), NEW d \in Calls \ {c}
  PROVE  (Consent(d) => Consent(d)') /\ (Permitted(d) => Permitted(d)')
<1>1. at'[d] = at[d] /\ Allowed(d)' = Allowed(d)
  BY DEF StepOf, Allowed, Records
<1>2. QED
  BY <1>1 DEF Consent, Permitted
-----------------------------------------------------------------------------
\* At a temporary name there is what was there, or nothing, or the file of the
\* call that has just opened it.
LEMMA FilesMove ==
  ASSUME CallsTypeOK, FilesTypeOK, NEW c \in FileCalls, c \in Calls, FileCallStep(c)
  PROVE  /\ FilesTypeOK'
         /\ \A n \in Names : \/ tmp'[n] \in {NoFile, tmp[n]}
                             \/ c \in Overwrites /\ at[c] = "opening" /\ at'[c] = "filling" /\ tmp'[n] = c
<1>1. \A d \in Calls \ {c} : at'[d] = at[d]
  BY DEF CallsTypeOK, Goto, Return, Fail, FileCallStep, AuthorizeStep, ResolvePath, AskForAccess, Ask, Decide,
     RecordDecision, WriteStep, Place, CheckTarget, OpenNew, Fill, OverwriteStep, OpenTemp, Rename, RemoveTemp,
     ReadStep, OpenRead, ReadBytes
<1>2. CASE c \in Writes /\ Place(c)
  <2>1. UNCHANGED <<tmp, content>>
    BY <1>2 DEF Place, diskVars
  <2>3. name' \in [Overwrites -> Names \cup {NoFile}]
    BY <1>2 DEF Place, FilesTypeOK
  <2>4. ASSUME NEW d \in Overwrites, at'[d] \in Chosen PROVE name'[d] \in Names
    <3>1. CASE d = c
      <4>1. ~Fail(c, "placing", "operation_failed", "root_violation")
        BY <2>4, <3>1 DEF Fail, Goto, CallsTypeOK, Chosen
      <4>2. PICK n \in Names : name' = [name EXCEPT ![c] = n]
        BY <1>2, <2>4, <3>1, <4>1 DEF Place
      <4>3. QED
        BY <2>4, <3>1, <4>2 DEF FilesTypeOK
    <3>2. CASE d # c
      BY <1>1, <1>2, <2>4, <3>2, FileToolsAssumption DEF FilesTypeOK, Place, FileCalls, Writes
    <3>3. QED
      BY <3>1, <3>2
  <2>5. QED
    BY <2>1, <2>3, <2>4 DEF FilesTypeOK
<1>3. CASE ~(c \in Writes /\ Place(c))
  <2>1. UNCHANGED name
    BY <1>3 DEF FileCallStep, AuthorizeStep, ResolvePath, AskForAccess, WriteStep, CheckTarget, OpenNew, Fill,
       OverwriteStep, OpenTemp, Rename, RemoveTemp, ReadStep, OpenRead, ReadBytes, fileVars
  <2>2. c \in Overwrites /\ at'[c] \in Chosen => at[c] \in Chosen
    <3>1. c \notin Reads \/ c \notin Overwrites
      BY FileToolsAssumption DEF Writes
    <3>2. QED
      BY <1>3, <3>1 DEF FileCallStep, AuthorizeStep, ResolvePath, AskForAccess, Ask, Decide, RecordDecision,
         AccessCheck, WriteStep, CheckTarget, OpenNew, Fill, OverwriteStep, OpenTemp, Rename, RemoveTemp, ReadStep,
         OpenRead, ReadBytes, Goto, Fail, CallsTypeOK, Chosen
  <2>3. \A d \in Overwrites : at'[d] \in Chosen => name'[d] \in Names
    BY <1>1, <2>1, <2>2, FileToolsAssumption DEF FilesTypeOK, FileCalls, Writes
  <2>4. /\ tmp' = [n \in Names |-> tmp'[n]]
        /\ \A n \in Names : \/ tmp'[n] \in {NoFile, tmp[n]}
                            \/ c \in Overwrites /\ OpenTemp(c) /\ Goto(c, "opening", "filling") /\ tmp'[n] = c
    BY <1>3 DEF FilesTypeOK, FileCallStep, AuthorizeStep, ResolvePath, AskForAccess, WriteStep, CheckTarget, OpenNew,
       Fill, OverwriteStep, OpenTemp, Rename, RemoveTemp, ReadStep, OpenRead, ReadBytes, fileVars, diskVars
  <2>5. content' = [i \in Inodes |-> content'[i]]
    BY <1>3 DEF FilesTypeOK, FileCallStep, AuthorizeStep, ResolvePath, AskForAccess, WriteStep, CheckTarget, OpenNew,
       Fill, OverwriteStep, OpenTemp, Rename, RemoveTemp, ReadStep, OpenRead, ReadBytes, fileVars, diskVars
  <2>6. QED
    BY <2>1, <2>3, <2>4, <2>5 DEF FilesTypeOK, Goto, CallsTypeOK
<1>4. QED
  BY <1>2, <1>3
-----------------------------------------------------------------------------
\* No call has begun, and there are no temporary files.
LEMMA InitialTools == ToolsInit => ToolsInv
<1> SUFFICES ASSUME ToolsInit PROVE ToolsInv
  OBVIOUS
<1>1. CallsTypeOK
  BY DEF ToolsInit, CallsInit, CallsTypeOK, Trails
<1>2. \A c \in Calls : at[c] \in {"idle", "never"} /\ trail[c] = <<>>
  BY DEF ToolsInit, CallsInit
<1>3. ASSUME NEW c \in Calls PROVE Consent(c)
  <2>1. {i \in Records(c, "permission") : trail[c][i].outcome = "allowed"} = {}
    BY <1>2, <1>3 DEF Records
  <2>2. Allowed(c) = 0
    BY <2>1, FS_EmptySet DEF Allowed
  <2>3. QED
    BY <1>2, <2>2 DEF Consent, Chosen
<1>4. FilesTypeOK /\ \A n \in Names : tmp[n] = NoFile
  BY <1>2, FileToolsAssumption DEF ToolsInit, FilesInit, FilesTypeOK, Chosen, FileCalls, Writes
<1>5. QED
  BY <1>1, <1>3, <1>4, FileToolsAssumption DEF ToolsInv, Inodes

\* The invariant is inductive.
LEMMA StepKeepsTools == ToolsInv /\ [ToolsNext]_toolsVars => ToolsInv'
<1> SUFFICES ASSUME ToolsInv, [ToolsNext]_toolsVars PROVE ToolsInv'
  OBVIOUS
<1>1. Calls = FileCalls \cup WebCalls /\ Writes \subseteq Calls /\ NoFile \notin Writes /\ Overwrites \subseteq Writes
  BY ToolsAssumption, FileToolsAssumption DEF FileCalls, Writes, Inodes
<1>2. ASSUME NEW c \in Calls, StepOf(c), Consent(c)', Permitted(c) => Permitted(c)', FilesTypeOK',
             \A n \in Names : tmp'[n] \in {NoFile, tmp[n]} \/ (c \in Writes /\ tmp'[n] = c /\ Permitted(c)')
      PROVE  ToolsInv'
  <2>1. \A d \in Calls : Consent(d)' /\ (Permitted(d) => Permitted(d)')
    BY <1>2, OthersKeepConsent DEF ToolsInv
  <2>2. \A n \in Names : tmp'[n] \in Writes \cup {NoFile}
    BY <1>2 DEF ToolsInv
  <2>3. \A n \in Names, d \in Writes : tmp'[n] = d => Permitted(d)'
    BY <1>1, <1>2, <2>1 DEF ToolsInv
  <2>4. QED
    BY <1>2, <2>1, <2>2, <2>3 DEF ToolsInv, StepOf
<1>3. ASSUME NEW c \in Calls, StepOf(c), Consent(c)', Permitted(c) => Permitted(c)', UNCHANGED fileVars,
             c \in Overwrites => (at'[c] \in Chosen => at[c] \in Chosen)
      PROVE  ToolsInv'
  <2>1. FilesTypeOK'
    BY <1>1, <1>3 DEF ToolsInv, FilesTypeOK, fileVars, diskVars, StepOf
  <2>2. QED
    BY <1>2, <1>3, <2>1 DEF fileVars, diskVars
<1>4. ASSUME NEW c \in Calls, InvocationStep(c), UNCHANGED <<fileVars, requested>> PROVE ToolsInv'
  <2>1. at'[c] \notin Chosen
    BY <1>4, InvocationConsent DEF ToolsInv, Chosen, Entry, Left
  <2>2. QED
    BY <1>3, <1>4, <2>1, InvocationKeepsConsent DEF ToolsInv
<1>5. ASSUME NEW c \in FileCalls, FileCallStep(c) PROVE ToolsInv'
  <2>1. /\ FilesTypeOK'
        /\ \A n \in Names : \/ tmp'[n] \in {NoFile, tmp[n]}
                            \/ c \in Overwrites /\ at[c] = "opening" /\ at'[c] = "filling" /\ tmp'[n] = c
    BY <1>1, <1>5, FilesMove DEF ToolsInv
  <2>2. StepOf(c) /\ Consent(c)' /\ (Permitted(c) => Permitted(c)')
    BY <1>1, <1>5, FileCallMoves DEF ToolsInv
  <2>3. at'[c] = "filling" => Permitted(c)'
    BY <2>2 DEF Consent, Permitted, Chosen
  <2>4. QED
    BY <1>1, <1>2, <2>1, <2>2, <2>3
<1>6. ASSUME NEW c \in WebCalls, WebCallStep(c), UNCHANGED fileVars PROVE ToolsInv'
  BY <1>1, <1>3, <1>6, WebCallMoves, ToolsAssumption DEF ToolsInv, FileCalls, Writes
<1>7. CASE UNCHANGED toolsVars
  <2>1. CallsTypeOK' /\ FilesTypeOK'
    BY <1>1, <1>7 DEF toolsVars, fileVars, diskVars, callVars, ToolsInv, CallsTypeOK, FilesTypeOK
  <2>2. \A c \in Calls : Consent(c)' = Consent(c) /\ Permitted(c)' = Permitted(c)
    BY <1>7 DEF toolsVars, callVars, Consent, Permitted, Allowed, Records
  <2>3. QED
    BY <1>1, <1>7, <2>1, <2>2 DEF toolsVars, fileVars, diskVars, ToolsInv
<1>8. CASE FileStep /\ UNCHANGED requested
  BY <1>5, <1>8 DEF FileStep, FileCallStep, FileCalls, Writes
<1>9. CASE WebStep /\ UNCHANGED fileVars
  BY <1>6, <1>9 DEF WebStep, WebCallStep
<1>10. QED
  BY <1>4, <1>7, <1>8, <1>9 DEF ToolsNext, AllOver, toolsVars

\* What a step writes, puts in place or sends belongs to a call that was
\* permitted: for a rename that may be another call than the one that renames.
LEMMA StepIsPermitted ==
  ASSUME ToolsInv, [ToolsNext]_toolsVars, NEW c \in Calls
  PROVE  \/ c \in Writes /\ (content'[c] # content[c] \/ published' \ published = {c})
         \/ requested' \ requested = {c}
         => Allowed(c) = 2
<1>1. Calls = FileCalls \cup WebCalls /\ Writes \subseteq Calls /\ NoFile \notin Writes
  BY ToolsAssumption, FileToolsAssumption DEF FileCalls, Writes, Inodes
<1>2. CASE UNCHANGED <<content, published, requested>>
  BY <1>2
<1>3. CASE \E d \in Writes : Fill(d) /\ UNCHANGED requested
  <2>1. PICK d \in Writes : Fill(d) /\ UNCHANGED requested
    BY <1>3
  <2>2. at[d] = "filling" /\ UNCHANGED <<published, requested>> /\ (c \in Writes \ {d} => content'[c] = content[c])
    BY <2>1 DEF ToolsInv, FilesTypeOK, Fill, Goto, Fail, Inodes
  <2>3. QED
    BY <1>1, <2>2 DEF ToolsInv, Consent, Chosen
<1>4. CASE \E d \in Creates : OpenNew(d) /\ UNCHANGED requested
  <2>1. PICK d \in Creates : OpenNew(d) /\ UNCHANGED requested
    BY <1>4
  <2>2. at[d] = "opening" /\ UNCHANGED <<content, requested>> /\ published' \ published \subseteq {d}
    BY <2>1 DEF OpenNew, Goto, Fail
  <2>3. QED
    BY <1>1, <2>2 DEF ToolsInv, Consent, Chosen, Writes
<1>5. CASE \E d \in Overwrites : Rename(d) /\ UNCHANGED requested
  <2>1. PICK d \in Overwrites : Rename(d) /\ UNCHANGED requested
    BY <1>5
  <2>2. at[d] = "renaming" /\ UNCHANGED <<content, requested>>
    BY <2>1 DEF Rename, Goto, Fail
  <2>3. published' \ published \subseteq {tmp[name[d]]} /\ (published' # published => tmp[name[d]] # NoFile)
    BY <2>1 DEF Rename
  <2>4. name[d] \in Names
    BY <2>2 DEF ToolsInv, FilesTypeOK, Chosen
  <2>5. QED
    BY <2>2, <2>3, <2>4 DEF ToolsInv, Permitted
<1>6. CASE \E d \in WebCalls : Send(d) /\ UNCHANGED fileVars
  <2>1. PICK d \in WebCalls : Send(d) /\ UNCHANGED fileVars
    BY <1>6
  <2>2. at[d] = "sending" /\ UNCHANGED <<content, published>> /\ requested' \ requested \subseteq {d}
    BY <2>1 DEF Send, Goto, fileVars, diskVars
  <2>3. QED
    BY <1>1, <2>2 DEF ToolsInv, Consent
<1>7. QED
  BY <1>2, <1>3, <1>4, <1>5, <1>6 DEF ToolsNext, toolsVars, AllOver, fileVars, diskVars, FileStep, AuthorizeStep,
     ResolvePath, AskForAccess, WriteStep, Place, CheckTarget, OverwriteStep, OpenTemp, RemoveTemp, ReadStep,
     OpenNew, OpenRead, ReadBytes, WebStep, RefuseRequest, AskForRequest, Respond

\* "Denied approval leaves files unchanged" (docs/tasks.json, P07-T04), and no
\* request leaves without one: whatever calls of write_file, read_file,
\* web.fetch and web.search are made, nothing is written, put in place or sent
\* for one before its two permissions, that of invokeResult and that of the
\* handler, were granted and recorded.
THEOREM EffectsComeAfterPermission == ToolsSpec => EffectsArePermitted
<1>1. ToolsInit => ToolsInv
  BY InitialTools
<1>2. ToolsInv /\ [ToolsNext]_toolsVars => ToolsInv'
  BY StepKeepsTools
<1>3. ToolsInv /\ [ToolsNext]_toolsVars =>
        [\A c \in Calls :
           \/ c \in Writes /\ (content'[c] # content[c] \/ published' \ published = {c})
           \/ requested' \ requested = {c}
           => Allowed(c) = 2]_toolsVars
  BY StepIsPermitted
<1>4. QED
  BY <1>1, <1>2, <1>3, PTL DEF ToolsSpec, EffectsArePermitted
-----------------------------------------------------------------------------
(* Records *)

\* The steps of the file tools.
LEMMA FileCallKeepsRecords ==
  ASSUME CallsTypeOK, TextOK, NEW c \in Calls, RecordInv(c), FileCallStep(c)
  PROVE  RecordInv(c)'
<1>1. CASE AskForAccess(c)
  BY <1>1, AskKeepsRecords DEF AskForAccess, AccessCheck, Early
<1>2. CASE ~AskForAccess(c)
  <2>1. UNCHANGED <<result, trail>>
    BY <1>2 DEF FileCallStep, AuthorizeStep, ResolvePath, WriteStep, Place, CheckTarget, OpenNew, Fill, OverwriteStep,
       OpenTemp, Rename, RemoveTemp, ReadStep, OpenRead, ReadBytes
  <2>2. /\ at[c] \notin Early \cup {"over", "refusing"} /\ at'[c] \notin Early \cup {"over"}
        /\ error'[c] # "ok" /\ (error'[c] = "denied" => error[c] = "denied")
    BY <1>2 DEF CallsTypeOK, TextOK, Goto, Fail, FileCallStep, AuthorizeStep, ResolvePath, WriteStep, Place, CheckTarget,
       OpenNew, Fill, OverwriteStep, OpenTemp, Rename, RemoveTemp, ReadStep, OpenRead, ReadBytes, RecordInv, Early
  <2>3. QED
    BY <2>1, <2>2, HandlerKeepsRecords DEF RecordInv
<1>3. QED
  BY <1>1, <1>2

\* The steps of the web tools.
LEMMA WebCallKeepsRecords ==
  ASSUME CallsTypeOK, TextOK, NEW c \in Calls, RecordInv(c), WebCallStep(c)
  PROVE  RecordInv(c)'
<1>1. CASE AskForRequest(c)
  BY <1>1, AskKeepsRecords DEF AskForRequest, RequestCheck, Early
<1>2. CASE ~AskForRequest(c)
  <2>1. UNCHANGED <<result, trail>>
    BY <1>2 DEF WebCallStep, RefuseRequest, Send, Respond
  <2>2. /\ at[c] \notin Early \cup {"over", "refusing"} /\ at'[c] \notin Early \cup {"over"}
        /\ error'[c] # "ok" /\ (error'[c] = "denied" => error[c] = "denied")
    BY <1>2 DEF CallsTypeOK, TextOK, Goto, Fail, WebCallStep, RefuseRequest, Send, Respond, RecordInv, Early
  <2>3. QED
    BY <2>1, <2>2, HandlerKeepsRecords DEF RecordInv
<1>3. QED
  BY <1>1, <1>2

\* The errors and results of other calls stay what they are.
LEMMA TextStays ==
  ASSUME TextOK, NEW c \in Calls, InvocationStep(c) \/ FileCallStep(c) \/ WebCallStep(c)
  PROVE  TextOK' /\ \A d \in Calls \ {c} : error'[d] = error[d] /\ result'[d] = result[d]
BY DEF TextOK, InvocationStep, Invoke, RefuseUnknown, AuditRequested, Refuse, AuditFailedOperation, AuditOperation,
   AuditSucceeded, Catch, SinkRejects, Return, Fail, Ask, Decide, RecordDecision, FileCallStep, AuthorizeStep,
   ResolvePath, AskForAccess, WriteStep, Place, CheckTarget, OpenNew, Fill, OverwriteStep, OpenTemp, Rename,
   RemoveTemp, ReadStep, OpenRead, ReadBytes, WebCallStep, RefuseRequest, AskForRequest, Send, Respond

RecordsInv == TextOK /\ \A c \in Calls : RecordInv(c)

\* No call has begun.
LEMMA InitialRecords == ToolsInit => RecordsInv
<1> SUFFICES ASSUME ToolsInit PROVE RecordsInv
  OBVIOUS
<1>1. \A c \in Calls : at[c] \in {"idle", "never"} /\ error[c] = "none" /\ result[c] = "none" /\ trail[c] = <<>>
  BY DEF ToolsInit, CallsInit
<1>2. TextOK
  BY DEF ToolsInit, CallsInit, TextOK
<1>3. QED
  BY <1>1, <1>2 DEF RecordsInv, RecordInv, Early, Open

\* The invariant is inductive.
LEMMA StepKeepsRecords == ToolsInv /\ RecordsInv /\ [ToolsNext]_toolsVars => RecordsInv'
<1> SUFFICES ASSUME ToolsInv, RecordsInv, [ToolsNext]_toolsVars PROVE RecordsInv'
  OBVIOUS
<1>1. Calls = FileCalls \cup WebCalls
  BY ToolsAssumption
<1>2. ASSUME NEW c \in Calls, InvocationStep(c) \/ FileCallStep(c) \/ WebCallStep(c) PROVE RecordsInv'
  <2>1. StepOf(c) /\ RecordInv(c)'
    BY <1>2, InvocationMoves, FileCallMoves, WebCallMoves, InvocationKeepsRecords, FileCallKeepsRecords,
       WebCallKeepsRecords DEF ToolsInv, RecordsInv
  <2>2. TextOK' /\ \A d \in Calls \ {c} : error'[d] = error[d] /\ result'[d] = result[d]
    BY <1>2, TextStays DEF RecordsInv
  <2>3. \A d \in Calls \ {c} : RecordInv(d)'
    BY <2>1, <2>2 DEF StepOf, RecordsInv, RecordInv, Open, Begun, Closed
  <2>4. QED
    BY <2>1, <2>2, <2>3 DEF RecordsInv
<1>3. CASE UNCHANGED toolsVars
  BY <1>3 DEF toolsVars, callVars, RecordsInv, RecordInv, TextOK, Open, Begun, Closed
<1>4. CASE FileStep
  BY <1>1, <1>2, <1>4, ToolsAssumption, FileToolsAssumption DEF FileStep, FileCallStep, FileCalls, Writes
<1>5. CASE WebStep
  BY <1>1, <1>2, <1>5 DEF WebStep, WebCallStep
<1>6. QED
  BY <1>2, <1>3, <1>4, <1>5 DEF ToolsNext, AllOver, toolsVars

\* A call that is over was closed by its last record, unless it was rejected.
LEMMA ClosedOfRecords == CallsTypeOK /\ RecordsInv => ClosedOnce
<1> SUFFICES ASSUME CallsTypeOK, RecordsInv, NEW c \in Calls, Returned(c)
             PROVE  ClosedAsReturned(c, "tool") /\ (result[c] = "not_found" \/ RequestedFirst(c))
  BY DEF ClosedOnce
<1>1. Closed(trail[c], "tool", result[c]) /\ (result[c] = "not_found" \/ Begun(trail[c]))
  BY DEF RecordsInv, RecordInv, Returned
<1>2. ClosedAsReturned(c, "tool")
  BY <1>1, ClosedByLast
<1>3. QED
  BY <1>1, <1>2 DEF RequestedFirst, Begun

\* ToolRegistry.invokeResult leaves one closing record of every invocation that
\* returns, the last one, with the outcome that is returned, and one of the
\* request before it unless there is no such tool: for any calls of the file and
\* web tools together and however policies, sinks and handlers fail, though the
\* success is audited inside the try whose catch audits a failure.
THEOREM InvocationsCloseOnce == ToolsSpec => []ClosedOnce
<1>1. ToolsInit => ToolsInv /\ RecordsInv
  BY InitialTools, InitialRecords
<1>2. ToolsInv /\ RecordsInv /\ [ToolsNext]_toolsVars => (ToolsInv /\ RecordsInv)'
  BY StepKeepsTools, StepKeepsRecords
<1>3. ToolsInv /\ RecordsInv => ClosedOnce
  BY ClosedOfRecords DEF ToolsInv
<1>4. QED
  BY <1>1, <1>2, <1>3, PTL DEF ToolsSpec
-----------------------------------------------------------------------------
(* Files *)

OnRecord(c, outcome) == Recorded(c, "operation", outcome)

\* What the records of its operation say of a call where it is.
OperationInv(c) ==
  /\ at[c] = "succeeding" \/ (at[c] = "over" /\ result[c] = "ok") => OnRecord(c, "succeeded")
  /\ OnRecord(c, "succeeded") => at[c] \in {"succeeding", "catching", "over"}
  /\ OnRecord(c, "failed") \/ OnRecord(c, "denied") => at[c] \in {"catching", "over"}

\* A step that has no record of an operation.
LEMMA QuietOperation ==
  ASSUME CallsTypeOK, NEW c \in Calls, OperationInv(c),
         UNCHANGED trail \/ \E of \in Kinds \ {"operation"}, outcome \in Outcomes : Log(c, of, outcome)
  PROVE  \A o : OnRecord(c, o)' <=> OnRecord(c, o)
<1>1. CASE UNCHANGED trail
  BY <1>1 DEF OnRecord, Recorded, Records
<1>2. CASE \E of \in Kinds \ {"operation"}, outcome \in Outcomes : Log(c, of, outcome)
  <2>1. PICK of \in Kinds \ {"operation"}, outcome \in Outcomes : Log(c, of, outcome)
    BY <1>2
  <2>2. \A k, o : Recorded(c, k, o)' <=> Recorded(c, k, o) \/ (k = of /\ o = outcome)
    BY <2>1, RecordedStep
  <2>3. QED
    BY <2>1, <2>2 DEF OnRecord
<1>3. QED
  BY <1>1, <1>2

\* The steps of a call, each with its records.
LEMMA CallKeepsOperation ==
  ASSUME CallsTypeOK, TextOK, NEW c \in Calls, RecordInv(c), OperationInv(c),
         InvocationStep(c) \/ FileCallStep(c) \/ WebCallStep(c)
  PROVE  /\ OperationInv(c)'
         /\ OnRecord(c, "succeeded")' => OnRecord(c, "succeeded") \/ at[c] = "operation_done"
         /\ \A o \in {"failed", "denied"} : OnRecord(c, o)' => OnRecord(c, o) \/ at[c] = "operation_failed"
<1>1. CASE AuditOperation(c) /\ Goto(c, "operation_done", "succeeding")
  <2>1. Log(c, "operation", "succeeded") /\ at[c] = "operation_done" /\ at'[c] = "succeeding"
    BY <1>1 DEF AuditOperation, Fail, Goto, CallsTypeOK
  <2>2. \A k, o : Recorded(c, k, o)' <=> Recorded(c, k, o) \/ (k = "operation" /\ o = "succeeded")
    BY <2>1, RecordedStep DEF Kinds, Outcomes
  <2>3. QED
    BY <2>1, <2>2 DEF OperationInv, OnRecord
<1>2. CASE AuditFailedOperation(c)
  <2>1. at[c] = "operation_failed" /\ at'[c] = "catching"
    BY <1>2 DEF AuditFailedOperation, Fail, Goto, CallsTypeOK
  <2>2. UNCHANGED trail \/ \E outcome \in {"failed", "denied"} : Log(c, "operation", outcome)
    BY <1>2 DEF AuditFailedOperation
  <2>3. UNCHANGED trail => \A o : OnRecord(c, o)' <=> OnRecord(c, o)
    BY QuietOperation
  <2>4. ASSUME NEW outcome \in {"failed", "denied"}, Log(c, "operation", outcome)
        PROVE  OnRecord(c, "succeeded")' <=> OnRecord(c, "succeeded")
    <3>1. \A k, o : Recorded(c, k, o)' <=> Recorded(c, k, o) \/ (k = "operation" /\ o = outcome)
      BY <2>4, RecordedStep DEF Kinds, Outcomes
    <3>2. QED
      BY <3>1 DEF OnRecord
  <2>5. OnRecord(c, "succeeded")' <=> OnRecord(c, "succeeded")
    BY <2>2, <2>3, <2>4
  <2>6. QED
    BY <2>1, <2>5 DEF OperationInv
<1>3. CASE ~(AuditOperation(c) /\ Goto(c, "operation_done", "succeeding")) /\ ~AuditFailedOperation(c)
  <2>1. CASE Ask(c, InvocationCheck) \/ AskForAccess(c) \/ AskForRequest(c)
    <3>1. at[c] \notin {"succeeding", "catching", "over"} /\ at'[c] \notin {"succeeding", "over"}
      BY <2>1 DEF AskForAccess, AskForRequest, Ask, Decide, RecordDecision, InvocationCheck, AccessCheck, RequestCheck, Fail,
         Goto, CallsTypeOK
    <3>2. UNCHANGED trail \/ \E outcome \in Outcomes : Log(c, "permission", outcome)
      BY <2>1 DEF AskForAccess, AskForRequest, Ask, Decide, RecordDecision, Outcomes
    <3>3. \A o : OnRecord(c, o)' <=> OnRecord(c, o)
      BY <3>2, QuietOperation DEF Kinds
    <3>4. QED
      BY <3>1, <3>3 DEF OperationInv
  <2>2. CASE InvocationStep(c) /\ ~Ask(c, InvocationCheck)
    <3>1. /\ at[c] # "over" /\ at'[c] # "succeeding"
          /\ at[c] \in {"succeeding", "catching"} => at'[c] \in {"catching", "over"}
          /\ at'[c] = "over" /\ result'[c] = "ok" => at[c] = "succeeding"
      BY <1>3, <2>2 DEF InvocationStep, Invoke, RefuseUnknown, AuditRequested, Refuse, AuditOperation,
         AuditSucceeded, Catch, SinkRejects, Return, Fail, Goto, CallsTypeOK, TextOK, RecordInv
    <3>2. UNCHANGED trail \/ \E outcome \in Outcomes : Log(c, "tool", outcome)
      BY <1>3, <2>2 DEF InvocationStep, Invoke, RefuseUnknown, AuditRequested, Refuse, AuditOperation,
         AuditSucceeded, Catch, SinkRejects, Outcomes
    <3>3. \A o : OnRecord(c, o)' <=> OnRecord(c, o)
      BY <3>2, QuietOperation DEF Kinds
    <3>4. QED
      BY <3>1, <3>3 DEF OperationInv
  <2>3. CASE (FileCallStep(c) /\ ~AskForAccess(c)) \/ (WebCallStep(c) /\ ~AskForRequest(c))
    <3>1. /\ at[c] \notin {"succeeding", "catching", "over"} /\ at'[c] \notin {"succeeding", "over"}
          /\ UNCHANGED trail
      BY <2>3 DEF CallsTypeOK, Goto, Fail, FileCallStep, AuthorizeStep, ResolvePath, WriteStep, Place, CheckTarget,
         OpenNew, Fill, OverwriteStep, OpenTemp, Rename, RemoveTemp, ReadStep, OpenRead, ReadBytes, WebCallStep,
         RefuseRequest, Send, Respond
    <3>2. \A o : OnRecord(c, o)' <=> OnRecord(c, o)
      BY <3>1, QuietOperation
    <3>3. QED
      BY <3>1, <3>2 DEF OperationInv
  <2>4. QED
    BY <2>1, <2>2, <2>3
<1>4. QED
  BY <1>1, <1>2, <1>3

\* The files are those of calls; a read has a file that has been at the path.
DiskInv ==
  /\ content \in [Inodes -> {"part", "whole"}] /\ content[Original] = "whole"
  /\ published \subseteq Writes /\ live \in {NoFile, Original} \cup published
  /\ opened \in [Reads -> {NoFile, Original} \cup published] /\ got = [c \in Reads |-> got[c]]
  /\ \A c \in Reads : (at[c] = "reading" => opened[c] # NoFile) /\ (got[c] # "none" => at[c] \in Left)
  /\ \A c \in Creates : at[c] = "filling" => c \in published
  /\ \A c \in Overwrites : name[c] # NoFile => at[c] \in Chosen \cup Left

\* The file at the temporary name of a call that writes it, or is about to
\* rename it, is its own, or gone because another call has removed it.
HoldsTemp(c) ==
  \/ tmp[name[c]] = c
  \/ tmp[name[c]] = NoFile /\ \E d \in Overwrites \ {c} : name[d] = name[c] /\ at[d] \in Left

Done == {"operation_done", "succeeding", "catching", "over"}

\* An overwrite puts in place what it has written completely, its own, and its
\* record is no failure.
WholeInv ==
  /\ \A c \in Overwrites : at[c] \in {"filling", "renaming"} => HoldsTemp(c)
  /\ \A c \in Overwrites : at[c] = "renaming" => content[c] = "whole"
  /\ \A c \in Writes : at[c] = "operation_done" \/ OnRecord(c, "succeeded") => c \in published /\ content[c] = "whole"
  /\ \A c \in Overwrites \cap published :
       at[c] \in Done /\ content[c] = "whole" /\ ~OnRecord(c, "failed") /\ ~OnRecord(c, "denied")
  /\ \A c \in Reads : got[c] = "part" => opened[c] \in Creates

FilesInv == DiskInv /\ (\A c \in Calls : OperationInv(c)) /\ (~Crowded => WholeInv)

\* What is known of the step of a call apart from the files.
Moves(c) ==
  /\ StepOf(c)
  /\ \A d \in Calls : OperationInv(d)'
  /\ \A d \in Calls \ {c}, o \in Outcomes : OnRecord(d, o)' <=> OnRecord(d, o)
  /\ OnRecord(c, "succeeded")' => OnRecord(c, "succeeded") \/ at[c] = "operation_done"
  /\ \A o \in {"failed", "denied"} : OnRecord(c, o)' => OnRecord(c, o) \/ at[c] = "operation_failed"
  /\ at[c] \in Left => at'[c] \in Left

\* The calls and their files.
LEMMA FileFamilies ==
  /\ Creates \cup Overwrites = Writes /\ Writes \subseteq Calls /\ Reads \subseteq Calls /\ FileCalls = Writes \cup Reads
  /\ Creates \cap Overwrites = {} /\ Writes \cap Reads = {} /\ FileCalls \cap WebCalls = {} /\ WebCalls \subseteq Calls
  /\ NoFile \notin Writes /\ Original \notin Writes /\ NoFile # Original /\ NoFile \notin Names
  /\ Inodes = Writes \cup {Original}
BY ToolsAssumption, FileToolsAssumption DEF FileCalls, Writes, Inodes

\* What a step does apart from the files.
LEMMA StepMoves ==
  ASSUME CallsTypeOK, TextOK, NEW c \in Calls, RecordInv(c), Consent(c), \A d \in Calls : OperationInv(d),
         InvocationStep(c) \/ FileCallStep(c) \/ WebCallStep(c)
  PROVE  Moves(c)
<1>1. StepOf(c)
  BY InvocationMoves, FileCallMoves, WebCallMoves
<1>2. \A d \in Calls \ {c} : at'[d] = at[d] /\ trail'[d] = trail[d] /\ result'[d] = result[d]
  BY <1>1, TextStays DEF StepOf
<1>3. \A d \in Calls \ {c}, o \in Outcomes : OnRecord(d, o)' <=> OnRecord(d, o)
  BY <1>2 DEF OnRecord, Recorded, Records
<1>4. /\ OperationInv(c)'
      /\ OnRecord(c, "succeeded")' => OnRecord(c, "succeeded") \/ at[c] = "operation_done"
      /\ \A o \in {"failed", "denied"} : OnRecord(c, o)' => OnRecord(c, o) \/ at[c] = "operation_failed"
  BY CallKeepsOperation
<1>5. \A d \in Calls \ {c} : OperationInv(d)'
  BY <1>2, <1>3 DEF OperationInv, Outcomes
<1>6. at[c] \in Left => at'[c] \in Left
  <2>1. CASE InvocationStep(c)
    BY <2>1, InvocationConsent DEF Left, Entry
  <2>2. CASE FileCallStep(c) \/ WebCallStep(c)
    BY <2>2 DEF CallsTypeOK, Goto, Fail, FileCallStep, AuthorizeStep, ResolvePath, WriteStep, Place, CheckTarget,
       OpenNew, Fill, OverwriteStep, OpenTemp, Rename, RemoveTemp, ReadStep, OpenRead, ReadBytes, WebCallStep,
       RefuseRequest, Send, Respond, AskForAccess, AskForRequest, Ask, Decide, RecordDecision, AccessCheck, RequestCheck, Left
  <2>3. QED
    BY <2>1, <2>2
<1>7. QED
  BY <1>1, <1>3, <1>4, <1>5, <1>6 DEF Moves

\* Names are chosen once: three that share one go on sharing it.
LEMMA CrowdedStays ==
  ASSUME NEW c, \A d \in Overwrites \ {c} : name'[d] = name[d], c \in Overwrites /\ name'[c] # name[c] => name[c] \notin Names
  PROVE  Crowded => Crowded'
BY DEF Crowded

\* A step of a call that touches neither files nor what has been read.
LEMMA QuietKeepsFiles ==
  ASSUME ToolsInv, FilesInv, NEW c \in Calls, Moves(c), UNCHANGED <<diskVars, readVars>>,
         \/ UNCHANGED name
         \/ /\ c \in Overwrites /\ at[c] = "placing" /\ at'[c] = "checking"
            /\ \E n \in Names : name' = [name EXCEPT ![c] = n],
         c \in FileCalls => at'[c] \notin {"filling", "renaming", "reading", "operation_done"},
         at[c] \in Chosen => at'[c] \in Chosen \cup {"operation_failed"},
         at[c] \in Done => at'[c] \in Done
  PROVE  FilesInv'
<1>1. \A d \in Calls \ {c} : at'[d] = at[d]
  BY DEF Moves, StepOf
<1>2. /\ \A d \in Overwrites \ {c} : name'[d] = name[d]
      /\ c \in Overwrites /\ name'[c] # name[c] => name[c] = NoFile /\ at'[c] = "checking"
  BY FileFamilies DEF ToolsInv, FilesTypeOK, FilesInv, DiskInv, Chosen, Left
<1>3. ~Crowded' => ~Crowded
  BY <1>2, CrowdedStays, FileFamilies
<1>4. DiskInv'
  <2>1. \A d \in Reads : (at'[d] = "reading" => opened[d] # NoFile) /\ (got[d] # "none" => at'[d] \in Left)
    BY <1>1, FileFamilies DEF FilesInv, DiskInv, Moves
  <2>2. \A d \in Creates : at'[d] = "filling" => d \in published
    BY <1>1, FileFamilies DEF FilesInv, DiskInv
  <2>3. \A d \in Overwrites : name'[d] # NoFile => at'[d] \in Chosen \cup Left
    BY <1>1, <1>2, FileFamilies DEF FilesInv, DiskInv, Moves, Left, Chosen
  <2>4. QED
    BY <2>1, <2>2, <2>3 DEF FilesInv, DiskInv, diskVars, readVars
<1>5. ASSUME ~Crowded' PROVE WholeInv'
  <2>0. WholeInv
    BY <1>3, <1>5 DEF FilesInv
  <2>1. ASSUME NEW d \in Overwrites, at'[d] \in {"filling", "renaming"} PROVE HoldsTemp(d)' /\ (at'[d] = "renaming" => content[d] = "whole")
    <3>1. d # c /\ at[d] \in {"filling", "renaming"}
      BY <1>1, <2>1, FileFamilies
    <3>2. name'[d] = name[d] /\ HoldsTemp(d) /\ name[d] \in Names
      BY <1>2, <2>0, <3>1 DEF WholeInv, ToolsInv, FilesTypeOK, Chosen
    <3>3. \A e \in Overwrites : name[e] = name[d] /\ at[e] \in Left => name'[e] = name[d] /\ at'[e] \in Left
      BY <1>1, <1>2, <3>2, FileFamilies DEF Moves
    <3>4. HoldsTemp(d)'
      BY <3>2, <3>3 DEF HoldsTemp, diskVars
    <3>5. at'[d] = "renaming" => content[d] = "whole"
      BY <1>1, <2>0, <3>1, FileFamilies DEF WholeInv
    <3>6. QED
      BY <3>4, <3>5
  <2>2. ASSUME NEW d \in Writes, at'[d] = "operation_done" \/ OnRecord(d, "succeeded")' PROVE d \in published /\ content[d] = "whole"
    BY <1>1, <2>0, <2>2, FileFamilies DEF WholeInv, Moves, Outcomes
  <2>3. ASSUME NEW d \in Overwrites \cap published
        PROVE  at'[d] \in Done /\ content[d] = "whole" /\ ~OnRecord(d, "failed")' /\ ~OnRecord(d, "denied")'
    BY <1>1, <2>0, FileFamilies DEF WholeInv, Moves, Outcomes, Done
  <2>4. QED
    BY <2>0, <2>1, <2>2, <2>3 DEF WholeInv, diskVars, readVars
<1>6. QED
  BY <1>4, <1>5 DEF FilesInv, Moves

\* A new file is at its path before it is written.
LEMMA OpenNewKeepsFiles ==
  ASSUME ToolsInv, FilesInv, NEW c \in Creates, Moves(c), Goto(c, "opening", "filling"),
         live' = c, published' = published \cup {c}, UNCHANGED <<name, tmp, content, readVars>>
  PROVE  FilesInv'
<1>1. at[c] = "opening" /\ at'[c] = "filling" /\ c \in Calls /\ c \notin Overwrites /\ c \in Writes /\ c \notin Reads
  BY FileFamilies DEF Goto, Moves, StepOf, CallsTypeOK, ToolsInv
<1>2. \A d \in Calls \ {c} : at'[d] = at[d]
  BY DEF Moves, StepOf
<1>3. DiskInv'
  <2>1. \A d \in Reads : (at'[d] = "reading" => opened[d] # NoFile) /\ (got[d] # "none" => at'[d] \in Left)
    BY <1>1, <1>2, FileFamilies DEF FilesInv, DiskInv
  <2>2. \A d \in Creates : at'[d] = "filling" => d \in published'
    BY <1>1, <1>2, FileFamilies DEF FilesInv, DiskInv
  <2>3. \A d \in Overwrites : name[d] # NoFile => at'[d] \in Chosen \cup Left
    BY <1>1, <1>2, FileFamilies DEF FilesInv, DiskInv
  <2>4. opened \in [Reads -> {NoFile, Original} \cup published']
    BY DEF FilesInv, DiskInv
  <2>5. QED
    BY <1>1, <2>1, <2>2, <2>3, <2>4 DEF FilesInv, DiskInv, readVars
<1>4. Crowded' <=> Crowded
  BY DEF Crowded
<1>5. ASSUME ~Crowded' PROVE WholeInv'
  <2>0. WholeInv
    BY <1>4, <1>5 DEF FilesInv
  <2>1. ASSUME NEW d \in Overwrites, at'[d] \in {"filling", "renaming"} PROVE HoldsTemp(d)' /\ (at'[d] = "renaming" => content[d] = "whole")
    <3>1. d # c /\ at[d] \in {"filling", "renaming"} /\ (at'[d] = "renaming" => content[d] = "whole") /\ HoldsTemp(d)
      BY <1>1, <1>2, <2>0, <2>1, FileFamilies DEF WholeInv
    <3>2. HoldsTemp(d)'
      BY <1>1, <1>2, <3>1, FileFamilies DEF HoldsTemp
    <3>3. QED
      BY <3>1, <3>2
  <2>2. ASSUME NEW d \in Writes, at'[d] = "operation_done" \/ OnRecord(d, "succeeded")' PROVE d \in published /\ content[d] = "whole"
    BY <1>1, <1>2, <2>0, <2>2, FileFamilies DEF WholeInv, Moves, Outcomes
  <2>3. ASSUME NEW d \in Overwrites \cap published
        PROVE  at'[d] \in Done /\ content[d] = "whole" /\ ~OnRecord(d, "failed")' /\ ~OnRecord(d, "denied")'
    BY <1>1, <1>2, <2>0, FileFamilies DEF WholeInv, Moves, Outcomes, Done
  <2>4. QED
    BY <1>1, <2>0, <2>1, <2>2, <2>3 DEF WholeInv, readVars
<1>6. QED
  BY <1>3, <1>5 DEF FilesInv, Moves

\* A temporary file that is created is at a name that no call holds, unless three
\* share it.
LEMMA OpenTempKeepsFiles ==
  ASSUME ToolsInv, FilesInv, NEW c \in Overwrites, Moves(c), Goto(c, "opening", "filling"),
         tmp[name[c]] = NoFile, tmp' = [tmp EXCEPT ![name[c]] = c], UNCHANGED <<name, live, content, published, readVars>>
  PROVE  FilesInv'
<1>1. at[c] = "opening" /\ at'[c] = "filling" /\ c \in Calls /\ c \notin Creates /\ c \in Writes /\ c \notin Reads /\ name[c] \in Names
  BY FileFamilies DEF Goto, Moves, StepOf, CallsTypeOK, ToolsInv, FilesTypeOK, Chosen
<1>2. \A d \in Calls \ {c} : at'[d] = at[d]
  BY DEF Moves, StepOf
<1>3. DiskInv'
  <2>1. \A d \in Reads : (at'[d] = "reading" => opened[d] # NoFile) /\ (got[d] # "none" => at'[d] \in Left)
    BY <1>1, <1>2, FileFamilies DEF FilesInv, DiskInv
  <2>2. \A d \in Creates : at'[d] = "filling" => d \in published
    BY <1>1, <1>2, FileFamilies DEF FilesInv, DiskInv
  <2>3. \A d \in Overwrites : name[d] # NoFile => at'[d] \in Chosen \cup Left
    BY <1>1, <1>2, FileFamilies DEF FilesInv, DiskInv, Chosen
  <2>4. QED
    BY <1>1, <2>1, <2>2, <2>3 DEF FilesInv, DiskInv, readVars
<1>4. Crowded' <=> Crowded
  BY DEF Crowded
<1>5. ASSUME ~Crowded' PROVE WholeInv'
  <2>0. WholeInv
    BY <1>4, <1>5 DEF FilesInv
  <2>1. ASSUME NEW d \in Overwrites \ {c}, at'[d] \in {"filling", "renaming"} PROVE HoldsTemp(d)' /\ (at'[d] = "renaming" => content[d] = "whole")
    <3>1. at[d] \in {"filling", "renaming"} /\ (at'[d] = "renaming" => content[d] = "whole") /\ HoldsTemp(d) /\ name[d] \in Names
      BY <1>1, <1>2, <2>0, <2>1, FileFamilies DEF WholeInv, ToolsInv, FilesTypeOK, Chosen
    <3>2. name[d] # name[c]
      <4>1. SUFFICES ASSUME name[d] = name[c] PROVE FALSE
        OBVIOUS
      <4>2. PICK e \in Overwrites \ {d} : name[e] = name[d] /\ at[e] \in Left
        BY <3>1, <4>1, FileFamilies DEF HoldsTemp
      <4>3. e # c
        BY <1>1, <4>2 DEF Left
      <4>4. QED
        BY <1>1, <1>4, <1>5, <4>1, <4>2, <4>3 DEF Crowded
    <3>3. tmp'[name[d]] = tmp[name[d]]
      BY <1>1, <3>1, <3>2 DEF ToolsInv, FilesTypeOK
    <3>4. \A e \in Overwrites : at[e] \in Left => at'[e] \in Left
      BY <1>2, FileFamilies DEF Moves
    <3>5. HoldsTemp(d)'
      BY <3>1, <3>3, <3>4 DEF HoldsTemp
    <3>6. QED
      BY <3>1, <3>5
  <2>2. HoldsTemp(c)'
    BY <1>1 DEF HoldsTemp, ToolsInv, FilesTypeOK
  <2>3. ASSUME NEW d \in Writes, at'[d] = "operation_done" \/ OnRecord(d, "succeeded")' PROVE d \in published /\ content[d] = "whole"
    BY <1>1, <1>2, <2>0, <2>3, FileFamilies DEF WholeInv, Moves, Outcomes
  <2>4. ASSUME NEW d \in Overwrites \cap published
        PROVE  at'[d] \in Done /\ content[d] = "whole" /\ ~OnRecord(d, "failed")' /\ ~OnRecord(d, "denied")'
    BY <1>1, <1>2, <2>0, FileFamilies DEF WholeInv, Moves, Outcomes, Done
  <2>5. QED
    BY <1>1, <2>0, <2>1, <2>2, <2>3, <2>4 DEF WholeInv, readVars
<1>6. QED
  BY <1>3, <1>5 DEF FilesInv, Moves

\* Only a call that is writing writes to its file, which is not yet in place if
\* it overwrites.
LEMMA FillKeepsFiles ==
  ASSUME ToolsInv, FilesInv, NEW c \in Writes, Moves(c), Fill(c)
  PROVE  FilesInv'
<1>1. /\ at[c] = "filling" /\ c \in Calls /\ c \notin Reads /\ UNCHANGED <<name, live, tmp, published, readVars>>
      /\ at'[c] \in {"operation_done", "operation_failed", "renaming", "removing"}
      /\ at'[c] \in {"renaming", "removing"} => c \in Overwrites
      /\ at'[c] \in {"operation_done", "operation_failed"} => c \notin Overwrites
      /\ at'[c] \in {"operation_done", "renaming"} => content'[c] = "whole"
  BY FileFamilies DEF Fill, Fail, Goto, Moves, StepOf, CallsTypeOK, ToolsInv, FilesInv, DiskInv
<1>2. \A d \in Calls \ {c} : at'[d] = at[d]
  BY DEF Moves, StepOf
<1>3. /\ content' \in [Inodes -> {"part", "whole"}] /\ content'[Original] = "whole"
      /\ \A d \in Writes \ {c} : content'[d] = content[d]
  BY FileFamilies DEF Fill, FilesInv, DiskInv
<1>4. DiskInv'
  <2>1. \A d \in Reads : (at'[d] = "reading" => opened[d] # NoFile) /\ (got[d] # "none" => at'[d] \in Left)
    BY <1>1, <1>2, FileFamilies DEF FilesInv, DiskInv
  <2>2. \A d \in Creates : at'[d] = "filling" => d \in published
    BY <1>1, <1>2, FileFamilies DEF FilesInv, DiskInv
  <2>3. \A d \in Overwrites : name[d] # NoFile => at'[d] \in Chosen \cup Left
    BY <1>1, <1>2, FileFamilies DEF FilesInv, DiskInv, Chosen, Left
  <2>4. QED
    BY <1>1, <1>3, <2>1, <2>2, <2>3 DEF FilesInv, DiskInv, readVars
<1>5. Crowded' <=> Crowded
  BY <1>1 DEF Crowded
<1>6. ASSUME ~Crowded' PROVE WholeInv'
  <2>0. WholeInv
    BY <1>5, <1>6 DEF FilesInv
  <2>1. ASSUME NEW d \in Overwrites, at'[d] \in {"filling", "renaming"} PROVE HoldsTemp(d)' /\ (at'[d] = "renaming" => content'[d] = "whole")
    <3>1. HoldsTemp(d) /\ (at'[d] = "renaming" => content'[d] = "whole")
      BY <1>1, <1>2, <1>3, <2>0, <2>1, FileFamilies DEF WholeInv
    <3>2. \A e \in Overwrites : at[e] \in Left => at'[e] \in Left
      BY <1>2, FileFamilies DEF Moves
    <3>3. HoldsTemp(d)'
      BY <1>1, <3>1, <3>2 DEF HoldsTemp
    <3>4. QED
      BY <3>1, <3>3
  <2>2. ASSUME NEW d \in Writes, at'[d] = "operation_done" \/ OnRecord(d, "succeeded")' PROVE d \in published /\ content'[d] = "whole"
    <3>1. CASE d = c
      <4>1. c \notin Overwrites /\ at'[c] = "operation_done"
        BY <1>1, <2>2, <3>1 DEF Moves, FilesInv, OperationInv
      <4>2. QED
        BY <1>1, <3>1, <4>1, FileFamilies DEF FilesInv, DiskInv
    <3>2. CASE d # c
      BY <1>2, <1>3, <2>0, <2>2, <3>2, FileFamilies DEF WholeInv, Moves, Outcomes
    <3>3. QED
      BY <3>1, <3>2
  <2>3. ASSUME NEW d \in Overwrites \cap published
        PROVE  at'[d] \in Done /\ content'[d] = "whole" /\ ~OnRecord(d, "failed")' /\ ~OnRecord(d, "denied")'
    BY <1>1, <1>2, <1>3, <2>0, FileFamilies DEF WholeInv, Moves, Outcomes, Done
  <2>4. QED
    BY <1>1, <2>0, <2>1, <2>2, <2>3 DEF WholeInv, readVars
<1>7. QED
  BY <1>4, <1>6 DEF FilesInv, Moves

\* A rename puts the call's own file in place, which is complete.
LEMMA RenameKeepsFiles ==
  ASSUME ToolsInv, FilesInv, NEW c \in Overwrites, Moves(c), Goto(c, "renaming", "operation_done"),
         tmp[name[c]] # NoFile, live' = tmp[name[c]], published' = published \cup {tmp[name[c]]},
         tmp' = [tmp EXCEPT ![name[c]] = NoFile], UNCHANGED <<name, content, readVars>>
  PROVE  FilesInv'
<1>1. at[c] = "renaming" /\ at'[c] = "operation_done" /\ c \in Calls /\ c \notin Creates /\ c \in Writes /\ c \notin Reads /\ name[c] \in Names
  BY FileFamilies DEF Goto, Moves, StepOf, CallsTypeOK, ToolsInv, FilesTypeOK, Chosen
<1>2. \A d \in Calls \ {c} : at'[d] = at[d]
  BY DEF Moves, StepOf
<1>3. DiskInv'
  <2>1. \A d \in Reads : (at'[d] = "reading" => opened[d] # NoFile) /\ (got[d] # "none" => at'[d] \in Left)
    BY <1>1, <1>2, FileFamilies DEF FilesInv, DiskInv
  <2>2. \A d \in Creates : at'[d] = "filling" => d \in published'
    BY <1>1, <1>2, FileFamilies DEF FilesInv, DiskInv
  <2>3. \A d \in Overwrites : name[d] # NoFile => at'[d] \in Chosen \cup Left
    BY <1>1, <1>2, FileFamilies DEF FilesInv, DiskInv, Left
  <2>4. opened \in [Reads -> {NoFile, Original} \cup published']
    BY DEF FilesInv, DiskInv
  <2>5. tmp[name[c]] \in Writes
    BY <1>1 DEF ToolsInv
  <2>6. QED
    BY <1>1, <2>1, <2>2, <2>3, <2>4, <2>5 DEF FilesInv, DiskInv, readVars
<1>4. Crowded' <=> Crowded
  BY DEF Crowded
<1>5. ASSUME ~Crowded' PROVE WholeInv'
  <2>0. WholeInv
    BY <1>4, <1>5 DEF FilesInv
  <2>1. tmp[name[c]] = c /\ content[c] = "whole" /\ published' = published \cup {c}
    BY <1>1, <2>0 DEF WholeInv, HoldsTemp
  <2>2. ~OnRecord(c, "failed")' /\ ~OnRecord(c, "denied")'
    BY <1>1 DEF Moves, FilesInv, OperationInv
  <2>3. ASSUME NEW d \in Overwrites, at'[d] \in {"filling", "renaming"} PROVE HoldsTemp(d)' /\ (at'[d] = "renaming" => content[d] = "whole")
    <3>1. d # c /\ at[d] \in {"filling", "renaming"} /\ (at'[d] = "renaming" => content[d] = "whole") /\ HoldsTemp(d) /\ name[d] \in Names
      BY <1>1, <1>2, <2>0, <2>3, FileFamilies DEF WholeInv, ToolsInv, FilesTypeOK, Chosen
    <3>2. name[d] # name[c]
      BY <2>1, <3>1, FileFamilies DEF HoldsTemp
    <3>3. tmp'[name[d]] = tmp[name[d]]
      BY <1>1, <3>1, <3>2 DEF ToolsInv, FilesTypeOK
    <3>4. \A e \in Overwrites : at[e] \in Left => at'[e] \in Left
      BY <1>2, FileFamilies DEF Moves
    <3>5. HoldsTemp(d)'
      BY <3>1, <3>3, <3>4 DEF HoldsTemp
    <3>6. QED
      BY <3>1, <3>5
  <2>4. ASSUME NEW d \in Writes, at'[d] = "operation_done" \/ OnRecord(d, "succeeded")' PROVE d \in published' /\ content[d] = "whole"
    BY <1>1, <1>2, <2>0, <2>1, <2>4, FileFamilies DEF WholeInv, Moves, Outcomes
  <2>5. ASSUME NEW d \in Overwrites \cap published'
        PROVE  at'[d] \in Done /\ content[d] = "whole" /\ ~OnRecord(d, "failed")' /\ ~OnRecord(d, "denied")'
    BY <1>1, <1>2, <2>0, <2>1, <2>2, FileFamilies DEF WholeInv, Moves, Outcomes, Done
  <2>6. QED
    BY <2>0, <2>3, <2>4, <2>5 DEF WholeInv, readVars
<1>6. QED
  BY <1>3, <1>5 DEF FilesInv, Moves

\* The clean-up takes the file of another call only when it is itself done.
LEMMA RemoveKeepsFiles ==
  ASSUME ToolsInv, FilesInv, NEW c \in Overwrites, Moves(c), RemoveTemp(c)
  PROVE  FilesInv'
<1>1. /\ at[c] = "removing" /\ at'[c] = "operation_failed" /\ c \in Calls /\ c \notin Reads /\ name[c] \in Names
      /\ UNCHANGED <<name, live, content, published, readVars>>
  BY FileFamilies DEF RemoveTemp, Goto, Moves, StepOf, CallsTypeOK, ToolsInv, FilesTypeOK, Chosen
<1>2. \A d \in Calls \ {c} : at'[d] = at[d]
  BY DEF Moves, StepOf
<1>3. \A n \in Names : tmp'[n] = tmp[n] \/ (n = name[c] /\ tmp'[n] = NoFile)
  BY <1>1 DEF RemoveTemp, ToolsInv, FilesTypeOK
<1>4. DiskInv'
  <2>1. \A d \in Reads : (at'[d] = "reading" => opened[d] # NoFile) /\ (got[d] # "none" => at'[d] \in Left)
    BY <1>1, <1>2, FileFamilies DEF FilesInv, DiskInv
  <2>2. \A d \in Creates : at'[d] = "filling" => d \in published
    BY <1>1, <1>2, FileFamilies DEF FilesInv, DiskInv
  <2>3. \A d \in Overwrites : name[d] # NoFile => at'[d] \in Chosen \cup Left
    BY <1>1, <1>2, FileFamilies DEF FilesInv, DiskInv, Left
  <2>4. QED
    BY <1>1, <2>1, <2>2, <2>3 DEF FilesInv, DiskInv, readVars
<1>5. Crowded' <=> Crowded
  BY <1>1 DEF Crowded
<1>6. ASSUME ~Crowded' PROVE WholeInv'
  <2>0. WholeInv
    BY <1>5, <1>6 DEF FilesInv
  <2>1. ASSUME NEW d \in Overwrites, at'[d] \in {"filling", "renaming"} PROVE HoldsTemp(d)' /\ (at'[d] = "renaming" => content[d] = "whole")
    <3>1. d # c /\ at[d] \in {"filling", "renaming"} /\ (at'[d] = "renaming" => content[d] = "whole") /\ HoldsTemp(d) /\ name[d] \in Names
      BY <1>1, <1>2, <2>0, <2>1, FileFamilies DEF WholeInv, ToolsInv, FilesTypeOK, Chosen
    <3>2. \A e \in Overwrites : at[e] \in Left => at'[e] \in Left
      BY <1>2, FileFamilies DEF Moves
    <3>3. CASE tmp'[name[d]] = tmp[name[d]]
      BY <1>1, <3>1, <3>2, <3>3 DEF HoldsTemp
    <3>4. CASE name[d] = name[c] /\ tmp'[name[d]] = NoFile
      BY <1>1, <3>1, <3>4 DEF HoldsTemp, Left
    <3>5. QED
      BY <1>3, <3>1, <3>3, <3>4
  <2>2. ASSUME NEW d \in Writes, at'[d] = "operation_done" \/ OnRecord(d, "succeeded")' PROVE d \in published /\ content[d] = "whole"
    BY <1>1, <1>2, <2>0, <2>2, FileFamilies DEF WholeInv, Moves, Outcomes
  <2>3. ASSUME NEW d \in Overwrites \cap published
        PROVE  at'[d] \in Done /\ content[d] = "whole" /\ ~OnRecord(d, "failed")' /\ ~OnRecord(d, "denied")'
    BY <1>1, <1>2, <2>0, FileFamilies DEF WholeInv, Moves, Outcomes, Done
  <2>4. QED
    BY <1>1, <2>0, <2>1, <2>2, <2>3 DEF WholeInv, readVars
<1>7. QED
  BY <1>4, <1>6 DEF FilesInv, Moves

\* A read opens what is at the path and sees what is in that file: a part only of
\* one that is being created.
LEMMA ReadKeepsFiles ==
  ASSUME ToolsInv, FilesInv, NEW c \in Reads, Moves(c), UNCHANGED <<name, diskVars>>,
         \/ /\ Goto(c, "opening", "reading") /\ live # NoFile
            /\ opened' = [opened EXCEPT ![c] = live] /\ UNCHANGED got
         \/ /\ Goto(c, "reading", "operation_done")
            /\ got' = [got EXCEPT ![c] = content[opened[c]]] /\ UNCHANGED opened
  PROVE  FilesInv'
<1>1. c \in Calls /\ c \notin Writes
  BY FileFamilies
<1>2. \A d \in Calls \ {c} : at'[d] = at[d]
  BY DEF Moves, StepOf
<1>3. \/ at[c] = "opening" /\ at'[c] = "reading" /\ opened'[c] = live /\ live # NoFile /\ got' = got /\ got[c] = "none"
      \/ at[c] = "reading" /\ at'[c] = "operation_done" /\ opened' = opened /\ got'[c] = content[opened[c]]
  BY <1>1 DEF Goto, Moves, StepOf, CallsTypeOK, ToolsInv, FilesInv, DiskInv, Left
<1>4. /\ opened' \in [Reads -> {NoFile, Original} \cup published] /\ got' = [d \in Reads |-> got'[d]]
      /\ \A d \in Reads \ {c} : opened'[d] = opened[d] /\ got'[d] = got[d]
  BY DEF FilesInv, DiskInv
<1>5. DiskInv'
  <2>1. \A d \in Reads : (at'[d] = "reading" => opened'[d] # NoFile) /\ (got'[d] # "none" => at'[d] \in Left)
    BY <1>2, <1>3, <1>4, FileFamilies DEF FilesInv, DiskInv, Left
  <2>2. \A d \in Creates : at'[d] = "filling" => d \in published
    BY <1>1, <1>2, FileFamilies DEF FilesInv, DiskInv
  <2>3. \A d \in Overwrites : name[d] # NoFile => at'[d] \in Chosen \cup Left
    BY <1>1, <1>2, FileFamilies DEF FilesInv, DiskInv
  <2>4. QED
    BY <1>4, <2>1, <2>2, <2>3 DEF FilesInv, DiskInv, diskVars
<1>6. Crowded' <=> Crowded
  BY DEF Crowded
<1>7. ASSUME ~Crowded' PROVE WholeInv'
  <2>0. WholeInv
    BY <1>6, <1>7 DEF FilesInv
  <2>1. ASSUME NEW d \in Overwrites, at'[d] \in {"filling", "renaming"} PROVE HoldsTemp(d)' /\ (at'[d] = "renaming" => content[d] = "whole")
    <3>1. at[d] \in {"filling", "renaming"} /\ (at'[d] = "renaming" => content[d] = "whole") /\ HoldsTemp(d)
      BY <1>1, <1>2, <2>0, <2>1, FileFamilies DEF WholeInv
    <3>2. \A e \in Overwrites : at[e] \in Left => at'[e] \in Left
      BY <1>2, FileFamilies DEF Moves
    <3>3. HoldsTemp(d)'
      BY <3>1, <3>2 DEF HoldsTemp, diskVars
    <3>4. QED
      BY <3>1, <3>3
  <2>2. ASSUME NEW d \in Writes, at'[d] = "operation_done" \/ OnRecord(d, "succeeded")' PROVE d \in published /\ content[d] = "whole"
    BY <1>1, <1>2, <2>0, <2>2, FileFamilies DEF WholeInv, Moves, Outcomes
  <2>3. ASSUME NEW d \in Overwrites \cap published
        PROVE  at'[d] \in Done /\ content[d] = "whole" /\ ~OnRecord(d, "failed")' /\ ~OnRecord(d, "denied")'
    BY <1>1, <1>2, <2>0, FileFamilies DEF WholeInv, Moves, Outcomes, Done
  <2>4. ASSUME NEW d \in Reads, got'[d] = "part" PROVE opened'[d] \in Creates
    <3>1. CASE d = c /\ at[c] = "reading"
      <4>1. opened[c] \in {Original} \cup published /\ content[opened[c]] = "part" /\ opened' = opened
        BY <1>3, <2>4, <3>1 DEF FilesInv, DiskInv
      <4>2. QED
        BY <2>0, <3>1, <4>1, FileFamilies DEF FilesInv, DiskInv, WholeInv
    <3>2. CASE ~(d = c /\ at[c] = "reading")
      BY <1>3, <1>4, <2>0, <2>4, <3>2 DEF WholeInv
    <3>3. QED
      BY <3>1, <3>2
  <2>5. QED
    BY <2>0, <2>1, <2>2, <2>3, <2>4 DEF WholeInv, diskVars
<1>8. QED
  BY <1>5, <1>7 DEF FilesInv, Moves
-----------------------------------------------------------------------------
\* A step of a file call.
LEMMA FileCallKeepsFiles ==
  ASSUME ToolsInv, FilesInv, NEW c \in FileCalls, Moves(c), FileCallStep(c)
  PROVE  FilesInv'
<1>1. c \in Calls /\ CallsTypeOK
  BY FileFamilies DEF ToolsInv
<1>2. CASE c \in Writes /\ Fill(c)
  BY <1>2, FillKeepsFiles
<1>3. CASE c \in Overwrites /\ RemoveTemp(c)
  BY <1>3, RemoveKeepsFiles
<1>4. CASE c \in Creates /\ OpenNew(c) /\ Goto(c, "opening", "filling")
  <2>1. ~Fail(c, "opening", "operation_failed", "execution_failed")
    BY <1>1, <1>4 DEF Fail, Goto, CallsTypeOK
  <2>2. QED
    BY <1>4, <2>1, OpenNewKeepsFiles DEF OpenNew
<1>5. CASE c \in Overwrites /\ OpenTemp(c) /\ Goto(c, "opening", "filling")
  <2>1. ~Fail(c, "opening", "removing", "execution_failed")
    BY <1>1, <1>5 DEF Fail, Goto, CallsTypeOK
  <2>2. QED
    BY <1>5, <2>1, OpenTempKeepsFiles DEF OpenTemp
<1>6. CASE c \in Overwrites /\ Rename(c) /\ Goto(c, "renaming", "operation_done")
  <2>1. ~Fail(c, "renaming", "removing", "execution_failed")
    BY <1>1, <1>6 DEF Fail, Goto, CallsTypeOK
  <2>2. QED
    BY <1>6, <2>1, RenameKeepsFiles DEF Rename
<1>7. CASE \/ c \in Reads /\ OpenRead(c) /\ Goto(c, "opening", "reading")
           \/ c \in Reads /\ ReadBytes(c) /\ Goto(c, "reading", "operation_done")
  <2>1. ~Fail(c, "opening", "operation_failed", "execution_failed") \/ ~Goto(c, "opening", "reading")
    BY <1>1 DEF Fail, Goto, CallsTypeOK
  <2>2. ~Fail(c, "reading", "operation_failed", "execution_failed") \/ ~Goto(c, "reading", "operation_done")
    BY <1>1 DEF Fail, Goto, CallsTypeOK
  <2>3. QED
    BY <1>7, <2>1, <2>2, ReadKeepsFiles DEF OpenRead, ReadBytes
<1>8. CASE \/ AuthorizeStep(c)
           \/ c \in Writes /\ (Place(c) \/ CheckTarget(c))
           \/ c \in Creates /\ OpenNew(c) /\ ~Goto(c, "opening", "filling")
           \/ c \in Overwrites /\ OpenTemp(c) /\ ~Goto(c, "opening", "filling")
           \/ c \in Overwrites /\ Rename(c) /\ ~Goto(c, "renaming", "operation_done")
           \/ c \in Reads /\ OpenRead(c) /\ ~Goto(c, "opening", "reading")
           \/ c \in Reads /\ ReadBytes(c) /\ ~Goto(c, "reading", "operation_done")
  <2>1. /\ UNCHANGED <<diskVars, readVars>>
        /\ \/ UNCHANGED name
           \/ /\ c \in Overwrites /\ at[c] = "placing" /\ at'[c] = "checking"
              /\ \E n \in Names : name' = [name EXCEPT ![c] = n]
    BY <1>1, <1>8 DEF AuthorizeStep, ResolvePath, AskForAccess, Place, CheckTarget, OpenNew, OpenTemp, Rename, OpenRead,
       ReadBytes, fileVars, diskVars, readVars, Fail, Goto, CallsTypeOK
  <2>2. /\ at'[c] \notin {"filling", "renaming", "reading", "operation_done"}
        /\ at[c] \in Chosen => at'[c] \in Chosen \cup {"operation_failed"}
        /\ at[c] \notin Done
    BY <1>1, <1>8 DEF AuthorizeStep, ResolvePath, AskForAccess, Ask, Decide, RecordDecision, AccessCheck, Place, CheckTarget,
       OpenNew, OpenTemp, Rename, OpenRead, ReadBytes, Fail, Goto, CallsTypeOK, Chosen, Done
  <2>3. QED
    BY <1>1, <2>1, <2>2, QuietKeepsFiles
<1>9. QED
  BY <1>2, <1>3, <1>4, <1>5, <1>6, <1>7, <1>8 DEF FileCallStep, WriteStep, OverwriteStep, ReadStep

\* No call has begun.
LEMMA InitialFiles == ToolsInit => FilesInv
<1> SUFFICES ASSUME ToolsInit PROVE FilesInv
  OBVIOUS
<1>1. \A c \in Calls : at[c] \in {"idle", "never"} /\ trail[c] = <<>>
  BY DEF ToolsInit, CallsInit
<1>2. DiskInv
  BY <1>1, FileFamilies DEF ToolsInit, FilesInit, DiskInv
<1>3. \A c \in Calls : \A o : ~OnRecord(c, o)
  BY <1>1 DEF OnRecord, Recorded, Records
<1>4. \A c \in Calls : OperationInv(c)
  BY <1>1, <1>3 DEF OperationInv
<1>5. WholeInv
  BY <1>1, <1>3, FileFamilies DEF WholeInv, ToolsInit, FilesInit
<1>6. QED
  BY <1>2, <1>4, <1>5 DEF FilesInv

\* The invariant is inductive.
LEMMA StepKeepsFiles == ToolsInv /\ RecordsInv /\ FilesInv /\ [ToolsNext]_toolsVars => FilesInv'
<1> SUFFICES ASSUME ToolsInv, RecordsInv, FilesInv, [ToolsNext]_toolsVars PROVE FilesInv'
  OBVIOUS
<1>1. ASSUME NEW c \in Calls, InvocationStep(c) \/ FileCallStep(c) \/ WebCallStep(c) PROVE Moves(c)
  BY <1>1, StepMoves DEF ToolsInv, RecordsInv, FilesInv
<1>2. ASSUME NEW c \in Calls, InvocationStep(c), UNCHANGED fileVars PROVE FilesInv'
  <2>1. /\ at'[c] \notin {"filling", "renaming", "reading", "operation_done"}
        /\ at[c] \notin Chosen
        /\ at[c] \in Done => at'[c] \in Done
    BY <1>2 DEF ToolsInv, InvocationStep, Invoke, RefuseUnknown, AuditRequested, Ask, Decide, RecordDecision, InvocationCheck,
       Refuse, AuditFailedOperation, AuditOperation, AuditSucceeded, Catch, SinkRejects, Return, Fail, Goto,
       CallsTypeOK, Chosen, Done
  <2>2. QED
    BY <1>1, <1>2, <2>1, QuietKeepsFiles DEF fileVars
<1>3. ASSUME NEW c \in FileCalls, FileCallStep(c) PROVE FilesInv'
  BY <1>1, <1>3, FileCallKeepsFiles, FileFamilies
<1>4. ASSUME NEW c \in WebCalls, WebCallStep(c), UNCHANGED fileVars PROVE FilesInv'
  <2>1. at[c] \notin Chosen \cup Done
    BY <1>4, FileFamilies DEF ToolsInv, WebCallStep, RefuseRequest, AskForRequest, Ask, Decide, RecordDecision, RequestCheck,
       Send, Respond, Fail, Goto, CallsTypeOK, Chosen, Done
  <2>2. QED
    BY <1>1, <1>4, <2>1, QuietKeepsFiles, FileFamilies DEF fileVars
<1>5. CASE UNCHANGED toolsVars
  <2>1. \A c \in Calls : \A o : OnRecord(c, o)' <=> OnRecord(c, o)
    BY <1>5 DEF toolsVars, callVars, OnRecord, Recorded, Records
  <2>2. Crowded' <=> Crowded
    BY <1>5 DEF toolsVars, fileVars, Crowded
  <2>3. WholeInv => WholeInv'
    BY <1>5, <2>1, FileFamilies DEF toolsVars, callVars, fileVars, diskVars, readVars, WholeInv, HoldsTemp
  <2>4. DiskInv' /\ \A c \in Calls : OperationInv(c)'
    BY <1>5, <2>1 DEF toolsVars, callVars, fileVars, diskVars, readVars, FilesInv, DiskInv, OperationInv
  <2>5. QED
    BY <2>2, <2>3, <2>4 DEF FilesInv
<1>6. CASE FileStep
  BY <1>3, <1>6 DEF FileStep, FileCallStep, FileCalls, Writes
<1>7. CASE WebStep /\ UNCHANGED fileVars
  BY <1>4, <1>7 DEF WebStep, WebCallStep
<1>8. QED
  BY <1>2, <1>5, <1>6, <1>7 DEF ToolsNext, AllOver, toolsVars

\* A record of success is one of a file that was put in place completely.
LEMMA RecordedOfFiles == RecordsInv /\ FilesInv => PublishedAsRecorded
<1> SUFFICES ASSUME RecordsInv, FilesInv, ~Crowded, NEW c \in Writes
             PROVE  /\ OnRecord(c, "succeeded") => c \in published /\ content[c] = "whole"
                    /\ result[c] = "ok" => OnRecord(c, "succeeded")
                    /\ c \in Overwrites \cap published => ~OnRecord(c, "failed") /\ ~OnRecord(c, "denied")
  BY DEF PublishedAsRecorded, OnRecord
<1>1. WholeInv /\ OperationInv(c) /\ RecordInv(c)
  BY FileFamilies DEF FilesInv, RecordsInv
<1>2. result[c] = "ok" => at[c] = "over"
  BY <1>1 DEF RecordInv
<1>3. QED
  BY <1>1, <1>2 DEF WholeInv, OperationInv

\* The file at the path is the original or a call's that was put there.
LEMMA WholeOfFiles == RecordsInv /\ FilesInv => FileIsWhole
<1> SUFFICES ASSUME RecordsInv, FilesInv, ~Crowded PROVE FileIsWhole
  BY DEF FileIsWhole
<1>1. WholeInv /\ DiskInv
  BY DEF FilesInv
<1>2. ASSUME live # NoFile, content[live] = "part" PROVE live \in Creates /\ result[live] # "ok"
  <2>1. live \in Writes /\ live \in published
    BY <1>1, <1>2 DEF DiskInv
  <2>2. live \notin Overwrites
    BY <1>1, <1>2, <2>1 DEF WholeInv
  <2>3. result[live] # "ok"
    BY <1>2, <2>1, RecordedOfFiles DEF PublishedAsRecorded
  <2>4. QED
    BY <2>1, <2>2, <2>3, FileFamilies
<1>3. QED
  BY <1>1, <1>2 DEF FileIsWhole, WholeInv

\* The invariant of the files, in every state.
LEMMA FilesInvariant == ToolsSpec => [](RecordsInv /\ FilesInv)
<1>1. ToolsInit => ToolsInv /\ RecordsInv /\ FilesInv
  BY InitialTools, InitialRecords, InitialFiles
<1>2. ToolsInv /\ RecordsInv /\ FilesInv /\ [ToolsNext]_toolsVars => (ToolsInv /\ RecordsInv /\ FilesInv)'
  BY StepKeepsTools, StepKeepsRecords, StepKeepsFiles
<1>3. QED
  BY <1>1, <1>2, PTL DEF ToolsSpec

\* write_file leaves, when it creates a file and when it replaces one, a record
\* that tells what became of the file: a success only of a text that was at the
\* path completely, and a failure or a denial of an overwrite only when it left
\* the file alone; for any calls at once and any failures, while no three
\* overwrites share the temporary file that overwriteFile names by the clock.
THEOREM RecordsTellOfFiles == ToolsSpec => []PublishedAsRecorded
BY FilesInvariant, RecordedOfFiles, PTL

\* overwriteFile never leaves a part of a text at the path, nor does read_file
\* return one, whatever fails and in whatever order: two overwrites that share a
\* temporary file cannot both be writing it, as it is opened with the flag wx,
\* and one that has been removed by another's clean-up is not renamed.
THEOREM FilesAreWhole == ToolsSpec => []FileIsWhole
BY FilesInvariant, WholeOfFiles, PTL
=============================================================================

------------------------- MODULE SessionStoreProofs -------------------------
(***************************************************************************)
(* For any operations, sessions, callers and crashes: what the store       *)
(* reports of a session with one caller is so, a list has what was         *)
(* acknowledged before it but for files it could not read, the session is  *)
(* an atomic record, and whoever writes, the timestamps of a document are  *)
(* those of its updates.                                                   *)
(*                                                                         *)
(* None of this is inductive as it stands.  StampInv says of every         *)
(* document in memory or in a file what TimestampsMatchEdits says of those *)
(* that can be read.  SerialInv follows the one writer of a session from   *)
(* await to await: it owns the temporary file, which is not the live one   *)
(* (FileInv), its document is the live one and its own update, and what    *)
(* the live document contains is what was acknowledged.                    *)
(***************************************************************************)
EXTENDS SessionStore, FiniteSetTheorems, TLAPS

Busy    == {"authorizing", "opening", "writing", "renaming"}
Places  == {"idle", "loading", "listing", "collecting", "over"} \cup Busy
Reports == {"none", "ok", "not_found", "invalid", "denied", "write_failed", "lost"}

\* What the variables can be.
StoreTypeOK ==
  /\ at \in [Ops -> Places] /\ \A l \in Lists : at[l] \notin Busy
  /\ result \in [Ops -> Reports]
  /\ next \in [Writers -> Documents]
  /\ handle \in [Writers -> Writers \cup {NoFile}]
  /\ content \in [Writers -> SUBSET (Documents \cup {Scrap})]
  /\ tmp \in [Sessions -> Writers \cup {NoFile}]
  /\ live \in [Sessions -> Writers \cup {NoFile}]
  /\ todo \in [Lists -> SUBSET Sessions]
  /\ got \in [Lists -> SUBSET [of : Sessions, doc : Documents]]
  /\ unread \in [Lists -> SUBSET Sessions]
  /\ before \in [Lists -> SUBSET Writers]
  /\ clock \in Nat
  /\ stamp \in [Writers -> Nat]

Active(o) == at[o] \notin {"idle", "over"}

\* An operation has a result when it is over, and a lane has one at a time.
LaneInv ==
  /\ \A o \in Ops : at[o] # "over" => result[o] = "none"
  /\ \A o, p \in Ops : Active(o) /\ Active(p) /\ laneOf[o] = laneOf[p] => o = p

\* v is the latest time stamp of the operations of S, 0 if there is none.
IsLatest(S, v) ==
  /\ v = 0 \/ \E o \in S : stamp[o] = v
  /\ \A o \in S : stamp[o] <= v

Dated(d) ==
  /\ \A o \in d.edits : stamp[o] # 0
  /\ IsLatest(d.edits, d.updatedAt)
  /\ IsLatest(d.edits \cap Touches, d.touchedAt)

\* Any document there is has the time stamps of its updates.
StampInv ==
  /\ \A o \in Writers : stamp[o] <= clock
  /\ \A o \in Writers : at[o] \in {"idle", "loading"} => stamp[o] = 0
  /\ \A o \in Writers : Dated(next[o])
  /\ \A i \in Writers : \A d \in content[i] \ {Scrap} : Dated(d)

Used(i) == at[i] \in {"writing", "renaming", "over"}

\* A file belongs to one session and is not the temporary and the live one at
\* the same time; it is open while its writer writes.
FileInv ==
  /\ \A s \in Sessions :
       /\ tmp[s] # NoFile => SessionOf[tmp[s]] = s /\ Used(tmp[s]) /\ tmp[s] # live[s]
       /\ live[s] # NoFile => SessionOf[live[s]] = s /\ Used(live[s])
  /\ \A o \in Writers :
       /\ handle[o] # NoFile <=> at[o] = "writing"
       /\ handle[o] # NoFile => SessionOf[handle[o]] = SessionOf[o] /\ Used(handle[o])

Edits(s) == IF live[s] = NoFile THEN {} ELSE DocumentIn(live[s]).edits

\* How far the one writer of a session has got.
WriterInv(s, o) ==
  /\ Acked(o) <=> o \in Edits(s)
  /\ at[o] \in Busy => next[o].edits = Edits(s) \cup {o}
  /\ at[o] \in Busy /\ o \in Updates => live[s] # NoFile
  /\ at[o] = "writing" => handle[o] = tmp[s] /\ content[tmp[s]] = {}
  /\ at[o] = "renaming" => tmp[s] # NoFile /\ content[tmp[s]] = {next[o]}

\* What is stored is a document, made by a creation and its updates.
StoredInv(s) ==
  /\ live[s] # NoFile => Whole(live[s]) /\ \E c \in Creates : SessionOf[c] = s /\ c \in Edits(s)
  /\ \A o \in Edits(s) : o \in Writers /\ SessionOf[o] = s

SerialInv(s) ==
  /\ StoredInv(s)
  /\ \A o \in Writers : SessionOf[o] = s => WriterInv(s, o)

\* What a list still has to find of what it must return.
ListInv ==
  \A l \in Lists :
    /\ \A p \in before[l] : Acked(p)
    /\ at[l] = "collecting" \/ Acked(l) =>
         \A p \in before[l] : Serial(SessionOf[p]) =>
           \/ SessionOf[p] \in todo[l] \cup unread[l]
           \/ \E g \in got[l] : g.of = SessionOf[p] /\ p \in g.doc.edits
    /\ Acked(l) => todo[l] = {}

StoreInv ==
  /\ StoreTypeOK
  /\ LaneInv
  /\ StampInv
  /\ FileInv
  /\ \A s \in Sessions : Serial(s) => SerialInv(s)
  /\ ListInv
-----------------------------------------------------------------------------
(* Documents and files *)

\* A whole file is a document, whatever else the variables are.
LEMMA WholeIsADocument ==
  ASSUME NEW C \in SUBSET (Documents \cup {Scrap}), Cardinality(C) = 1, Scrap \notin C
  PROVE  (CHOOSE d \in C : TRUE) \in C /\ (CHOOSE d \in C : TRUE) \in Documents
<1>1. C # {}  BY FS_EmptySet
<1>2. (CHOOSE d \in C : TRUE) \in C  BY <1>1
<1> QED  BY <1>2

\* And a document alone in a file is the one found there.
LEMMA DocumentIsWhole ==
  ASSUME NEW d \in Documents
  PROVE  Cardinality({d}) = 1 /\ Scrap \notin {d} /\ (CHOOSE e \in {d} : TRUE) = d
BY FS_Singleton, SessionStoreAssumption DEF SessionStoreAssumption

\* What an operation loads.
LEMMA LoadedIsADocument ==
  ASSUME StoreTypeOK, NEW s \in Sessions, LoadError(s) = "none"
  PROVE  /\ live[s] \in Writers /\ Whole(live[s])
         /\ DocumentIn(live[s]) \in content[live[s]] \ {Scrap}
         /\ DocumentIn(live[s]) \in Documents
<1>1. live[s] \in Writers /\ Whole(live[s])  BY DEF LoadError, StoreTypeOK
<1>2. content[live[s]] \in SUBSET (Documents \cup {Scrap})  BY <1>1 DEF StoreTypeOK
<1> QED  BY <1>1, <1>2, WholeIsADocument DEF Whole, DocumentIn

\* The operations and the sessions they are about.
LEMMA Kinds ==
  /\ Creates \subseteq Writers /\ Updates \subseteq Writers /\ Touches \subseteq Updates
  /\ Writers \subseteq Ops /\ Lists \subseteq Ops
  /\ Creates \cap Updates = {} /\ Writers \cap Lists = {} /\ NoFile \notin Writers
  /\ \A o \in Writers : SessionOf[o] \in Sessions
  /\ \A c, d \in Creates : SessionOf[c] = SessionOf[d] => c = d
BY SessionStoreAssumption DEF SessionStoreAssumption, Writers, Updates, Ops
-----------------------------------------------------------------------------
(* Types *)

LEMMA TypeInit == SessionInit => StoreTypeOK
BY Kinds DEF SessionInit, StoreTypeOK, NoDocument, Documents, Places, Reports, Busy

LEMMA TypeStep == StoreTypeOK /\ FileInv /\ [SessionNext]_sessionVars => StoreTypeOK'
<1> SUFFICES ASSUME StoreTypeOK, FileInv, [SessionNext]_sessionVars PROVE StoreTypeOK'
  OBVIOUS
<1> USE Kinds DEF StoreTypeOK, Places, Reports, Busy, fileVars, listVars, histVars,
             Goto, Return, Stamp
<1>1. ASSUME NEW o \in Creates, CallCreate(o) PROVE StoreTypeOK'
  <2>1. [edits |-> {o}, touchedAt |-> 0, updatedAt |-> clock + 1] \in Documents
    BY DEF Documents
  <2> QED  BY <1>1, <2>1 DEF CallCreate
<1>2. ASSUME NEW o \in Updates \cup Lists, CallUpdate(o) \/ CallList(o) PROVE StoreTypeOK'
  BY <1>2 DEF CallUpdate, CallList
<1>3. ASSUME NEW o \in Updates, FailLoad(o) PROVE StoreTypeOK'
  BY <1>3 DEF FailLoad, LoadError
<1>4. ASSUME NEW o \in Updates, LoadForUpdate(o) PROVE StoreTypeOK'
  <2> DEFINE d == DocumentIn(live[SessionOf[o]])
  <2> DEFINE new == [edits |-> d.edits \cup {o},
                     touchedAt |-> IF o \in Touches THEN clock + 1 ELSE d.touchedAt,
                     updatedAt |-> clock + 1]
  <2>1. d \in Documents  BY <1>4, LoadedIsADocument DEF LoadForUpdate
  <2>2. new \in Documents  BY <2>1 DEF Documents
  <2>3. next' = [next EXCEPT ![o] = new]  BY <1>4 DEF LoadForUpdate
  <2>4. next' \in [Writers -> Documents]  BY <2>2, <2>3
  <2> QED  BY <1>4, <2>4 DEF LoadForUpdate
<1>5. ASSUME NEW o \in Lists, ReadDirectory(o) PROVE StoreTypeOK'
  BY <1>5 DEF ReadDirectory
<1>6. ASSUME NEW o \in Lists, Collect(o) PROVE StoreTypeOK'
  <2>1. PICK s \in todo[o] : todo' = [todo EXCEPT ![o] = @ \ {s}] /\ LoadListed(o, s)
    BY <1>6 DEF Collect
  <2>2. s \in Sessions  BY <2>1
  <2>3. LoadError(s) = "none" => [of |-> s, doc |-> DocumentIn(live[s])] \in [of : Sessions, doc : Documents]
    BY <2>2, LoadedIsADocument
  <2>4. todo' \in [Lists -> SUBSET Sessions] /\ unread' \in [Lists -> SUBSET Sessions]
    BY <2>1, <2>2 DEF LoadListed
  <2>5. got' \in [Lists -> SUBSET [of : Sessions, doc : Documents]]
    BY <2>1, <2>3 DEF LoadListed
  <2> QED  BY <1>6, <2>4, <2>5 DEF Collect
<1>7. ASSUME NEW o \in Lists, ReturnList(o) PROVE StoreTypeOK'
  BY <1>7 DEF ReturnList
<1>8. ASSUME NEW o \in Writers, Authorize(o) PROVE StoreTypeOK'
  BY <1>8 DEF Authorize
<1>9. ASSUME NEW o \in Writers, OpenTemp(o) PROVE StoreTypeOK'
  BY <1>9 DEF OpenTemp
<1>10. ASSUME NEW o \in Writers, WriteTemp(o) PROVE StoreTypeOK'
  <2>1. handle[o] \in Writers  BY <1>10 DEF WriteTemp, FileInv
  <2>2. content' \in [Writers -> SUBSET (Documents \cup {Scrap})]  BY <1>10, <2>1 DEF WriteTemp
  <2> QED  BY <1>10, <2>2 DEF WriteTemp
<1>11. ASSUME NEW o \in Writers, Rename(o) PROVE StoreTypeOK'
  BY <1>11 DEF Rename
<1>12. ASSUME NEW o \in Writers, FailWrite(o) PROVE StoreTypeOK'
  <2>1. content' \in [Writers -> SUBSET (Documents \cup {Scrap})]
    BY <1>12 DEF FailWrite, Unfinished
  <2>2. /\ at' = [at EXCEPT ![o] = "over"] /\ result' = [result EXCEPT ![o] = "write_failed"]
        /\ handle' = [handle EXCEPT ![o] = NoFile]
        /\ UNCHANGED <<next, tmp, live, listVars, histVars, before>>
    BY <1>12 DEF FailWrite, Return, Goto
  <2>3. at' \in [Ops -> Places] /\ \A l \in Lists : at'[l] \notin Busy  BY <2>2
  <2>4. result' \in [Ops -> Reports]  BY <2>2
  <2>5. handle' \in [Writers -> Writers \cup {NoFile}]  BY <2>2
  <2> QED  BY <2>1, <2>2, <2>3, <2>4, <2>5
<1>13. ASSUME Crash PROVE StoreTypeOK'
  <2>1. content' \in [Writers -> SUBSET (Documents \cup {Scrap})]  BY <1>13 DEF Crash
  <2> QED  BY <1>13, <2>1 DEF Crash
<1>14. CASE UNCHANGED sessionVars
  BY <1>14 DEF sessionVars
<1> QED
  BY <1>1, <1>2, <1>3, <1>4, <1>5, <1>6, <1>7, <1>8, <1>9, <1>10, <1>11, <1>12, <1>13, <1>14
     DEF SessionNext, AllOver
-----------------------------------------------------------------------------
(* Lanes *)

LEMMA LaneInit == SessionInit => LaneInv
BY DEF SessionInit, LaneInv, Active

\* A call is made when no other operation of the lane is under way, and what is
\* under way goes on alone.
LEMMA LaneStep == StoreTypeOK /\ LaneInv /\ [SessionNext]_sessionVars => LaneInv'
<1> SUFFICES ASSUME StoreTypeOK, LaneInv, [SessionNext]_sessionVars PROVE LaneInv'
  OBVIOUS
<1> USE Kinds DEF StoreTypeOK, Goto, Return, Active
\* One operation moves.
<1>1. ASSUME NEW o \in Ops, laneOf' = laneOf,
             LaneIsFree(o) \/ Active(o),
             \A p \in Ops \ {o} : at'[p] = at[p] /\ result'[p] = result[p],
             at'[o] # "over" => result'[o] = "none"
      PROVE  LaneInv'
  <2>1. \A p \in Ops : Active(p) /\ laneOf[p] = laneOf[o] => p = o
    BY <1>1 DEF LaneInv, LaneIsFree
  <2> QED  BY <1>1, <2>1 DEF LaneInv
<1>2. ASSUME NEW o \in Creates, CallCreate(o) PROVE LaneInv'
  BY <1>1, <1>2 DEF CallCreate, LaneInv
<1>3. ASSUME NEW o \in Updates \cup Lists, CallUpdate(o) \/ CallList(o) PROVE LaneInv'
  BY <1>1, <1>3 DEF CallUpdate, CallList, LaneInv
<1>4. ASSUME NEW o \in Updates, FailLoad(o) \/ LoadForUpdate(o) PROVE LaneInv'
  BY <1>1, <1>4 DEF FailLoad, LoadForUpdate, LaneInv
<1>5. ASSUME NEW o \in Lists, ReadDirectory(o) \/ Collect(o) \/ ReturnList(o) PROVE LaneInv'
  BY <1>1, <1>5 DEF ReadDirectory, Collect, ReturnList, LaneInv
<1>6. ASSUME NEW o \in Writers,
             Authorize(o) \/ OpenTemp(o) \/ WriteTemp(o) \/ Rename(o) \/ FailWrite(o)
      PROVE  LaneInv'
  BY <1>1, <1>6 DEF Authorize, OpenTemp, WriteTemp, Rename, FailWrite, LaneInv
<1>7. ASSUME Crash PROVE LaneInv'
  BY <1>7 DEF Crash, LaneInv
<1>8. CASE UNCHANGED sessionVars
  BY <1>8 DEF sessionVars, LaneInv
<1> QED
  BY <1>2, <1>3, <1>4, <1>5, <1>6, <1>7, <1>8 DEF SessionNext, AllOver
-----------------------------------------------------------------------------
(* Time stamps *)

LEMMA StampInit == SessionInit => StampInv
<1> SUFFICES ASSUME SessionInit PROVE StampInv
  OBVIOUS
<1> QED  BY DEF SessionInit, StampInv, Dated, IsLatest, NoDocument

\* Nobody's documents are those of a writer that has not read the clock.
LEMMA DatedStays ==
  ASSUME StoreTypeOK, NEW o \in Writers, stamp[o] = 0,
         \A p \in Writers \ {o} : stamp'[p] = stamp[p],
         NEW d \in Documents, Dated(d)
  PROVE  Dated(d)' /\ o \notin d.edits
<1>1. d.edits \subseteq Writers  BY DEF Documents
<1>2. o \notin d.edits  BY DEF Dated
<1>3. \A p \in d.edits : stamp'[p] = stamp[p]  BY <1>1, <1>2
<1> QED  BY <1>2, <1>3 DEF Dated, IsLatest

LEMMA StampStep == StoreTypeOK /\ FileInv /\ StampInv /\ [SessionNext]_sessionVars => StampInv'
<1> SUFFICES ASSUME StoreTypeOK, FileInv, StampInv, [SessionNext]_sessionVars PROVE StampInv'
  OBVIOUS
<1> USE Kinds
\* The clock is not read and files are not written, except with the document
\* of a writer.
<1>1. ASSUME UNCHANGED <<next, clock, stamp>>,
             \A o \in Writers : at'[o] \in {"idle", "loading"} => at[o] \in {"idle", "loading"},
             \A i \in Writers : \A d \in content'[i] \ {Scrap} :
               d \in content[i] \/ \E o \in Writers : d = next[o]
      PROVE  StampInv'
  <2>1. \A d : Dated(d) => Dated(d)'  BY <1>1 DEF Dated, IsLatest
  <2>2. \A i \in Writers : \A d \in content'[i] \ {Scrap} : Dated(d)'
    <3> SUFFICES ASSUME NEW i \in Writers, NEW d \in content'[i] \ {Scrap} PROVE Dated(d)'
      OBVIOUS
    <3>1. Dated(d)  BY <1>1 DEF StampInv
    <3> QED  BY <2>1, <3>1
  <2>3. \A o \in Writers : Dated(next[o])'
    BY <1>1, <2>1 DEF StampInv
  <2> QED  BY <1>1, <2>2, <2>3 DEF StampInv
\* A writer reads the clock for the first time.
<1>2. ASSUME NEW o \in Writers, NEW doc \in Documents, at[o] \in {"idle", "loading"},
             Goto(o, at[o], "authorizing"), Stamp(o, doc), content' = content, Dated(doc)'
      PROVE  StampInv'
  <2>1. stamp[o] = 0 /\ stamp'[o] = clock + 1 /\ clock' = clock + 1 /\ next'[o] = doc
    BY <1>2 DEF Stamp, StampInv, StoreTypeOK
  <2>2. \A p \in Writers \ {o} : stamp'[p] = stamp[p] /\ next'[p] = next[p] /\ at'[p] = at[p]
    BY <1>2 DEF Stamp, Goto, StoreTypeOK
  <2>3. \A p \in Writers : stamp'[p] <= clock'
    BY <2>1, <2>2 DEF StampInv, StoreTypeOK
  <2>4. \A p \in Writers : at'[p] \in {"idle", "loading"} => stamp'[p] = 0
    BY <1>2, <2>2 DEF StampInv, Goto, StoreTypeOK
  <2>5. \A p \in Writers : Dated(next[p])'
    <3> SUFFICES ASSUME NEW p \in Writers PROVE Dated(next[p])'
      OBVIOUS
    <3>1. CASE p = o
      BY <1>2, <2>1, <3>1 DEF Dated, IsLatest
    <3>2. CASE p # o
      <4> DEFINE d == next[p]
      <4>1. d \in Documents /\ Dated(d) /\ next'[p] = d
        BY <2>2, <3>2 DEF StampInv, StoreTypeOK
      <4>2. PICK e \in Documents : Dated(e) /\ next'[p] = e  BY <4>1
      <4>3. Dated(e)'  BY <2>1, <2>2, <4>2, DatedStays
      <4> QED  BY <4>2, <4>3 DEF Dated, IsLatest
    <3> QED  BY <3>1, <3>2
  <2>6. \A i \in Writers : \A d \in content'[i] \ {Scrap} : Dated(d)'
    <3> SUFFICES ASSUME NEW i \in Writers, NEW d \in content'[i] \ {Scrap} PROVE Dated(d)'
      OBVIOUS
    <3>1. d \in Documents /\ Dated(d)
      BY <1>2 DEF StampInv, StoreTypeOK
    <3> QED  BY <2>1, <2>2, <3>1, DatedStays
  <2> QED  BY <2>3, <2>4, <2>5, <2>6 DEF StampInv
<1>3. ASSUME NEW o \in Creates, CallCreate(o) PROVE StampInv'
  <2> DEFINE doc == [edits |-> {o}, touchedAt |-> 0, updatedAt |-> clock + 1]
  <2>1. Stamp(o, doc)  BY <1>3 DEF CallCreate
  <2>2. doc \in Documents /\ doc.edits = {o} /\ doc.touchedAt = 0 /\ doc.updatedAt = clock + 1
    BY DEF Documents, StoreTypeOK
  <2> HIDE DEF doc
  <2>3. PICK e \in Documents : /\ Stamp(o, e)
                               /\ e.edits = {o} /\ e.touchedAt = 0 /\ e.updatedAt = clock + 1
    BY <2>1, <2>2
  <2>4. e.edits \cap Touches = {}  BY <2>3
  <2>5. stamp'[o] = clock + 1 /\ clock \in Nat  BY <2>3 DEF Stamp, StoreTypeOK
  <2>6. Dated(e)'  BY <2>3, <2>4, <2>5 DEF Dated, IsLatest
  <2> QED  BY <1>2, <1>3, <2>3, <2>6 DEF CallCreate, Goto, fileVars
<1>4. ASSUME NEW o \in Updates, LoadForUpdate(o) PROVE StampInv'
  <2>1. PICK d \in Documents : d = DocumentIn(live[SessionOf[o]]) /\ Dated(d)
    BY <1>4, LoadedIsADocument DEF LoadForUpdate, StampInv
  <2>2. PICK e \in Documents :
          /\ Stamp(o, e)
          /\ e.edits = d.edits \cup {o}
          /\ e.touchedAt = IF o \in Touches THEN clock + 1 ELSE d.touchedAt
          /\ e.updatedAt = clock + 1
    BY <1>4, <2>1 DEF LoadForUpdate, Documents, StoreTypeOK
  <2>3. stamp[o] = 0 /\ stamp'[o] = clock + 1 /\ clock \in Nat
    BY <1>4, <2>2 DEF LoadForUpdate, Stamp, Goto, StampInv, StoreTypeOK
  <2>4. \A p \in Writers \ {o} : stamp'[p] = stamp[p]
    BY <2>2 DEF Stamp, StoreTypeOK
  <2>5. d.edits \subseteq Writers /\ o \notin d.edits /\ Dated(d)'
    BY <2>1, <2>3, <2>4, DatedStays DEF Documents
  <2>6. \A p \in d.edits : stamp'[p] \in Nat /\ stamp'[p] <= clock
    BY <2>4, <2>5 DEF StampInv, StoreTypeOK
  <2>7. IsLatest(e.edits, e.updatedAt)' /\ \A p \in e.edits : stamp'[p] # 0
    BY <2>2, <2>3, <2>5, <2>6 DEF IsLatest, Dated
  <2>8. IsLatest(e.edits \cap Touches, e.touchedAt)'
    <3>1. CASE o \in Touches
      BY <2>2, <2>3, <2>6, <3>1 DEF IsLatest
    <3>2. CASE o \notin Touches
      <4>1. e.edits \cap Touches = d.edits \cap Touches  BY <2>2, <3>2
      <4> QED  BY <2>2, <2>5, <3>2, <4>1 DEF IsLatest, Dated
    <3> QED  BY <3>1, <3>2
  <2>9. Dated(e)'  BY <2>7, <2>8 DEF Dated
  <2> QED  BY <1>2, <1>4, <2>2, <2>9 DEF LoadForUpdate, Goto, fileVars
<1> USE DEF fileVars, listVars, histVars, Goto, Return, StoreTypeOK
<1>5. ASSUME NEW o \in Updates \cup Lists, CallUpdate(o) \/ CallList(o) PROVE StampInv'
  BY <1>1, <1>5 DEF CallUpdate, CallList
<1>6. ASSUME NEW o \in Updates, FailLoad(o) PROVE StampInv'
  BY <1>1, <1>6 DEF FailLoad
<1>7. ASSUME NEW o \in Lists, ReadDirectory(o) \/ Collect(o) \/ ReturnList(o) PROVE StampInv'
  BY <1>1, <1>7 DEF ReadDirectory, Collect, ReturnList
<1>8. ASSUME NEW o \in Writers, Authorize(o) \/ OpenTemp(o) \/ Rename(o) PROVE StampInv'
  BY <1>1, <1>8 DEF Authorize, OpenTemp, Rename
<1>9. ASSUME NEW o \in Writers, WriteTemp(o) PROVE StampInv'
  <2>1. \A i \in Writers : \A d \in content'[i] \ {Scrap} :
          d \in content[i] \/ \E p \in Writers : d = next[p]
    BY <1>9 DEF WriteTemp
  <2> QED  BY <1>1, <1>9, <2>1 DEF WriteTemp
<1>10. ASSUME NEW o \in Writers, FailWrite(o) PROVE StampInv'
  <2>1. \A i \in Writers : \A d \in content'[i] \ {Scrap} : d \in content[i]
    BY <1>10 DEF FailWrite, Unfinished
  <2> QED  BY <1>1, <1>10, <2>1 DEF FailWrite
<1>11. ASSUME Crash PROVE StampInv'
  <2>1. \A i \in Writers : \A d \in content'[i] \ {Scrap} : d \in content[i]
    BY <1>11 DEF Crash
  <2> QED  BY <1>1, <1>11, <2>1 DEF Crash
<1>12. CASE UNCHANGED sessionVars
  BY <1>1, <1>12 DEF sessionVars
<1> QED
  BY <1>3, <1>4, <1>5, <1>6, <1>7, <1>8, <1>9, <1>10, <1>11, <1>12 DEF SessionNext, AllOver
-----------------------------------------------------------------------------
(* Files *)

LEMMA FileInit == SessionInit => FileInv
BY Kinds DEF SessionInit, FileInv

LEMMA FileStep == StoreTypeOK /\ FileInv /\ [SessionNext]_sessionVars => FileInv'
<1> SUFFICES ASSUME StoreTypeOK, FileInv, [SessionNext]_sessionVars PROVE FileInv'
  OBVIOUS
<1> USE Kinds DEF StoreTypeOK, Used
\* Nobody opens or closes a file or moves one.
<1>1. ASSUME UNCHANGED <<handle, tmp, live>>,
             \A o \in Writers : at'[o] = "writing" <=> at[o] = "writing",
             \A i \in Writers : Used(i) => Used(i)'
      PROVE  FileInv'
  BY <1>1 DEF FileInv
<1> USE DEF fileVars, listVars, histVars, Goto, Return
<1>2. ASSUME NEW o \in Creates, CallCreate(o) PROVE FileInv'
  BY <1>1, <1>2 DEF CallCreate
<1>3. ASSUME NEW o \in Updates \cup Lists, CallUpdate(o) \/ CallList(o) PROVE FileInv'
  BY <1>1, <1>3 DEF CallUpdate, CallList
<1>4. ASSUME NEW o \in Updates, FailLoad(o) \/ LoadForUpdate(o) PROVE FileInv'
  BY <1>1, <1>4 DEF FailLoad, LoadForUpdate
<1>5. ASSUME NEW o \in Lists, ReadDirectory(o) \/ Collect(o) \/ ReturnList(o) PROVE FileInv'
  BY <1>1, <1>5 DEF ReadDirectory, Collect, ReturnList
<1>6. ASSUME NEW o \in Writers, Authorize(o) PROVE FileInv'
  BY <1>1, <1>6 DEF Authorize
<1>7. ASSUME NEW o \in Writers, OpenTemp(o) PROVE FileInv'
  <2> DEFINE s == SessionOf[o]
             i == IF tmp[s] = NoFile THEN o ELSE tmp[s]
  <2>1. i \in Writers /\ SessionOf[i] = s /\ i # live[s]
    BY <1>7 DEF OpenTemp, FileInv
  <2>2. \A w \in Writers : Used(w) \/ w = i => Used(w)'
    BY <1>7 DEF OpenTemp, FileInv
  <2>3. handle' = [handle EXCEPT ![o] = i] /\ tmp' = [tmp EXCEPT ![s] = i] /\ live' = live
    BY <1>7 DEF OpenTemp
  <2>4. at' = [at EXCEPT ![o] = "writing"]
    BY <1>7 DEF OpenTemp
  <2>5. s \in Sessions /\ s = SessionOf[o]  OBVIOUS
  <2> HIDE DEF s, i, Used
  <2>6. \A z \in Sessions :
          /\ (tmp[z] # NoFile => SessionOf[tmp[z]] = z /\ Used(tmp[z]) /\ tmp[z] # live[z])'
          /\ (live[z] # NoFile => SessionOf[live[z]] = z /\ Used(live[z]))'
    BY <2>1, <2>2, <2>3, <2>5 DEF FileInv
  <2>7. \A w \in Writers :
          /\ (handle[w] # NoFile <=> at[w] = "writing")'
          /\ (handle[w] # NoFile => SessionOf[handle[w]] = SessionOf[w] /\ Used(handle[w]))'
    BY <2>1, <2>2, <2>3, <2>4, <2>5 DEF FileInv
  <2> QED  BY <2>6, <2>7 DEF FileInv
<1>8. ASSUME NEW o \in Writers, WriteTemp(o) PROVE FileInv'
  <2>1. \A w \in Writers : Used(w) => Used(w)'  BY <1>8 DEF WriteTemp
  <2> HIDE DEF Used
  <2> QED  BY <1>8, <2>1 DEF WriteTemp, FileInv
<1>9. ASSUME NEW o \in Writers, Rename(o) PROVE FileInv'
  <2>1. \A w \in Writers : Used(w) => Used(w)'  BY <1>9 DEF Rename
  <2> HIDE DEF Used
  <2> QED  BY <1>9, <2>1 DEF Rename, FileInv
<1>10. ASSUME NEW o \in Writers, FailWrite(o) PROVE FileInv'
  <2>1. \A w \in Writers : Used(w) => Used(w)'  BY <1>10 DEF FailWrite
  <2> HIDE DEF Used
  <2> QED  BY <1>10, <2>1 DEF FailWrite, FileInv
<1>11. ASSUME Crash PROVE FileInv'
  <2>1. \A w \in Writers : (Used(w) => Used(w)') /\ at'[w] # "writing" /\ handle'[w] = NoFile
    BY <1>11 DEF Crash
  <2>2. UNCHANGED <<tmp, live>>  BY <1>11 DEF Crash
  <2> HIDE DEF Used
  <2> QED  BY <2>1, <2>2 DEF FileInv
<1>12. CASE UNCHANGED sessionVars
  BY <1>1, <1>12 DEF sessionVars
<1> QED
  BY <1>2, <1>3, <1>4, <1>5, <1>6, <1>7, <1>8, <1>9, <1>10, <1>11, <1>12 DEF SessionNext, AllOver
-----------------------------------------------------------------------------
(* Sessions with one caller *)

LEMMA SerialInit == SessionInit => \A s \in Sessions : SerialInv(s)
BY Kinds DEF SessionInit, SerialInv, StoredInv, WriterInv, Acked, Edits, Busy

\* A session whose file stays, with what is in it, stays what it is.
LEMMA SameFile ==
  ASSUME NEW s \in Sessions, live'[s] = live[s],
         live[s] # NoFile => content'[live[s]] = content[live[s]]
  PROVE  /\ Edits(s)' = Edits(s)
         /\ live[s] # NoFile => (Whole(live[s])' <=> Whole(live[s]))
<1>1. Edits(s)' = Edits(s)
  <2>1. CASE live[s] = NoFile  BY <2>1 DEF Edits
  <2>2. CASE live[s] # NoFile
    <3>1. content'[live'[s]] = content[live[s]]  BY <2>2
    <3>2. DocumentIn(live[s])' = DocumentIn(live[s])  BY <3>1, Zenon DEF DocumentIn
    <3> QED  BY <2>2, <3>2 DEF Edits
  <2> QED  BY <2>1, <2>2
<1>2. live[s] # NoFile => (Whole(live[s])' <=> Whole(live[s]))
  BY DEF Whole
<1> QED  BY <1>1, <1>2

\* A writer that is not under way only has to find its update, or not.
LEMMA RestingWriter ==
  ASSUME NEW s \in Sessions, NEW o \in Writers, WriterInv(s, o),
         at'[o] \notin Busy, result'[o] = result[o],
         o \in Edits(s)' <=> o \in Edits(s)
  PROVE  WriterInv(s, o)'
BY DEF WriterInv, Acked, Busy

\* A writer that does not move, of a session whose files stay.
LEMMA UndisturbedWriter ==
  ASSUME NEW s \in Sessions, NEW o \in Writers, WriterInv(s, o),
         at'[o] = at[o], result'[o] = result[o], next'[o] = next[o], handle'[o] = handle[o],
         Edits(s)' = Edits(s), live'[s] = live[s], tmp'[s] = tmp[s],
         tmp[s] # NoFile => content'[tmp[s]] = content[tmp[s]],
         at[o] = "writing" => tmp[s] # NoFile
  PROVE  WriterInv(s, o)'
BY DEF WriterInv, Acked, Busy

\* What a step of the writer o owes to the session it writes.
Settles(o) ==
  LET s == SessionOf[o] IN
  /\ StoredInv(s)'
  /\ WriterInv(s, o)'
  /\ \A p \in Writers \ {o} : p \in Edits(s)' <=> p \in Edits(s)

\* If the session's file stays, it is enough to follow the writer.
LEMMA FileSettles ==
  ASSUME NEW o \in Writers, NEW s \in Sessions, s = SessionOf[o], SerialInv(s),
         live'[s] = live[s], live[s] # NoFile => content'[live[s]] = content[live[s]],
         WriterInv(s, o)'
  PROVE  Settles(o)
<1>1. Edits(s)' = Edits(s) /\ (live[s] # NoFile => (Whole(live[s])' <=> Whole(live[s])))
  BY SameFile
<1>2. StoredInv(s)'  BY <1>1 DEF SerialInv, StoredInv
<1> QED  BY <1>1, <1>2 DEF Settles

LEMMA SerialStep ==
  StoreInv /\ [SessionNext]_sessionVars => \A s \in Sessions : Serial(s)' => SerialInv(s)'
<1> SUFFICES ASSUME StoreInv, [SessionNext]_sessionVars
             PROVE  \A s \in Sessions : Serial(s)' => SerialInv(s)'
  OBVIOUS
<1> USE Kinds DEF StoreInv
\* Only what one writer has of the session it writes changes.
<1>1. ASSUME NEW o \in Writers, laneOf' = laneOf, LaneIsFree(o) \/ Active(o),
             \A p \in Writers \ {o} : /\ at'[p] = at[p] /\ result'[p] = result[p]
                                      /\ next'[p] = next[p] /\ handle'[p] = handle[p],
             \A s \in Sessions \ {SessionOf[o]} : tmp'[s] = tmp[s] /\ live'[s] = live[s],
             \A i \in Writers : SessionOf[i] # SessionOf[o] => content'[i] = content[i],
             Serial(SessionOf[o]) => Settles(o)
      PROVE  \A s \in Sessions : Serial(s)' => SerialInv(s)'
  <2> SUFFICES ASSUME NEW s \in Sessions, Serial(s)' PROVE SerialInv(s)'
    OBVIOUS
  <2>1. Serial(s)  BY <1>1 DEF Serial
  <2>2. SerialInv(s)  BY <2>1
  <2>3. CASE s = SessionOf[o]
    <3>1. Settles(o)  BY <1>1, <2>1, <2>3
    <3>2. ASSUME NEW p \in Writers \ {o}, SessionOf[p] = s PROVE WriterInv(s, p)'
      <4>1. laneOf[p] = laneOf[o]  BY <2>1, <2>3, <3>2 DEF Serial
      <4>2. ~Active(p)  BY <1>1, <4>1 DEF LaneIsFree, LaneInv, Active
      <4>3. at'[p] \notin Busy  BY <1>1, <4>2 DEF Active, Busy
      <4>4. p \in Edits(s)' <=> p \in Edits(s)  BY <2>3, <3>1 DEF Settles
      <4> QED  BY <1>1, <2>2, <3>2, <4>3, <4>4, RestingWriter DEF SerialInv
    <3> QED  BY <2>3, <3>1, <3>2 DEF Settles, SerialInv
  <2>4. CASE s # SessionOf[o]
    <3>1. tmp'[s] = tmp[s] /\ live'[s] = live[s]  BY <1>1, <2>4
    <3>2. /\ tmp[s] # NoFile => content'[tmp[s]] = content[tmp[s]]
          /\ live[s] # NoFile => content'[live[s]] = content[live[s]]
      BY <1>1, <2>4 DEF FileInv, StoreTypeOK
    <3>3. Edits(s)' = Edits(s) /\ (live[s] # NoFile => (Whole(live[s])' <=> Whole(live[s])))
      BY <3>1, <3>2, SameFile
    <3>4. StoredInv(s)'  BY <2>2, <3>1, <3>3 DEF SerialInv, StoredInv
    <3>5. ASSUME NEW p \in Writers, SessionOf[p] = s PROVE WriterInv(s, p)'
      <4>1. WriterInv(s, p)  BY <2>2, <3>5 DEF SerialInv
      <4>2. at[p] = "writing" => tmp[s] # NoFile  BY <4>1, <3>5 DEF FileInv, WriterInv
      <4> QED  BY <1>1, <2>4, <3>1, <3>2, <3>3, <3>5, <4>1, <4>2, UndisturbedWriter
    <3> QED  BY <3>4, <3>5 DEF SerialInv
  <2> QED  BY <2>3, <2>4
\* Lists only read.
<1>2. ASSUME UNCHANGED <<next, fileVars, laneOf>>,
             \A p \in Writers : at'[p] = at[p] /\ result'[p] = result[p]
      PROVE  \A s \in Sessions : Serial(s)' => SerialInv(s)'
  <2> SUFFICES ASSUME NEW s \in Sessions, Serial(s)' PROVE SerialInv(s)'
    OBVIOUS
  <2>1. SerialInv(s)  BY <1>2 DEF Serial
  <2>2. Edits(s)' = Edits(s) /\ (live[s] # NoFile => (Whole(live[s])' <=> Whole(live[s])))
    BY <1>2, SameFile DEF fileVars
  <2>3. StoredInv(s)'  BY <1>2, <2>1, <2>2 DEF SerialInv, StoredInv, fileVars
  <2>4. ASSUME NEW p \in Writers, SessionOf[p] = s PROVE WriterInv(s, p)'
    <3>1. WriterInv(s, p)  BY <2>1, <2>4 DEF SerialInv
    <3>2. at[p] = "writing" => tmp[s] # NoFile  BY <3>1, <2>4 DEF FileInv, WriterInv
    <3> QED  BY <1>2, <2>2, <3>1, <3>2, UndisturbedWriter DEF fileVars
  <2> QED  BY <2>3, <2>4 DEF SerialInv
<1> USE DEF fileVars, listVars, histVars, Goto, Return, StoreTypeOK
<1>3. ASSUME NEW o \in Creates, CallCreate(o)
      PROVE  \A s \in Sessions : Serial(s)' => SerialInv(s)'
  <2> DEFINE z == SessionOf[o]
  <2>1. ASSUME Serial(z) PROVE Settles(o)
    <3>1. StoredInv(z) /\ WriterInv(z, o) /\ SerialInv(z)  BY <2>1 DEF SerialInv
    <3>2. ~Acked(o) /\ o \notin Edits(z)
      BY <1>3, <3>1 DEF CallCreate, LaneInv, WriterInv, Acked
    <3>3. live[z] = NoFile /\ Edits(z) = {}
      BY <3>1, <3>2 DEF StoredInv, Edits
    <3>4. Edits(z)' = {}  BY <1>3, <3>3 DEF CallCreate, Edits
    <3>5. at'[o] = "authorizing" /\ next'[o].edits = {o} /\ ~Acked(o)'
      BY <1>3, <3>2 DEF CallCreate, Stamp, Acked
    <3>6. WriterInv(z, o)'  BY <3>4, <3>5 DEF WriterInv
    <3>7. live'[z] = live[z]  BY <1>3 DEF CallCreate
    <3> QED  BY <1>3, <3>1, <3>3, <3>6, <3>7, FileSettles
  <2> QED  BY <1>1, <1>3, <2>1 DEF CallCreate, Stamp
<1>4. ASSUME NEW o \in Updates, CallUpdate(o)
      PROVE  \A s \in Sessions : Serial(s)' => SerialInv(s)'
  <2> DEFINE z == SessionOf[o]
  <2>1. ASSUME Serial(z) PROVE Settles(o)
    <3>1. WriterInv(z, o) /\ SerialInv(z)  BY <2>1 DEF SerialInv
    <3>2. Edits(z)' = Edits(z)  BY <1>4, SameFile DEF CallUpdate
    <3>3. at'[o] \notin Busy /\ result'[o] = result[o]  BY <1>4 DEF CallUpdate, Busy
    <3>4. WriterInv(z, o)'  BY <3>1, <3>2, <3>3, RestingWriter
    <3> QED  BY <1>4, <3>1, <3>4, FileSettles DEF CallUpdate
  <2> QED  BY <1>1, <1>4, <2>1 DEF CallUpdate
<1>5. ASSUME NEW o \in Lists, CallList(o) \/ ReadDirectory(o) \/ Collect(o) \/ ReturnList(o)
      PROVE  \A s \in Sessions : Serial(s)' => SerialInv(s)'
  BY <1>2, <1>5 DEF CallList, ReadDirectory, Collect, ReturnList
<1>6. ASSUME NEW o \in Updates, FailLoad(o)
      PROVE  \A s \in Sessions : Serial(s)' => SerialInv(s)'
  <2> DEFINE z == SessionOf[o]
  <2>1. ASSUME Serial(z) PROVE Settles(o)
    <3>1. WriterInv(z, o) /\ SerialInv(z)  BY <2>1 DEF SerialInv
    <3>2. Edits(z)' = Edits(z)  BY <1>6, SameFile DEF FailLoad
    <3>3. at'[o] = "over" /\ ~Acked(o) /\ ~Acked(o)'
      BY <1>6 DEF FailLoad, LoadError, LaneInv, Acked
    <3>4. WriterInv(z, o)'  BY <3>1, <3>2, <3>3 DEF WriterInv, Busy
    <3> QED  BY <1>6, <3>1, <3>4, FileSettles DEF FailLoad
  <2> QED  BY <1>1, <1>6, <2>1 DEF FailLoad, Active
<1>7. ASSUME NEW o \in Updates, LoadForUpdate(o)
      PROVE  \A s \in Sessions : Serial(s)' => SerialInv(s)'
  <2> DEFINE z == SessionOf[o]
  <2>1. ASSUME Serial(z) PROVE Settles(o)
    <3>1. WriterInv(z, o) /\ SerialInv(z)  BY <2>1 DEF SerialInv
    <3>2. Edits(z)' = Edits(z)  BY <1>7, SameFile DEF LoadForUpdate
    <3>3. live[z] # NoFile /\ Edits(z) = DocumentIn(live[z]).edits
      BY <1>7 DEF LoadForUpdate, LoadError, Edits
    <3>4. /\ at'[o] = "authorizing" /\ Acked(o)' = Acked(o) /\ live'[z] = live[z]
          /\ next'[o].edits = Edits(z) \cup {o}
      BY <1>7, <3>3 DEF LoadForUpdate, Stamp, Acked
    <3>5. WriterInv(z, o)'  BY <3>1, <3>2, <3>3, <3>4 DEF WriterInv
    <3> QED  BY <1>7, <3>1, <3>5, FileSettles DEF LoadForUpdate
  <2> QED  BY <1>1, <1>7, <2>1 DEF LoadForUpdate, Stamp, Active
<1>8. ASSUME NEW o \in Writers, Authorize(o)
      PROVE  \A s \in Sessions : Serial(s)' => SerialInv(s)'
  <2> DEFINE z == SessionOf[o]
  <2>1. ASSUME Serial(z) PROVE Settles(o)
    <3>1. WriterInv(z, o) /\ SerialInv(z)  BY <2>1 DEF SerialInv
    <3>2. Edits(z)' = Edits(z)  BY <1>8, SameFile DEF Authorize
    <3>3. at[o] \in Busy /\ at'[o] \in {"opening", "over"} /\ ~Acked(o) /\ ~Acked(o)'
      BY <1>8 DEF Authorize, LaneInv, Acked, Busy
    <3>4. next' = next /\ live' = live  BY <1>8 DEF Authorize
    <3>5. WriterInv(z, o)'  BY <3>1, <3>2, <3>3, <3>4 DEF WriterInv, Busy
    <3> QED  BY <1>8, <3>1, <3>5, FileSettles DEF Authorize
  <2> QED  BY <1>1, <1>8, <2>1 DEF Authorize, Active
<1>9. ASSUME NEW o \in Writers, OpenTemp(o)
      PROVE  \A s \in Sessions : Serial(s)' => SerialInv(s)'
  <2> DEFINE z == SessionOf[o]
             i == IF tmp[z] = NoFile THEN o ELSE tmp[z]
  <2>1. i \in Writers /\ SessionOf[i] = z /\ i # live[z]
    BY <1>9 DEF OpenTemp, FileInv, Used
  <2>2. ASSUME Serial(z) PROVE Settles(o)
    <3>1. WriterInv(z, o) /\ SerialInv(z)  BY <2>2 DEF SerialInv
    <3>2. live' = live /\ (live[z] # NoFile => content'[live[z]] = content[live[z]])
      BY <1>9, <2>1 DEF OpenTemp
    <3>3. Edits(z)' = Edits(z)  BY <3>2, SameFile
    <3>4. /\ at[o] = "opening" /\ at'[o] = "writing" /\ UNCHANGED <<result, next>>
          /\ handle'[o] = i /\ tmp'[z] = i /\ content'[i] = {}
      BY <1>9, <2>1 DEF OpenTemp
    <3> HIDE DEF i
    <3>5. WriterInv(z, o)'  BY <3>1, <3>2, <3>3, <3>4 DEF WriterInv, Busy, Acked
    <3> QED  BY <3>1, <3>2, <3>5, FileSettles
  <2>3. /\ handle' = [handle EXCEPT ![o] = i] /\ tmp' = [tmp EXCEPT ![z] = i]
        /\ content' = [content EXCEPT ![i] = {}] /\ at' = [at EXCEPT ![o] = "writing"]
        /\ UNCHANGED <<result, next, live, laneOf>> /\ Active(o)
    BY <1>9 DEF OpenTemp, Active
  <2> HIDE DEF i
  <2> QED  BY <1>1, <2>1, <2>2, <2>3
<1>10. ASSUME NEW o \in Writers, WriteTemp(o)
       PROVE  \A s \in Sessions : Serial(s)' => SerialInv(s)'
  <2> DEFINE z == SessionOf[o]
  <2>1. handle[o] \in Writers /\ SessionOf[handle[o]] = z
    BY <1>10 DEF WriteTemp, FileInv
  <2>2. PICK kept \in {{}, content[handle[o]]} :
          content' = [content EXCEPT ![handle[o]] = kept \cup {next[o]}]
    BY <1>10 DEF WriteTemp
  <2>3. ASSUME Serial(z) PROVE Settles(o)
    <3>1. WriterInv(z, o) /\ SerialInv(z)  BY <2>3 DEF SerialInv
    <3>2. handle[o] = tmp[z] /\ kept = {} /\ tmp[z] # live[z]
      BY <1>10, <2>1, <2>2, <3>1 DEF WriteTemp, WriterInv, FileInv
    <3>3. live' = live /\ (live[z] # NoFile => content'[live[z]] = content[live[z]])
      BY <1>10, <2>2, <3>2 DEF WriteTemp
    <3>4. Edits(z)' = Edits(z)  BY <3>3, SameFile
    <3>5. /\ at[o] = "writing" /\ at'[o] = "renaming" /\ UNCHANGED <<result, next, tmp>>
          /\ tmp[z] # NoFile /\ content'[tmp[z]] = {next[o]}
      BY <1>10, <2>1, <2>2, <3>2 DEF WriteTemp
    <3>6. WriterInv(z, o)'  BY <3>1, <3>3, <3>4, <3>5 DEF WriterInv, Busy, Acked
    <3> QED  BY <3>1, <3>3, <3>6, FileSettles
  <2>4. \A i \in Writers : SessionOf[i] # z => content'[i] = content[i]  BY <2>1, <2>2
  <2> QED  BY <1>1, <1>10, <2>3, <2>4 DEF WriteTemp, Active
<1>11. ASSUME NEW o \in Writers, Rename(o)
       PROVE  \A s \in Sessions : Serial(s)' => SerialInv(s)'
  <2> DEFINE z == SessionOf[o]
  <2>1. ASSUME Serial(z) PROVE Settles(o)
    <3>1. WriterInv(z, o) /\ StoredInv(z)  BY <2>1 DEF SerialInv
    <3>2. at[o] = "renaming" /\ at'[o] = "over" /\ result'[o] = "ok" /\ content' = content
      BY <1>11 DEF Rename
    <3>3. live'[z] = tmp[z] /\ tmp[z] \in Writers /\ content[tmp[z]] = {next[o]}
      BY <1>11, <3>1, <3>2 DEF Rename, WriterInv
    <3>4. Whole(live[z])' /\ Edits(z)' = next[o].edits
      BY <3>2, <3>3, DocumentIsWhole DEF Whole, Edits, DocumentIn
    <3>5. Edits(z)' = Edits(z) \cup {o}  BY <3>1, <3>2, <3>4 DEF WriterInv, Busy
    <3>6. \E c \in Creates : SessionOf[c] = z /\ c \in Edits(z)'
      <4>1. CASE live[z] # NoFile  BY <3>1, <3>5, <4>1 DEF StoredInv
      <4>2. CASE live[z] = NoFile
        <5>1. o \in Creates  BY <3>1, <3>2, <4>2 DEF WriterInv, Busy, Writers
        <5> QED  BY <3>5, <5>1
      <4> QED  BY <4>1, <4>2
    <3>7. StoredInv(z)'
      <4>1. \A p \in Edits(z)' : p \in Writers /\ SessionOf[p] = z
        BY <3>1, <3>5 DEF StoredInv
      <4> QED  BY <3>4, <3>6, <4>1 DEF StoredInv
    <3>8. WriterInv(z, o)'  BY <3>2, <3>5 DEF WriterInv, Busy, Acked
    <3> QED  BY <3>5, <3>7, <3>8 DEF Settles
  <2> QED  BY <1>1, <1>11, <2>1 DEF Rename, Active
<1>12. ASSUME NEW o \in Writers, FailWrite(o)
       PROVE  \A s \in Sessions : Serial(s)' => SerialInv(s)'
  <2> DEFINE z == SessionOf[o]
  <2>1. \A i \in Writers : content'[i] # content[i] => at[o] = "writing" /\ i = handle[o]
    BY <1>12 DEF FailWrite, Unfinished
  <2>2. \A i \in Writers : SessionOf[i] # z => content'[i] = content[i]
    BY <2>1 DEF FileInv
  <2>3. ASSUME Serial(z) PROVE Settles(o)
    <3>1. WriterInv(z, o) /\ SerialInv(z)  BY <2>3 DEF SerialInv
    <3>2. live' = live /\ (live[z] # NoFile => content'[live[z]] = content[live[z]])
      BY <1>12, <2>1, <3>1 DEF FailWrite, WriterInv, FileInv
    <3>3. Edits(z)' = Edits(z)  BY <3>2, SameFile
    <3>4. at'[o] = "over" /\ ~Acked(o) /\ ~Acked(o)'
      BY <1>12 DEF FailWrite, LaneInv, Acked
    <3>5. WriterInv(z, o)'  BY <3>1, <3>3, <3>4 DEF WriterInv, Busy
    <3> QED  BY <3>1, <3>2, <3>5, FileSettles
  <2> QED  BY <1>1, <1>12, <2>2, <2>3 DEF FailWrite, Active
\* A crash tears temporary files only.
<1>13. ASSUME Crash PROVE \A s \in Sessions : Serial(s)' => SerialInv(s)'
  <2> SUFFICES ASSUME NEW s \in Sessions, Serial(s)' PROVE SerialInv(s)'
    OBVIOUS
  <2>1. SerialInv(s)  BY <1>13 DEF Crash, Serial
  <2>2. \A i \in Writers : content'[i] # content[i] =>
          \E o \in Writers : at[o] = "writing" /\ handle[o] = i
    <3>1. PICK cut \in SUBSET {o \in {p \in Ops : at[p] \notin {"idle", "over"}} : at[o] = "writing"} :
            content' = [i \in Writers |->
              IF \E o \in cut : handle[o] = i THEN content[i] \cup {Scrap} ELSE content[i]]
      BY <1>13 DEF Crash
    <3>2. \A o \in cut : o \in Writers /\ at[o] = "writing"
      BY <3>1 DEF Ops, Busy
    <3> QED  BY <3>1, <3>2
  <2>3. live[s] # NoFile => content'[live[s]] = content[live[s]]
    <3> SUFFICES ASSUME live[s] # NoFile, content'[live[s]] # content[live[s]] PROVE FALSE
      OBVIOUS
    <3>1. PICK o \in Writers : at[o] = "writing" /\ handle[o] = live[s]  BY <2>2
    <3>2. SessionOf[o] = s  BY <3>1 DEF FileInv
    <3>3. handle[o] = tmp[s]  BY <2>1, <3>1, <3>2 DEF SerialInv, WriterInv
    <3> QED  BY <3>1, <3>3 DEF FileInv
  <2>4. live'[s] = live[s]  BY <1>13 DEF Crash
  <2>5. Edits(s)' = Edits(s) /\ (live[s] # NoFile => (Whole(live[s])' <=> Whole(live[s])))
    BY <2>3, <2>4, SameFile
  <2>6. StoredInv(s)'  BY <2>1, <2>4, <2>5 DEF SerialInv, StoredInv
  <2>7. ASSUME NEW o \in Writers, SessionOf[o] = s PROVE WriterInv(s, o)'
    <3>1. WriterInv(s, o)  BY <2>1, <2>7 DEF SerialInv
    <3>2. at'[o] \notin Busy /\ (Acked(o)' <=> Acked(o))
      BY <1>13 DEF Crash, Busy, Acked, LaneInv
    <3> QED  BY <2>5, <3>1, <3>2 DEF WriterInv, Busy
  <2> QED  BY <2>6, <2>7 DEF SerialInv
<1>14. CASE UNCHANGED sessionVars
  BY <1>2, <1>14 DEF sessionVars
<1> QED
  BY <1>3, <1>4, <1>5, <1>6, <1>7, <1>8, <1>9, <1>10, <1>11, <1>12, <1>13, <1>14
     DEF SessionNext, AllOver
-----------------------------------------------------------------------------
(* Lists *)

\* What was acknowledged stays so.
LEMMA AckedStays ==
  StoreTypeOK /\ LaneInv /\ [SessionNext]_sessionVars => \A p \in Ops : Acked(p) => Acked(p)'
<1> SUFFICES ASSUME StoreTypeOK, LaneInv, [SessionNext]_sessionVars, NEW p \in Ops, Acked(p)
             PROVE  Acked(p)'
  OBVIOUS
<1> USE Kinds DEF StoreTypeOK, Goto, Return, Acked, fileVars, listVars, histVars
<1>1. at[p] = "over" /\ result[p] = "ok"  BY DEF LaneInv
<1>2. ASSUME NEW o \in Creates, CallCreate(o) PROVE Acked(p)'
  BY <1>1, <1>2 DEF CallCreate
<1>3. ASSUME NEW o \in Updates \cup Lists, CallUpdate(o) \/ CallList(o) PROVE Acked(p)'
  BY <1>1, <1>3 DEF CallUpdate, CallList
<1>4. ASSUME NEW o \in Updates, FailLoad(o) \/ LoadForUpdate(o) PROVE Acked(p)'
  BY <1>1, <1>4 DEF FailLoad, LoadForUpdate
<1>5. ASSUME NEW o \in Lists, ReadDirectory(o) \/ Collect(o) \/ ReturnList(o) PROVE Acked(p)'
  BY <1>1, <1>5 DEF ReadDirectory, Collect, ReturnList
<1>6. ASSUME NEW o \in Writers,
             Authorize(o) \/ OpenTemp(o) \/ WriteTemp(o) \/ Rename(o) \/ FailWrite(o)
      PROVE  Acked(p)'
  BY <1>1, <1>6 DEF Authorize, OpenTemp, WriteTemp, Rename, FailWrite
<1>7. ASSUME Crash PROVE Acked(p)'
  BY <1>1, <1>7 DEF Crash
<1>8. CASE UNCHANGED sessionVars
  BY <1>8 DEF sessionVars
<1> QED
  BY <1>2, <1>3, <1>4, <1>5, <1>6, <1>7, <1>8 DEF SessionNext, AllOver

LEMMA ListInit == SessionInit => ListInv
BY Kinds DEF SessionInit, ListInv, Acked

LEMMA ListStep == StoreInv /\ [SessionNext]_sessionVars => ListInv'
<1> SUFFICES ASSUME StoreInv, [SessionNext]_sessionVars PROVE ListInv'
  OBVIOUS
<1>1. StoreTypeOK /\ LaneInv /\ ListInv  BY DEF StoreInv
<1>2. \A p \in Ops : Acked(p) => Acked(p)'  BY <1>1, AckedStays
<1>3. \A l \in Lists : before[l] \subseteq Writers /\ before[l] \subseteq Ops
  BY <1>1, Kinds DEF StoreTypeOK
\* Lists stay where they are, or come to an end without success.
<1>4. ASSUME laneOf' = laneOf,
             \A l \in Lists :
               /\ UNCHANGED <<todo[l], got[l], unread[l], before[l]>>
               /\ at'[l] = "collecting" => at[l] = "collecting"
               /\ Acked(l)' => Acked(l) \/ (at[l] = "collecting" /\ todo[l] = {})
      PROVE  ListInv'
  <2>1. \A s \in Sessions : Serial(s)' <=> Serial(s)  BY <1>4 DEF Serial
  <2>2. \A l \in Lists : \A p \in before'[l] : Acked(p)'
    BY <1>1, <1>2, <1>3, <1>4 DEF ListInv
  <2>3. ASSUME NEW l \in Lists, (at[l] = "collecting" \/ Acked(l))',
               NEW p \in before'[l], Serial(SessionOf[p])'
        PROVE  \/ SessionOf[p] \in todo'[l] \cup unread'[l]
               \/ \E g \in got'[l] : g.of = SessionOf[p] /\ p \in g.doc.edits
    <3>1. at[l] = "collecting" \/ Acked(l)  BY <1>4, <2>3
    <3>2. p \in before[l] /\ Serial(SessionOf[p])  BY <1>3, <1>4, <2>1, <2>3, Kinds
    <3> QED  BY <1>1, <1>4, <3>1, <3>2 DEF ListInv
  <2>4. ASSUME NEW l \in Lists, Acked(l)' PROVE todo'[l] = {}
    BY <1>1, <1>4, <2>4 DEF ListInv
  <2> QED  BY <2>2, <2>3, <2>4 DEF ListInv
<1> USE Kinds DEF StoreTypeOK, Goto, Return, fileVars, listVars, histVars
<1>5. ASSUME NEW o \in Creates, CallCreate(o) PROVE ListInv'
  BY <1>1, <1>4, <1>5 DEF CallCreate, Acked
<1>6. ASSUME NEW o \in Lists, CallList(o) PROVE ListInv'
  <2>1. \A l \in Lists \ {o} : /\ UNCHANGED <<todo[l], got[l], unread[l], before[l], at[l], result[l]>>
    BY <1>1, <1>6 DEF CallList
  <2>2. UNCHANGED <<todo, got, unread, laneOf, result>>  BY <1>6 DEF CallList
  <2>3. before'[o] = {p \in Writers : Acked(p)} /\ at'[o] = "listing" /\ ~Acked(o)'
    BY <1>1, <1>6 DEF CallList, Acked, LaneInv
  <2>4. \A p \in before'[o] : Acked(p)'  BY <1>2, <2>3
  <2>5. \A l \in Lists \ {o} : \A p \in before'[l] : Acked(p)'
    BY <1>1, <1>2, <1>3, <2>1 DEF ListInv
  <2> QED  BY <1>1, <2>1, <2>2, <2>3, <2>4, <2>5 DEF ListInv, Acked, Serial
<1>7. ASSUME NEW o \in Updates, CallUpdate(o) \/ FailLoad(o) \/ LoadForUpdate(o) PROVE ListInv'
  BY <1>1, <1>4, <1>7 DEF CallUpdate, FailLoad, LoadForUpdate, Acked
<1>8. ASSUME NEW o \in Lists, ReadDirectory(o) PROVE ListInv'
  <2>1. CASE Return(o, "listing", "invalid") /\ UNCHANGED todo
    BY <1>1, <1>4, <1>8, <2>1 DEF ReadDirectory, Acked
  <2>2. CASE /\ Goto(o, "listing", "collecting")
             /\ todo' = [todo EXCEPT ![o] = {s \in Sessions : live[s] # NoFile}]
             /\ UNCHANGED result
    <3>1. \A l \in Lists \ {o} : UNCHANGED <<todo[l], got[l], unread[l], before[l], at[l], result[l]>>
      BY <1>1, <1>8, <2>2 DEF ReadDirectory
    <3>2. /\ todo'[o] = {s \in Sessions : live[s] # NoFile} /\ ~Acked(o)'
          /\ UNCHANGED <<got, unread, before, laneOf, result>>
      BY <1>1, <1>8, <2>2 DEF ReadDirectory, Acked, LaneInv
    <3>3. ASSUME NEW p \in before[o], Serial(SessionOf[p])'
          PROVE  SessionOf[p] \in todo'[o]
      <4> DEFINE s == SessionOf[p]
      <4>1. Acked(p) /\ Serial(s) /\ s \in Sessions
        BY <1>1, <3>2, <3>3 DEF ListInv, Serial
      <4>2. WriterInv(s, p)  BY <3>3, <4>1 DEF StoreInv, SerialInv
      <4>3. live[s] # NoFile  BY <4>1, <4>2 DEF WriterInv, Edits
      <4> QED  BY <3>2, <4>1, <4>3
    <3>4. \A l \in Lists : \A p \in before'[l] : Acked(p)'
      BY <1>1, <1>2, <1>3, <3>2 DEF ListInv
    <3> QED  BY <1>1, <3>1, <3>2, <3>3, <3>4 DEF ListInv, Acked, Serial
  <2> QED  BY <1>8, <2>1, <2>2 DEF ReadDirectory
<1>9. ASSUME NEW o \in Lists, Collect(o) PROVE ListInv'
  <2>1. PICK s \in todo[o] : todo' = [todo EXCEPT ![o] = @ \ {s}] /\ LoadListed(o, s)
    BY <1>9 DEF Collect
  <2>2. /\ at[o] = "collecting" /\ ~Acked(o)
        /\ UNCHANGED <<at, result, before, laneOf>>
    BY <1>1, <1>9 DEF Collect, LaneInv, Acked
  <2>3. \A l \in Lists \ {o} : UNCHANGED <<todo[l], got[l], unread[l]>>
    BY <1>1, <2>1 DEF LoadListed
  <2>4. /\ todo'[o] = todo[o] \ {s}
        /\ got[o] \subseteq got'[o] /\ unread[o] \subseteq unread'[o]
    BY <1>1, <2>1 DEF LoadListed
  <2>5. ASSUME NEW p \in before[o], Serial(SessionOf[p])'
        PROVE  \/ SessionOf[p] \in todo'[o] \cup unread'[o]
               \/ \E g \in got'[o] : g.of = SessionOf[p] /\ p \in g.doc.edits
    <3>1. Acked(p) /\ Serial(SessionOf[p]) /\ p \in Writers
      BY <1>1, <1>3, <2>2, <2>5 DEF ListInv, Serial
    <3>2. CASE SessionOf[p] = s
      <4>1. s \in Sessions /\ Serial(s) /\ WriterInv(s, p) /\ StoredInv(s)
        BY <2>5, <3>1, <3>2 DEF StoreInv, SerialInv
      <4>2. p \in Edits(s) /\ live[s] # NoFile  BY <3>1, <4>1 DEF WriterInv, Edits
      <4>3. LoadError(s) = "none" /\ p \in DocumentIn(live[s]).edits
        BY <4>1, <4>2 DEF LoadError, StoredInv, Edits
      <4>4. [of |-> s, doc |-> DocumentIn(live[s])] \in got'[o] \/ s \in unread'[o]
        BY <1>1, <2>1, <4>3 DEF LoadListed
      <4> QED  BY <3>2, <4>3, <4>4
    <3>3. CASE SessionOf[p] # s
      <4>1. \/ SessionOf[p] \in todo[o] \cup unread[o]
            \/ \E g \in got[o] : g.of = SessionOf[p] /\ p \in g.doc.edits
        BY <1>1, <2>2, <2>5, <3>1 DEF ListInv
      <4> QED  BY <2>4, <3>3, <4>1
    <3> QED  BY <3>2, <3>3
  <2>6. \A l \in Lists : \A p \in before'[l] : Acked(p)'
    BY <1>1, <1>2, <1>3, <2>2 DEF ListInv
  <2> QED  BY <1>1, <2>2, <2>3, <2>5, <2>6 DEF ListInv, Acked, Serial
<1>10. ASSUME NEW o \in Lists, ReturnList(o) PROVE ListInv'
  BY <1>1, <1>4, <1>10 DEF ReturnList, Acked
<1>11. ASSUME NEW o \in Writers,
              Authorize(o) \/ OpenTemp(o) \/ WriteTemp(o) \/ Rename(o) \/ FailWrite(o)
       PROVE  ListInv'
  BY <1>1, <1>4, <1>11 DEF Authorize, OpenTemp, WriteTemp, Rename, FailWrite, Acked
<1>12. ASSUME Crash PROVE ListInv'
  BY <1>1, <1>4, <1>12 DEF Crash, Acked
<1>13. CASE UNCHANGED sessionVars
  BY <1>1, <1>4, <1>13 DEF sessionVars, Acked
<1> QED
  BY <1>5, <1>6, <1>7, <1>8, <1>9, <1>10, <1>11, <1>12, <1>13 DEF SessionNext, AllOver
-----------------------------------------------------------------------------
(* The theorems *)

LEMMA StoreInvariant == SessionSpec => []StoreInv
<1>1. SessionInit => StoreInv
  BY TypeInit, LaneInit, StampInit, FileInit, SerialInit, ListInit DEF StoreInv
<1>2. StoreInv /\ [SessionNext]_sessionVars => StoreInv'
  <2> SUFFICES ASSUME StoreInv, [SessionNext]_sessionVars PROVE StoreInv'
    OBVIOUS
  <2>1. StoreTypeOK /\ LaneInv /\ StampInv /\ FileInv  BY DEF StoreInv
  <2>2. StoreTypeOK'  BY <2>1, TypeStep
  <2>3. LaneInv'  BY <2>1, LaneStep
  <2>4. StampInv'  BY <2>1, StampStep
  <2>5. FileInv'  BY <2>1, FileStep
  <2>6. \A s \in Sessions : Serial(s)' => SerialInv(s)'  BY SerialStep
  <2>7. ListInv'  BY ListStep
  <2> QED  BY <2>2, <2>3, <2>4, <2>5, <2>6, <2>7 DEF StoreInv
<1> QED  BY <1>1, <1>2, PTL DEF SessionSpec

\* What the operations on a session with one caller report is so (update and
\* writeSession).
THEOREM ReportsHold == SessionSpec => []ReportsAreTrue
<1>1. StoreInv => ReportsAreTrue
  <2> SUFFICES ASSUME StoreInv, NEW o \in Writers, Serial(SessionOf[o])
               PROVE  /\ Acked(o) => Contains(SessionOf[o], o)
                      /\ ~Acked(o) => ~Contains(SessionOf[o], o)
    BY DEF ReportsAreTrue, Acked
  <2> DEFINE s == SessionOf[o]
  <2>1. s \in Sessions /\ StoredInv(s) /\ WriterInv(s, o)
    BY Kinds DEF StoreInv, SerialInv
  <2>2. Contains(s, o) <=> o \in Edits(s)
    BY <2>1 DEF Contains, Edits, StoredInv, Whole
  <2> QED  BY <2>1, <2>2 DEF WriterInv
<1> QED  BY <1>1, StoreInvariant, PTL

\* A list has every session with one caller, with what was acknowledged before
\* the list was called (list, load).
THEOREM ListsAreComplete == SessionSpec => []ListIsComplete
<1>1. StoreInv => ListIsComplete
  BY DEF StoreInv, ListInv, ListIsComplete
<1> QED  BY <1>1, StoreInvariant, PTL

LEMMA MaxIsLatest ==
  ASSUME NEW T \in SUBSET Nat, NEW v \in T, \A y \in T : y <= v
  PROVE  Max(T) = v
<1>1. \E x \in T : \A y \in T : x >= y  OBVIOUS
<1>2. Max(T) \in T /\ \A y \in T : Max(T) >= y  BY <1>1 DEF Max
<1>3. Max(T) \in Nat /\ v \in Nat /\ Max(T) >= v /\ Max(T) <= v  BY <1>2
<1> QED  BY <1>3

\* Whoever writes, the time stamps of a document are those of its updates
\* (update, touch).
THEOREM TimestampsHold == SessionSpec => []TimestampsMatchEdits
<1>1. StoreInv => TimestampsMatchEdits
  <2> SUFFICES ASSUME StoreInv, NEW s \in Sessions, Whole(live[s])
               PROVE  LET d == DocumentIn(live[s])
                          Latest(S) == Max({0} \cup {stamp[o] : o \in S})
                      IN d.updatedAt = Latest(d.edits) /\ d.touchedAt = Latest(d.edits \cap Touches)
    BY DEF TimestampsMatchEdits
  <2>1. PICK d \in Documents : d = DocumentIn(live[s]) /\ Dated(d)
    <3>1. LoadError(s) = "none"  BY DEF LoadError, Whole
    <3> QED  BY <3>1, LoadedIsADocument DEF StoreInv, StampInv
  <2>2. ASSUME NEW S \in SUBSET Writers, NEW v \in Nat, IsLatest(S, v)
        PROVE  Max({0} \cup {stamp[o] : o \in S}) = v
    <3>1. \A o \in S : stamp[o] \in Nat  BY DEF StoreInv, StoreTypeOK
    <3>2. v \in {0} \cup {stamp[o] : o \in S}  BY <2>2 DEF IsLatest
    <3>3. \A y \in {0} \cup {stamp[o] : o \in S} : y \in Nat /\ y <= v
      BY <2>2, <3>1 DEF IsLatest
    <3> QED  BY <3>2, <3>3, MaxIsLatest
  <2>3. d.edits \in SUBSET Writers /\ d.updatedAt \in Nat /\ d.touchedAt \in Nat
    BY DEF Documents
  <2>4. d.updatedAt = Max({0} \cup {stamp[o] : o \in d.edits})
    BY <2>1, <2>2, <2>3 DEF Dated
  <2>5. d.touchedAt = Max({0} \cup {stamp[o] : o \in d.edits \cap Touches})
    BY <2>1, <2>2, <2>3 DEF Dated
  <2> QED  BY <2>1, <2>4, <2>5
<1> QED  BY <1>1, StoreInvariant, PTL

\* What a caller can see of a session: the operations acknowledged.
AckedOf(s) == {o \in Writers : SessionOf[o] = s /\ Acked(o)}

\* What the refinement takes for the records.
Record == [s \in Sessions |->
             IF Serial(s) /\ Whole(live[s]) THEN DocumentIn(live[s]).edits ELSE {}]

IsAcked == Record = [s \in Sessions |-> IF Serial(s) THEN AckedOf(s) ELSE {}]

LEMMA RecordIsAcked == (StoreInv => IsAcked) /\ (StoreInv' => IsAcked')
<1>1. StoreInv => IsAcked
  <2> SUFFICES ASSUME StoreInv, NEW s \in Sessions, Serial(s)
               PROVE  (IF Whole(live[s]) THEN DocumentIn(live[s]).edits ELSE {}) = AckedOf(s)
    BY DEF IsAcked, Record
  <2>1. SerialInv(s)  BY DEF StoreInv
  <2>2. (IF Whole(live[s]) THEN DocumentIn(live[s]).edits ELSE {}) = Edits(s)
    BY <2>1 DEF SerialInv, StoredInv, Edits, Whole
  <2>3. \A o \in Writers : SessionOf[o] = s => (o \in Edits(s) <=> Acked(o))
    BY <2>1 DEF SerialInv, WriterInv
  <2>4. Edits(s) = AckedOf(s)
    BY <2>1, <2>3 DEF SerialInv, StoredInv, AckedOf
  <2> QED  BY <2>2, <2>4
<1> QED  BY <1>1, PTL

\* A session with one caller is a record: only a rename changes it, to what the
\* operation was asked for, whatever fails and whenever the process dies.
THEOREM SessionsAreRecords == SessionSpec => ImplementsRecords
<1>1. SessionInit => Records!RecordsInit
  BY DEF SessionInit, Records!RecordsInit, Whole
<1>2. StoreInv /\ StoreInv' /\ [SessionNext]_sessionVars => [Records!RecordsNext]_Record
  <2> SUFFICES ASSUME StoreInv, StoreInv', [SessionNext]_sessionVars
               PROVE  [Records!RecordsNext]_Record
    OBVIOUS
  <2>1. Record = [s \in Sessions |-> IF Serial(s) THEN AckedOf(s) ELSE {}]
    BY RecordIsAcked DEF IsAcked
  <2>2. Record' = [s \in Sessions |-> IF Serial(s)' THEN AckedOf(s)' ELSE {}]
    BY RecordIsAcked DEF IsAcked
  <2> USE Kinds
  \* Nothing is acknowledged.
  <2>3. ASSUME laneOf' = laneOf, \A p \in Writers : Acked(p)' <=> Acked(p)
        PROVE  Record' = Record
    <3>1. \A s \in Sessions : (Serial(s)' <=> Serial(s)) /\ AckedOf(s)' = AckedOf(s)
      BY <2>3 DEF Serial, AckedOf
    <3> QED  BY <2>1, <2>2, <3>1
  <2>4. ASSUME NEW o \in Writers, Rename(o) PROVE [Records!RecordsNext]_Record
    <3> DEFINE z == SessionOf[o]
    <3>1. laneOf' = laneOf /\ Acked(o)' /\ \A p \in Writers \ {o} : Acked(p)' <=> Acked(p)
      BY <2>4 DEF Rename, Return, Goto, Acked, StoreInv, StoreTypeOK
    <3>2. ~Acked(o) /\ at[o] = "renaming"
      BY <2>4 DEF Rename, Return, Goto, Acked, StoreInv, LaneInv
    <3>3. \A s \in Sessions \ {z} : (Serial(s)' <=> Serial(s)) /\ AckedOf(s)' = AckedOf(s)
      BY <3>1 DEF Serial, AckedOf
    <3>4. (Serial(z)' <=> Serial(z)) /\ AckedOf(z)' = AckedOf(z) \cup {o} /\ o \notin AckedOf(z)
      BY <3>1, <3>2 DEF Serial, AckedOf
    <3>5. CASE ~Serial(z)
      <4>1. Record' = Record  BY <2>1, <2>2, <3>3, <3>4, <3>5
      <4> QED  BY <4>1
    <3>6. CASE Serial(z)
      <4>1. Record[z] = AckedOf(z) /\ Record' = [Record EXCEPT ![z] = @ \cup {o}]
        BY <2>1, <2>2, <3>3, <3>4, <3>6
      <4>2. StoredInv(z) /\ \A p \in Writers : SessionOf[p] = z => WriterInv(z, p)
        BY <3>6 DEF StoreInv, SerialInv
      <4>3. live[z] # NoFile => \E c \in Creates : SessionOf[c] = z /\ c \in AckedOf(z)
        BY <4>2 DEF StoredInv, WriterInv, AckedOf
      <4>4. CASE o \in Creates
        <5>1. AckedOf(z) = {}
          <6>1. live[z] = NoFile  BY <3>4, <4>3, <4>4
          <6> QED  BY <4>2, <6>1 DEF AckedOf, WriterInv, Edits
        <5>2. Record[z] = {} /\ Record' = [Record EXCEPT ![z] = {o}]  BY <4>1, <5>1
        <5>3. Records!CreateRecord(o)  BY <5>2 DEF Record, Records!CreateRecord
        <5> QED  BY <4>4, <5>3 DEF Records!RecordsNext
      <4>5. CASE o \in Updates
        <5>1. live[z] # NoFile  BY <3>2, <4>2, <4>5 DEF WriterInv, Busy
        <5>2. Records!UpdateRecord(o)  BY <3>4, <4>1, <4>3, <5>1 DEF Record, Records!UpdateRecord
        <5> QED  BY <4>5, <5>2 DEF Records!RecordsNext
      <4> QED  BY <4>4, <4>5 DEF Writers
    <3> QED  BY <3>5, <3>6
  <2> USE DEF StoreInv, StoreTypeOK, LaneInv, Goto, Return, Acked
  <2>5. ASSUME NEW o \in Creates, CallCreate(o) PROVE Record' = Record
    BY <2>3, <2>5 DEF CallCreate
  <2>6. ASSUME NEW o \in Updates \cup Lists, CallUpdate(o) \/ CallList(o) PROVE Record' = Record
    BY <2>3, <2>6 DEF CallUpdate, CallList
  <2>7. ASSUME NEW o \in Updates, FailLoad(o) \/ LoadForUpdate(o) PROVE Record' = Record
    <3>1. CASE FailLoad(o)
      <4>1. PICK e \in {"invalid", "not_found"} : Return(o, "loading", e) /\ laneOf' = laneOf
        BY <3>1 DEF FailLoad, LoadError
      <4>2. \A p \in Writers : Acked(p)' <=> Acked(p)
        BY <2>7, <4>1
      <4> QED  BY <2>3, <4>1, <4>2
    <3>2. CASE LoadForUpdate(o)
      BY <2>3, <3>2 DEF LoadForUpdate
    <3> QED  BY <2>7, <3>1, <3>2
  <2>8. ASSUME NEW o \in Lists, ReadDirectory(o) \/ Collect(o) \/ ReturnList(o)
        PROVE  Record' = Record
    BY <2>3, <2>8 DEF ReadDirectory, Collect, ReturnList
  <2>9. ASSUME NEW o \in Writers, Authorize(o) \/ OpenTemp(o) \/ WriteTemp(o) \/ FailWrite(o)
        PROVE  Record' = Record
    BY <2>3, <2>9 DEF Authorize, OpenTemp, WriteTemp, FailWrite
  <2>10. ASSUME Crash PROVE Record' = Record
    BY <2>3, <2>10 DEF Crash
  <2>11. CASE UNCHANGED sessionVars
    BY <2>3, <2>11 DEF sessionVars
  <2> QED
    BY <2>4, <2>5, <2>6, <2>7, <2>8, <2>9, <2>10, <2>11 DEF SessionNext, AllOver
<1> QED  BY <1>1, <1>2, StoreInvariant, PTL DEF SessionSpec, ImplementsRecords, Record, Records!RecordsSpec
=============================================================================

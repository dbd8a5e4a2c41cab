----------------------------- MODULE FileTools -----------------------------
(***************************************************************************)
(* The handlers filesystem.write_file (modes create and overwrite) and     *)
(* filesystem.read_file of packages/tools/src/index.ts, all calls about    *)
(* one path.                                                               *)
(*                                                                         *)
(* Files are inodes, named after the call that created them.  A temporary  *)
(* file is named after the process and the millisecond in which its call   *)
(* got there: calls of one millisecond share it, and a clock that is set   *)
(* back may bring a name again.                                            *)
(*                                                                         *)
(* Left out: binary content, size limits.                                  *)
(***************************************************************************)
EXTENDS ToolRegistry

CONSTANTS
  Creates, Overwrites, Reads, \* invocations of the tools
  Names,    \* names of temporary files
  NoFile,   \* no such directory entry, or nothing read
  Original  \* the file that may be there beforehand

Writes    == Creates \cup Overwrites
FileCalls == Writes \cup Reads
Inodes    == Writes \cup {Original}

ASSUME FileToolsAssumption ==
  /\ FileCalls \subseteq Calls
  /\ Creates \cap Overwrites = {} /\ Writes \cap Reads = {}
  /\ NoFile \notin Inodes \cup Names
  /\ Original \notin Writes

VARIABLES
  name,     \* the temporary file a call has chosen
  live,     \* the inode at the path
  tmp,      \* the inode at each temporary name
  content,  \* how much of an inode is written
  opened,   \* the inode a read has open
  got,      \* how much of its text a read has seen
  published \* history: the calls whose inode has been at the path

diskVars == <<live, tmp, content, published>>
readVars == <<opened, got>>
fileVars == <<name, diskVars, readVars>>

FilesInit ==
  /\ name = [c \in Overwrites |-> NoFile]
  /\ live \in {NoFile, Original}
  /\ tmp = [n \in Names |-> NoFile]
  /\ content = [i \in Inodes |-> IF i = Original THEN "whole" ELSE "part"]
  /\ opened = [c \in Reads |-> NoFile]
  /\ got = [c \in Reads |-> "none"]
  /\ published = {}
-----------------------------------------------------------------------------
(* authorizeFilesystemOperation *)

ResolvePath(c) ==
  /\ \/ Goto(c, "executing", "authorizing") /\ UNCHANGED error
     \/ Fail(c, "executing", "operation_failed", "root_violation")
  /\ UNCHANGED <<result, trail, faults, fileVars>>

\* Whatever goes wrong with this decision is a denial.
AccessCheck(c) ==
  [from |-> "authorizing", yes |-> "granting", no |-> "forbidding",
   granted |-> IF c \in Reads THEN "opening" ELSE "placing",
   denied |-> "operation_failed", denial |-> "access_denied",
   broken |-> "operation_failed", code |-> "access_denied"]

AskForAccess(c) == Ask(c, AccessCheck(c)) /\ UNCHANGED fileVars
-----------------------------------------------------------------------------
(* write_file *)

\* The parent and the temporary path are resolved.
Place(c) ==
  /\ \/ /\ Goto(c, "placing", "checking")
        /\ IF c \in Overwrites
           THEN \E n \in Names : name' = [name EXCEPT ![c] = n]
           ELSE UNCHANGED name
        /\ UNCHANGED error
     \/ Fail(c, "placing", "operation_failed", "root_violation") /\ UNCHANGED name
  /\ UNCHANGED <<result, trail, diskVars, readVars, faults>>

\* The parent must be a directory, and the file be there for overwrite only.
CheckTarget(c) ==
  /\ \/ Goto(c, "checking", "opening") /\ (live = NoFile <=> c \in Creates) /\ UNCHANGED error
     \/ Fail(c, "checking", "operation_failed", "execution_failed")
  /\ UNCHANGED <<result, trail, name, diskVars, readVars, faults>>

\* createFile opens with flag wx, and writes.
OpenNew(c) ==
  /\ \/ /\ live = NoFile
        /\ Goto(c, "opening", "filling")
        /\ live' = c
        /\ published' = published \cup {c}
        /\ UNCHANGED <<error, faults>>
     \/ /\ Fail(c, "opening", "operation_failed", "execution_failed")
        /\ (live # NoFile /\ UNCHANGED faults) \/ Fault
        /\ UNCHANGED <<live, published>>
  /\ UNCHANGED <<result, trail, name, tmp, content, readVars>>

\* Bug (mutation runs only): flag w, which takes over a file that is there.
BugOpenTempNotExclusive(c) ==
  /\ Goto(c, "opening", "filling")
  /\ IF tmp[name[c]] = NoFile
     THEN tmp' = [tmp EXCEPT ![name[c]] = c] /\ UNCHANGED content
     ELSE content' = [content EXCEPT ![tmp[name[c]]] = "part"] /\ UNCHANGED tmp
  /\ UNCHANGED <<error, faults, result, trail, name, live, published, readVars>>

\* overwriteFile does so with the temporary file; a failure, an existing file
\* included, leads to the clean-up.
OpenTemp(c) ==
  /\ \/ /\ Goto(c, "opening", "filling")
        /\ tmp[name[c]] = NoFile
        /\ tmp' = [tmp EXCEPT ![name[c]] = c]
        /\ UNCHANGED <<error, faults>>
     \/ /\ Fail(c, "opening", "removing", "execution_failed")
        /\ (tmp[name[c]] # NoFile /\ UNCHANGED faults) \/ Fault
        /\ UNCHANGED tmp
  /\ UNCHANGED <<result, trail, name, live, content, published, readVars>>

\* The rest of the write: a failure may come after the last byte.
Fill(c) ==
  /\ \/ /\ Goto(c, "filling", IF c \in Creates THEN "operation_done" ELSE "renaming")
        /\ content' = [content EXCEPT ![c] = "whole"]
        /\ UNCHANGED <<error, faults>>
     \/ /\ Fail(c, "filling", IF c \in Creates THEN "operation_failed" ELSE "removing", "execution_failed")
        /\ Fault
        /\ \E written \in {"part", "whole"} : content' = [content EXCEPT ![c] = written]
  /\ UNCHANGED <<result, trail, name, live, tmp, published, readVars>>

\* Bug (mutation runs only): a temporary file that has gone counts as renamed.
BugRenameErrorSwallowed(c) ==
  /\ Goto(c, "renaming", "operation_done")
  /\ IF tmp[name[c]] # NoFile
     THEN /\ live' = tmp[name[c]]
          /\ published' = published \cup {tmp[name[c]]}
          /\ tmp' = [tmp EXCEPT ![name[c]] = NoFile]
     ELSE UNCHANGED <<live, tmp, published>>
  /\ UNCHANGED <<error, faults, result, trail, name, content, readVars>>

\* The file at the temporary name by now replaces the one at the path.
Rename(c) ==
  /\ \/ /\ Goto(c, "renaming", "operation_done")
        /\ tmp[name[c]] # NoFile
        /\ live' = tmp[name[c]]
        /\ published' = published \cup {tmp[name[c]]}
        /\ tmp' = [tmp EXCEPT ![name[c]] = NoFile]
        /\ UNCHANGED <<error, faults>>
     \/ /\ Fail(c, "renaming", "removing", "execution_failed")
        /\ (tmp[name[c]] = NoFile /\ UNCHANGED faults) \/ Fault
        /\ UNCHANGED <<live, tmp, published>>
  /\ UNCHANGED <<result, trail, name, content, readVars>>

\* The clean-up removes whatever file has the temporary name, or fails.
RemoveTemp(c) ==
  /\ Goto(c, "removing", "operation_failed")
  /\ \/ tmp' = [tmp EXCEPT ![name[c]] = NoFile] /\ UNCHANGED faults
     \/ Fault /\ UNCHANGED tmp
  /\ UNCHANGED <<error, result, trail, name, live, content, published, readVars>>
-----------------------------------------------------------------------------
(* read_file *)

OpenRead(c) ==
  /\ \/ /\ live # NoFile
        /\ Goto(c, "opening", "reading")
        /\ opened' = [opened EXCEPT ![c] = live]
        /\ UNCHANGED <<error, faults>>
     \/ /\ Fail(c, "opening", "operation_failed", "execution_failed")
        /\ (live = NoFile /\ UNCHANGED faults) \/ Fault
        /\ UNCHANGED opened
  /\ UNCHANGED <<result, trail, name, diskVars, got>>

\* The bytes of the file that was opened, whatever is at its path by now.
ReadBytes(c) ==
  /\ \/ /\ Goto(c, "reading", "operation_done")
        /\ got' = [got EXCEPT ![c] = content[opened[c]]]
        /\ UNCHANGED <<error, faults>>
     \/ Fail(c, "reading", "operation_failed", "execution_failed") /\ Fault /\ UNCHANGED got
  /\ UNCHANGED <<result, trail, name, diskVars, opened>>
-----------------------------------------------------------------------------
AuthorizeStep(c) == ResolvePath(c) \/ AskForAccess(c)
WriteStep(c)     == Place(c) \/ CheckTarget(c) \/ Fill(c)
OverwriteStep(c) == OpenTemp(c) \/ Rename(c) \/ RemoveTemp(c)
ReadStep(c)      == OpenRead(c) \/ ReadBytes(c)

FileStep ==
  \/ \E c \in FileCalls : AuthorizeStep(c)
  \/ \E c \in Writes : WriteStep(c)
  \/ \E c \in Creates : OpenNew(c)
  \/ \E c \in Overwrites : OverwriteStep(c)
  \/ \E c \in Reads : ReadStep(c)
-----------------------------------------------------------------------------
(* Properties *)

\* Three overwrites that chose the same temporary name.
Crowded ==
  \E c \in Overwrites : \E d \in Overwrites \ {c} : \E e \in Overwrites \ {c, d} :
    name[c] \in Names /\ name[d] = name[c] /\ name[e] = name[c]

\* The record of a write tells what became of the file: its text has been at
\* the path, completely, when the record says so, and an overwrite that is
\* recorded as failed or denied has left the file alone.
PublishedAsRecorded ==
  ~Crowded =>
    \A c \in Writes :
      /\ Recorded(c, "operation", "succeeded") => c \in published /\ content[c] = "whole"
      /\ result[c] = "ok" => Recorded(c, "operation", "succeeded")
      /\ c \in Overwrites \cap published => ~Recorded(c, "operation", "failed") /\ ~Recorded(c, "operation", "denied")

\* A file is incomplete only while it is being created, or after that failed;
\* overwriting never leaves or shows a part of a text, whatever fails, unless
\* three overwrites share a temporary file.
FileIsWhole ==
  ~Crowded =>
    /\ live # NoFile /\ content[live] = "part" => live \in Creates /\ result[live] # "ok"
    /\ \A c \in Reads : got[c] = "part" => opened[c] \in Creates
=============================================================================

----------------------------- MODULE ShellTool -----------------------------
(***************************************************************************)
(* The handler of the tool shell.execute in packages/tools/src/index.ts    *)
(* and the default executor: a child process whose exit, the end of its    *)
(* output, a timer, the caller's abort signal and errors race for one      *)
(* promise.                                                                *)
(*                                                                         *)
(* The output is a sequence of bytes, of which two kinds of characters     *)
(* are made: "a" is one byte, "lead" and "cont" together are another.      *)
(* There is one stream; the other goes through the same code.              *)
(*                                                                         *)
(* Of the operating system: a killed child ends, by the signal or on its   *)
(* own; processes it has started may hold its output open after its end.   *)
(*                                                                         *)
(* Left out: cwd, environment and the choice of the shell; executors other *)
(* than the default one; a kill that fails in the job of the spawn itself. *)
(***************************************************************************)
EXTENDS ToolRegistry

CONSTANTS
  Shell,     \* the invocation
  MaxBytes,  \* maxOutputBytes of the request
  MaxOutput  \* bound on the bytes a child writes

ASSUME ShellAssumption == Shell \in Calls /\ MaxBytes \in Nat \ {0} /\ MaxOutput \in Nat

VARIABLES
  aborted,   \* the caller's signal
  child,     \* "none", "unborn" (spawn failed), "running", "exited" or "closed"
  exitCode,  \* "none", "zero", "nonzero", or "null" if a signal ended the child
  held,      \* processes of the child hold its output open
  killed,    \* child.killed
  timer,     \* the timer is armed
  timedOut,
  settled,   \* the executor's promise: "no", "resolved" or "rejected"
  pipe,      \* bytes written and not yet delivered
  sent,      \* history: all bytes delivered
  kept,      \* the bytes in stdoutChunks
  bytes,     \* stdoutBytes
  truncated  \* stdoutTruncated

childVars  == <<child, exitCode, held, pipe>>
racerVars  == <<killed, timer, timedOut, settled>>
outputVars == <<sent, kept, bytes, truncated>>
shellVars  == <<aborted, childVars, racerVars, outputVars>>

ShellInit ==
  /\ aborted = FALSE
  /\ child = "none" /\ exitCode = "none" /\ held = FALSE /\ pipe = <<>>
  /\ killed = FALSE /\ timer = FALSE /\ timedOut = FALSE /\ settled = "no"
  /\ sent = <<>> /\ kept = <<>> /\ bytes = 0 /\ truncated = FALSE
-----------------------------------------------------------------------------
(* killChild, finish and fail: parts of the executor's callbacks *)

\* A signal reaches a running child only, and only the first time; failing to
\* send it rejects the promise.
KillChild ==
  \/ /\ child = "running" /\ ~killed
     /\ killed' = TRUE
     /\ UNCHANGED <<settled, faults>>
  \/ /\ child # "running" \/ killed
     /\ UNCHANGED <<killed, settled, faults>>
  \/ /\ child = "running" /\ ~killed
     /\ settled' = "rejected" /\ Fault
     /\ UNCHANGED killed

\* Bug (mutation runs only): the timer sets its flag and leaves the child alone.
BugTimeoutSparesChild ==
  /\ timer /\ settled = "no"
  /\ timer' = FALSE /\ timedOut' = TRUE
  /\ UNCHANGED <<callVars, aborted, killed, settled, childVars, outputVars>>

\* The timer and the listener go with the first outcome.
Timeout ==
  /\ timer /\ settled = "no"
  /\ timedOut' = TRUE
  /\ KillChild
  /\ timer' = FALSE
  /\ UNCHANGED <<at, error, result, trail, aborted, childVars, outputVars>>
-----------------------------------------------------------------------------
(* The signal *)

\* Aborting is listened to while the executor runs.  The timer stays armed: its
\* second killChild finds a child that is killed already.
Abort ==
  /\ ~aborted /\ aborted' = TRUE
  /\ IF at[Shell] = "running" /\ settled = "no"
     THEN timedOut' = TRUE /\ KillChild
     ELSE UNCHANGED <<timedOut, killed, settled, faults>>
  /\ timer' = (timer /\ settled' = "no")
  /\ UNCHANGED <<at, error, result, trail, childVars, outputVars>>
-----------------------------------------------------------------------------
(* execute, up to the spawn *)

\* A command that was valid as input may still be refused as a request.
RefuseCommand ==
  /\ Fail(Shell, "executing", "operation_failed", "invalid_request")
  /\ UNCHANGED <<result, trail, faults, shellVars>>

\* ShellPolicy.authorize: a policy or a sink that throws is not caught here.
ShellCheck ==
  [from |-> "executing", yes |-> "granting", no |-> "forbidding",
   granted |-> "spawning",
   denied |-> "operation_failed", denial |-> "access_denied",
   broken |-> "catching", code |-> "execution_failed"]

AskForShell == Ask(Shell, ShellCheck) /\ UNCHANGED shellVars

\* The child is started.  A signal that was aborted before then kills it; a
\* spawn that throws rejects, any other failure comes as an event.
Spawn ==
  /\ Goto(Shell, "spawning", "running")
  /\ \/ child' = "running" /\ UNCHANGED faults
     \/ child' = "unborn" /\ Fault
  /\ timer' = TRUE
  /\ timedOut' = aborted
  /\ killed' = (aborted /\ child' = "running")
  /\ UNCHANGED <<error, result, trail, aborted, exitCode, held, pipe, settled, outputVars>>
-----------------------------------------------------------------------------
(* The child *)

Write(char) ==
  /\ child = "running" \/ held
  /\ Len(sent) + Len(pipe) + Len(char) <= MaxOutput
  /\ pipe' = pipe \o char
  /\ UNCHANGED <<callVars, aborted, child, exitCode, held, racerVars, outputVars>>

Exit ==
  /\ child = "running"
  /\ child' = "exited"
  /\ exitCode' \in {"zero", "nonzero", "null"}
  /\ held' \in BOOLEAN
  /\ UNCHANGED <<callVars, aborted, pipe, racerVars, outputVars>>

Release ==
  /\ held /\ held' = FALSE
  /\ UNCHANGED <<callVars, aborted, child, exitCode, pipe, racerVars, outputVars>>
-----------------------------------------------------------------------------
(* Events of the child *)

SpawnError ==
  /\ child = "unborn" /\ settled = "no"
  /\ settled' = "rejected" /\ timer' = FALSE
  /\ UNCHANGED <<callVars, aborted, killed, timedOut, childVars, outputVars>>

\* appendLimitedChunk and its caller.
AppendLimitedChunk(chunk) ==
  LET remaining == MaxBytes - bytes IN
  IF Len(chunk) <= remaining
  THEN kept' = kept \o chunk /\ bytes' = bytes + Len(chunk) /\ UNCHANGED truncated
  ELSE kept' = kept \o SubSeq(chunk, 1, remaining) /\ bytes' = MaxBytes /\ truncated' = TRUE

Data ==
  /\ \E n \in 1..Len(pipe) :
       /\ AppendLimitedChunk(SubSeq(pipe, 1, n))
       /\ sent' = sent \o SubSeq(pipe, 1, n)
       /\ pipe' = SubSeq(pipe, n + 1, Len(pipe))
  /\ UNCHANGED <<callVars, aborted, child, exitCode, held, racerVars>>

\* Bug (mutation runs only): the event exit is used, which does not wait for
\* the output.
BugCloseAtExit ==
  /\ child = "exited"
  /\ child' = "closed"
  /\ IF settled = "no" THEN settled' = "resolved" /\ timer' = FALSE ELSE UNCHANGED <<settled, timer>>
  /\ UNCHANGED <<callVars, aborted, exitCode, held, pipe, killed, timedOut, outputVars>>

\* The event close: the child has ended and its output has been read.
Close ==
  /\ child = "exited" /\ ~held /\ pipe = <<>>
  /\ child' = "closed"
  /\ IF settled = "no" THEN settled' = "resolved" /\ timer' = FALSE ELSE UNCHANGED <<settled, timer>>
  /\ UNCHANGED <<callVars, aborted, exitCode, held, pipe, killed, timedOut, outputVars>>
-----------------------------------------------------------------------------
(* execute, after the executor *)

\* decodeUtf8 replaces half a character by one of three bytes, which
\* validateShellExecutorResult counts.
DecodedBytes == IF kept # <<>> /\ kept[Len(kept)] = "lead" THEN Len(kept) + 2 ELSE Len(kept)
ValidResult  == DecodedBytes <= MaxBytes

\* Bug (mutation runs only): only the exit code counts.
BugCommandFailedByCode == exitCode = "nonzero"

CommandFailed == timedOut \/ exitCode = "nonzero"

\* An error and a result that is too long are thrown; the result of a command
\* that failed is returned all the same.
Resume ==
  /\ settled # "no"
  /\ \/ /\ settled = "rejected" \/ ~ValidResult
        /\ Fail(Shell, "running", "operation_failed", "execution_failed")
     \/ /\ settled = "resolved" /\ ValidResult
        /\ Goto(Shell, "running", IF CommandFailed THEN "command_failed" ELSE "operation_done")
        /\ UNCHANGED error
  /\ UNCHANGED <<result, trail, faults, shellVars>>

AuditFailedCommand ==
  /\ \/ Goto(Shell, "command_failed", "succeeding") /\ Log(Shell, "operation", "failed") /\ UNCHANGED <<error, faults>>
     \/ Fail(Shell, "command_failed", "catching", "execution_failed") /\ Fault /\ UNCHANGED trail
  /\ UNCHANGED <<result, shellVars>>
-----------------------------------------------------------------------------
ChildEvent    == SpawnError \/ Data \/ Close
ShellCallStep == RefuseCommand \/ AskForShell \/ Spawn \/ Resume \/ AuditFailedCommand
ChildStep     == (\E char \in {<<"a">>, <<"lead", "cont">>} : Write(char)) \/ Exit \/ Release
-----------------------------------------------------------------------------
(* Properties *)

\* What a settled command is said to have printed is everything it printed, or
\* exactly the part that fits if the result is marked as truncated, however the
\* output was cut into chunks and whoever wrote it after the child's end.
OutputIsAccountedFor ==
  settled = "resolved" =>
    /\ pipe = <<>>
    /\ kept = SubSeq(sent, 1, bytes)
    /\ truncated <=> Len(sent) > bytes
    /\ truncated => bytes = MaxBytes

\* The record of a command is true: it succeeded only if it ended before its
\* timeout and any abort, and not with an error code; what was denied was never
\* started ("Denied requests do not spawn a process", docs/tasks.json, P07-T07);
\* and a command is over when its result is out, unless it could not be killed.
CommandRecordIsTrue ==
  /\ Recorded(Shell, "operation", "succeeded") => child = "closed" /\ exitCode \in {"zero", "null"} /\ ~timedOut
  /\ Recorded(Shell, "permission", "denied") => child = "none"
  /\ at[Shell] = "over" /\ child # "none" => child \in {"unborn", "closed"} \/ settled = "rejected"

\* Processes that a command has left behind hold its output open.
Hung == at[Shell] = "running" /\ held

\* The executor bounds its output ("bounded cwd, env, timeout, and output"), so
\* that a command that ran is never thrown away for what it printed.
OutputIsWithinLimits == settled = "resolved" => ValidResult
=============================================================================

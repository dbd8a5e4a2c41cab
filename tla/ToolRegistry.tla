---------------------------- MODULE ToolRegistry ----------------------------
(***************************************************************************)
(* ToolRegistry.invokeResult of packages/tools/src/index.ts, around the    *)
(* handler of a tool, and the audit of the operation that handlers have in *)
(* common.  FileTools, WebTools and ShellTool are handlers; one begins at  *)
(* "executing" and ends at "succeeding", when it returns, or "catching",   *)
(* when it throws.                                                         *)
(*                                                                         *)
(* The audit records of an invocation are "tool", those of what its        *)
(* handler did "operation".                                                *)
(*                                                                         *)
(* Left out: details of schemas and metadata; tools that need no           *)
(* permission or several; registration, which is over before calls begin.  *)
(***************************************************************************)
EXTENDS AuditedCalls
-----------------------------------------------------------------------------
(* invokeResult up to the handler *)

Invoke(c) ==
  /\ \E to \in {"unknown", "requesting"} : Goto(c, "idle", to)
  /\ UNCHANGED <<error, result, trail, faults>>

RefuseUnknown(c) ==
  /\ \/ Return(c, "unknown", "not_found") /\ Log(c, "tool", "failed") /\ UNCHANGED faults
     \/ SinkRejects(c, "unknown")
  /\ UNCHANGED error

\* The input is validated as soon as the request is on record.
AuditRequested(c) ==
  \/ Goto(c, "requesting", "permitting") /\ Log(c, "tool", "requested") /\ UNCHANGED <<error, result, faults>>
  \/ Fail(c, "requesting", "refusing", "invalid_input") /\ Log(c, "tool", "requested") /\ UNCHANGED <<result, faults>>
  \/ SinkRejects(c, "requesting") /\ UNCHANGED error

InvocationCheck ==
  [from |-> "permitting", yes |-> "allowing", no |-> "denying",
   granted |-> "executing", denied |-> "refusing", denial |-> "denied",
   broken |-> "refusing", code |-> "execution_failed"]

\* An invocation that does not get to its handler.
Refuse(c) ==
  /\ \/ /\ Return(c, "refusing", error[c])
        /\ Log(c, "tool", IF error[c] = "denied" THEN "denied" ELSE "failed")
        /\ UNCHANGED faults
     \/ SinkRejects(c, "refusing")
  /\ UNCHANGED error
-----------------------------------------------------------------------------
(* The end of a handler *)

\* It audits its failure and throws, its own error or that of the sink.
AuditFailedOperation(c) ==
  /\ \/ /\ Goto(c, "operation_failed", "catching")
        /\ Log(c, "operation", IF error[c] = "access_denied" THEN "denied" ELSE "failed")
        /\ UNCHANGED <<error, faults>>
     \/ Fail(c, "operation_failed", "catching", "execution_failed") /\ Fault /\ UNCHANGED trail
  /\ UNCHANGED result

\* It audits its success and returns, or throws because of the sink.
AuditOperation(c) ==
  /\ \/ Goto(c, "operation_done", "succeeding") /\ Log(c, "operation", "succeeded") /\ UNCHANGED <<error, faults>>
     \/ Fail(c, "operation_done", "catching", "execution_failed") /\ Fault /\ UNCHANGED trail
  /\ UNCHANGED result
-----------------------------------------------------------------------------
(* The end of invokeResult *)

\* Bug (mutation runs only): the success is recorded before the output is validated.
BugAuditSucceededTooEarly(c) ==
  /\ Log(c, "tool", "succeeded")
  /\ \/ Return(c, "succeeding", "ok") /\ UNCHANGED <<error, faults>>
     \/ Fail(c, "succeeding", "catching", "invalid_output") /\ UNCHANGED <<result, faults>>

\* The output is validated; inside the try a sink that throws leads to the
\* catch block.
AuditSucceeded(c) ==
  \/ Return(c, "succeeding", "ok") /\ Log(c, "tool", "succeeded") /\ UNCHANGED <<error, faults>>
  \/ Fail(c, "succeeding", "catching", "execution_failed") /\ Fault /\ UNCHANGED <<result, trail>>

\* The catch block audits the failure; a sink that throws here makes it reject.
Catch(c) ==
  /\ \/ Return(c, "catching", error[c]) /\ Log(c, "tool", "failed") /\ UNCHANGED faults
     \/ SinkRejects(c, "catching")
  /\ UNCHANGED error
-----------------------------------------------------------------------------
InvocationStep(c) ==
  \/ Invoke(c) \/ RefuseUnknown(c) \/ AuditRequested(c)
  \/ Ask(c, InvocationCheck) \/ Refuse(c)
  \/ AuditFailedOperation(c) \/ AuditOperation(c)
  \/ AuditSucceeded(c) \/ Catch(c)
-----------------------------------------------------------------------------
RequestedFirst(c) == trail[c][1] = [of |-> "tool", outcome |-> "requested"]
=============================================================================

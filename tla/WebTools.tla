------------------------------ MODULE WebTools ------------------------------
(***************************************************************************)
(* The handlers web.fetch and web.search of packages/tools/src/index.ts.   *)
(* Both ask NetworkPolicy (packages/permissions), send one request through *)
(* a transport or a provider that they were given, and refuse some of the  *)
(* responses.  Neither cancels a request or bounds its time.               *)
(*                                                                         *)
(* Left out: what is in a response and which ones are refused (status,     *)
(* redirect, type, binary content; provider's name, malformed results).    *)
(***************************************************************************)
EXTENDS ToolRegistry

CONSTANT WebCalls \* invocations of the tools

ASSUME WebToolsAssumption == WebCalls \subseteq Calls

VARIABLE requested \* history: the calls whose request has been sent

WebInit == requested = {}
-----------------------------------------------------------------------------
(* NetworkPolicy.authorize: unlike with files, a policy or a sink that throws
   is not caught here, and the operation leaves no record *)

RequestCheck ==
  [from |-> "executing", yes |-> "granting", no |-> "forbidding",
   granted |-> "sending",
   denied |-> "operation_failed", denial |-> "access_denied",
   broken |-> "catching", code |-> "execution_failed"]

\* A URL that was valid as input may still be refused as a request.
RefuseRequest(c) ==
  /\ Fail(c, "executing", "operation_failed", "invalid_request")
  /\ UNCHANGED <<result, trail, faults, requested>>

AskForRequest(c) == Ask(c, RequestCheck) /\ UNCHANGED requested
-----------------------------------------------------------------------------
Send(c) ==
  /\ Goto(c, "sending", "responding")
  /\ requested' = requested \cup {c}
  /\ UNCHANGED <<error, result, trail, faults>>

\* A response that is accepted, or one that is refused, or an error.
Respond(c) ==
  /\ \/ Goto(c, "responding", "operation_done") /\ UNCHANGED error
     \/ Fail(c, "responding", "operation_failed", "execution_failed")
  /\ UNCHANGED <<result, trail, faults, requested>>
-----------------------------------------------------------------------------
WebStep ==
  \E c \in WebCalls :
    RefuseRequest(c) \/ AskForRequest(c) \/ Send(c) \/ Respond(c)
=============================================================================

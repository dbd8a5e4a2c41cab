------------------------------- MODULE Tools -------------------------------
(***************************************************************************)
(* The tool registry with its file and web tools: calls of either kind run *)
(* beside each other, with one policy and one audit sink.                  *)
(***************************************************************************)
EXTENDS FileTools, WebTools

ASSUME ToolsAssumption == Calls = FileCalls \cup WebCalls /\ FileCalls \cap WebCalls = {}

toolsVars == <<callVars, fileVars, requested>>

ToolsInit == CallsInit /\ FilesInit /\ WebInit

ToolsNext ==
  \/ (\E c \in Calls : InvocationStep(c)) /\ UNCHANGED <<fileVars, requested>>
  \/ FileStep /\ UNCHANGED requested
  \/ WebStep /\ UNCHANGED fileVars
  \/ AllOver /\ UNCHANGED <<fileVars, requested>>

ToolsSpec == ToolsInit /\ [][ToolsNext]_toolsVars
-----------------------------------------------------------------------------
(* Properties *)

\* An invocation that returns has one closing record, the last one, that says
\* what it returned, and one of the request before it unless there is no such
\* tool: however policies, sinks and handlers fail.
ClosedOnce ==
  \A c \in Calls : Returned(c) =>
    ClosedAsReturned(c, "tool") /\ (result[c] = "not_found" \/ RequestedFirst(c))

\* "Denied approval leaves files unchanged" (docs/tasks.json, P07-T04), and no
\* request leaves without one: nothing is written, put in place or sent for a
\* call before both of its permissions were granted and recorded.
EffectsArePermitted ==
  [][\A c \in Calls :
       \/ c \in Writes /\ (content'[c] # content[c] \/ published' \ published = {c})
       \/ requested' \ requested = {c}
       => Allowed(c) = 2]_toolsVars
=============================================================================

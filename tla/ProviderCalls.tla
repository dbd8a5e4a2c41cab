--------------------------- MODULE ProviderCalls ---------------------------
(***************************************************************************)
(* A chat call of packages/providers/src/index.ts from its permission to   *)
(* its last audit record: ProviderRegistry.chatResult, chatResult of       *)
(* OpenAIProvider and MockProvider called directly, and the request of the *)
(* OpenAI-compatible adapter, which needs a permission of its own and a    *)
(* secret (SecretStore).  AgentRunner has the registry's part once more,   *)
(* inside the race that a turn makes of it.                                *)
(*                                                                         *)
(* Of the transport: it is fetch, which rejects as soon as its signal is   *)
(* aborted.  A server may never answer.                                    *)
(*                                                                         *)
(* Left out: messages and bodies, registration, model listing.             *)
(***************************************************************************)
EXTENDS SecretStore

CONSTANTS
  ChatCalls, \* calls of chatResult
  Direct,    \* those made to the provider, not to the registry
  Mocked     \* those of MockProvider

ASSUME ProvidersAssumption ==
  /\ Direct \subseteq ChatCalls /\ Mocked \subseteq ChatCalls
  /\ ChatCalls \cap Resolutions = {}
  /\ \A c \in ChatCalls \ Mocked : c \in Readers /\ ActiveOf[c] = <<TRUE>>

VARIABLES
  cancelled, \* the calls whose signal was aborted
  posted     \* history: the calls whose request was sent

providerVars == <<cancelled, posted>>

ProvidersInit == cancelled = {} /\ posted = {}

Cancel(c) ==
  /\ at[c] \notin {"never", "over"} /\ c \notin cancelled
  /\ cancelled' = cancelled \cup {c}
  /\ UNCHANGED <<callVars, secretVars, posted>>
-----------------------------------------------------------------------------
(* chatResult, up to the call of the adapter *)

\* The registry looks for the provider, whether it can chat, and for a policy;
\* a provider looks at the signal instead.
Chat(c) ==
  /\ \/ Goto(c, "idle", "deciding") /\ ~(c \in Direct \cap cancelled) /\ UNCHANGED <<error, result>>
     \/ Return(c, "idle", "unavailable") /\ c \notin Direct /\ UNCHANGED error
     \/ Fail(c, "idle", "refusing", "turn_cancelled") /\ c \in Direct \cap cancelled /\ UNCHANGED result
  /\ UNCHANGED <<trail, faults, secretVars, providerVars>>

ChatCheck(c) ==
  [from |-> "deciding", yes |-> "granting", no |-> "forbidding",
   granted |-> IF c \in Direct \cap Mocked THEN "mocking" ELSE "calling",
   denied |-> "refusing", denial |-> "denied",
   broken |-> "refusing", code |-> "execution_failed"]

AskForChat(c) == Ask(c, ChatCheck(c)) /\ UNCHANGED <<secretVars, providerVars>>

RefuseChat(c) ==
  /\ \/ /\ Return(c, "refusing", error[c])
        /\ Log(c, "call", IF error[c] = "denied" THEN "denied" ELSE "failed")
        /\ UNCHANGED faults
     \/ SinkRejects(c, "refusing")
  /\ UNCHANGED <<error, secretVars, providerVars>>

\* MockProvider.chatResult audits its answer where nothing catches, and does
\* not look at the signal again.
AuditMockAnswer(c) ==
  /\ \/ Return(c, "mocking", "ok") /\ Log(c, "call", "succeeded") /\ UNCHANGED faults
     \/ SinkRejects(c, "mocking")
  /\ UNCHANGED <<error, secretVars, providerVars>>
-----------------------------------------------------------------------------
(* The catch block looks at the signal first *)

Caught(c, code) == IF c \in cancelled THEN "turn_cancelled" ELSE code

Throw(c, from, code) == Fail(c, from, "catching", Caught(c, code))
-----------------------------------------------------------------------------
(* OpenAIProvider[providerRawChat] *)

\* It needs a model; MockProvider[providerRawChat] answers at once.
CallAdapter(c) ==
  /\ \/ Goto(c, "calling", IF c \in Mocked THEN "answering" ELSE "authorizing") /\ UNCHANGED error
     \/ c \notin Mocked /\ Throw(c, "calling", "execution_failed")
  /\ UNCHANGED <<result, trail, faults, secretVars, providerVars>>

\* NetworkPolicy.authorize.
EndpointCheck(c) ==
  [from |-> "authorizing", yes |-> "permitting", no |-> "denying",
   granted |-> "resolving",
   denied |-> "catching", denial |-> Caught(c, "permission.denied"),
   broken |-> "catching", code |-> Caught(c, "execution_failed")]

AskForEndpoint(c) == Ask(c, EndpointCheck(c)) /\ UNCHANGED <<secretVars, providerVars>>

ReadCredential(c) == c \in Readers /\ SecretStep(c) /\ UNCHANGED providerVars

\* Nothing has looked at the signal until fetch does.
Post(c) ==
  /\ at[c] = "answered"
  /\ IF Outcome(c) = "resolved" /\ c \notin cancelled
     THEN Goto(c, "answered", "responding") /\ posted' = posted \cup {c} /\ UNCHANGED error
     ELSE Throw(c, "answered", SecretError(c)) /\ UNCHANGED posted
  /\ UNCHANGED <<result, trail, faults, secretVars, cancelled>>

\* A response that is accepted, or one that is refused, or an error.
Respond(c) ==
  /\ \/ Goto(c, "responding", "answering") /\ UNCHANGED error
     \/ Throw(c, "responding", "execution_failed")
  /\ UNCHANGED <<result, trail, faults, secretVars, providerVars>>

AbortRequest(c) ==
  /\ c \in cancelled /\ Throw(c, "responding", "execution_failed")
  /\ UNCHANGED <<result, trail, faults, secretVars, providerVars>>
-----------------------------------------------------------------------------
(* chatResult, after the adapter *)

\* The signal is looked at, once.
CheckSignal(c) ==
  /\ IF c \in cancelled
     THEN Fail(c, "answering", "aborting", "turn_cancelled")
     ELSE Goto(c, "answering", "succeeding") /\ UNCHANGED error
  /\ UNCHANGED <<result, trail, faults, secretVars, providerVars>>

\* Bug (mutation runs only): the answer is on record before the signal is
\* looked at.
BugAuditAnswerTooEarly(c) ==
  /\ \/ /\ at[c] \in {"aborting", "succeeding"}
        /\ Log(c, "call", "succeeded")
        /\ \/ Return(c, "succeeding", "ok") /\ UNCHANGED error
           \/ Throw(c, "aborting", "turn_cancelled") /\ UNCHANGED result
        /\ UNCHANGED faults
     \/ /\ \E from \in {"aborting", "succeeding"} : Throw(c, from, "execution_failed")
        /\ Fault /\ UNCHANGED <<result, trail>>
  /\ UNCHANGED <<secretVars, providerVars>>

\* The audit is inside the try.
AuditAnswer(c) ==
  /\ \/ Return(c, "succeeding", "ok") /\ Log(c, "call", "succeeded") /\ UNCHANGED <<error, faults>>
     \/ Return(c, "aborting", error[c]) /\ Log(c, "call", "failed") /\ UNCHANGED <<error, faults>>
     \/ /\ \E from \in {"aborting", "succeeding"} : Throw(c, from, "execution_failed")
        /\ Fault /\ UNCHANGED <<result, trail>>
  /\ UNCHANGED <<secretVars, providerVars>>

CatchChat(c) ==
  /\ \/ Return(c, "catching", error[c]) /\ Log(c, "call", "failed") /\ UNCHANGED faults
     \/ SinkRejects(c, "catching")
  /\ UNCHANGED <<error, secretVars, providerVars>>
-----------------------------------------------------------------------------
\* All but the answer of the server, which may not come.
ChatStep(c) ==
  \/ Chat(c) \/ AskForChat(c) \/ RefuseChat(c) \/ AuditMockAnswer(c)
  \/ CallAdapter(c) \/ AskForEndpoint(c) \/ ReadCredential(c) \/ Post(c) \/ AbortRequest(c)
  \/ CheckSignal(c) \/ AuditAnswer(c) \/ CatchChat(c)

Unanswered(c) == at[c] = "responding" /\ c \notin cancelled
=============================================================================

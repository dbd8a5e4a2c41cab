------------------------------ MODULE Services ------------------------------
(***************************************************************************)
(* The operations that reach outside of the process and keep no files of   *)
(* their own: a command, calls of a provider, the resolution of secrets,   *)
(* and the configuration file.  They share the policy, the audit sink and  *)
(* its faults; of what they do, only configuration calls meet each other.  *)
(***************************************************************************)
EXTENDS ShellTool, ProviderCalls, ConfigEditor

ASSUME ServicesAssumption ==
  /\ Calls = {Shell} \cup ChatCalls \cup Resolutions \cup ConfigCalls
  /\ Shell \notin ChatCalls \cup Resolutions \cup ConfigCalls
  /\ (ChatCalls \cup Resolutions) \cap ConfigCalls = {}

beyondVars   == <<secretVars, providerVars>>
servicesVars == <<callVars, shellVars, beyondVars, configVars>>

\* The file is of interest only to those who use it.
ServicesInit ==
  /\ CallsInit /\ ShellInit /\ SecretsInit /\ ProvidersInit /\ ConfigInit
  /\ (\A c \in ConfigCalls : at[c] = "never") => file = NoConfig

\* The steps that are taken as long as policies, sinks and the disk answer.
CallStep(c) ==
  \/ c = Shell /\ InvocationStep(c) /\ UNCHANGED <<shellVars, beyondVars, configVars>>
  \/ c = Shell /\ ShellCallStep /\ UNCHANGED <<beyondVars, configVars>>
  \/ c \in ChatCalls /\ ChatStep(c) /\ UNCHANGED <<shellVars, configVars>>
  \/ c \in Resolutions /\ ResolutionStep(c) /\ UNCHANGED <<shellVars, providerVars, configVars>>
  \/ c \in ConfigCalls /\ ConfigStep(c) /\ UNCHANGED <<shellVars, beyondVars>>

\* What others do: callers, the child, servers, and the end of a process.
OtherStep ==
  \/ at[Shell] # "never" /\ (Abort \/ Timeout \/ ChildStep \/ ChildEvent) /\ UNCHANGED <<beyondVars, configVars>>
  \/ (\E c \in ChatCalls : Cancel(c) \/ Respond(c)) /\ UNCHANGED <<shellVars, configVars>>
  \/ (\E c \in ConfigCalls : Die(c)) /\ UNCHANGED <<shellVars, beyondVars>>

ServicesNext ==
  \/ \E c \in Calls : CallStep(c)
  \/ OtherStep
  \/ AllOver /\ UNCHANGED servicesVars

\* Timers fire and events are delivered.  A killed child ends; a child left
\* alone, those that hold its output and servers do not have to do anything.
ServicesSpec ==
  /\ ServicesInit
  /\ [][ServicesNext]_servicesVars
  /\ \A c \in Calls : WF_servicesVars(CallStep(c))
  /\ WF_servicesVars(Timeout /\ UNCHANGED <<beyondVars, configVars>>)
  /\ WF_servicesVars(killed /\ Exit /\ UNCHANGED <<beyondVars, configVars>>)
  /\ WF_servicesVars(ChildEvent /\ UNCHANGED <<beyondVars, configVars>>)
-----------------------------------------------------------------------------
(* Properties *)

\* A call that returns has one closing record, the last one, that says what it
\* returned: however policies, sinks, stores and servers fail and whenever the
\* signal is aborted.  Only a call that was turned down at once has none.
ClosedOnce ==
  \A c \in Calls \ Resolutions : Returned(c) =>
    \/ result[c] \in {"unavailable", "invalid"} /\ trail[c] = <<>>
    \/ result[c] = "lost"
    \/ ClosedAsReturned(c, IF c = Shell THEN "tool" ELSE "call")

\* What is on record of a command and of a write is what happened.
RecordsAreTrue == CommandRecordIsTrue /\ WriteRecordIsTrue

\* "Denied requests do not spawn a process" (docs/tasks.json, P07-T07), nor do
\* they reach a server: a command starts after its two permissions were granted
\* and recorded, a request leaves after its three, the one for its key
\* included, with a key that was found, and not once it is cancelled.
NothingWithoutConsent ==
  [][/\ child = "none" /\ child' # "none" => Allowed(Shell) = 2
     /\ \A c \in posted' \ posted : Allowed(c) = 3 /\ Latest(c) = "value" /\ c \notin cancelled]_servicesVars

\* Every call comes to its end, whatever fails and whatever is refused: a
\* command by itself, by its timeout or by an abort, unless processes it has
\* left behind hold its output open for ever; a request by its answer or by an
\* abort, which nobody but the caller bounds.
CallsEnd == \A c \in Calls : []<>(at[c] \in {"never", "over"} \/ (c = Shell /\ Hung) \/ (c \in ChatCalls /\ Unanswered(c)))
=============================================================================

---------------------------- MODULE AgentRunner ----------------------------
(***************************************************************************)
(* AgentRunner of packages/core/src/index.ts, with the provider call it    *)
(* makes through ProviderRegistry.chatResult (packages/providers) and the  *)
(* turn queue it runs on (SessionTurnQueue).                               *)
(*                                                                         *)
(* A turn is one call of runTurn.  phase[t] is the await runTurnNow stands *)
(* at, and an action is what happens from one await to the next.  The      *)
(* provider call is an activity of its own: call[t] is the await at which  *)
(* chatResult stands, and it goes on when the turn has stopped waiting for *)
(* it.  race[t] is the promise of runProviderChat, settled once by the     *)
(* answer, the timer or the caller's abort signal.                         *)
(*                                                                         *)
(* The transcript of a session is what its appends have put into its file, *)
(* in the order of the store's chain: all of a line, or what an append     *)
(* that was cut off has left of it, behind which the next one does not     *)
(* begin a line of its own.  How the file gets that way is                 *)
(* TranscriptStore's.  A fault is an append, a read, a session update or   *)
(* an audit sink that fails; MaxFaults bounds them.                        *)
(*                                                                         *)
(* Left out: contents, models and metadata; logging; the audit records the *)
(* stores write for their own file accesses.                               *)
(***************************************************************************)
EXTENDS SessionTurnQueue, Sequences, Functions

CONSTANTS
  Sessions,   \* agent sessions
  SessionOf,  \* the session a turn is run in
  HasTimeout, \* turns with a timeoutMs, or whose runner has a default one
  HasSignal,  \* turns given an AbortSignal by their caller
  MaxFaults   \* bound on the failures of the environment

ASSUME RunnerAssumption ==
  /\ SessionOf \in [Turns -> Sessions]
  /\ HasTimeout \subseteq Turns
  /\ HasSignal \subseteq Turns
  /\ MaxFaults \in Nat

VARIABLES
  phase,      \* where runTurnNow is
  failure,    \* the error it carries to its return
  result,     \* what the promise of runTurn was settled with
  race,       \* the promise of runProviderChat
  call,       \* where ProviderRegistry.chatResult is
  verdict,    \* what chatResult has found out so far
  aborted,    \* turns whose AbortController has been aborted
  cancelled,  \* turns whose caller has aborted its signal
  transcript, \* what is in the transcript file of each session, oldest first
  context,    \* the messages a turn sent to its provider, by their places in the transcript
  audit,      \* audit records of each turn, oldest first
  events,     \* domain events each turn emitted, oldest first
  persisted,  \* sessions with a metadata file in the session store, chosen initially
  touched,    \* turns whose interaction is in the session store
  faults      \* failures of the environment so far

callVars    == <<race, call, verdict, aborted>>
logVars     == <<transcript, audit, events>>
sessionVars == <<persisted, touched>>
runnerVars  == <<phase, failure, result, race, call, verdict, aborted, cancelled,
                 transcript, context, audit, events, persisted, touched, faults>>
vars        == <<queueVars, runnerVars>>

\* Errors of the provider call: what runProviderChat rejects with.
CallFailures == {"not_found", "unsupported", "denied", "failed", "cancelled", "timedout"}
\* Of turns that are not enqueued.
Refusals == {"invalid_input", "invalid_routing_key"}

\* phase[t] is idle, lifecycle, user, read, audit_requested, emit_requested,
\* provider, audit_succeeded, emit_succeeded, assistant, touch, emit_updated,
\* audit_failed, emit_failed, audit_read_failed, emit_runtime_failed, error or
\* returned; call[t] is none, scheduled, deciding, audit_decision, chatting,
\* audit_in_try, audit, returned or over.

RunnerInit ==
  /\ QueueInit
  /\ phase = [t \in Turns |-> "idle"]
  /\ failure = [t \in Turns |-> "none"]
  /\ result = [t \in Turns |-> "none"]
  /\ race = [t \in Turns |-> "idle"]
  /\ call = [t \in Turns |-> "none"]
  /\ verdict = [t \in Turns |-> "none"]
  /\ aborted = {}
  /\ cancelled = {}
  /\ transcript = [s \in Sessions |-> <<>>]
  /\ context = [t \in Turns |-> <<>>]
  /\ audit = [t \in Turns |-> <<>>]
  /\ events = [t \in Turns |-> <<>>]
  /\ persisted \in SUBSET Sessions
  /\ touched = {}
  /\ faults = 0
-----------------------------------------------------------------------------
Fault == faults < MaxFaults /\ faults' = faults + 1

Goto(t, from, to) == phase[t] = from /\ phase' = [phase EXCEPT ![t] = to]

\* How much of its line an append has put into the file: not all of the JSON
\* text, all of it but not the newline, or everything.
Parts == {"torn", "body", "line"}

Put(t, type, part) ==
  transcript' = [transcript EXCEPT ![SessionOf[t]] =
                   Append(@, [turn |-> t, type |-> type, part |-> part])]

Record(t, type) == Put(t, type, "line")

CutOff(entry) == entry.part # "line"

\* Nothing but one JSON text is on the line: its own, whole, with no append that
\* was cut off before it, and none after it if it was cut off itself.
Readable(log, n) ==
  /\ log[n].part # "torn"
  /\ n - 1 \in DOMAIN log => ~CutOff(log[n - 1])
  /\ n + 1 \in DOMAIN log => ~CutOff(log[n])

\* appendAuditEvent; `by` is the package that audits.
Audit(t, by, outcome) ==
  audit' = [audit EXCEPT ![t] = Append(@, [by |-> by, outcome |-> outcome])]

Emit(t, event) == events' = [events EXCEPT ![t] = Append(@, event)]

Fail(t, code) == failure' = [failure EXCEPT ![t] = code]

\* runTurnNow returns a Result: the promise handed out by the queue resolves.
Return(t, from, code) ==
  /\ Goto(t, from, "returned")
  /\ Finish(t, "resolved")
  /\ result' = [result EXCEPT ![t] = code]

\* An audit sink that throws is caught nowhere in runTurnNow.
Throw(t, from) ==
  /\ Goto(t, from, "returned")
  /\ Fault
  /\ Finish(t, "rejected")
  /\ result' = [result EXCEPT ![t] = "rejected"]
  /\ UNCHANGED <<logVars, failure>>

\* An append that fails may still have put its line into the file, or a piece.
AppendFails(t, type) ==
  Fault /\ (UNCHANGED transcript \/ \E part \in Parts : Put(t, type, part))
-----------------------------------------------------------------------------
(* runTurn *)

\* Content, timeout and routing key are checked before the queue is involved.
Refuse(t) ==
  /\ stage[t] = "new" /\ result[t] = "none"
  /\ \E code \in Refusals : result' = [result EXCEPT ![t] = code]
  /\ UNCHANGED <<queueVars, phase, failure, callVars, cancelled, context, logVars, sessionVars, faults>>

Submit(t) ==
  /\ result[t] = "none"
  /\ Enqueue(t)
  /\ UNCHANGED runnerVars

BeginTurn(t) ==
  /\ Start(t)
  /\ Goto(t, "idle", "lifecycle")
  /\ UNCHANGED <<failure, result, callVars, cancelled, context, logVars, sessionVars, faults>>

Release(t) ==
  /\ Settle(t)
  /\ UNCHANGED runnerVars
-----------------------------------------------------------------------------
(* runTurnNow up to the provider call *)

AwaitAppend(t, from, type, to) ==
  /\ \/ Goto(t, from, to) /\ Record(t, type) /\ UNCHANGED <<failure, faults>>
     \/ /\ Goto(t, from, "emit_runtime_failed")
        /\ AppendFails(t, type)
        /\ Fail(t, "transcript")
  /\ UNCHANGED <<queueVars, result, callVars, cancelled, context, audit, events, sessionVars>>

\* Bug (mutation runs only): the result of the assistant append is not looked at.
BugAppendAssistantUnchecked(t) ==
  /\ Goto(t, "assistant", "touch")
  /\ \/ Record(t, "assistant") /\ UNCHANGED faults
     \/ Fault /\ UNCHANGED transcript
  /\ UNCHANGED <<queueVars, failure, result, callVars, cancelled, context, audit, events, sessionVars>>

AppendLifecycle(t) == AwaitAppend(t, "lifecycle", "lifecycle", "user")
AppendUser(t)      == AwaitAppend(t, "user", "user", "read")
AppendAssistant(t) == AwaitAppend(t, "assistant", "assistant", "touch")

\* Bug (mutation runs only): assistant messages are not sent back as context.
BugIsMessageUserOnly(event) == event.type = "user"

IsMessage(event) == event.type \in {"user", "assistant"}

\* What cannot be read is skipped, and the filter keeps the order: a message is
\* found where it is in the transcript.
Messages(log) == Restrict(log, {i \in DOMAIN log : IsMessage(log[i]) /\ Readable(log, i)})

ReadTranscript(t) ==
  /\ \/ /\ Goto(t, "read", "audit_requested")
        /\ context' = [context EXCEPT ![t] = Messages(transcript[SessionOf[t]])]
        /\ UNCHANGED <<failure, faults>>
     \/ /\ Goto(t, "read", "audit_read_failed")
        /\ Fault
        /\ Fail(t, "read")
        /\ UNCHANGED context
  /\ UNCHANGED <<queueVars, result, callVars, cancelled, logVars, sessionVars>>

\* auditRunnerProviderCall: one record of the runner's envelope, or a throw.
AwaitAudit(t, from, outcome, to) ==
  /\ \/ /\ Goto(t, from, to)
        /\ Audit(t, "core", outcome)
        /\ UNCHANGED <<queueVars, failure, result, transcript, events, faults>>
     \/ Throw(t, from)
  /\ UNCHANGED <<callVars, cancelled, context, sessionVars>>

\* Bug (mutation runs only): the failure is recorded after the turn has returned.
BugAuditFailedUnawaited(t) ==
  /\ Goto(t, "audit_failed", "emit_failed")
  /\ Audit(t, "core", "failed")
  /\ Finish(t, "resolved")
  /\ result' = [result EXCEPT ![t] = failure[t]]
  /\ UNCHANGED <<failure, callVars, cancelled, transcript, context, events, sessionVars, faults>>

AuditRequested(t)  == AwaitAudit(t, "audit_requested", "requested", "emit_requested")
AuditReadFailed(t) == AwaitAudit(t, "audit_read_failed", "failed", "emit_runtime_failed")
AuditSucceeded(t)  == AwaitAudit(t, "audit_succeeded", "succeeded", "emit_succeeded")
AuditFailed(t) ==
  AwaitAudit(t, "audit_failed", IF failure[t] = "denied" THEN "denied" ELSE "failed", "emit_failed")

\* Bug (mutation runs only): a turn whose signal is already aborted returns unrecorded.
BugEmitRequestedUnrecorded(t) ==
  /\ Emit(t, "call_requested")
  /\ IF t \in cancelled
     THEN /\ Return(t, "emit_requested", "cancelled")
          /\ Fail(t, "cancelled")
          /\ UNCHANGED <<race, call>>
     ELSE /\ Goto(t, "emit_requested", "provider")
          /\ race' = [race EXCEPT ![t] = "open"]
          /\ call' = [call EXCEPT ![t] = "scheduled"]
          /\ UNCHANGED <<queueVars, result, failure>>
  /\ UNCHANGED <<verdict, aborted, cancelled, transcript, context, audit, sessionVars, faults>>

\* The event is out; a signal aborted by now is noticed, otherwise
\* runProviderChat arms the timer, listens to the signal and schedules the call.
EmitRequested(t) ==
  /\ Emit(t, "call_requested")
  /\ IF t \in cancelled
     THEN /\ Goto(t, "emit_requested", "audit_failed")
          /\ Fail(t, "cancelled")
          /\ UNCHANGED <<race, call>>
     ELSE /\ Goto(t, "emit_requested", "provider")
          /\ race' = [race EXCEPT ![t] = "open"]
          /\ call' = [call EXCEPT ![t] = "scheduled"]
          /\ UNCHANGED failure
  /\ UNCHANGED <<queueVars, result, verdict, aborted, cancelled, transcript, context, audit, sessionVars, faults>>
-----------------------------------------------------------------------------
(* runProviderChat: the race *)

\* The first to come settles the promise, and runTurnNow goes on accordingly.
SettleRace(t, outcome) ==
  /\ race' = [race EXCEPT ![t] = outcome]
  /\ IF outcome = "ok"
     THEN Goto(t, "provider", "audit_succeeded") /\ UNCHANGED failure
     ELSE Goto(t, "provider", "audit_failed") /\ Fail(t, outcome)

\* Bug (mutation runs only): the timer aborts the signal and waits for the call to notice.
BugTimeoutOnlyAborts(t) ==
  /\ t \in HasTimeout \ aborted
  /\ race[t] = "open"
  /\ aborted' = aborted \cup {t}
  /\ UNCHANGED <<queueVars, phase, failure, race, result, call, verdict, cancelled, context, logVars, sessionVars, faults>>

Timeout(t) ==
  /\ t \in HasTimeout
  /\ race[t] = "open"
  /\ aborted' = aborted \cup {t}
  /\ SettleRace(t, "timedout")
  /\ UNCHANGED <<queueVars, result, call, verdict, cancelled, context, logVars, sessionVars, faults>>

\* The listener is there during the race; before it the signal is looked at when
\* the race would begin.  An abort that comes later changes nothing and is left out.
CallerAbort(t) ==
  /\ t \in HasSignal \ cancelled
  /\ race[t] \in {"idle", "open"} /\ stage[t] \notin Finished
  /\ cancelled' = cancelled \cup {t}
  /\ IF race[t] = "open"
     THEN aborted' = aborted \cup {t} /\ SettleRace(t, "cancelled")
     ELSE UNCHANGED <<aborted, race, phase, failure>>
  /\ UNCHANGED <<queueVars, result, call, verdict, context, logVars, sessionVars, faults>>

\* The answer of chatResult reaches the race, perhaps too late.
CallAnswers(t) ==
  /\ call[t] = "returned"
  /\ call' = [call EXCEPT ![t] = "over"]
  /\ IF race[t] = "open"
     THEN SettleRace(t, verdict[t])
     ELSE UNCHANGED <<race, phase, failure>>
  /\ UNCHANGED <<queueVars, result, verdict, aborted, cancelled, context, logVars, sessionVars, faults>>
-----------------------------------------------------------------------------
(* ProviderRegistry.chatResult *)

CallGoto(t, from, to, v) ==
  /\ call[t] = from
  /\ call' = [call EXCEPT ![t] = to]
  /\ verdict' = [verdict EXCEPT ![t] = v]

callFrame == <<queueVars, phase, failure, result, race, aborted, cancelled,
               transcript, context, events, sessionVars>>

\* The provider is missing, cannot chat, or is asked about.
LookUp(t) ==
  /\ \/ \E v \in {"not_found", "unsupported"} : CallGoto(t, "scheduled", "returned", v)
     \/ CallGoto(t, "scheduled", "deciding", "none")
  /\ UNCHANGED <<callFrame, audit, faults>>

\* policy.decide answers, possibly after a person has been asked, or throws.
Decide(t) ==
  /\ \/ \E v \in {"allow", "deny"} : CallGoto(t, "deciding", "audit_decision", v) /\ UNCHANGED faults
     \/ CallGoto(t, "deciding", "audit", "failed") /\ Fault
  /\ UNCHANGED <<callFrame, audit>>

\* Bug (mutation runs only): a decision that could not be audited is acted upon all the same.
BugAuditDecisionSinkIgnored(t) ==
  /\ \/ verdict[t] = "allow" /\ CallGoto(t, "audit_decision", "chatting", "none")
     \/ verdict[t] = "deny" /\ CallGoto(t, "audit_decision", "audit", "denied")
  /\ \/ Audit(t, "permissions", IF verdict[t] = "allow" THEN "allowed" ELSE "denied") /\ UNCHANGED faults
     \/ Fault /\ UNCHANGED audit
  /\ UNCHANGED callFrame

\* The decision is audited before it is acted upon; a sink that throws here is
\* caught like a policy that throws.
AuditDecision(t) ==
  /\ \/ /\ verdict[t] = "allow"
        /\ CallGoto(t, "audit_decision", "chatting", "none")
        /\ Audit(t, "permissions", "allowed")
        /\ UNCHANGED faults
     \/ /\ verdict[t] = "deny"
        /\ CallGoto(t, "audit_decision", "audit", "denied")
        /\ Audit(t, "permissions", "denied")
        /\ UNCHANGED faults
     \/ CallGoto(t, "audit_decision", "audit", "failed") /\ Fault /\ UNCHANGED audit
  /\ UNCHANGED callFrame

\* The provider answers or throws.  An answer is audited inside the try.
ProviderAnswers(t) ==
  /\ \/ CallGoto(t, "chatting", "audit_in_try", IF t \in aborted THEN "cancelled" ELSE "ok")
     \/ CallGoto(t, "chatting", "audit", IF t \in aborted THEN "cancelled" ELSE "failed")
  /\ UNCHANGED <<callFrame, audit, faults>>

AuditCall(t) ==
  Audit(t, "providers", CASE verdict[t] = "ok" -> "succeeded"
                          [] verdict[t] = "denied" -> "denied"
                          [] OTHER -> "failed")

\* Inside the try a sink that throws leads to the catch block, which audits again.
AuditCallInTry(t) ==
  /\ \/ CallGoto(t, "audit_in_try", "returned", verdict[t]) /\ AuditCall(t) /\ UNCHANGED faults
     \/ /\ CallGoto(t, "audit_in_try", "audit", IF t \in aborted THEN "cancelled" ELSE "failed")
        /\ Fault
        /\ UNCHANGED audit
  /\ UNCHANGED callFrame

\* Outside it makes chatResult reject; the runner reports an execution failure.
AuditCallOutcome(t) ==
  /\ \/ CallGoto(t, "audit", "returned", verdict[t]) /\ AuditCall(t) /\ UNCHANGED faults
     \/ CallGoto(t, "audit", "returned", "failed") /\ Fault /\ UNCHANGED audit
  /\ UNCHANGED callFrame
-----------------------------------------------------------------------------
(* runTurnNow after the provider call *)

emitFrame == <<queueVars, failure, result, callVars, cancelled, transcript, context, audit, sessionVars, faults>>

EmitSucceeded(t) ==
  Goto(t, "emit_succeeded", "assistant") /\ Emit(t, "call_succeeded") /\ UNCHANGED emitFrame

EmitFailed(t) ==
  Goto(t, "emit_failed", "error") /\ Emit(t, "call_failed") /\ UNCHANGED emitFrame

\* touchSession: the store updates the session, has no file for it, or fails.
TouchSession(t) ==
  /\ \/ /\ SessionOf[t] \in persisted
        /\ touched' = touched \cup {t}
        /\ Goto(t, "touch", "emit_updated")
        /\ UNCHANGED <<queueVars, failure, result, faults>>
     \/ /\ SessionOf[t] \notin persisted
        /\ Return(t, "touch", "ok")
        /\ UNCHANGED <<failure, touched, faults>>
     \/ /\ Goto(t, "touch", "emit_runtime_failed")
        /\ Fault
        /\ Fail(t, "session")
        /\ UNCHANGED <<queueVars, result, touched>>
  /\ UNCHANGED <<callVars, cancelled, context, logVars, persisted>>

EmitUpdated(t) ==
  /\ Emit(t, "session_updated")
  /\ Return(t, "emit_updated", "ok")
  /\ UNCHANGED <<failure, callVars, cancelled, transcript, context, audit, sessionVars, faults>>

\* emitRuntimeFailure, then the return; a failed read or touch is first noted
\* in the transcript, a failed append is not.
EmitRuntimeFailed(t) ==
  /\ Emit(t, "runtime_failed")
  /\ IF failure[t] = "transcript"
     THEN Return(t, "emit_runtime_failed", "transcript")
     ELSE Goto(t, "emit_runtime_failed", "error") /\ UNCHANGED <<queueVars, result>>
  /\ UNCHANGED <<failure, callVars, cancelled, transcript, context, audit, sessionVars, faults>>

\* Bug (mutation runs only): the failure is recorded but not returned, and the turn goes on.
BugAppendErrorFallsThrough(t) ==
  /\ Goto(t, "error", "audit_succeeded")
  /\ \/ Record(t, "error") /\ UNCHANGED faults
     \/ AppendFails(t, "error")
  /\ UNCHANGED <<queueVars, failure, result, callVars, cancelled, context, audit, events, sessionVars>>

\* The error event; whether it could be appended makes no difference.
AppendError(t) ==
  /\ Return(t, "error", failure[t])
  /\ \/ Record(t, "error") /\ UNCHANGED faults
     \/ AppendFails(t, "error")
  /\ UNCHANGED <<failure, callVars, cancelled, context, audit, events, sessionVars>>
-----------------------------------------------------------------------------
\* The awaits of runTurnNow other than the one on the provider.
TurnStepNow(t) ==
  \/ AppendLifecycle(t) \/ AppendUser(t) \/ ReadTranscript(t)
  \/ AuditRequested(t) \/ EmitRequested(t)
  \/ AuditSucceeded(t) \/ EmitSucceeded(t) \/ AppendAssistant(t)
  \/ TouchSession(t) \/ EmitUpdated(t)
  \/ AuditFailed(t) \/ EmitFailed(t) \/ AppendError(t)
  \/ AuditReadFailed(t) \/ EmitRuntimeFailed(t)

CallStep(t) ==
  \/ LookUp(t) \/ Decide(t) \/ AuditDecision(t) \/ ProviderAnswers(t)
  \/ AuditCallInTry(t) \/ AuditCallOutcome(t) \/ CallAnswers(t)

AllOver ==
  /\ \A t \in Turns : t \in settled \/ result[t] \in Refusals
  /\ UNCHANGED vars

RunnerNext ==
  \/ \E t \in Turns :
       \/ Refuse(t) \/ Submit(t) \/ BeginTurn(t) \/ Release(t)
       \/ TurnStepNow(t)
       \/ CallStep(t)
       \/ Timeout(t) \/ CallerAbort(t)
  \/ AllOver

RunnerSpec == RunnerInit /\ [][RunnerNext]_vars

\* Awaits in which a store asks the policy for filesystem.write before it writes;
\* a session without a file is not written.  The policy may be asking a person.
AsksPolicy(t) ==
  \/ phase[t] \in {"lifecycle", "user", "assistant", "error"}
  \/ phase[t] = "touch" /\ SessionOf[t] \in persisted

\* Promise reactions and timers fire, and file reads, the audit sink and the
\* event subscribers answer; the policy and the provider need not, and so no
\* append and no session update need ever end.
FairRunnerSpec ==
  /\ RunnerSpec
  /\ \A t \in Turns :
       /\ WF_vars(BeginTurn(t))
       /\ WF_vars(Release(t))
       /\ WF_vars(~AsksPolicy(t) /\ TurnStepNow(t))
       /\ WF_vars(Timeout(t))
-----------------------------------------------------------------------------
(* Properties *)

Outcomes(t, by) == {i \in DOMAIN audit[t] : audit[t][i].by = by}
Audited(t, by, outcome) == \E i \in Outcomes(t, by) : audit[t][i].outcome = outcome
Emitted(t, event) == \E i \in DOMAIN events[t] : events[t][i] = event
\* In part or in full, and readable or not.
Wrote(t, type) ==
  \E i \in DOMAIN transcript[SessionOf[t]] :
    transcript[SessionOf[t]][i].turn = t /\ transcript[SessionOf[t]][i].type = type

\* A turn that was cancelled or timed out never reports a success, in the
\* runner's audit, in its events or in the transcript, not even when the
\* provider answers afterwards.
CancelledLeavesNoSuccess ==
  \A t \in Turns : failure[t] \in {"cancelled", "timedout"} =>
    /\ ~Audited(t, "core", "succeeded")
    /\ ~Emitted(t, "call_succeeded")
    /\ ~Wrote(t, "assistant")
    /\ result[t] \notin {"ok"}

\* The envelope around a provider call is opened once and, unless the audit
\* sink made the turn reject, closed once and the same way in the audit, in
\* the events and, as far as the transcript could be written, there too.
EnvelopeAgrees ==
  \A t \in Turns : stage[t] = "resolved" /\ Audited(t, "core", "requested") =>
    LET closed == {i \in Outcomes(t, "core") : audit[t][i].outcome # "requested"}
        succeeded == Audited(t, "core", "succeeded")
    IN /\ \E i, j \in DOMAIN audit[t] : i < j /\ closed = {j} /\ Outcomes(t, "core") = {i, j}
       /\ Emitted(t, "call_requested")
       /\ succeeded <=> Emitted(t, "call_succeeded")
       /\ ~succeeded <=> Emitted(t, "call_failed")
       /\ succeeded <=> result[t] \notin CallFailures
       /\ faults = 0 => (Wrote(t, "assistant") <=> succeeded) /\ (Wrote(t, "error") <=> ~succeeded)

\* The event at n has lost its line to an append of turn u that was cut off.
LostTo(log, n, u) ==
  n - 1 \in DOMAIN log /\ CutOff(log[n - 1]) /\ log[n - 1].turn = u

\* A turn only succeeds when it has appended its whole exchange, in order and
\* with nothing else of its own, and its interaction is in the session store
\* and announced if the session is there.  Its exchange can be read but for
\* what stands directly behind an append that was cut off, in another turn,
\* which failed: if that is one of the same key, only the lifecycle event can
\* be lost to it, and the user's and the assistant's never are.
OkIsDurable ==
  \A t \in Turns : result[t] = "ok" =>
    LET log == transcript[SessionOf[t]] IN
    /\ \E i, j, k \in DOMAIN log :
         /\ i < j /\ j < k
         /\ {n \in DOMAIN log : log[n].turn = t} = {i, j, k}
         /\ log[i].type = "lifecycle" /\ log[j].type = "user" /\ log[k].type = "assistant"
         /\ \A n \in {i, j, k} :
              \/ Readable(log, n)
              \/ \E u \in Turns \ {t} :
                   LostTo(log, n, u) /\ failure[u] # "none" /\ (KeyOf[u] = KeyOf[t] => n = i)
    /\ SessionOf[t] \in persisted <=> t \in touched
    /\ t \in touched <=> Emitted(t, "session_updated")

\* The messages a provider has been sent end, for the turn's key, with the turn's
\* own message and contain the whole exchange of every earlier turn that
\* succeeded.  Missing is only what lost its line to a turn of another key in
\* the same session.
ContextComplete ==
  \A t \in Turns : phase[t] = "provider" =>
    LET log  == transcript[SessionOf[t]]
        sent == context[t]
        LostToAnother(n) == \E v \in Turns : LostTo(log, n, v) /\ KeyOf[v] # KeyOf[t]
        HasSent(n) == IF n \in DOMAIN sent THEN sent[n] = log[n] ELSE LostToAnother(n)
    IN /\ \E n \in DOMAIN log :
            /\ log[n].turn = t /\ log[n].type = "user" /\ HasSent(n)
            /\ \A i \in DOMAIN sent : KeyOf[sent[i].turn] = KeyOf[t] => i <= n
       /\ \A u \in Turns : Before(u, t) /\ SessionOf[u] = SessionOf[t] /\ result[u] = "ok" =>
            \A type \in {"user", "assistant"} :
              \E n \in DOMAIN log : log[n].turn = u /\ log[n].type = type /\ HasSent(n)

\* The provider is only called once the permission for it is on record, and a
\* call leaves one record of its outcome, unless a sink failed meanwhile.
CallIsAuditedOnce ==
  \A t \in Turns :
    /\ call[t] = "chatting" => Audited(t, "permissions", "allowed") /\ Outcomes(t, "providers") = {}
    /\ call[t] \in {"returned", "over"} /\ verdict[t] \notin {"not_found", "unsupported"} =>
         IF faults = 0
         THEN \E i \in DOMAIN audit[t] : Outcomes(t, "providers") = {i}
         ELSE \A i, j \in Outcomes(t, "providers") : i = j
    /\ Audited(t, "providers", "succeeded") => Audited(t, "permissions", "allowed")

\* Once a turn is over, nothing it left behind changes what is on record of it
\* but its own provider call's audit: a late answer is dropped.
LateAnswerIsDropped ==
  [][\A t \in Turns : stage[t] \in Finished =>
       /\ race'[t] = race[t] /\ result'[t] = result[t] /\ events'[t] = events[t]
       /\ {i \in DOMAIN audit'[t] : audit'[t][i].by = "core"} = Outcomes(t, "core")
       /\ Wrote(t, "assistant")' = Wrote(t, "assistant")]_vars

\* P05-T06 of docs/tasks.json: "Cancelled operations do not emit success events."
\* Read over every audit record of the turn, the provider package's included.
CancelledAuditsNoSuccess ==
  \A t \in Turns : failure[t] \in {"cancelled", "timedout"} =>
    ~Audited(t, "core", "succeeded") /\ ~Audited(t, "providers", "succeeded")

\* A provider that never answers, or a policy asked about calling it, holds up
\* nothing but turns without a timeout and those behind them: behind turns that
\* have one a turn gets started, and with one itself it ends.  What no timeout
\* ends is the wait for the policy's answer about a file, in which a turn of the
\* key may stand for ever.
TimeoutFreesTheQueue ==
  \A t \in Turns :
    (stage[t] = "queued" /\ \A u \in Turns : Before(u, t) => u \in HasTimeout)
      ~> (\/ stage[t] # "queued" /\ (t \in HasTimeout => stage[t] \in Finished)
          \/ \E u \in Turns : [](AsksPolicy(u) /\ (u = t \/ Before(u, t))))
=============================================================================

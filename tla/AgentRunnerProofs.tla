------------------------- MODULE AgentRunnerProofs -------------------------
(***************************************************************************)
(* For any turns, sessions, keys, faults and answers of providers: what a  *)
(* turn leaves on record agrees with what became of it.                    *)
(*                                                                         *)
(* The invariant says of every await of runTurnNow what is on record of    *)
(* the turn by then: in its audit (CoreInv), among its events (EventInv)   *)
(* and in the transcript (OwnInv), and of every await of chatResult what   *)
(* the packages below have audited (CallInv).  A turn's error tells which  *)
(* way it took (PathInv).  None of it speaks of two turns.                 *)
(*                                                                         *)
(* ContextInv does: it says in which order the entries of a key are in the *)
(* transcript and what of them a turn has read, from what                  *)
(* SessionTurnQueueProofs says of the order of the turns; and that a turn  *)
(* that has left an append cut off has failed (TornInv), so that of its    *)
(* own key only the next turn's lifecycle event can be lost to it.         *)
(*                                                                         *)
(* The last part is about the keys themselves, as RoutedTurns makes them:  *)
(* they are exact, so that what the queue does for keys it does for        *)
(* conversations.  Only that part rests on RoutingAssumption.              *)
(***************************************************************************)
EXTENDS AgentRunner, RoutedTurns, SessionTurnQueueProofs

Opening    == {"idle", "lifecycle", "user", "read", "audit_requested"}
Awaiting   == {"emit_requested", "provider", "audit_succeeded"}
Succeeding == {"emit_succeeded", "assistant", "touch", "emit_updated"}
Failing    == {"audit_failed", "emit_failed"}
Leaving    == {"emit_runtime_failed", "error", "returned"}
Phases     == Opening \cup Awaiting \cup Succeeding \cup Failing \cup {"audit_read_failed"} \cup Leaving

StoreFailures == {"transcript", "read", "session"}
Codes         == {"none"} \cup CallFailures \cup StoreFailures
Results       == Codes \cup Refusals \cup {"ok", "rejected"}
Races         == {"idle", "open", "ok"} \cup CallFailures
Calls         == {"none", "scheduled", "deciding", "audit_decision", "chatting",
                  "audit_in_try", "audit", "returned", "over"}
Verdicts      == {"none", "allow", "deny", "ok"} \cup CallFailures
Packages      == {"core", "permissions", "providers"}
AuditOutcomes == {"requested", "allowed", "denied", "succeeded", "failed"}
EventNames    == {"call_requested", "call_succeeded", "call_failed", "session_updated", "runtime_failed"}
Types         == {"lifecycle", "user", "assistant", "error"}

\* What the variables can be.
RunnerTypeOK ==
  /\ phase \in [Turns -> Phases]
  /\ failure \in [Turns -> Codes]
  /\ result \in [Turns -> Results]
  /\ race \in [Turns -> Races]
  /\ call \in [Turns -> Calls]
  /\ verdict \in [Turns -> Verdicts]
  /\ transcript \in [Sessions -> Seq([turn : Turns, type : Types, part : Parts])]
  /\ DOMAIN context = Turns
  /\ audit \in [Turns -> Seq([by : Packages, outcome : AuditOutcomes])]
  /\ events \in [Turns -> Seq(EventNames)]
  /\ touched \in SUBSET Turns
  /\ faults \in Nat

\* A turn is under way exactly while its operation runs, and waits for its
\* provider exactly while the race is open.
ControlInv(t) ==
  /\ phase[t] = "idle" <=> stage[t] \in {"new", "queued"}
  /\ phase[t] = "returned" <=> stage[t] \in Finished
  /\ race[t] = "open" <=> phase[t] = "provider"
  /\ phase[t] \notin {"idle", "returned"} => result[t] = "none"
  /\ stage[t] = "new" => result[t] \in {"none"} \cup Refusals
  /\ stage[t] = "queued" => result[t] = "none"
  /\ phase[t] = "returned" => result[t] \in (Codes \cup {"ok", "rejected"}) \ {"none"}
  /\ phase[t] = "returned" => (stage[t] = "rejected" <=> result[t] = "rejected")

\* Which way a turn took.
PathInv(t) ==
  /\ phase[t] \in Opening \cup Awaiting \cup Succeeding => failure[t] = "none"
  /\ phase[t] \in Failing => failure[t] \in CallFailures
  /\ phase[t] = "audit_read_failed" => failure[t] = "read"
  /\ phase[t] = "emit_runtime_failed" => failure[t] \in StoreFailures
  /\ phase[t] = "error" => failure[t] \in CallFailures \cup {"read", "session"}
  /\ failure[t] \in StoreFailures => faults > 0
  /\ phase[t] = "returned" =>
       result[t] \in {"rejected", IF failure[t] = "none" THEN "ok" ELSE failure[t]}

\* The runner's own audit records of a turn.
Unopened(t)  == Outcomes(t, "core") = {}
Opened(t)    == \E i \in DOMAIN audit[t] : Outcomes(t, "core") = {i} /\ audit[t][i].outcome = "requested"
FailedOnly(t) == \E i \in DOMAIN audit[t] : Outcomes(t, "core") = {i} /\ audit[t][i].outcome = "failed"
ClosedAs(t, outcomes) ==
  \E i, j \in DOMAIN audit[t] :
    /\ i < j /\ Outcomes(t, "core") = {i, j}
    /\ audit[t][i].outcome = "requested" /\ audit[t][j].outcome \in outcomes

Succeeded(t) == ClosedAs(t, {"succeeded"})
Failed(t)    == ClosedAs(t, {"failed", "denied"})

CoreInv(t) ==
  /\ phase[t] \in Opening \cup {"audit_read_failed"} => Unopened(t)
  /\ phase[t] \in Awaiting \cup {"audit_failed"} => Opened(t)
  /\ phase[t] \in Succeeding => Succeeded(t)
  /\ phase[t] = "emit_failed" => Failed(t)
  /\ phase[t] \in Leaving =>
       /\ failure[t] \in CallFailures => Failed(t) \/ (result[t] = "rejected" /\ Opened(t))
       /\ failure[t] = "read" => FailedOnly(t) \/ Unopened(t)
       /\ failure[t] = "session" => Succeeded(t)
       /\ failure[t] = "transcript" => Succeeded(t) \/ Unopened(t)
       /\ failure[t] = "none" => Succeeded(t) \/ (result[t] = "rejected" /\ (Opened(t) \/ Unopened(t)))

EventInv(t) ==
  /\ Emitted(t, "call_requested") <=> (Opened(t) \/ Failed(t) \/ Succeeded(t)) /\ phase[t] # "emit_requested"
  /\ Emitted(t, "call_succeeded") <=> Succeeded(t) /\ phase[t] # "emit_succeeded"
  /\ Emitted(t, "call_failed") <=> Failed(t) /\ phase[t] # "emit_failed"
  /\ Emitted(t, "session_updated") <=> t \in touched /\ phase[t] # "emit_updated"
  /\ t \in touched => phase[t] \in {"emit_updated", "returned"} /\ SessionOf[t] \in persisted
  /\ phase[t] = "emit_updated" => t \in touched
  /\ result[t] = "ok" /\ SessionOf[t] \in persisted => t \in touched

\* A turn's own lines of its session's transcript.
OwnLines(t) == {n \in DOMAIN transcript[SessionOf[t]] : transcript[SessionOf[t]][n].turn = t}
TypeAt(t, n) == transcript[SessionOf[t]][n].type
Silent(t) == OwnLines(t) = {}
One(t)   == \E i \in OwnLines(t) : OwnLines(t) = {i} /\ TypeAt(t, i) = "lifecycle"
Two(t)   == \E i, j \in OwnLines(t) :
              i < j /\ OwnLines(t) = {i, j} /\ TypeAt(t, i) = "lifecycle" /\ TypeAt(t, j) = "user"
Three(t) == \E i, j, k \in OwnLines(t) :
              /\ i < j /\ j < k /\ OwnLines(t) = {i, j, k}
              /\ TypeAt(t, i) = "lifecycle" /\ TypeAt(t, j) = "user" /\ TypeAt(t, k) = "assistant"

OwnInv(t) ==
  /\ phase[t] \in {"idle", "lifecycle"} => Silent(t)
  /\ phase[t] = "user" => One(t)
  /\ phase[t] \in {"read", "audit_requested"} \cup Awaiting \cup {"emit_succeeded", "assistant"} => Two(t)
  /\ phase[t] \in {"touch", "emit_updated"} => Three(t)
  /\ result[t] = "ok" => Three(t)
  /\ Wrote(t, "assistant") => phase[t] \in {"touch", "emit_updated"} \/ (phase[t] \in Leaving /\ Succeeded(t))
  /\ Wrote(t, "error") => phase[t] = "returned" /\ failure[t] # "none"
  /\ phase[t] = "returned" /\ faults = 0 /\ failure[t] # "none" => Wrote(t, "error")

\* What permissions and providers have audited of the call so far.
CallInv(t) ==
  /\ phase[t] \in Opening \cup {"emit_requested", "audit_read_failed"} => call[t] = "none"
  /\ call[t] \in {"none", "scheduled", "deciding", "audit_decision"} => verdict[t] # "ok"
  /\ call[t] = "audit_decision" => verdict[t] \in {"allow", "deny"}
  /\ call[t] \in {"chatting", "audit_in_try"} => Audited(t, "permissions", "allowed")
  /\ call[t] = "audit_in_try" => verdict[t] \in {"ok", "cancelled"}
  /\ call[t] = "audit" => verdict[t] \in {"denied", "failed", "cancelled"}
  /\ call[t] = "returned" => verdict[t] \in {"ok"} \cup CallFailures
  /\ call[t] \notin {"returned", "over"} => Outcomes(t, "providers") = {}
  /\ \A i, j \in Outcomes(t, "providers") : i = j
  /\ call[t] \in {"returned", "over"} /\ verdict[t] \notin {"not_found", "unsupported"} /\ faults = 0 =>
       Outcomes(t, "providers") # {}
  /\ Audited(t, "providers", "succeeded") => Audited(t, "permissions", "allowed")

TurnInv(t) ==
  ControlInv(t) /\ PathInv(t) /\ CoreInv(t) /\ EventInv(t) /\ OwnInv(t) /\ CallInv(t)

RunnerInv == RunnerTypeOK /\ \A t \in Turns : TurnInv(t)

\* The lines of a session's transcript are its turns', and those of a key stand
\* in the order of the turns.
OrderInv ==
  \A s \in Sessions :
    /\ \A i \in DOMAIN transcript[s] : SessionOf[transcript[s][i].turn] = s
    /\ \A i, j \in DOMAIN transcript[s] :
         LET u == transcript[s][i].turn
             v == transcript[s][j].turn
         IN i < j /\ KeyOf[u] = KeyOf[v] => ticket[u] <= ticket[v]

\* A turn that has left an append cut off has failed.
TornInv ==
  \A s \in Sessions : \A n \in DOMAIN transcript[s] :
    CutOff(transcript[s][n]) => failure[transcript[s][n].turn] # "none"

\* ContextComplete for one turn, from the moment it has read the transcript.
Holding == {"audit_requested", "emit_requested", "provider"}
LostToAnother(t, n) ==
  \E v \in Turns : LostTo(transcript[SessionOf[t]], n, v) /\ KeyOf[v] # KeyOf[t]
HasSent(t, n) ==
  IF n \in DOMAIN context[t]
  THEN context[t][n] = transcript[SessionOf[t]][n]
  ELSE LostToAnother(t, n)
EndsWithOwn(t) ==
  \E n \in DOMAIN transcript[SessionOf[t]] :
    /\ transcript[SessionOf[t]][n].turn = t /\ transcript[SessionOf[t]][n].type = "user"
    /\ HasSent(t, n)
    /\ \A i \in DOMAIN context[t] : KeyOf[context[t][i].turn] = KeyOf[t] => i <= n
SentOf(t, u, type) ==
  \E n \in DOMAIN transcript[SessionOf[t]] :
    /\ transcript[SessionOf[t]][n].turn = u /\ transcript[SessionOf[t]][n].type = type
    /\ HasSent(t, n)
HasEarlier(t) ==
  \A u \in Turns : Before(u, t) /\ SessionOf[u] = SessionOf[t] /\ result[u] = "ok" =>
    SentOf(t, u, "user") /\ SentOf(t, u, "assistant")
CompleteFor(t) == phase[t] \in Holding => EndsWithOwn(t) /\ HasEarlier(t)

ContextInv == OrderInv /\ TornInv /\ \A t \in Turns : CompleteFor(t)
-----------------------------------------------------------------------------
(***************************************************************************)
(* The turns run on the queue: every step of the runner is one of the      *)
(* queue's or leaves the queue alone.                                      *)
(***************************************************************************)
LEMMA RunnerStepsQueue == [RunnerNext]_vars => [QueueNext]_queueVars
<1> SUFFICES ASSUME [RunnerNext]_vars PROVE [QueueNext]_queueVars
  OBVIOUS
<1> USE DEF Finished
<1>1. ASSUME NEW t \in Turns, Refuse(t) \/ Submit(t) \/ BeginTurn(t) \/ Release(t)
      PROVE  TurnStep(t) \/ UNCHANGED queueVars
  BY <1>1 DEF Refuse, Submit, BeginTurn, Release, TurnStep
<1>2. ASSUME NEW t \in Turns, CallStep(t) \/ Timeout(t) \/ CallerAbort(t)
      PROVE  UNCHANGED queueVars
  BY <1>2
  DEF CallStep, LookUp, Decide, AuditDecision, ProviderAnswers, AuditCallInTry,
      AuditCallOutcome, CallAnswers, callFrame, Timeout, CallerAbort
<1>3. ASSUME NEW t \in Turns, TurnStepNow(t)
      PROVE  TurnStep(t) \/ UNCHANGED queueVars
  <2>1. CASE AppendLifecycle(t) \/ AppendUser(t) \/ AppendAssistant(t) \/ ReadTranscript(t)
    BY <2>1 DEF AppendLifecycle, AppendUser, AppendAssistant, AwaitAppend, ReadTranscript
  <2>2. CASE AuditRequested(t) \/ AuditReadFailed(t) \/ AuditSucceeded(t) \/ AuditFailed(t)
    BY <2>2
    DEF AuditRequested, AuditReadFailed, AuditSucceeded, AuditFailed, AwaitAudit, Throw, TurnStep
  <2>3. CASE EmitRequested(t) \/ EmitSucceeded(t) \/ EmitFailed(t)
    BY <2>3 DEF EmitRequested, EmitSucceeded, EmitFailed, emitFrame
  <2>4. CASE TouchSession(t) \/ EmitUpdated(t) \/ EmitRuntimeFailed(t) \/ AppendError(t)
    BY <2>4 DEF TouchSession, EmitUpdated, EmitRuntimeFailed, AppendError, Return, TurnStep
  <2>5. QED
    BY <1>3, <2>1, <2>2, <2>3, <2>4 DEF TurnStepNow
<1>4. CASE UNCHANGED vars
  BY <1>4 DEF vars
<1>5. QED
  BY <1>1, <1>2, <1>3, <1>4 DEF RunnerNext, AllOver, QueueNext

LEMMA RunsOnQueue == RunnerSpec => []ChainInv
<1>1. RunnerInit => QueueInit
  BY DEF RunnerInit
<1>2. RunnerSpec => QueueSpec
  BY <1>1, RunnerStepsQueue, PTL DEF RunnerSpec, QueueSpec
<1>3. QED
  BY <1>2, ChainInvariant, PTL
-----------------------------------------------------------------------------
(***************************************************************************)
(* What an append to one of the logs does to what is said of a turn.       *)
(***************************************************************************)

\* Nothing that TurnInv says of the runner's audit records of t changes.
CoreSame(t) ==
  /\ Unopened(t)' <=> Unopened(t)
  /\ Opened(t)' <=> Opened(t)
  /\ FailedOnly(t)' <=> FailedOnly(t)
  /\ Failed(t)' <=> Failed(t)
  /\ Succeeded(t)' <=> Succeeded(t)

\* Nor of those of the packages below.
BelowSame(t) ==
  \A by \in {"permissions", "providers"} :
    /\ Outcomes(t, by)' = Outcomes(t, by)
    /\ \A outcome \in AuditOutcomes : Audited(t, by, outcome)' <=> Audited(t, by, outcome)

EventsSame(t) == \A event \in EventNames : Emitted(t, event)' <=> Emitted(t, event)

LinesSame(t) ==
  /\ Silent(t)' <=> Silent(t)
  /\ One(t)' <=> One(t)
  /\ Two(t)' <=> Two(t)
  /\ Three(t)' <=> Three(t)
  /\ \A type \in Types : Wrote(t, type)' <=> Wrote(t, type)

Exclusive(t) ==
  /\ ~(Unopened(t) /\ (Opened(t) \/ FailedOnly(t) \/ Failed(t) \/ Succeeded(t)))
  /\ ~(Opened(t) /\ (FailedOnly(t) \/ Failed(t) \/ Succeeded(t)))
  /\ ~(FailedOnly(t) /\ (Failed(t) \/ Succeeded(t)))
  /\ ~(Failed(t) /\ Succeeded(t))

\* The runner's records of a turn have one shape at a time.
LEMMA OneShape ==
  ASSUME NEW t \in Turns
  PROVE  (RunnerTypeOK => Exclusive(t)) /\ (RunnerTypeOK' => Exclusive(t)')
<1>1. RunnerTypeOK => Exclusive(t)
  <2> SUFFICES ASSUME RunnerTypeOK PROVE Exclusive(t)
    OBVIOUS
  <2>1. Outcomes(t, "core") \subseteq DOMAIN audit[t] /\ DOMAIN audit[t] \subseteq Nat
    BY DEF RunnerTypeOK, Outcomes
  <2>2. ~(Unopened(t) /\ (Opened(t) \/ FailedOnly(t) \/ Failed(t) \/ Succeeded(t)))
    BY DEF Unopened, Opened, FailedOnly, Failed, Succeeded, ClosedAs
  <2>3. ~(Opened(t) /\ FailedOnly(t))
    BY DEF Opened, FailedOnly
  <2>4. ~((Opened(t) \/ FailedOnly(t)) /\ (Failed(t) \/ Succeeded(t)))
    BY <2>1 DEF Opened, FailedOnly, Failed, Succeeded, ClosedAs
  <2>5. ~(Failed(t) /\ Succeeded(t))
    <3> SUFFICES ASSUME Failed(t), Succeeded(t) PROVE FALSE
      OBVIOUS
    <3>1. PICK i, j \in DOMAIN audit[t] :
            i < j /\ Outcomes(t, "core") = {i, j} /\ audit[t][j].outcome \in {"failed", "denied"}
      BY DEF Failed, ClosedAs
    <3>2. PICK k, l \in DOMAIN audit[t] :
            k < l /\ Outcomes(t, "core") = {k, l} /\ audit[t][l].outcome = "succeeded"
      BY DEF Succeeded, ClosedAs
    <3>3. j = l
      BY <2>1, <3>1, <3>2
    <3>4. QED
      BY <3>1, <3>2, <3>3
  <2>6. QED
    BY <2>2, <2>3, <2>4, <2>5 DEF Exclusive
<1>2. QED
  BY <1>1, PTL

LEMMA SameAudit ==
  ASSUME NEW t \in Turns, audit'[t] = audit[t]
  PROVE  CoreSame(t) /\ BelowSame(t) /\ Outcomes(t, "core")' = Outcomes(t, "core")
<1>1. \A by : Outcomes(t, by)' = Outcomes(t, by)
  BY DEF Outcomes
<1>2. CoreSame(t)
  BY <1>1 DEF CoreSame, Unopened, Opened, FailedOnly, Failed, Succeeded, ClosedAs
<1>3. BelowSame(t)
  BY <1>1 DEF BelowSame, Audited
<1>4. QED
  BY <1>1, <1>2, <1>3

\* What Audit(t, by, outcome) appends: one more place, every other as it was.
LEMMA AuditAppends ==
  ASSUME RunnerTypeOK, NEW t \in Turns, NEW by \in Packages, NEW outcome \in AuditOutcomes,
         Audit(t, by, outcome)
  PROVE  /\ audit' \in [Turns -> Seq([by : Packages, outcome : AuditOutcomes])]
         /\ \A u \in Turns \ {t} : audit'[u] = audit[u]
         /\ \E m \in Nat :
              /\ m \notin DOMAIN audit[t]
              /\ \A i \in DOMAIN audit[t] : i < m /\ i \in Nat
              /\ DOMAIN audit'[t] = DOMAIN audit[t] \cup {m}
              /\ \A i \in DOMAIN audit[t] : audit'[t][i] = audit[t][i]
              /\ audit'[t][m] = [by |-> by, outcome |-> outcome]
<1> DEFINE rec == [by |-> by, outcome |-> outcome]
<1>1. /\ audit \in [Turns -> Seq([by : Packages, outcome : AuditOutcomes])]
      /\ rec \in [by : Packages, outcome : AuditOutcomes]
  BY DEF RunnerTypeOK
<1>2. audit' = [audit EXCEPT ![t] = Append(audit[t], rec)]
  BY DEF Audit
<1>3. audit'[t] = Append(audit[t], rec) /\ \A u \in Turns \ {t} : audit'[u] = audit[u]
  BY <1>1, <1>2
<1>4. audit[t] \in Seq([by : Packages, outcome : AuditOutcomes])
  BY <1>1
<1>5. PICK m \in Nat : m = Len(audit[t]) + 1
  BY <1>4
<1>6. /\ DOMAIN audit[t] = 1 .. Len(audit[t]) /\ Len(audit'[t]) = m
      /\ DOMAIN audit'[t] = 1 .. m
      /\ \A i \in 1 .. Len(audit[t]) : audit'[t][i] = audit[t][i]
      /\ audit'[t][m] = rec
  BY <1>1, <1>3, <1>4, <1>5
<1>7. audit' \in [Turns -> Seq([by : Packages, outcome : AuditOutcomes])]
  <2>1. Append(audit[t], rec) \in Seq([by : Packages, outcome : AuditOutcomes])
    BY <1>1, <1>4
  <2>2. QED
    BY <1>1, <1>2, <2>1
<1>8. /\ m \notin DOMAIN audit[t]
      /\ \A i \in DOMAIN audit[t] : i < m /\ i \in Nat
      /\ DOMAIN audit'[t] = DOMAIN audit[t] \cup {m}
  BY <1>4, <1>5, <1>6
<1>9. QED
  BY <1>3, <1>5, <1>6, <1>7, <1>8

LEMMA AuditOutcomesOf ==
  ASSUME RunnerTypeOK, NEW t \in Turns, NEW by \in Packages, NEW outcome \in AuditOutcomes,
         Audit(t, by, outcome)
  PROVE  /\ \A pkg \in Packages \ {by} :
              /\ Outcomes(t, pkg)' = Outcomes(t, pkg)
              /\ \A o \in AuditOutcomes : Audited(t, pkg, o)' <=> Audited(t, pkg, o)
         /\ \E m \in DOMAIN audit'[t] :
              /\ Outcomes(t, by)' = Outcomes(t, by) \cup {m}
              /\ \A i \in Outcomes(t, by) : i < m
              /\ audit'[t][m].outcome = outcome
         /\ \A o \in AuditOutcomes : Audited(t, by, o)' <=> Audited(t, by, o) \/ o = outcome
         /\ \A i \in DOMAIN audit[t] : i \in DOMAIN audit'[t] /\ audit'[t][i] = audit[t][i]
<1>1. PICK m \in Nat :
        /\ m \notin DOMAIN audit[t]
        /\ \A i \in DOMAIN audit[t] : i < m /\ i \in Nat
        /\ DOMAIN audit'[t] = DOMAIN audit[t] \cup {m}
        /\ \A i \in DOMAIN audit[t] : audit'[t][i] = audit[t][i]
        /\ audit'[t][m] = [by |-> by, outcome |-> outcome]
  BY AuditAppends
<1>2. \A pkg \in Packages \ {by} : Outcomes(t, pkg)' = Outcomes(t, pkg)
  BY <1>1 DEF Outcomes
<1>3. \A pkg \in Packages : Outcomes(t, pkg) \subseteq DOMAIN audit[t]
  BY DEF Outcomes
<1>4. \A pkg \in Packages \ {by} :
        \A o \in AuditOutcomes : Audited(t, pkg, o)' <=> Audited(t, pkg, o)
  BY <1>1, <1>2, <1>3 DEF Audited
<1>5. Outcomes(t, by)' = Outcomes(t, by) \cup {m}
  BY <1>1 DEF Outcomes
<1>6. \A o \in AuditOutcomes : Audited(t, by, o)' <=> Audited(t, by, o) \/ o = outcome
  BY <1>1, <1>3, <1>5 DEF Audited
<1>7. m \in DOMAIN audit'[t] /\ audit'[t][m].outcome = outcome /\ \A i \in Outcomes(t, by) : i < m
  BY <1>1, <1>3
<1>8. QED
  BY <1>1, <1>2, <1>4, <1>5, <1>6, <1>7

\* A record of the runner's own takes its records from one shape to the next.
LEMMA CoreAudits ==
  ASSUME RunnerTypeOK, NEW t \in Turns, NEW outcome \in AuditOutcomes, Audit(t, "core", outcome)
  PROVE  /\ Unopened(t) /\ outcome = "requested" => Opened(t)'
         /\ Unopened(t) /\ outcome = "failed" => FailedOnly(t)'
         /\ Opened(t) /\ outcome = "succeeded" => Succeeded(t)'
         /\ Opened(t) /\ outcome \in {"failed", "denied"} => Failed(t)'
         /\ BelowSame(t)
<1>1. "core" \in Packages
  BY DEF Packages
<1>2. PICK m \in DOMAIN audit'[t] :
        /\ Outcomes(t, "core")' = Outcomes(t, "core") \cup {m}
        /\ \A i \in Outcomes(t, "core") : i < m
        /\ audit'[t][m].outcome = outcome
  BY <1>1, AuditOutcomesOf
<1>3. \A i \in DOMAIN audit[t] : i \in DOMAIN audit'[t] /\ audit'[t][i] = audit[t][i]
  BY <1>1, AuditOutcomesOf
<1>4. BelowSame(t)
  BY <1>1, AuditOutcomesOf DEF BelowSame, Packages
<1>5. Unopened(t) /\ outcome = "requested" => Opened(t)'
  BY <1>2 DEF Unopened, Opened
<1>6. Unopened(t) /\ outcome = "failed" => FailedOnly(t)'
  BY <1>2 DEF Unopened, FailedOnly
<1>7. ASSUME Opened(t), NEW outcomes, outcome \in outcomes PROVE ClosedAs(t, outcomes)'
  BY <1>2, <1>3, <1>7 DEF Opened, ClosedAs
<1>8. QED
  BY <1>4, <1>5, <1>6, <1>7 DEF Succeeded, Failed

\* One of the packages below does not touch the runner's.
LEMMA BelowAudits ==
  ASSUME RunnerTypeOK, NEW t \in Turns, NEW by \in {"permissions", "providers"},
         NEW outcome \in AuditOutcomes, Audit(t, by, outcome)
  PROVE  CoreSame(t) /\ Outcomes(t, "core")' = Outcomes(t, "core")
<1>1. by \in Packages /\ "core" \in Packages \ {by}
  BY DEF Packages
<1>2. Outcomes(t, "core")' = Outcomes(t, "core")
  BY <1>1, AuditOutcomesOf
<1>3. \A i \in DOMAIN audit[t] : i \in DOMAIN audit'[t] /\ audit'[t][i] = audit[t][i]
  BY <1>1, AuditOutcomesOf
<1>4. \A i \in DOMAIN audit'[t] : i \in Outcomes(t, "core") => i \in DOMAIN audit[t]
  BY DEF Outcomes
<1>5. (Unopened(t)' <=> Unopened(t)) /\ (Opened(t)' <=> Opened(t)) /\ (FailedOnly(t)' <=> FailedOnly(t))
  BY <1>2, <1>3, <1>4 DEF Unopened, Opened, FailedOnly
<1>6. ASSUME NEW outcomes PROVE ClosedAs(t, outcomes)' <=> ClosedAs(t, outcomes)
  BY <1>2, <1>3, <1>4 DEF ClosedAs
<1>7. QED
  BY <1>2, <1>5, <1>6 DEF CoreSame, Failed, Succeeded

\* Emit(t, event) adds one event to those of t.
LEMMA EmitAdds ==
  ASSUME RunnerTypeOK, NEW t \in Turns, NEW event \in EventNames, Emit(t, event)
  PROVE  /\ events' \in [Turns -> Seq(EventNames)]
         /\ \A u \in Turns \ {t} : events'[u] = events[u]
         /\ \A e \in EventNames : Emitted(t, e)' <=> Emitted(t, e) \/ e = event
<1>1. events \in [Turns -> Seq(EventNames)] /\ events[t] \in Seq(EventNames)
  BY DEF RunnerTypeOK
<1>2. events' = [events EXCEPT ![t] = Append(events[t], event)]
  BY DEF Emit
<1>3. events'[t] = Append(events[t], event) /\ \A u \in Turns \ {t} : events'[u] = events[u]
  BY <1>1, <1>2
<1>4. events' \in [Turns -> Seq(EventNames)]
  BY <1>1, <1>2
<1>5. PICK m \in Nat : m = Len(events[t]) + 1
  BY <1>1
<1>6. /\ DOMAIN events[t] = 1 .. Len(events[t]) /\ DOMAIN events'[t] = 1 .. m
      /\ \A i \in 1 .. Len(events[t]) : events'[t][i] = events[t][i]
      /\ events'[t][m] = event
  BY <1>1, <1>3, <1>5
<1>7. DOMAIN events'[t] = DOMAIN events[t] \cup {m}
  BY <1>1, <1>5, <1>6
<1>8. \A e \in EventNames : Emitted(t, e)' <=> Emitted(t, e) \/ e = event
  BY <1>6, <1>7 DEF Emitted
<1>9. QED
  BY <1>3, <1>4, <1>8

LEMMA SameEvents ==
  ASSUME NEW t \in Turns, events'[t] = events[t]
  PROVE  EventsSame(t)
  BY DEF EventsSame, Emitted

\* The transcript of s gets one entry more, the last one, at m; Put does that to
\* the session of its turn.
Longer(s, m, line) ==
  /\ m \notin DOMAIN transcript[s]
  /\ \A i \in DOMAIN transcript[s] : i < m /\ i \in Nat
  /\ DOMAIN transcript'[s] = DOMAIN transcript[s] \cup {m}
  /\ \A i \in DOMAIN transcript[s] : transcript'[s][i] = transcript[s][i]
  /\ transcript'[s][m] = line

LEMMA PutAppends ==
  ASSUME RunnerTypeOK, NEW t \in Turns, NEW type \in Types, NEW part \in Parts, Put(t, type, part)
  PROVE  /\ transcript' \in [Sessions -> Seq([turn : Turns, type : Types, part : Parts])]
         /\ \A s \in Sessions \ {SessionOf[t]} : transcript'[s] = transcript[s]
         /\ \E m \in Nat : Longer(SessionOf[t], m, [turn |-> t, type |-> type, part |-> part])
<1> DEFINE line == [turn |-> t, type |-> type, part |-> part]
<1>1. PICK s \in Sessions : s = SessionOf[t]
  BY RunnerAssumption
<1>2. /\ transcript \in [Sessions -> Seq([turn : Turns, type : Types, part : Parts])]
      /\ line \in [turn : Turns, type : Types, part : Parts]
  BY DEF RunnerTypeOK
<1>3. transcript' = [transcript EXCEPT ![s] = Append(transcript[s], line)]
  BY <1>1 DEF Put
<1>4. transcript'[s] = Append(transcript[s], line) /\ \A r \in Sessions \ {s} : transcript'[r] = transcript[r]
  BY <1>2, <1>3
<1>5. transcript[s] \in Seq([turn : Turns, type : Types, part : Parts])
  BY <1>2
<1>6. PICK m \in Nat : m = Len(transcript[s]) + 1
  BY <1>5
<1>7. /\ DOMAIN transcript[s] = 1 .. Len(transcript[s])
      /\ DOMAIN transcript'[s] = 1 .. m
      /\ \A i \in 1 .. Len(transcript[s]) : transcript'[s][i] = transcript[s][i]
      /\ transcript'[s][m] = line
  BY <1>2, <1>4, <1>5, <1>6
<1>8. transcript' \in [Sessions -> Seq([turn : Turns, type : Types, part : Parts])]
  <2>1. Append(transcript[s], line) \in Seq([turn : Turns, type : Types, part : Parts])
    BY <1>2, <1>5
  <2>2. QED
    BY <1>2, <1>3, <2>1
<1>9. /\ m \notin DOMAIN transcript[s]
      /\ \A i \in DOMAIN transcript[s] : i < m /\ i \in Nat
      /\ DOMAIN transcript'[s] = DOMAIN transcript[s] \cup {m}
  BY <1>5, <1>6, <1>7
<1>10. QED
  <2>1. Longer(s, m, line)
    BY <1>6, <1>7, <1>9 DEF Longer
  <2>2. QED
    BY <1>1, <1>4, <1>6, <1>8, <2>1

\* Wrote in terms of the turn's own lines, before a step and after it.
LEMMA WroteLines ==
  ASSUME NEW t \in Turns
  PROVE  /\ \A type : Wrote(t, type) <=> \E i \in OwnLines(t) : TypeAt(t, i) = type
         /\ \A type : Wrote(t, type)' <=> \E i \in OwnLines(t)' : TypeAt(t, i)' = type
BY DEF Wrote, OwnLines, TypeAt

LEMMA SameOwnLines ==
  ASSUME RunnerTypeOK, RunnerTypeOK', NEW t \in Turns,
         OwnLines(t)' = OwnLines(t), \A i \in OwnLines(t) : TypeAt(t, i)' = TypeAt(t, i)
  PROVE  LinesSame(t)
<1>1. \A type \in Types : Wrote(t, type)' <=> Wrote(t, type)
  <2>1. \A type : Wrote(t, type) <=> \E i \in OwnLines(t) : TypeAt(t, i) = type
    BY WroteLines
  <2>2. \A type : Wrote(t, type)' <=> \E i \in OwnLines(t)' : TypeAt(t, i)' = type
    BY WroteLines
  <2>3. QED
    BY <2>1, <2>2
<1>2. /\ Silent(t)' <=> Silent(t)
      /\ One(t)' <=> One(t)
  BY DEF Silent, One
<1>3. Two(t)' <=> Two(t)
  BY DEF Two
<1>4. Three(t)' <=> Three(t)
  BY DEF Three
<1>5. QED
  BY <1>1, <1>2, <1>3, <1>4 DEF LinesSame

LEMMA SameTranscript ==
  ASSUME NEW t \in Turns, transcript' = transcript
  PROVE  LinesSame(t)
BY DEF LinesSame, Silent, One, Two, Three, OwnLines, TypeAt, Wrote

\* A line of t is not one of another turn's ...
LEMMA PutOfAnother ==
  ASSUME RunnerTypeOK, RunnerTypeOK', NEW t \in Turns, NEW type \in Types,
         NEW part \in Parts, Put(t, type, part), NEW u \in Turns \ {t}
  PROVE  LinesSame(u)
<1>1. PICK s \in Sessions : s = SessionOf[t]
  BY RunnerAssumption
<1>2. PICK r \in Sessions : r = SessionOf[u]
  BY RunnerAssumption
<1>3. CASE r # s
  <2>1. transcript'[r] = transcript[r]
    BY <1>1, <1>3, PutAppends
  <2>2. OwnLines(u)' = OwnLines(u) /\ \A i \in OwnLines(u) : TypeAt(u, i)' = TypeAt(u, i)
    BY <1>2, <2>1 DEF OwnLines, TypeAt
  <2>3. QED
    BY <2>2, SameOwnLines
<1>4. CASE r = s
  <2>1. PICK m \in Nat : Longer(s, m, [turn |-> t, type |-> type, part |-> part])
    BY <1>1, PutAppends
  <2>2. OwnLines(u)' = OwnLines(u)
    BY <1>2, <1>4, <2>1 DEF OwnLines, Longer
  <2>3. \A i \in OwnLines(u) : TypeAt(u, i)' = TypeAt(u, i)
    BY <1>2, <1>4, <2>1 DEF OwnLines, TypeAt, Longer
  <2>4. QED
    BY <2>2, <2>3, SameOwnLines
<1>5. QED
  BY <1>3, <1>4

\* ... but the last of its own.
LEMMA PutOfOwn ==
  ASSUME RunnerTypeOK, RunnerTypeOK', NEW t \in Turns, NEW type \in Types,
         NEW part \in Parts, Put(t, type, part)
  PROVE  /\ Silent(t) /\ type = "lifecycle" => One(t)'
         /\ One(t) /\ type = "user" => Two(t)'
         /\ Two(t) /\ type = "assistant" => Three(t)'
         /\ \A other \in Types : Wrote(t, other)' <=> Wrote(t, other) \/ other = type
<1>1. PICK s \in Sessions : s = SessionOf[t]
  BY RunnerAssumption
<1>2. PICK m \in Nat : Longer(s, m, [turn |-> t, type |-> type, part |-> part])
  BY <1>1, PutAppends
<1>3. /\ OwnLines(t)' = OwnLines(t) \cup {m}
      /\ \A i \in OwnLines(t) : i < m /\ TypeAt(t, i)' = TypeAt(t, i)
      /\ TypeAt(t, m)' = type
  BY <1>1, <1>2 DEF OwnLines, TypeAt, Longer
<1>4. Silent(t) /\ type = "lifecycle" => One(t)'
  BY <1>3 DEF Silent, One
<1>5. One(t) /\ type = "user" => Two(t)'
  BY <1>3 DEF One, Two
<1>6. Two(t) /\ type = "assistant" => Three(t)'
  BY <1>3 DEF Two, Three
<1>7. \A other \in Types : Wrote(t, other)' <=> Wrote(t, other) \/ other = type
  <2>1. \A o : Wrote(t, o) <=> \E i \in OwnLines(t) : TypeAt(t, i) = o
    BY WroteLines
  <2>2. \A o : Wrote(t, o)' <=> \E i \in OwnLines(t)' : TypeAt(t, i)' = o
    BY WroteLines
  <2>3. QED
    BY <1>3, <2>1, <2>2
<1>8. QED
  BY <1>4, <1>5, <1>6, <1>7

\* What the shapes of a turn's lines say of their types.
LEMMA TypesOfShapes ==
  ASSUME RunnerTypeOK, NEW t \in Turns
  PROVE  /\ Silent(t) => \A type \in Types : ~Wrote(t, type)
         /\ One(t) \/ Two(t) => ~Wrote(t, "assistant") /\ ~Wrote(t, "error")
         /\ Two(t) => Wrote(t, "user")
         /\ Three(t) => Wrote(t, "user") /\ Wrote(t, "assistant") /\ ~Wrote(t, "error")
<1>1. \A type : Wrote(t, type) <=> \E i \in OwnLines(t) : TypeAt(t, i) = type
  BY WroteLines
<1>2. QED
  BY <1>1 DEF Silent, One, Two, Three
-----------------------------------------------------------------------------
(***************************************************************************)
(* A step is one of a single turn: the others stay as they are.            *)
(***************************************************************************)
ScalarTypes ==
  /\ phase \in [Turns -> Phases]
  /\ failure \in [Turns -> Codes]
  /\ result \in [Turns -> Results]
  /\ race \in [Turns -> Races]
  /\ call \in [Turns -> Calls]
  /\ verdict \in [Turns -> Verdicts]
  /\ DOMAIN context = Turns
  /\ touched \in SUBSET Turns
  /\ faults \in Nat

SameScalars(u) ==
  /\ phase'[u] = phase[u]
  /\ failure'[u] = failure[u]
  /\ result'[u] = result[u]
  /\ race'[u] = race[u]
  /\ call'[u] = call[u]
  /\ verdict'[u] = verdict[u]
  /\ context'[u] = context[u]
  /\ stage'[u] = stage[u]
  /\ u \in touched' <=> u \in touched

\* What any action of turn t can do.
StepOf(t) ==
  /\ ScalarTypes'
  /\ \A u \in Turns \ {t} : SameScalars(u)
  /\ UNCHANGED persisted
  /\ faults' \in {faults, faults + 1}
  /\ UNCHANGED transcript \/ \E type \in Types, part \in Parts : Put(t, type, part)
  /\ UNCHANGED audit \/ \E by \in Packages, outcome \in AuditOutcomes : Audit(t, by, outcome)
  /\ UNCHANGED events \/ \E event \in EventNames : Emit(t, event)

\* The turn's own step in the queue.
LEMMA QueueActionsAreLocal ==
  ASSUME ChainInv, RunnerInv, NEW t \in Turns,
         Refuse(t) \/ Submit(t) \/ BeginTurn(t) \/ Release(t)
  PROVE  StepOf(t)
<1> USE DEF RunnerInv, RunnerTypeOK, StepOf, ScalarTypes, SameScalars, ChainInv, QueueTypeOK
<1>1. CASE Refuse(t)
  BY <1>1 DEF Refuse, queueVars, callVars, logVars, sessionVars, Refusals, Results
<1>2. CASE Submit(t)
  BY <1>2 DEF Submit, Enqueue, runnerVars
<1>3. CASE BeginTurn(t)
  BY <1>3 DEF BeginTurn, Start, Goto, callVars, logVars, sessionVars, Phases, Opening
<1>4. CASE Release(t)
  BY <1>4 DEF Release, Settle, runnerVars
<1>5. QED
  BY <1>1, <1>2, <1>3, <1>4

LEMMA CallGotoIsLocal ==
  ASSUME RunnerTypeOK, NEW t \in Turns, NEW from, NEW to \in Calls, NEW v \in Verdicts,
         CallGoto(t, from, to, v)
  PROVE  /\ call[t] = from /\ call'[t] = to /\ verdict'[t] = v
         /\ call' \in [Turns -> Calls] /\ verdict' \in [Turns -> Verdicts]
         /\ \A u \in Turns \ {t} : call'[u] = call[u] /\ verdict'[u] = verdict[u]
BY DEF CallGoto, RunnerTypeOK

LEMMA CallActionsAreLocal ==
  ASSUME ChainInv, RunnerInv, NEW t \in Turns, CallStep(t) \/ Timeout(t) \/ CallerAbort(t)
  PROVE  StepOf(t)
<1>0. RunnerTypeOK
  BY DEF RunnerInv
<1>1. ASSUME NEW from, NEW to \in Calls, NEW v \in Verdicts, CallGoto(t, from, to, v),
             UNCHANGED callFrame, UNCHANGED faults \/ Fault,
             UNCHANGED audit \/ \E by \in Packages, outcome \in AuditOutcomes : Audit(t, by, outcome)
      PROVE  StepOf(t)
  <2>1. /\ call' \in [Turns -> Calls] /\ verdict' \in [Turns -> Verdicts]
        /\ \A u \in Turns \ {t} : call'[u] = call[u] /\ verdict'[u] = verdict[u]
    BY <1>0, <1>1, CallGotoIsLocal
  <2>2. faults' \in {faults, faults + 1} /\ faults' \in Nat
    BY <1>0, <1>1 DEF Fault, RunnerTypeOK
  <2>3. ScalarTypes'
    BY <1>0, <1>1, <2>1, <2>2 DEF RunnerTypeOK, ScalarTypes, callFrame, sessionVars
  <2>4. \A u \in Turns \ {t} : SameScalars(u)
    BY <1>1, <2>1 DEF SameScalars, callFrame, sessionVars, queueVars
  <2>5. QED
    BY <1>1, <2>2, <2>3, <2>4 DEF StepOf, callFrame, sessionVars
<1>2. CASE LookUp(t)
  BY <1>1, <1>2 DEF LookUp, Calls, Verdicts, CallFailures
<1>3. CASE Decide(t)
  BY <1>1, <1>3 DEF Decide, Calls, Verdicts, CallFailures
<1>4. CASE AuditDecision(t)
  BY <1>1, <1>4 DEF AuditDecision, Calls, Verdicts, CallFailures, Packages, AuditOutcomes
<1>5. CASE ProviderAnswers(t)
  BY <1>1, <1>5 DEF ProviderAnswers, Calls, Verdicts, CallFailures
<1>6. AuditCall(t) => \E by \in Packages, outcome \in AuditOutcomes : Audit(t, by, outcome)
  BY DEF AuditCall, Packages, AuditOutcomes
<1>7. CASE AuditCallInTry(t) \/ AuditCallOutcome(t)
  <2>1. verdict[t] \in Verdicts
    BY <1>0 DEF RunnerTypeOK
  <2>2. QED
    BY <1>1, <1>6, <1>7, <2>1 DEF AuditCallInTry, AuditCallOutcome, Calls, Verdicts, CallFailures
<1> USE DEF RunnerInv, RunnerTypeOK, StepOf, ScalarTypes, SameScalars, queueVars
<1> USE DEF sessionVars, logVars, Calls, Verdicts, CallFailures, Fault
<1>8. ASSUME NEW outcome \in {"ok"} \cup CallFailures, SettleRace(t, outcome)
      PROVE  /\ phase' \in [Turns -> Phases] /\ failure' \in [Turns -> Codes] /\ race' \in [Turns -> Races]
             /\ \A u \in Turns \ {t} : phase'[u] = phase[u] /\ failure'[u] = failure[u] /\ race'[u] = race[u]
  <2>1. outcome \in Races /\ {"audit_succeeded", "audit_failed"} \subseteq Phases /\ CallFailures \subseteq Codes
    BY DEF Phases, Awaiting, Failing, Codes, Races
  <2>2. /\ phase' \in [Turns -> Phases] /\ race' \in [Turns -> Races]
        /\ \A u \in Turns \ {t} : phase'[u] = phase[u] /\ race'[u] = race[u]
    BY <1>8, <2>1 DEF SettleRace, Goto
  <2>3. failure' \in [Turns -> Codes] /\ \A u \in Turns \ {t} : failure'[u] = failure[u]
    BY <1>8, <2>1 DEF SettleRace, Fail
  <2>4. QED
    BY <2>2, <2>3
<1>9. CASE Timeout(t)
  BY <1>8, <1>9 DEF Timeout
<1>10. CASE CallerAbort(t)
  BY <1>8, <1>10 DEF CallerAbort
<1>11. CASE CallAnswers(t)
  <2>1. verdict[t] \in {"ok"} \cup CallFailures
    BY <1>11 DEF CallAnswers, TurnInv, CallInv
  <2>2. QED
    BY <1>8, <1>11, <2>1 DEF CallAnswers
<1>12. QED
  BY <1>2, <1>3, <1>4, <1>5, <1>7, <1>9, <1>10, <1>11 DEF CallStep

\* The steps of runTurnNow itself.
LEMMA GotoIsLocal ==
  ASSUME RunnerTypeOK, NEW t \in Turns, NEW from, NEW to \in Phases, Goto(t, from, to)
  PROVE  /\ phase[t] = from /\ phase'[t] = to
         /\ phase' \in [Turns -> Phases]
         /\ \A u \in Turns \ {t} : phase'[u] = phase[u]
BY DEF Goto, RunnerTypeOK

LEMMA FailIsLocal ==
  ASSUME RunnerTypeOK, NEW t \in Turns, NEW code \in Codes, Fail(t, code)
  PROVE  /\ failure'[t] = code
         /\ failure' \in [Turns -> Codes]
         /\ \A u \in Turns \ {t} : failure'[u] = failure[u]
BY DEF Fail, RunnerTypeOK

LEMMA ReturnIsLocal ==
  ASSUME ChainInv, RunnerTypeOK, NEW t \in Turns, NEW from, NEW code \in Results, Return(t, from, code)
  PROVE  /\ phase[t] = from /\ phase'[t] = "returned"
         /\ phase' \in [Turns -> Phases]
         /\ stage[t] = "running" /\ stage'[t] = "resolved"
         /\ result'[t] = code /\ result' \in [Turns -> Results]
         /\ \A u \in Turns \ {t} : phase'[u] = phase[u] /\ stage'[u] = stage[u] /\ result'[u] = result[u]
BY DEF Return, Goto, Finish, RunnerTypeOK, ChainInv, QueueTypeOK, Phases, Leaving

LEMMA ThrowIsLocal ==
  ASSUME ChainInv, RunnerTypeOK, NEW t \in Turns, NEW from, Throw(t, from)
  PROVE  /\ phase[t] = from /\ phase'[t] = "returned"
         /\ phase' \in [Turns -> Phases]
         /\ stage[t] = "running" /\ stage'[t] = "rejected"
         /\ result'[t] = "rejected" /\ result' \in [Turns -> Results]
         /\ \A u \in Turns \ {t} : phase'[u] = phase[u] /\ stage'[u] = stage[u] /\ result'[u] = result[u]
         /\ faults' = faults + 1
         /\ UNCHANGED <<transcript, audit, events, failure>>
BY DEF Throw, Goto, Fault, Finish, RunnerTypeOK, ChainInv, QueueTypeOK, Phases, Leaving, Results, logVars

LEMMA TurnActionsAreLocal ==
  ASSUME ChainInv, RunnerInv, NEW t \in Turns, TurnStepNow(t)
  PROVE  StepOf(t)
<1> USE DEF RunnerInv, StepOf, ScalarTypes, SameScalars, queueVars, callVars, sessionVars
<1> USE DEF Phases, Opening, Awaiting, Succeeding, Failing, Leaving
<1> USE DEF Codes, CallFailures, StoreFailures, Results
<1>1. RunnerTypeOK /\ ScalarTypes
  BY DEF RunnerTypeOK
<1>2. ASSUME NEW from, NEW to \in Phases, NEW type \in Types, AwaitAppend(t, from, type, to)
      PROVE  StepOf(t)
  BY <1>1, <1>2, GotoIsLocal, FailIsLocal DEF AwaitAppend, Record, Parts, AppendFails, Fault
<1>3. CASE AppendLifecycle(t) \/ AppendUser(t) \/ AppendAssistant(t)
  BY <1>2, <1>3 DEF AppendLifecycle, AppendUser, AppendAssistant, Types
<1>4. CASE ReadTranscript(t)
  BY <1>1, <1>4, GotoIsLocal, FailIsLocal DEF ReadTranscript, Fault, logVars
<1>5. ASSUME NEW from, NEW to \in Phases, NEW outcome \in AuditOutcomes, AwaitAudit(t, from, outcome, to)
      PROVE  StepOf(t)
  BY <1>1, <1>5, GotoIsLocal, ThrowIsLocal DEF AwaitAudit, Packages
<1>6. CASE AuditRequested(t) \/ AuditReadFailed(t) \/ AuditSucceeded(t) \/ AuditFailed(t)
  BY <1>5, <1>6 DEF AuditRequested, AuditReadFailed, AuditSucceeded, AuditFailed, AuditOutcomes
<1>7. CASE EmitRequested(t)
  BY <1>1, <1>7, GotoIsLocal, FailIsLocal DEF EmitRequested, EventNames, Races, Calls
<1>8. CASE EmitSucceeded(t) \/ EmitFailed(t)
  BY <1>1, <1>8, GotoIsLocal DEF EmitSucceeded, EmitFailed, emitFrame, EventNames
<1>9. CASE TouchSession(t)
  BY <1>1, <1>9, GotoIsLocal, FailIsLocal, ReturnIsLocal DEF TouchSession, Fault, logVars
<1>10. CASE EmitUpdated(t)
  BY <1>1, <1>10, ReturnIsLocal DEF EmitUpdated, EventNames
<1>11. CASE EmitRuntimeFailed(t)
  BY <1>1, <1>11, GotoIsLocal, ReturnIsLocal DEF EmitRuntimeFailed, EventNames
<1>12. CASE AppendError(t)
  <2>1. failure[t] \in Results
    BY <1>1
  <2>2. QED
    BY <1>1, <1>12, <2>1, ReturnIsLocal DEF AppendError, Record, Parts, AppendFails, Fault, Types
<1>13. QED
  BY <1>3, <1>4, <1>6, <1>7, <1>8, <1>9, <1>10, <1>11, <1>12 DEF TurnStepNow

\* Nothing that TurnInv says of turn u changes.
Untouched(u) ==
  SameScalars(u) /\ CoreSame(u) /\ BelowSame(u) /\ EventsSame(u) /\ LinesSame(u)

LEMMA StepsAreLocal ==
  ASSUME ChainInv, RunnerInv, NEW t \in Turns, StepOf(t)
  PROVE  RunnerTypeOK' /\ \A u \in Turns \ {t} : Untouched(u)
<1>1. RunnerTypeOK'
  <2>1. transcript' \in [Sessions -> Seq([turn : Turns, type : Types, part : Parts])]
    BY PutAppends DEF StepOf, RunnerInv, RunnerTypeOK
  <2>2. audit' \in [Turns -> Seq([by : Packages, outcome : AuditOutcomes])]
    BY AuditAppends DEF StepOf, RunnerInv, RunnerTypeOK
  <2>3. events' \in [Turns -> Seq(EventNames)]
    BY EmitAdds DEF StepOf, RunnerInv, RunnerTypeOK
  <2>4. QED
    BY <2>1, <2>2, <2>3 DEF StepOf, ScalarTypes, RunnerTypeOK
<1>2. ASSUME NEW u \in Turns \ {t} PROVE Untouched(u)
  <2>1. audit'[u] = audit[u]
    BY AuditAppends DEF StepOf, RunnerInv
  <2>2. events'[u] = events[u]
    BY EmitAdds DEF StepOf, RunnerInv
  <2>3. LinesSame(u)
    BY <1>1, SameTranscript, PutOfAnother DEF StepOf, RunnerInv
  <2>4. SameScalars(u)
    BY DEF StepOf
  <2>5. QED
    BY <2>1, <2>2, <2>3, <2>4, SameAudit, SameEvents DEF Untouched
<1>3. QED
  BY <1>1, <1>2

\* So what is said of the others stays true.
LEMMA UntouchedKeeps ==
  ASSUME RunnerTypeOK, RunnerTypeOK', NEW u \in Turns, TurnInv(u), Untouched(u),
         UNCHANGED persisted, faults' \in {faults, faults + 1}
  PROVE  TurnInv(u)'
<1> USE DEF Untouched, SameScalars
<1>1. ControlInv(u)'
  BY DEF TurnInv, ControlInv
<1>2. PathInv(u)'
  BY DEF TurnInv, PathInv, RunnerTypeOK
<1>3. CoreInv(u)'
  BY DEF TurnInv, CoreInv, CoreSame
<1>4. EventInv(u)'
  BY DEF TurnInv, EventInv, CoreSame, EventsSame, EventNames
<1>5. OwnInv(u)'
  BY DEF TurnInv, OwnInv, CoreSame, LinesSame, Types, RunnerTypeOK
<1>6. CallInv(u)'
  BY DEF TurnInv, CallInv, BelowSame, AuditOutcomes, RunnerTypeOK
<1>7. QED
  BY <1>1, <1>2, <1>3, <1>4, <1>5, <1>6 DEF TurnInv
-----------------------------------------------------------------------------
(***************************************************************************)
(* What a step does to its own turn.                                       *)
(***************************************************************************)
OwnPart(t) == ControlInv(t) /\ PathInv(t) /\ CoreInv(t) /\ EventInv(t) /\ OwnInv(t)

\* The call and what is audited below are not runTurnNow's ...
LEMMA RunnerKeepsCall ==
  ASSUME RunnerTypeOK, NEW t \in Turns, CallInv(t), BelowSame(t),
         call'[t] = call[t], verdict'[t] = verdict[t], faults' \in {faults, faults + 1},
         phase'[t] \in Opening \cup {"emit_requested", "audit_read_failed"}
           => phase[t] \in Opening \cup {"emit_requested", "audit_read_failed"}
  PROVE  CallInv(t)'
BY DEF CallInv, BelowSame, AuditOutcomes, RunnerTypeOK

\* ... and what runTurnNow keeps is not the call's.
LEMMA CallKeepsRunner ==
  ASSUME RunnerTypeOK, NEW t \in Turns, OwnPart(t), CoreSame(t),
         UNCHANGED <<queueVars, phase, failure, result, race, transcript, events, sessionVars>>,
         faults' \in {faults, faults + 1}
  PROVE  OwnPart(t)'
<1> USE DEF OwnPart, queueVars, sessionVars
<1>1. EventsSame(t) /\ LinesSame(t)
  BY SameEvents, SameTranscript
<1>2. ControlInv(t)' /\ PathInv(t)'
  BY DEF ControlInv, PathInv, RunnerTypeOK
<1>3. CoreInv(t)'
  BY DEF CoreInv, CoreSame
<1>4. EventInv(t)'
  BY <1>1 DEF EventInv, CoreSame, EventsSame, EventNames
<1>5. OwnInv(t)'
  BY <1>1 DEF OwnInv, CoreSame, LinesSame, Types, RunnerTypeOK
<1>6. QED
  BY <1>2, <1>3, <1>4, <1>5

LEMMA QueueActionsKeep ==
  ASSUME ChainInv, RunnerInv, NEW t \in Turns,
         Refuse(t) \/ Submit(t) \/ BeginTurn(t) \/ Release(t)
  PROVE  TurnInv(t)'
<1>1. RunnerTypeOK /\ TurnInv(t) /\ stage \in [Turns -> Stages]
  BY DEF RunnerInv, ChainInv, QueueTypeOK
<1>2. /\ UNCHANGED <<failure, race, call, verdict, transcript, audit, events, touched, persisted, faults>>
      /\ CoreSame(t) /\ BelowSame(t) /\ EventsSame(t) /\ LinesSame(t)
  BY SameAudit, SameEvents, SameTranscript
  DEF Refuse, Submit, BeginTurn, Release, runnerVars, callVars, logVars, sessionVars
<1>3. \/ /\ Refuse(t) /\ stage[t] = "new" /\ UNCHANGED <<stage, phase>> /\ result'[t] \in Refusals
      \/ /\ Submit(t) /\ stage[t] = "new" /\ stage'[t] = "queued" /\ UNCHANGED <<phase, result>>
         /\ result[t] = "none"
      \/ /\ BeginTurn(t) /\ stage[t] = "queued" /\ stage'[t] = "running"
         /\ phase[t] = "idle" /\ phase'[t] = "lifecycle" /\ UNCHANGED result
      \/ /\ Release(t) /\ UNCHANGED <<stage, phase, result>>
  BY <1>1
  DEF Refuse, Submit, Enqueue, BeginTurn, Start, Goto, Release, Settle, runnerVars, queueVars, RunnerTypeOK
<1> USE DEF Refusals, CallFailures, StoreFailures, Opening, Awaiting, Succeeding, Failing, Leaving
<1> USE DEF Finished, Codes
<1>4. ControlInv(t)' /\ PathInv(t)'
  BY <1>1, <1>2, <1>3 DEF TurnInv, ControlInv, PathInv
<1>5. CoreInv(t)'
  BY <1>1, <1>2, <1>3 DEF TurnInv, ControlInv, CoreInv, CoreSame
<1>6. EventInv(t)'
  BY <1>1, <1>2, <1>3 DEF TurnInv, ControlInv, EventInv, CoreSame, EventsSame, EventNames
<1>7. OwnInv(t)'
  BY <1>1, <1>2, <1>3 DEF TurnInv, ControlInv, OwnInv, CoreSame, LinesSame, Types
<1>8. CallInv(t)'
  BY <1>1, <1>2, <1>3, RunnerKeepsCall DEF TurnInv
<1>9. QED
  BY <1>4, <1>5, <1>6, <1>7, <1>8 DEF TurnInv

\* The appends to the transcript up to the provider call and the one after it.
LEMMA AppendsKeep ==
  ASSUME ChainInv, RunnerInv, RunnerTypeOK', NEW t \in Turns,
         AppendLifecycle(t) \/ AppendUser(t) \/ AppendAssistant(t)
  PROVE  TurnInv(t)'
<1>1. RunnerTypeOK /\ TurnInv(t)
  BY DEF RunnerInv
<1>2. /\ UNCHANGED <<stage, result, race, call, verdict, audit, events, touched, persisted>>
      /\ CoreSame(t) /\ BelowSame(t) /\ EventsSame(t)
  BY SameAudit, SameEvents
  DEF AppendLifecycle, AppendUser, AppendAssistant, AwaitAppend, queueVars, callVars, sessionVars
<1>3. PICK from, to, type :
        /\ <<from, type, to>> \in {<<"lifecycle", "lifecycle", "user">>, <<"user", "user", "read">>,
                                   <<"assistant", "assistant", "touch">>}
        /\ AwaitAppend(t, from, type, to)
  BY DEF AppendLifecycle, AppendUser, AppendAssistant
<1>4. to \in Phases /\ "emit_runtime_failed" \in Phases /\ "transcript" \in Codes /\ type \in Types
  BY <1>3 DEF Phases, Opening, Succeeding, Leaving, Codes, StoreFailures, Types
<1>5. \/ /\ phase[t] = from /\ phase'[t] = to /\ Record(t, type) /\ UNCHANGED <<failure, faults>>
      \/ /\ phase[t] = from /\ phase'[t] = "emit_runtime_failed"
         /\ (\E part \in Parts : Put(t, type, part)) \/ UNCHANGED transcript
         /\ failure'[t] = "transcript" /\ faults' = faults + 1 /\ faults' > 0
  <2>1. CASE Goto(t, from, to) /\ Record(t, type) /\ UNCHANGED <<failure, faults>>
    BY <1>1, <1>4, <2>1, GotoIsLocal
  <2>2. CASE /\ Goto(t, from, "emit_runtime_failed")
             /\ AppendFails(t, type)
             /\ Fail(t, "transcript")
    <3>1. faults \in Nat
      BY <1>1 DEF RunnerTypeOK
    <3>2. phase[t] = from /\ phase'[t] = "emit_runtime_failed" /\ failure'[t] = "transcript"
      BY <1>1, <1>4, <2>2, GotoIsLocal, FailIsLocal
    <3>3. QED
      BY <2>2, <3>1, <3>2 DEF AppendFails, Fault
  <2>3. QED
    BY <1>3, <2>1, <2>2 DEF AwaitAppend
<1>6. /\ \A other \in Types : Wrote(t, other)' => Wrote(t, other) \/ other = type
      /\ \A other \in Types : Wrote(t, other) => Wrote(t, other)'
      /\ phase'[t] = "user" => One(t)'
      /\ phase'[t] = "read" => Two(t)'
      /\ phase'[t] = "touch" => Three(t)'
  <2>1. CASE UNCHANGED transcript /\ phase'[t] = "emit_runtime_failed"
    BY <2>1, SameTranscript DEF LinesSame
  <2>2. ASSUME NEW part \in Parts, Put(t, type, part)
        PROVE  /\ \A other \in Types : Wrote(t, other)' => Wrote(t, other) \/ other = type
               /\ \A other \in Types : Wrote(t, other) => Wrote(t, other)'
               /\ phase'[t] = "user" => One(t)'
               /\ phase'[t] = "read" => Two(t)'
               /\ phase'[t] = "touch" => Three(t)'
    BY <1>1, <1>3, <1>4, <1>5, <2>2, PutOfOwn DEF TurnInv, OwnInv
  <2>3. QED
    BY <1>5, <2>1, <2>2 DEF Record, Parts
<1> USE DEF Opening, Awaiting, Succeeding, Failing, Leaving, CallFailures, StoreFailures
<1>7. ControlInv(t)'
  BY <1>1, <1>2, <1>3, <1>5 DEF TurnInv, ControlInv
<1>8. PathInv(t)'
  BY <1>1, <1>2, <1>3, <1>5 DEF TurnInv, PathInv
<1>9. CoreInv(t)'
  BY <1>1, <1>2, <1>3, <1>5 DEF TurnInv, PathInv, CoreInv, CoreSame
<1>10. EventInv(t)'
  BY <1>1, <1>2, <1>3, <1>5, OneShape DEF Exclusive, TurnInv, CoreInv, EventInv, CoreSame, EventsSame, EventNames, Exclusive
<1>11. OwnInv(t)'
  BY <1>1, <1>2, <1>3, <1>5, <1>6, TypesOfShapes
  DEF TurnInv, ControlInv, CoreInv, OwnInv, CoreSame, Types
<1>12. CallInv(t)'
  BY <1>1, <1>2, <1>3, <1>5, RunnerKeepsCall DEF TurnInv
<1>13. QED
  BY <1>7, <1>8, <1>9, <1>10, <1>11, <1>12 DEF TurnInv

LEMMA ReadKeeps ==
  ASSUME ChainInv, RunnerInv, RunnerTypeOK', NEW t \in Turns, ReadTranscript(t)
  PROVE  TurnInv(t)'
<1>1. RunnerTypeOK /\ TurnInv(t)
  BY DEF RunnerInv
<1>2. /\ UNCHANGED <<stage, result, race, call, verdict, transcript, audit, events, touched, persisted>>
      /\ CoreSame(t) /\ BelowSame(t) /\ EventsSame(t) /\ LinesSame(t)
  BY SameAudit, SameEvents, SameTranscript DEF ReadTranscript, queueVars, callVars, logVars, sessionVars
<1>3. \/ phase[t] = "read" /\ phase'[t] = "audit_requested" /\ UNCHANGED <<failure, faults>>
      \/ /\ phase[t] = "read" /\ phase'[t] = "audit_read_failed" /\ failure'[t] = "read"
         /\ faults' = faults + 1 /\ faults' > 0
  BY <1>1 DEF ReadTranscript, Goto, Fail, Fault, RunnerTypeOK
<1> USE DEF Opening, Awaiting, Succeeding, Failing, Leaving, CallFailures, StoreFailures
<1>4. ControlInv(t)' /\ PathInv(t)'
  BY <1>1, <1>2, <1>3 DEF TurnInv, ControlInv, PathInv
<1>5. CoreInv(t)' /\ EventInv(t)'
  BY <1>1, <1>2, <1>3 DEF TurnInv, CoreInv, EventInv, CoreSame, EventsSame, EventNames
<1>6. OwnInv(t)'
  BY <1>1, <1>2, <1>3 DEF TurnInv, ControlInv, OwnInv, CoreSame, LinesSame, Types
<1>7. CallInv(t)'
  BY <1>1, <1>2, <1>3, RunnerKeepsCall DEF TurnInv
<1>8. QED
  BY <1>4, <1>5, <1>6, <1>7 DEF TurnInv

\* The runner's audit: one record, or a sink that throws and a turn that rejects.
LEMMA AuditsKeep ==
  ASSUME ChainInv, RunnerInv, RunnerTypeOK', NEW t \in Turns,
         AuditRequested(t) \/ AuditReadFailed(t) \/ AuditSucceeded(t) \/ AuditFailed(t)
  PROVE  TurnInv(t)'
<1>1. RunnerTypeOK /\ TurnInv(t)
  BY DEF RunnerInv
<1>2. PICK from, outcome, to :
        /\ \/ <<from, outcome, to>> \in {<<"audit_requested", "requested", "emit_requested">>,
                                        <<"audit_read_failed", "failed", "emit_runtime_failed">>,
                                        <<"audit_succeeded", "succeeded", "emit_succeeded">>}
           \/ from = "audit_failed" /\ outcome \in {"denied", "failed"} /\ to = "emit_failed"
        /\ AwaitAudit(t, from, outcome, to)
  BY DEF AuditRequested, AuditReadFailed, AuditSucceeded, AuditFailed
<1>3. to \in Phases /\ outcome \in AuditOutcomes
  BY <1>2 DEF Phases, Awaiting, Succeeding, Failing, Leaving, AuditOutcomes
<1>4. /\ UNCHANGED <<race, call, verdict, failure, transcript, events, touched, persisted>>
      /\ EventsSame(t) /\ LinesSame(t)
  BY <1>2, SameEvents, SameTranscript DEF AwaitAudit, Throw, logVars, callVars, sessionVars
<1> USE DEF Opening, Awaiting, Succeeding, Failing, Leaving, CallFailures, StoreFailures, Finished
<1>5. CASE Throw(t, from)
  <2>1. /\ phase[t] = from /\ phase'[t] = "returned" /\ stage'[t] = "rejected" /\ result'[t] = "rejected"
        /\ faults' = faults + 1 /\ UNCHANGED audit
    BY <1>1, <1>5, ThrowIsLocal
  <2>2. CoreSame(t) /\ BelowSame(t)
    BY <2>1, SameAudit
  <2> faults \in Nat /\ faults' > 0
    BY <1>1, <2>1 DEF RunnerTypeOK
  <2>3. ControlInv(t)' /\ PathInv(t)'
    BY <1>1, <1>2, <1>4, <2>1 DEF TurnInv, ControlInv, PathInv, Codes
  <2>4. CoreInv(t)'
    BY <1>1, <1>2, <1>4, <2>1, <2>2 DEF TurnInv, PathInv, CoreInv, CoreSame
  <2>5. EventInv(t)'
    BY <1>1, <1>2, <1>4, <2>1, <2>2, OneShape
    DEF Exclusive, TurnInv, CoreInv, EventInv, CoreSame, EventsSame, EventNames
  <2>6. OwnInv(t)'
    BY <1>1, <1>2, <1>4, <2>1, <2>2, OneShape DEF Exclusive, TurnInv, OwnInv, CoreSame, LinesSame, Types
  <2>7. CallInv(t)'
    BY <1>1, <1>2, <1>4, <2>1, <2>2, RunnerKeepsCall DEF TurnInv
  <2>8. QED
    BY <2>3, <2>4, <2>5, <2>6, <2>7 DEF TurnInv
<1>6. CASE ~Throw(t, from)
  <2>1. /\ phase[t] = from /\ phase'[t] = to /\ Audit(t, "core", outcome)
        /\ UNCHANGED <<stage, result, faults>>
    BY <1>1, <1>2, <1>3, <1>6, GotoIsLocal DEF AwaitAudit, queueVars
  <2>2. /\ from = "audit_requested" => Unopened(t) /\ Opened(t)'
        /\ from = "audit_read_failed" => Unopened(t) /\ FailedOnly(t)'
        /\ from = "audit_succeeded" => Opened(t) /\ Succeeded(t)'
        /\ from = "audit_failed" => Opened(t) /\ Failed(t)'
        /\ BelowSame(t)
    BY <1>1, <1>2, <1>3, <2>1, CoreAudits DEF TurnInv, CoreInv
  <2>3. ControlInv(t)' /\ PathInv(t)'
    BY <1>1, <1>2, <1>4, <2>1 DEF TurnInv, ControlInv, PathInv, Codes
  <2>4. CoreInv(t)'
    BY <1>1, <1>2, <1>4, <2>1, <2>2 DEF TurnInv, PathInv, CoreInv
  <2>5. EventInv(t)'
    BY <1>1, <1>2, <1>4, <2>1, <2>2, OneShape DEF Exclusive, TurnInv, EventInv, EventsSame, EventNames, Exclusive
  <2>6. OwnInv(t)'
    BY <1>1, <1>2, <1>4, <2>1, <2>2, OneShape DEF Exclusive, TurnInv, ControlInv, CoreInv, OwnInv, LinesSame, Types
  <2>7. CallInv(t)'
    BY <1>1, <1>2, <1>4, <2>1, <2>2, RunnerKeepsCall DEF TurnInv
  <2>8. QED
    BY <2>3, <2>4, <2>5, <2>6, <2>7 DEF TurnInv
<1>7. QED
  BY <1>5, <1>6

\* The domain events up to the answer of the provider.
LEMMA EmitsKeep ==
  ASSUME ChainInv, RunnerInv, RunnerTypeOK', NEW t \in Turns,
         EmitRequested(t) \/ EmitSucceeded(t) \/ EmitFailed(t)
  PROVE  TurnInv(t)'
<1>1. RunnerTypeOK /\ TurnInv(t)
  BY DEF RunnerInv
<1>2. /\ UNCHANGED <<stage, result, verdict, transcript, audit, touched, persisted, faults>>
      /\ CoreSame(t) /\ BelowSame(t) /\ LinesSame(t)
  BY SameAudit, SameTranscript
  DEF EmitRequested, EmitSucceeded, EmitFailed, emitFrame, queueVars, callVars, sessionVars
<1>3. \/ /\ phase[t] = "emit_requested" /\ Emit(t, "call_requested")
         /\ \/ phase'[t] = "audit_failed" /\ failure'[t] = "cancelled" /\ UNCHANGED <<race, call>>
            \/ phase'[t] = "provider" /\ race'[t] = "open" /\ call'[t] = "scheduled" /\ UNCHANGED failure
      \/ /\ phase[t] = "emit_succeeded" /\ phase'[t] = "assistant" /\ Emit(t, "call_succeeded")
         /\ UNCHANGED <<failure, race, call>>
      \/ /\ phase[t] = "emit_failed" /\ phase'[t] = "error" /\ Emit(t, "call_failed")
         /\ UNCHANGED <<failure, race, call>>
  <2>1. CASE EmitRequested(t)
    BY <1>1, <2>1 DEF EmitRequested, Goto, Fail, RunnerTypeOK
  <2>2. CASE EmitSucceeded(t) \/ EmitFailed(t)
    BY <1>1, <2>2 DEF EmitSucceeded, EmitFailed, Goto, emitFrame, callVars, RunnerTypeOK
  <2>3. QED
    BY <2>1, <2>2
<1>4. \A event \in EventNames : Emitted(t, event)' <=>
        \/ Emitted(t, event)
        \/ phase[t] = "emit_requested" /\ event = "call_requested"
        \/ phase[t] = "emit_succeeded" /\ event = "call_succeeded"
        \/ phase[t] = "emit_failed" /\ event = "call_failed"
  BY <1>1, <1>3, EmitAdds DEF EventNames
<1> USE DEF Opening, Awaiting, Succeeding, Failing, Leaving, CallFailures, StoreFailures, Finished
<1>5. ControlInv(t)' /\ PathInv(t)'
  BY <1>1, <1>2, <1>3 DEF TurnInv, ControlInv, PathInv
<1>6. CoreInv(t)'
  BY <1>1, <1>2, <1>3 DEF TurnInv, PathInv, CoreInv, CoreSame
<1>7. EventInv(t)'
  BY <1>1, <1>2, <1>3, <1>4, OneShape DEF Exclusive, TurnInv, CoreInv, EventInv, CoreSame, EventNames
<1>8. OwnInv(t)'
  BY <1>1, <1>2, <1>3, TypesOfShapes DEF TurnInv, ControlInv, OwnInv, CoreSame, LinesSame, Types
<1>9. CallInv(t)'
  <2>1. CASE call'[t] = call[t]
    BY <1>1, <1>2, <1>3, <2>1, RunnerKeepsCall DEF TurnInv
  <2>2. CASE call'[t] # call[t]
    <3>1. phase'[t] = "provider" /\ call[t] = "none" /\ call'[t] = "scheduled"
      BY <1>1, <1>3, <2>2 DEF TurnInv, CallInv
    <3>2. QED
      BY <1>1, <1>2, <3>1 DEF TurnInv, CallInv, BelowSame, AuditOutcomes
  <2>3. QED
    BY <2>1, <2>2
<1>10. QED
  BY <1>5, <1>6, <1>7, <1>8, <1>9 DEF TurnInv

\* The end of a turn that got its answer.
LEMMA EndingsKeep ==
  ASSUME ChainInv, RunnerInv, RunnerTypeOK', NEW t \in Turns,
         TouchSession(t) \/ EmitUpdated(t)
  PROVE  TurnInv(t)'
<1>1. RunnerTypeOK /\ TurnInv(t) /\ faults \in Nat
  BY DEF RunnerInv, RunnerTypeOK
<1>2. /\ UNCHANGED <<race, call, verdict, transcript, audit, persisted>>
      /\ CoreSame(t) /\ BelowSame(t) /\ LinesSame(t)
  BY SameAudit, SameTranscript DEF TouchSession, EmitUpdated, logVars, callVars, sessionVars
<1>3. "ok" \in Results /\ {"emit_updated", "emit_runtime_failed"} \subseteq Phases /\ "session" \in Codes
  BY DEF Results, Phases, Succeeding, Leaving, Codes, StoreFailures
<1>4. \/ /\ phase[t] = "touch" /\ phase'[t] = "emit_updated" /\ SessionOf[t] \in persisted
         /\ touched' = touched \cup {t}
         /\ UNCHANGED <<stage, failure, result, events, faults>>
      \/ /\ phase[t] = "touch" /\ phase'[t] = "returned" /\ SessionOf[t] \notin persisted
         /\ stage'[t] = "resolved" /\ result'[t] = "ok"
         /\ UNCHANGED <<failure, touched, events, faults>>
      \/ /\ phase[t] = "touch" /\ phase'[t] = "emit_runtime_failed" /\ failure'[t] = "session"
         /\ faults' = faults + 1
         /\ UNCHANGED <<stage, result, touched, events>>
      \/ /\ phase[t] = "emit_updated" /\ phase'[t] = "returned"
         /\ stage'[t] = "resolved" /\ result'[t] = "ok" /\ Emit(t, "session_updated")
         /\ UNCHANGED <<failure, touched, faults>>
  <2>1. CASE EmitUpdated(t)
    BY <1>1, <1>3, <2>1, ReturnIsLocal DEF EmitUpdated, sessionVars
  <2>2. CASE TouchSession(t)
    BY <1>1, <1>3, <2>2, ReturnIsLocal, GotoIsLocal, FailIsLocal
    DEF TouchSession, Fault, logVars, queueVars
  <2>3. QED
    BY <2>1, <2>2
<1>5. \A event \in EventNames : Emitted(t, event)' <=>
        Emitted(t, event) \/ (phase[t] = "emit_updated" /\ event = "session_updated")
  BY <1>1, <1>4, EmitAdds, SameEvents DEF EventNames, EventsSame
<1> USE DEF Opening, Awaiting, Succeeding, Failing, Leaving, CallFailures, StoreFailures, Finished
<1>6. ControlInv(t)'
  BY <1>1, <1>2, <1>4 DEF TurnInv, ControlInv, Codes
<1>7. PathInv(t)'
  BY <1>1, <1>2, <1>4 DEF TurnInv, PathInv
<1>8. CoreInv(t)'
  BY <1>1, <1>2, <1>4 DEF TurnInv, PathInv, CoreInv, CoreSame
<1>9. EventInv(t)'
  BY <1>1, <1>2, <1>4, <1>5, OneShape
  DEF Exclusive, TurnInv, ControlInv, CoreInv, EventInv, CoreSame, EventNames
<1>10. OwnInv(t)'
  BY <1>1, <1>2, <1>4, TypesOfShapes
  DEF TurnInv, ControlInv, PathInv, CoreInv, OwnInv, CoreSame, LinesSame, Types
<1>11. CallInv(t)'
  BY <1>1, <1>2, <1>4, RunnerKeepsCall DEF TurnInv
<1>12. QED
  BY <1>6, <1>7, <1>8, <1>9, <1>10, <1>11 DEF TurnInv

\* The end of one that did not, or whose exchange could not be kept.
LEMMA FailuresKeep ==
  ASSUME ChainInv, RunnerInv, RunnerTypeOK', NEW t \in Turns,
         EmitRuntimeFailed(t) \/ AppendError(t)
  PROVE  TurnInv(t)'
<1>1. RunnerTypeOK /\ TurnInv(t) /\ faults \in Nat
  BY DEF RunnerInv, RunnerTypeOK
<1>2. /\ UNCHANGED <<failure, race, call, verdict, audit, touched, persisted>>
      /\ CoreSame(t) /\ BelowSame(t)
  BY SameAudit DEF EmitRuntimeFailed, AppendError, callVars, sessionVars
<1>3. "transcript" \in Results /\ failure[t] \in Results /\ "error" \in Phases /\ "error" \in Types
  BY <1>1 DEF RunnerTypeOK, Results, Codes, StoreFailures, Phases, Leaving, Types
<1>4. \/ /\ phase[t] = "emit_runtime_failed" /\ phase'[t] = "error" /\ failure[t] # "transcript"
         /\ UNCHANGED <<stage, result, transcript, faults>> /\ Emit(t, "runtime_failed")
      \/ /\ phase[t] = "emit_runtime_failed" /\ phase'[t] = "returned" /\ failure[t] = "transcript"
         /\ stage'[t] = "resolved" /\ result'[t] = "transcript"
         /\ UNCHANGED <<transcript, faults>> /\ Emit(t, "runtime_failed")
      \/ /\ phase[t] = "error" /\ phase'[t] = "returned" /\ stage'[t] = "resolved"
         /\ result'[t] = failure[t] /\ UNCHANGED events
         /\ \/ Record(t, "error") /\ UNCHANGED faults
            \/ /\ (\E part \in Parts : Put(t, "error", part)) \/ UNCHANGED transcript
               /\ faults' = faults + 1 /\ faults' > 0
  <2>1. CASE EmitRuntimeFailed(t)
    BY <1>1, <1>3, <2>1, GotoIsLocal, ReturnIsLocal DEF EmitRuntimeFailed, queueVars
  <2>2. CASE AppendError(t)
    <3>1. /\ phase[t] = "error" /\ phase'[t] = "returned" /\ stage'[t] = "resolved"
          /\ result'[t] = failure[t]
      BY <1>1, <1>3, <2>2, ReturnIsLocal DEF AppendError
    <3>2. QED
      BY <1>1, <2>2, <3>1 DEF AppendError, AppendFails, Fault
  <2>3. QED
    BY <2>1, <2>2
<1>5. \A event \in EventNames \ {"runtime_failed"} : Emitted(t, event)' <=> Emitted(t, event)
  BY <1>1, <1>4, EmitAdds, SameEvents DEF EventNames, EventsSame
<1>6. /\ Wrote(t, "assistant")' <=> Wrote(t, "assistant")
      /\ Wrote(t, "error")' => Wrote(t, "error") \/ phase[t] = "error"
      /\ Record(t, "error") => Wrote(t, "error")'
  <2>1. ASSUME UNCHANGED transcript
        PROVE  /\ Wrote(t, "assistant")' <=> Wrote(t, "assistant")
               /\ Wrote(t, "error")' <=> Wrote(t, "error")
    BY <2>1, SameTranscript DEF LinesSame, Types
  <2>2. ASSUME NEW part \in Parts, Put(t, "error", part)
        PROVE  /\ Wrote(t, "assistant")' <=> Wrote(t, "assistant")
               /\ Wrote(t, "error")'
    BY <1>1, <1>3, <2>2, PutOfOwn DEF Types
  <2>3. Record(t, "error") => Wrote(t, "error")'
    BY <2>2 DEF Record, Parts
  <2>4. QED
    BY <1>4, <2>1, <2>2, <2>3 DEF Record, Parts
<1> USE DEF Opening, Awaiting, Succeeding, Failing, Leaving, CallFailures, StoreFailures, Finished
<1>7. ControlInv(t)'
  BY <1>1, <1>2, <1>4 DEF TurnInv, ControlInv, PathInv, Codes
<1>8. PathInv(t)'
  BY <1>1, <1>2, <1>4 DEF TurnInv, PathInv
<1>9. CoreInv(t)'
  BY <1>1, <1>2, <1>4 DEF TurnInv, ControlInv, PathInv, CoreInv, CoreSame
<1>10. EventInv(t)'
  BY <1>1, <1>2, <1>4, <1>5, OneShape
  DEF Exclusive, TurnInv, ControlInv, PathInv, CoreInv, EventInv, CoreSame, EventNames
<1>11. OwnInv(t)'
  BY <1>1, <1>2, <1>4, <1>6
  DEF TurnInv, ControlInv, PathInv, CoreInv, OwnInv, CoreSame
<1>12. CallInv(t)'
  <2>1. faults' \in {faults, faults + 1}
    BY <1>4
  <2>2. QED
    BY <1>1, <1>2, <1>4, <2>1, RunnerKeepsCall DEF TurnInv
<1>13. QED
  BY <1>7, <1>8, <1>9, <1>10, <1>11, <1>12 DEF TurnInv

\* chatResult, from the lookup of the provider to the audit of the outcome.
LEMMA ChatKeeps ==
  ASSUME ChainInv, RunnerInv, RunnerTypeOK', NEW t \in Turns,
         \/ LookUp(t) \/ Decide(t) \/ AuditDecision(t)
         \/ ProviderAnswers(t) \/ AuditCallInTry(t) \/ AuditCallOutcome(t)
  PROVE  TurnInv(t)'
<1>1. RunnerTypeOK /\ TurnInv(t) /\ CallInv(t) /\ faults \in Nat
  BY DEF RunnerInv, RunnerTypeOK, TurnInv
<1>2. UNCHANGED <<queueVars, phase, failure, result, race, transcript, events, sessionVars>>
  BY DEF LookUp, Decide, AuditDecision, ProviderAnswers, AuditCallInTry, AuditCallOutcome, callFrame
<1> DEFINE Went(from, to, v) == call[t] = from /\ call'[t] = to /\ verdict'[t] = v
<1> DEFINE Silence == UNCHANGED <<audit, faults>>
<1> DEFINE Loss == UNCHANGED audit /\ faults' = faults + 1 /\ faults' > 0
<1> DEFINE Kept(by, outcome) == Audit(t, by, outcome) /\ UNCHANGED faults
<1> DEFINE Quiet ==
      \/ Silence /\ \E v \in {"not_found", "unsupported"} : Went("scheduled", "returned", v)
      \/ Silence /\ Went("scheduled", "deciding", "none")
      \/ Silence /\ \E v \in {"allow", "deny"} : Went("deciding", "audit_decision", v)
      \/ Loss /\ Went("deciding", "audit", "failed")
      \/ Loss /\ Went("audit_decision", "audit", "failed")
      \/ Silence /\ \E v \in {"ok", "cancelled"} : Went("chatting", "audit_in_try", v)
      \/ Silence /\ \E v \in {"failed", "cancelled"} : Went("chatting", "audit", v)
      \/ Loss /\ \E v \in {"failed", "cancelled"} : Went("audit_in_try", "audit", v)
      \/ Loss /\ Went("audit", "returned", "failed")
<1> DEFINE Decided ==
      \/ Kept("permissions", "allowed") /\ Went("audit_decision", "chatting", "none")
      \/ Kept("permissions", "denied") /\ Went("audit_decision", "audit", "denied")
<1> DEFINE Reported ==
      \/ Kept("providers", "succeeded") /\ Went("audit_in_try", "returned", verdict[t])
      \/ Kept("providers", "failed") /\ Went("audit_in_try", "returned", verdict[t])
      \/ Kept("providers", "denied") /\ Went("audit", "returned", verdict[t])
      \/ Kept("providers", "failed") /\ Went("audit", "returned", verdict[t])
<1>3. Quiet \/ Decided \/ Reported
  <2>1. ASSUME NEW from, NEW to, NEW v, CallGoto(t, from, to, v) PROVE Went(from, to, v)
    BY <1>1, <2>1 DEF CallGoto, RunnerTypeOK
  <2>2. Fault => faults' = faults + 1 /\ faults' > 0
    BY <1>1 DEF Fault
  <2> HIDE DEF Went
  <2>3. CASE LookUp(t)
    BY <2>1, <2>3 DEF LookUp
  <2>4. CASE Decide(t)
    BY <2>1, <2>2, <2>4 DEF Decide
  <2>5. CASE AuditDecision(t)
    BY <2>1, <2>2, <2>5 DEF AuditDecision
  <2>6. CASE ProviderAnswers(t)
    BY <2>1, <2>6 DEF ProviderAnswers
  <2>7. CASE AuditCallInTry(t)
    <3>1. verdict[t] \in {"ok", "cancelled"}
      BY <1>1, <2>7 DEF AuditCallInTry, CallGoto, CallInv
    <3>2. AuditCall(t) => \E o \in {"succeeded", "failed"} : Audit(t, "providers", o)
      BY <3>1 DEF AuditCall
    <3>3. QED
      BY <2>1, <2>2, <2>7, <3>2 DEF AuditCallInTry
  <2>8. CASE AuditCallOutcome(t)
    <3>1. verdict[t] \in {"denied", "failed", "cancelled"}
      BY <1>1, <2>8 DEF AuditCallOutcome, CallGoto, CallInv
    <3>2. AuditCall(t) => \E o \in {"denied", "failed"} : Audit(t, "providers", o)
      BY <3>1 DEF AuditCall
    <3>3. QED
      BY <2>1, <2>2, <2>8, <3>2 DEF AuditCallOutcome
  <2>9. QED
    BY <2>3, <2>4, <2>5, <2>6, <2>7, <2>8
<1>4. CASE Quiet
  <2>1. UNCHANGED audit /\ faults' \in {faults, faults + 1}
    BY <1>4
  <2>2. CoreSame(t) /\ BelowSame(t)
    BY <2>1, SameAudit
  <2>3. OwnPart(t)'
    BY <1>1, <1>2, <2>1, <2>2, CallKeepsRunner DEF TurnInv, OwnPart
  <2>4. CallInv(t)'
    BY <1>1, <1>2, <1>4, <2>2 DEF CallInv, BelowSame, AuditOutcomes, Opening, CallFailures
  <2>5. QED
    BY <2>3, <2>4 DEF TurnInv, OwnPart
<1>5. CASE Decided
  <2>1. PICK o \in {"allowed", "denied"} :
          /\ Audit(t, "permissions", o) /\ UNCHANGED faults /\ call[t] = "audit_decision"
          /\ IF o = "allowed" THEN call'[t] = "chatting" /\ verdict'[t] = "none"
                              ELSE call'[t] = "audit" /\ verdict'[t] = "denied"
    BY <1>5
  <2>2. OwnPart(t)'
    BY <1>1, <1>2, <2>1, BelowAudits, CallKeepsRunner DEF TurnInv, OwnPart, AuditOutcomes
  <2>3. /\ Outcomes(t, "providers")' = Outcomes(t, "providers")
        /\ Audited(t, "providers", "succeeded")' <=> Audited(t, "providers", "succeeded")
        /\ Audited(t, "permissions", "allowed")' <=> Audited(t, "permissions", "allowed") \/ o = "allowed"
    BY <1>1, <2>1, AuditOutcomesOf DEF Packages, AuditOutcomes
  <2>4. CallInv(t)'
    BY <1>1, <1>2, <2>1, <2>3 DEF CallInv, Opening, CallFailures
  <2>5. QED
    BY <2>2, <2>4 DEF TurnInv, OwnPart
<1>6. CASE Reported
  <2>1. PICK o \in {"succeeded", "denied", "failed"} :
          /\ Audit(t, "providers", o) /\ UNCHANGED faults
          /\ call'[t] = "returned" /\ verdict'[t] = verdict[t]
          /\ call[t] = "audit_in_try" \/ (call[t] = "audit" /\ o # "succeeded")
    BY <1>6
  <2>2. OwnPart(t)'
    BY <1>1, <1>2, <2>1, BelowAudits, CallKeepsRunner DEF TurnInv, OwnPart, AuditOutcomes
  <2>3. "providers" \in Packages /\ "permissions" \in Packages \ {"providers"} /\ o \in AuditOutcomes
    BY DEF Packages, AuditOutcomes
  <2>4. PICK m \in DOMAIN audit'[t] :
          /\ Outcomes(t, "providers")' = Outcomes(t, "providers") \cup {m}
          /\ \A i \in Outcomes(t, "providers") : i < m
          /\ audit'[t][m].outcome = o
    BY <1>1, <2>1, <2>3, AuditOutcomesOf
  <2>5. /\ Audited(t, "providers", "succeeded")' <=> Audited(t, "providers", "succeeded") \/ o = "succeeded"
        /\ Audited(t, "permissions", "allowed")' <=> Audited(t, "permissions", "allowed")
    BY <1>1, <2>1, <2>3, AuditOutcomesOf DEF AuditOutcomes
  <2>6. CallInv(t)'
    BY <1>1, <1>2, <2>1, <2>4, <2>5 DEF CallInv, Opening, CallFailures
  <2>7. QED
    BY <2>2, <2>6 DEF TurnInv, OwnPart
<1>7. QED
  BY <1>3, <1>4, <1>5, <1>6

\* The answer, the timer or the caller's signal settles the race once.
LEMMA RaceKeeps ==
  ASSUME ChainInv, RunnerInv, RunnerTypeOK', NEW t \in Turns,
         CallAnswers(t) \/ Timeout(t) \/ CallerAbort(t)
  PROVE  TurnInv(t)'
<1>1. RunnerTypeOK /\ TurnInv(t)
  BY DEF RunnerInv
<1>2. /\ UNCHANGED <<stage, result, verdict, transcript, audit, events, touched, persisted, faults>>
      /\ CoreSame(t) /\ BelowSame(t) /\ EventsSame(t) /\ LinesSame(t)
  BY SameAudit, SameEvents, SameTranscript
  DEF CallAnswers, Timeout, CallerAbort, queueVars, logVars, sessionVars
<1>3. call'[t] = call[t] \/ (call[t] = "returned" /\ call'[t] = "over")
  BY <1>1 DEF CallAnswers, Timeout, CallerAbort, RunnerTypeOK
<1>4. \/ UNCHANGED <<race, phase, failure>>
      \/ \E outcome \in {"ok"} \cup CallFailures : race[t] = "open" /\ SettleRace(t, outcome)
  BY <1>1 DEF CallAnswers, Timeout, CallerAbort, TurnInv, CallInv, CallFailures
<1>5. \/ UNCHANGED <<race, phase, failure>>
      \/ /\ phase[t] = "provider" /\ phase'[t] = "audit_succeeded" /\ race'[t] = "ok"
         /\ UNCHANGED failure
      \/ /\ phase[t] = "provider" /\ phase'[t] = "audit_failed"
         /\ race'[t] \in CallFailures /\ failure'[t] = race'[t]
  BY <1>1, <1>4 DEF SettleRace, Goto, Fail, RunnerTypeOK
<1> USE DEF Opening, Awaiting, Succeeding, Failing, Leaving, CallFailures, StoreFailures, Finished
<1>6. ControlInv(t)'
  BY <1>1, <1>2, <1>5 DEF TurnInv, ControlInv
<1>7. PathInv(t)'
  BY <1>1, <1>2, <1>5 DEF TurnInv, PathInv
<1>8. CoreInv(t)'
  BY <1>1, <1>2, <1>5 DEF TurnInv, CoreInv, CoreSame
<1>9. EventInv(t)'
  BY <1>1, <1>2, <1>5 DEF TurnInv, EventInv, CoreSame, EventsSame, EventNames
<1>10. OwnInv(t)'
  BY <1>1, <1>2, <1>5, TypesOfShapes DEF TurnInv, ControlInv, OwnInv, CoreSame, LinesSame, Types
<1>11. CallInv(t)'
  BY <1>1, <1>2, <1>3, <1>5 DEF TurnInv, CallInv, BelowSame, AuditOutcomes
<1>12. QED
  BY <1>6, <1>7, <1>8, <1>9, <1>10, <1>11 DEF TurnInv
-----------------------------------------------------------------------------
LEMMA RunnerInitially == RunnerInit => RunnerInv
<1> SUFFICES ASSUME RunnerInit PROVE RunnerInv
  OBVIOUS
<1>1. RunnerTypeOK
  BY DEF RunnerInit, RunnerTypeOK, Phases, Opening, Codes, Results, Races, Calls, Verdicts
<1>2. ASSUME NEW t \in Turns PROVE TurnInv(t)
  <2>1. /\ stage[t] = "new" /\ phase[t] = "idle" /\ failure[t] = "none" /\ result[t] = "none"
        /\ race[t] = "idle" /\ call[t] = "none" /\ verdict[t] = "none"
        /\ audit[t] = <<>> /\ events[t] = <<>> /\ transcript[SessionOf[t]] = <<>> /\ touched = {}
    BY RunnerAssumption DEF RunnerInit, QueueInit
  <2>2. /\ \A by : Outcomes(t, by) = {} /\ \A outcome : ~Audited(t, by, outcome)
        /\ \A event : ~Emitted(t, event)
        /\ OwnLines(t) = {} /\ \A type : ~Wrote(t, type)
    BY <2>1 DEF Outcomes, Audited, Emitted, OwnLines, Wrote
  <2>3. ~Opened(t) /\ ~FailedOnly(t) /\ ~Failed(t) /\ ~Succeeded(t)
    BY <2>1 DEF Opened, FailedOnly, Failed, Succeeded, ClosedAs
  <2> USE DEF Opening, Awaiting, Succeeding, Failing, Leaving
  <2>4. ControlInv(t) /\ PathInv(t)
    BY <2>1 DEF ControlInv, PathInv, CallFailures, StoreFailures, Finished
  <2>5. CoreInv(t) /\ EventInv(t) /\ OwnInv(t)
    BY <2>1, <2>2, <2>3 DEF CoreInv, EventInv, OwnInv, Unopened, Silent
  <2>6. CallInv(t)
    BY <2>1, <2>2 DEF CallInv
  <2>7. QED
    BY <2>4, <2>5, <2>6 DEF TurnInv
<1>3. QED
  BY <1>1, <1>2 DEF RunnerInv

LEMMA RunnerStep == ChainInv /\ RunnerInv /\ [RunnerNext]_vars => RunnerInv'
<1> SUFFICES ASSUME ChainInv, RunnerInv, [RunnerNext]_vars PROVE RunnerInv'
  OBVIOUS
<1>1. ASSUME NEW t \in Turns,
             \/ Refuse(t) \/ Submit(t) \/ BeginTurn(t) \/ Release(t)
             \/ TurnStepNow(t) \/ CallStep(t) \/ Timeout(t) \/ CallerAbort(t)
      PROVE  RunnerInv'
  <2>1. StepOf(t)
    BY <1>1, QueueActionsAreLocal, TurnActionsAreLocal, CallActionsAreLocal
  <2>2. RunnerTypeOK /\ RunnerTypeOK' /\ \A u \in Turns \ {t} : Untouched(u)
    BY <2>1, StepsAreLocal DEF RunnerInv
  <2>3. \A u \in Turns \ {t} : TurnInv(u)'
    BY <2>1, <2>2, UntouchedKeeps DEF RunnerInv, StepOf
  <2>4. TurnInv(t)'
    BY <1>1, <2>2, QueueActionsKeep, AppendsKeep, ReadKeeps, AuditsKeep, EmitsKeep, EndingsKeep,
       FailuresKeep, ChatKeeps, RaceKeeps
    DEF TurnStepNow, CallStep
  <2>5. QED
    BY <2>2, <2>3, <2>4 DEF RunnerInv
<1>2. CASE UNCHANGED vars
  <2>1. UNCHANGED <<queueVars, runnerVars>>
    BY <1>2 DEF vars
  <2>2. RunnerTypeOK'
    BY <2>1 DEF runnerVars, RunnerInv, RunnerTypeOK
  <2>3. ASSUME NEW t \in Turns PROVE TurnInv(t)'
    <3>1. Untouched(t)
      BY <2>1, SameAudit, SameEvents, SameTranscript DEF Untouched, SameScalars, runnerVars, queueVars
    <3>2. QED
      BY <2>1, <2>2, <3>1, UntouchedKeeps DEF RunnerInv, runnerVars
  <2>4. QED
    BY <2>2, <2>3 DEF RunnerInv
<1>3. QED
  BY <1>1, <1>2 DEF RunnerNext, AllOver

LEMMA RunnerInvariant == RunnerSpec => []RunnerInv
<1>1. QED
  BY RunnerInitially, RunnerStep, RunsOnQueue, PTL DEF RunnerSpec
-----------------------------------------------------------------------------
\* What Audited says in each of the shapes of the runner's records.
LEMMA AuditedInShapes ==
  ASSUME NEW t \in Turns
  PROVE  /\ Unopened(t) => \A outcome : ~Audited(t, "core", outcome)
         /\ Opened(t) => \A outcome : Audited(t, "core", outcome) <=> outcome = "requested"
         /\ FailedOnly(t) => ~Audited(t, "core", "requested") /\ ~Audited(t, "core", "succeeded")
         /\ Succeeded(t) => Audited(t, "core", "succeeded")
         /\ Failed(t) => ~Audited(t, "core", "succeeded")
BY DEF Unopened, Opened, FailedOnly, Succeeded, Failed, ClosedAs, Audited

LEMMA PhaseOf ==
  ASSUME RunnerInv, NEW t \in Turns
  PROVE  TurnInv(t) /\ phase[t] \in Phases /\ failure[t] \in Codes
BY DEF RunnerInv, RunnerTypeOK

\* A turn that was cancelled or timed out leaves no success behind: it has the
\* error from the moment the race is lost, and from then on its records can
\* only be closed as failed.
THEOREM CancelledIsNoSuccess == RunnerSpec => []CancelledLeavesNoSuccess
<1>1. ASSUME RunnerInv, NEW t \in Turns, failure[t] \in {"cancelled", "timedout"}
      PROVE  /\ ~Audited(t, "core", "succeeded")
             /\ ~Emitted(t, "call_succeeded")
             /\ ~Wrote(t, "assistant")
             /\ result[t] \notin {"ok"}
  <2>1. RunnerTypeOK /\ TurnInv(t) /\ phase[t] \in Phases /\ Exclusive(t)
    BY <1>1, PhaseOf, OneShape DEF RunnerInv
  <2>2. phase[t] \in Failing \cup {"error", "returned"}
    BY <1>1, <2>1 DEF TurnInv, PathInv, Phases, Leaving, StoreFailures
  <2>3. Opened(t) \/ Failed(t)
    BY <1>1, <2>1, <2>2 DEF TurnInv, CoreInv, Failing, Leaving, CallFailures
  <2>4. ~Audited(t, "core", "succeeded")
    BY <2>3, AuditedInShapes
  <2>5. ~Succeeded(t)
    BY <2>1, <2>3 DEF Exclusive
  <2>6. ~Emitted(t, "call_succeeded") /\ ~Wrote(t, "assistant")
    BY <2>1, <2>2, <2>5 DEF TurnInv, EventInv, OwnInv, Failing
  <2>7. result[t] # "ok"
    BY <1>1, <2>1, <2>2 DEF TurnInv, ControlInv, PathInv, Failing
  <2>8. QED
    BY <2>4, <2>6, <2>7
<1>2. RunnerInv => CancelledLeavesNoSuccess
  BY <1>1 DEF CancelledLeavesNoSuccess
<1>3. QED
  BY <1>2, RunnerInvariant, PTL

\* The envelope around a provider call is opened once and closed once, the same
\* way in the audit, in the events, in the result and in the transcript.
THEOREM EnvelopesAgree == RunnerSpec => []EnvelopeAgrees
<1>1. ASSUME RunnerInv, NEW t \in Turns, stage[t] = "resolved", Audited(t, "core", "requested")
      PROVE  LET closed == {i \in Outcomes(t, "core") : audit[t][i].outcome # "requested"}
                 succeeded == Audited(t, "core", "succeeded")
             IN /\ \E i, j \in DOMAIN audit[t] : i < j /\ closed = {j} /\ Outcomes(t, "core") = {i, j}
                /\ Emitted(t, "call_requested")
                /\ succeeded <=> Emitted(t, "call_succeeded")
                /\ ~succeeded <=> Emitted(t, "call_failed")
                /\ succeeded <=> result[t] \notin CallFailures
                /\ faults = 0 => (Wrote(t, "assistant") <=> succeeded) /\ (Wrote(t, "error") <=> ~succeeded)
  <2>1. RunnerTypeOK /\ TurnInv(t) /\ failure[t] \in Codes /\ Exclusive(t)
    BY <1>1, PhaseOf, OneShape DEF RunnerInv
  <2>2. phase[t] = "returned" /\ result[t] # "rejected"
    BY <1>1, <2>1 DEF TurnInv, ControlInv, Finished
  <2>3. result[t] = IF failure[t] = "none" THEN "ok" ELSE failure[t]
    BY <2>1, <2>2 DEF TurnInv, PathInv
  <2>4. ~Unopened(t) /\ ~FailedOnly(t)
    BY <1>1, AuditedInShapes
  <2>5. IF failure[t] \in CallFailures THEN Failed(t) ELSE Succeeded(t)
    BY <2>1, <2>2, <2>4 DEF TurnInv, CoreInv, Leaving, Codes, StoreFailures
  <2>6. Audited(t, "core", "succeeded") <=> failure[t] \notin CallFailures
    BY <2>5, AuditedInShapes
  <2>7. \E i, j \in DOMAIN audit[t] :
          /\ i < j /\ Outcomes(t, "core") = {i, j}
          /\ {n \in Outcomes(t, "core") : audit[t][n].outcome # "requested"} = {j}
    BY <2>5 DEF Failed, Succeeded, ClosedAs
  <2>8. Succeeded(t) <=> failure[t] \notin CallFailures
    BY <2>1, <2>5 DEF Exclusive
  <2>9. Failed(t) <=> failure[t] \in CallFailures
    BY <2>1, <2>5 DEF Exclusive
  <2>10. /\ Emitted(t, "call_requested")
         /\ Emitted(t, "call_succeeded") <=> failure[t] \notin CallFailures
         /\ Emitted(t, "call_failed") <=> failure[t] \in CallFailures
    BY <2>1, <2>2, <2>8, <2>9 DEF TurnInv, EventInv
  <2>11. result[t] \notin CallFailures <=> failure[t] \notin CallFailures
    BY <2>3 DEF CallFailures
  <2>12. ASSUME faults = 0
         PROVE  /\ Wrote(t, "assistant") <=> failure[t] \notin CallFailures
                /\ Wrote(t, "error") <=> failure[t] \in CallFailures
    <3>1. failure[t] = "none" \/ failure[t] \in CallFailures
      BY <2>1, <2>12 DEF TurnInv, PathInv, Codes
    <3>2. Wrote(t, "assistant") <=> failure[t] \notin CallFailures
      <4>1. CASE failure[t] = "none"
        BY <2>1, <2>3, <4>1, TypesOfShapes DEF TurnInv, OwnInv, CallFailures
      <4>2. CASE failure[t] \in CallFailures
        BY <2>1, <2>2, <2>8, <4>2 DEF TurnInv, OwnInv
      <4>3. QED
        BY <3>1, <4>1, <4>2
    <3>3. Wrote(t, "error") <=> failure[t] \in CallFailures
      BY <2>1, <2>2, <2>12, <3>1 DEF TurnInv, OwnInv, CallFailures
    <3>4. QED
      BY <3>2, <3>3
  <2>13. QED
    BY <2>6, <2>7, <2>10, <2>11, <2>12
<1>2. RunnerInv => EnvelopeAgrees
  BY <1>1 DEF EnvelopeAgrees
<1>3. QED
  BY <1>2, RunnerInvariant, PTL

\* No provider is called before the permission is on record, and a call leaves
\* one record of its outcome, however the answer and the race came about.
THEOREM CallsAreAuditedOnce == RunnerSpec => []CallIsAuditedOnce
<1>1. ASSUME RunnerInv, NEW t \in Turns
      PROVE  /\ call[t] = "chatting" => Audited(t, "permissions", "allowed") /\ Outcomes(t, "providers") = {}
             /\ call[t] \in {"returned", "over"} /\ verdict[t] \notin {"not_found", "unsupported"} =>
                  IF faults = 0
                  THEN \E i \in DOMAIN audit[t] : Outcomes(t, "providers") = {i}
                  ELSE \A i, j \in Outcomes(t, "providers") : i = j
             /\ Audited(t, "providers", "succeeded") => Audited(t, "permissions", "allowed")
  <2>1. CallInv(t)
    BY <1>1 DEF RunnerInv, TurnInv
  <2>2. ASSUME Outcomes(t, "providers") # {}
        PROVE  \E i \in DOMAIN audit[t] : Outcomes(t, "providers") = {i}
    <3>1. PICK i : i \in Outcomes(t, "providers")
      BY <2>2
    <3>2. Outcomes(t, "providers") = {i} /\ i \in DOMAIN audit[t]
      BY <2>1, <3>1 DEF CallInv, Outcomes
    <3>3. QED
      BY <3>2
  <2>3. QED
    BY <2>1, <2>2 DEF CallInv
<1>2. RunnerInv => CallIsAuditedOnce
  BY <1>1 DEF CallIsAuditedOnce
<1>3. QED
  BY <1>2, RunnerInvariant, PTL

\* A turn that is over keeps its result, its events and its own records, even
\* when its provider answers later: the race it lost is not run again.
RecordsKept(t) ==
  /\ race'[t] = race[t] /\ result'[t] = result[t] /\ events'[t] = events[t]
  /\ {i \in DOMAIN audit'[t] : audit'[t][i].by = "core"} = Outcomes(t, "core")
  /\ Wrote(t, "assistant")' = Wrote(t, "assistant")

LEMMA OverIsOver ==
  ASSUME ChainInv, RunnerInv, [RunnerNext]_vars, NEW t \in Turns, stage[t] \in Finished
  PROVE  RecordsKept(t)
<1>1. RunnerTypeOK /\ TurnInv(t) /\ phase[t] = "returned" /\ race[t] # "open"
  BY DEF RunnerInv, TurnInv, ControlInv
<1>2. ASSUME UNCHANGED <<race, result, events, transcript>>,
             Outcomes(t, "core")' = Outcomes(t, "core")
      PROVE  RecordsKept(t)
  <2>1. Wrote(t, "assistant")' = Wrote(t, "assistant")
    BY <1>2 DEF Wrote
  <2>2. QED
    BY <1>2, <2>1 DEF Outcomes, RecordsKept
<1>3. ASSUME NEW u \in Turns,
             \/ Refuse(u) \/ Submit(u) \/ BeginTurn(u) \/ Release(u)
             \/ TurnStepNow(u) \/ CallStep(u) \/ Timeout(u) \/ CallerAbort(u)
      PROVE  RecordsKept(t)
  <2>1. CASE u # t
    <3>1. StepOf(u)
      BY <1>3, QueueActionsAreLocal, TurnActionsAreLocal, CallActionsAreLocal
    <3>2. Untouched(t)
      BY <2>1, <3>1, StepsAreLocal
    <3>3. audit'[t] = audit[t]
      BY <2>1, <3>1, AuditAppends DEF StepOf, RunnerInv
    <3>4. events'[t] = events[t]
      BY <2>1, <3>1, EmitAdds DEF StepOf, RunnerInv
    <3>5. Wrote(t, "assistant")' = Wrote(t, "assistant")
      <4>1. Wrote(t, "assistant")' <=> Wrote(t, "assistant")
        BY <3>2 DEF Untouched, LinesSame, Types
      <4>2. QED
        BY <4>1 DEF Wrote
    <3>6. QED
      BY <3>2, <3>3, <3>4, <3>5 DEF Untouched, SameScalars, Outcomes, RecordsKept
  <2>2. CASE u = t
    <3>1. ~TurnStepNow(t)
      BY <1>1
      DEF TurnStepNow, AppendLifecycle, AppendUser, AppendAssistant, AwaitAppend, ReadTranscript,
          AuditRequested, AuditReadFailed, AuditSucceeded, AuditFailed, AwaitAudit, Throw,
          EmitRequested, EmitSucceeded, EmitFailed, TouchSession, EmitUpdated, EmitRuntimeFailed,
          AppendError, Return, Goto
    <3>2. ~Refuse(t) /\ ~Submit(t) /\ ~BeginTurn(t) /\ ~Timeout(t) /\ ~CallerAbort(t)
      BY <1>1 DEF Refuse, Submit, Enqueue, BeginTurn, Start, Timeout, CallerAbort, Finished
    <3>3. CASE Release(t) \/ CallAnswers(t)
      <4>1. UNCHANGED <<race, result, events, transcript, audit>>
        BY <1>1, <3>3 DEF Release, runnerVars, CallAnswers, logVars
      <4>2. QED
        BY <1>2, <4>1, SameAudit
    <3>4. CASE \/ LookUp(t) \/ Decide(t) \/ AuditDecision(t)
               \/ ProviderAnswers(t) \/ AuditCallInTry(t) \/ AuditCallOutcome(t)
      <4>1. UNCHANGED <<race, result, events, transcript>>
        BY <3>4
        DEF LookUp, Decide, AuditDecision, ProviderAnswers, AuditCallInTry, AuditCallOutcome, callFrame
      <4>2. \/ UNCHANGED audit
            \/ \E by \in {"permissions", "providers"}, outcome \in AuditOutcomes : Audit(t, by, outcome)
        BY <3>4
        DEF LookUp, Decide, AuditDecision, ProviderAnswers, AuditCallInTry, AuditCallOutcome,
            AuditCall, AuditOutcomes
      <4>3. Outcomes(t, "core")' = Outcomes(t, "core")
        BY <1>1, <4>2, SameAudit, BelowAudits
      <4>4. QED
        BY <1>2, <4>1, <4>3
    <3>5. QED
      BY <1>3, <2>2, <3>1, <3>2, <3>3, <3>4 DEF CallStep
  <2>3. QED
    BY <2>1, <2>2
<1>4. CASE UNCHANGED vars
  <2>1. UNCHANGED <<race, result, events, transcript, audit>>
    BY <1>4 DEF vars, runnerVars
  <2>2. QED
    BY <1>2, <2>1, SameAudit
<1>5. QED
  BY <1>3, <1>4 DEF RunnerNext, AllOver

\* A late answer changes nothing that is on record of the turn but the audit of
\* its own provider call.
THEOREM LateAnswersAreDropped == RunnerSpec => LateAnswerIsDropped
<1>1. ChainInv /\ RunnerInv /\ [RunnerNext]_vars =>
        [\A t \in Turns : stage[t] \in Finished => RecordsKept(t)]_vars
  BY OverIsOver
<1>2. QED
  BY <1>1, RunnerInvariant, RunsOnQueue, PTL DEF RunnerSpec, LateAnswerIsDropped, RecordsKept
-----------------------------------------------------------------------------
(***************************************************************************)
(* What is sent to the provider.                                           *)
(***************************************************************************)

\* Turns of a key that have started are over, but for the last.
LEMMA EarlierAreOver ==
  ASSUME ChainInv, NEW t \in Turns, Started(t), NEW u \in Turns, Before(u, t)
  PROVE  stage[u] \in Finished
BY DEF ChainInv, SettledInOrder, SettledIsFinished

\* A turn under way is the last of its key to have started.
LEMMA RunningIsLast ==
  ASSUME ChainInv, NEW t \in Turns, stage[t] = "running",
         NEW u \in Turns, Started(u), KeyOf[u] = KeyOf[t]
  PROVE  ticket[u] <= ticket[t] /\ (u # t => ticket[u] < ticket[t])
<1>1. ticket[u] \in Nat /\ ticket[t] \in Nat
  BY DEF ChainInv, QueueTypeOK
<1>2. Enqueued(u) /\ Enqueued(t)
  BY DEF Enqueued, Started, Finished
<1>3. ~Before(t, u)
  BY EarlierAreOver DEF Finished
<1>4. u # t => ticket[u] # ticket[t]
  BY <1>2 DEF ChainInv, TicketInv
<1>5. QED
  BY <1>1, <1>2, <1>3, <1>4 DEF Before

\* The line at a place of a transcript, and whose it is.
LEMMA LineOf ==
  ASSUME ChainInv, RunnerInv, OrderInv, NEW s \in Sessions, NEW i \in DOMAIN transcript[s]
  PROVE  /\ i \in Nat
         /\ transcript[s][i] \in [turn : Turns, type : Types, part : Parts]
         /\ SessionOf[transcript[s][i].turn] = s
         /\ i \in OwnLines(transcript[s][i].turn)
         /\ phase[transcript[s][i].turn] \notin {"idle", "lifecycle"}
         /\ Started(transcript[s][i].turn)
<1>1. PICK log \in Seq([turn : Turns, type : Types, part : Parts]) : log = transcript[s]
  BY DEF RunnerInv, RunnerTypeOK
<1>2. i \in Nat /\ log[i] \in [turn : Turns, type : Types, part : Parts]
  <2>1. ASSUME NEW S, NEW seq \in Seq(S), NEW n \in DOMAIN seq PROVE n \in Nat /\ seq[n] \in S
    OBVIOUS
  <2>2. QED
    BY <1>1, <2>1
<1>3. PICK u \in Turns : u = transcript[s][i].turn
  BY <1>1, <1>2
<1>4. SessionOf[u] = s
  BY <1>3 DEF OrderInv
<1>5. i \in OwnLines(u)
  BY <1>3, <1>4 DEF OwnLines
<1>6. phase[u] \notin {"idle", "lifecycle"}
  BY <1>5 DEF RunnerInv, TurnInv, OwnInv, Silent
<1>7. Started(u)
  <2>1. stage[u] \notin {"new", "queued"}
    BY <1>6 DEF RunnerInv, TurnInv, ControlInv
  <2>2. QED
    BY <2>1 DEF Started, ChainInv, QueueTypeOK, Stages
<1>8. QED
  BY <1>1, <1>2, <1>3, <1>4, <1>5, <1>6, <1>7

LEMMA OrderStep ==
  ASSUME ChainInv, RunnerInv, RunnerInv', OrderInv, [RunnerNext]_vars
  PROVE  OrderInv'
<1>1. ASSUME UNCHANGED <<transcript, ticket>> PROVE OrderInv'
  BY <1>1 DEF OrderInv
<1>2. ASSUME NEW t \in Turns, Submit(t) PROVE OrderInv'
  <2>1. /\ stage[t] = "new" /\ UNCHANGED transcript
        /\ \A u \in Turns \ {t} : ticket'[u] = ticket[u]
    BY <1>2 DEF Submit, Enqueue, runnerVars, ChainInv, QueueTypeOK
  <2>2. ASSUME NEW s \in Sessions, NEW i \in DOMAIN transcript[s]
        PROVE  ticket'[transcript[s][i].turn] = ticket[transcript[s][i].turn]
    <3>1. PICK u \in Turns : u = transcript[s][i].turn /\ Started(u)
      BY LineOf
    <3>2. u # t
      BY <2>1, <3>1 DEF Started, Finished
    <3>3. QED
      BY <2>1, <3>1, <3>2
  <2>3. QED
    BY <2>1, <2>2 DEF OrderInv
<1>3. ASSUME NEW t \in Turns, NEW type \in Types, NEW part \in Parts, Put(t, type, part),
             UNCHANGED ticket, stage[t] = "running"
      PROVE  OrderInv'
  <2>1. PICK s \in Sessions : s = SessionOf[t]
    BY RunnerAssumption
  <2>2. RunnerTypeOK /\ Put(t, type, part)
    BY <1>3 DEF RunnerInv
  <2>3. PICK m \in Nat : Longer(s, m, [turn |-> t, type |-> type, part |-> part])
    BY <2>1, <2>2, PutAppends
  <2>4. ASSUME NEW i \in DOMAIN transcript[s], KeyOf[transcript[s][i].turn] = KeyOf[t]
        PROVE  ticket[transcript[s][i].turn] <= ticket[t]
    <3>1. PICK u \in Turns : u = transcript[s][i].turn /\ Started(u)
      BY LineOf
    <3>2. QED
      BY <1>3, <2>4, <3>1, RunningIsLast
  <2>5. ticket[t] \in Nat
    BY DEF ChainInv, QueueTypeOK
  <2>6. ASSUME NEW r \in Sessions
        PROVE  /\ \A i \in DOMAIN transcript'[r] : SessionOf[transcript'[r][i].turn] = r
               /\ \A i, j \in DOMAIN transcript'[r] :
                    i < j /\ KeyOf[transcript'[r][i].turn] = KeyOf[transcript'[r][j].turn]
                      => ticket'[transcript'[r][i].turn] <= ticket'[transcript'[r][j].turn]
    <3>1. CASE r # s
      <4>1. transcript'[r] = transcript[r]
        BY <2>1, <2>2, <3>1, PutAppends
      <4>2. QED
        BY <1>3, <4>1 DEF OrderInv
    <3>2. CASE r = s
      <4>1. \A i \in DOMAIN transcript'[s] : SessionOf[transcript'[s][i].turn] = s
        BY <2>1, <2>3 DEF OrderInv, Longer
      <4>2. ASSUME NEW i \in DOMAIN transcript'[s], NEW j \in DOMAIN transcript'[s], i < j,
                   KeyOf[transcript'[s][i].turn] = KeyOf[transcript'[s][j].turn]
            PROVE  ticket[transcript'[s][i].turn] <= ticket[transcript'[s][j].turn]
        <5>1. i \in DOMAIN transcript[s] /\ transcript'[s][i] = transcript[s][i]
          BY <2>3, <4>2 DEF Longer
        <5>2. CASE j = m
          BY <2>3, <2>4, <4>2, <5>1, <5>2 DEF Longer
        <5>3. CASE j # m
          BY <2>3, <4>2, <5>1, <5>3 DEF OrderInv, Longer
        <5>4. QED
          BY <5>2, <5>3
      <4>3. QED
        BY <1>3, <3>2, <4>1, <4>2
    <3>3. QED
      BY <3>1, <3>2
  <2>7. QED
    BY <2>6 DEF OrderInv
<1>4. ASSUME NEW t \in Turns, Refuse(t) \/ BeginTurn(t) \/ Release(t)
      PROVE  OrderInv'
  BY <1>1, <1>4
  DEF Refuse, BeginTurn, Start, Release, Settle, runnerVars, queueVars, logVars
<1>5. ASSUME NEW t \in Turns, CallStep(t) \/ Timeout(t) \/ CallerAbort(t)
      PROVE  OrderInv'
  BY <1>1, <1>5
  DEF CallStep, LookUp, Decide, AuditDecision, ProviderAnswers, AuditCallInTry, AuditCallOutcome,
      CallAnswers, Timeout, CallerAbort, callFrame, queueVars, logVars
<1>6. ASSUME NEW t \in Turns, TurnStepNow(t) PROVE OrderInv'
  <2>1. UNCHANGED ticket
    BY <1>6
    DEF TurnStepNow, AppendLifecycle, AppendUser, AppendAssistant, AwaitAppend, ReadTranscript,
        AuditRequested, AuditReadFailed, AuditSucceeded, AuditFailed, AwaitAudit, Throw,
        EmitRequested, EmitSucceeded, EmitFailed, emitFrame, TouchSession, EmitUpdated,
        EmitRuntimeFailed, AppendError, Return, Finish, queueVars
  <2>2. StepOf(t)
    BY <1>6, TurnActionsAreLocal
  <2>3. phase[t] \notin {"idle", "returned"}
    BY <1>6
    DEF TurnStepNow, AppendLifecycle, AppendUser, AppendAssistant, AwaitAppend, ReadTranscript,
        AuditRequested, AuditReadFailed, AuditSucceeded, AuditFailed, AwaitAudit, Throw,
        EmitRequested, EmitSucceeded, EmitFailed, TouchSession, EmitUpdated, EmitRuntimeFailed,
        AppendError, Return, Goto
  <2>4. stage[t] = "running"
    BY <2>3 DEF RunnerInv, TurnInv, ControlInv, ChainInv, QueueTypeOK, Stages
  <2>5. QED
    BY <1>1, <1>3, <2>1, <2>2, <2>4 DEF StepOf
<1>7. CASE UNCHANGED vars
  BY <1>1, <1>7 DEF vars, runnerVars, queueVars
<1>8. QED
  BY <1>2, <1>4, <1>5, <1>6, <1>7 DEF RunnerNext, AllOver

\* A turn that reports success has not failed before.
LEMMA OkNeverFailed ==
  ASSUME RunnerInv, NEW t \in Turns, result[t] = "ok"
  PROVE  failure[t] = "none"
<1>1. RunnerTypeOK /\ ControlInv(t) /\ PathInv(t)
  BY DEF RunnerInv, TurnInv
<1>2. phase[t] = "returned"
  BY <1>1 DEF ControlInv, Refusals
<1>3. failure[t] # "ok"
  BY <1>1 DEF RunnerTypeOK, Codes, CallFailures, StoreFailures
<1>4. QED
  BY <1>1, <1>2, <1>3 DEF PathInv

\* What a step adds to the transcripts: nothing, a line, or what an append that
\* was cut off leaves, whose turn has failed by then.
LEMMA TranscriptMoves ==
  ASSUME RunnerInv, NEW t \in Turns, TurnStepNow(t)
  PROVE  \/ UNCHANGED transcript
         \/ \E type \in Types : Record(t, type)
         \/ \E type \in Types, part \in Parts : Put(t, type, part) /\ failure'[t] # "none"
<1>1. RunnerTypeOK /\ PathInv(t)
  BY DEF RunnerInv, TurnInv
<1>2. ASSUME NEW from, NEW to, NEW type \in Types, AwaitAppend(t, from, type, to)
      PROVE  \/ UNCHANGED transcript
             \/ Record(t, type)
             \/ \E part \in Parts : Put(t, type, part) /\ failure'[t] # "none"
  <2>1. CASE Record(t, type)
    BY <2>1
  <2>2. CASE AppendFails(t, type) /\ Fail(t, "transcript")
    <3>1. failure'[t] = "transcript"
      BY <1>1, <2>2, FailIsLocal DEF Codes, StoreFailures
    <3>2. QED
      BY <2>2, <3>1 DEF AppendFails
  <2>3. QED
    BY <1>2, <2>1, <2>2 DEF AwaitAppend
<1>3. CASE AppendLifecycle(t) \/ AppendUser(t) \/ AppendAssistant(t)
  <2>1. {"lifecycle", "user", "assistant"} \subseteq Types
    BY DEF Types
  <2>2. QED
    BY <1>2, <1>3, <2>1 DEF AppendLifecycle, AppendUser, AppendAssistant
<1>4. CASE AppendError(t)
  <2>1. phase[t] = "error" /\ failure'[t] = failure[t] /\ "error" \in Types
    BY <1>4 DEF AppendError, Return, Goto, Types
  <2>2. failure'[t] # "none"
    BY <1>1, <2>1 DEF PathInv, CallFailures
  <2>3. QED
    BY <1>4, <2>1, <2>2 DEF AppendError, AppendFails
<1>5. CASE ~(AppendLifecycle(t) \/ AppendUser(t) \/ AppendAssistant(t) \/ AppendError(t))
  BY <1>5
  DEF TurnStepNow, ReadTranscript, AuditRequested, AuditReadFailed, AuditSucceeded, AuditFailed,
      AwaitAudit, Throw, EmitRequested, EmitSucceeded, EmitFailed, emitFrame, TouchSession,
      EmitUpdated, EmitRuntimeFailed, logVars
<1>6. QED
  BY <1>3, <1>4, <1>5

\* Entries stay where they are.
Grown ==
  \A s \in Sessions : \A n \in DOMAIN transcript[s] :
    n \in DOMAIN transcript'[s] /\ transcript'[s][n] = transcript[s][n]

LEMMA TranscriptsGrow == ChainInv /\ RunnerInv /\ [RunnerNext]_vars => Grown
<1> SUFFICES ASSUME ChainInv, RunnerInv, [RunnerNext]_vars PROVE Grown
  OBVIOUS
<1>1. ASSUME UNCHANGED transcript PROVE Grown
  BY <1>1 DEF Grown
<1>2. ASSUME NEW t \in Turns, StepOf(t) PROVE Grown
  <2>1. ASSUME NEW type \in Types, NEW part \in Parts, Put(t, type, part) PROVE Grown
    <3>1. RunnerTypeOK
      BY DEF RunnerInv
    <3>2. PICK m \in Nat : Longer(SessionOf[t], m, [turn |-> t, type |-> type, part |-> part])
      BY <2>1, <3>1, PutAppends
    <3>3. \A s \in Sessions \ {SessionOf[t]} : transcript'[s] = transcript[s]
      BY <2>1, <3>1, PutAppends
    <3>4. QED
      BY <3>2, <3>3 DEF Grown, Longer
  <2>2. QED
    BY <1>1, <1>2, <2>1 DEF StepOf
<1>3. CASE UNCHANGED vars
  BY <1>1, <1>3 DEF vars, runnerVars
<1>4. QED
  BY <1>1, <1>2, <1>3, QueueActionsAreLocal, CallActionsAreLocal, TurnActionsAreLocal
  DEF RunnerNext, AllOver, vars, runnerVars

\* A turn does not forget that it failed.
LEMMA FailuresStay ==
  ASSUME ChainInv, RunnerInv, [RunnerNext]_vars, NEW t \in Turns, failure[t] # "none"
  PROVE  failure'[t] # "none"
<1>1. RunnerTypeOK /\ TurnInv(t)
  BY DEF RunnerInv
<1>2. ASSUME NEW u \in Turns \ {t},
             \/ Refuse(u) \/ Submit(u) \/ BeginTurn(u) \/ Release(u)
             \/ TurnStepNow(u) \/ CallStep(u) \/ Timeout(u) \/ CallerAbort(u)
      PROVE  failure'[t] = failure[t]
  BY <1>2, QueueActionsAreLocal, TurnActionsAreLocal, CallActionsAreLocal DEF StepOf, SameScalars
<1>3. ASSUME NEW code \in Codes \ {"none"}, Fail(t, code) PROVE failure'[t] # "none"
  BY <1>1, <1>3, FailIsLocal
<1>4. ASSUME NEW outcome \in {"ok"} \cup CallFailures, SettleRace(t, outcome)
      PROVE  failure'[t] # "none"
  <2>1. CallFailures \subseteq Codes \ {"none"}
    BY DEF Codes, CallFailures
  <2>2. QED
    BY <1>3, <1>4, <2>1 DEF SettleRace
<1>5. CASE Refuse(t) \/ Submit(t) \/ BeginTurn(t) \/ Release(t)
  BY <1>5 DEF Refuse, Submit, BeginTurn, Release, runnerVars
<1>6. CASE Timeout(t) \/ CallerAbort(t)
  BY <1>4, <1>6 DEF Timeout, CallerAbort, CallFailures
<1>7. CASE CallStep(t)
  <2>1. CASE CallAnswers(t)
    <3>1. verdict[t] \in {"ok"} \cup CallFailures
      BY <1>1, <2>1 DEF CallAnswers, TurnInv, CallInv
    <3>2. QED
      BY <1>4, <2>1, <3>1 DEF CallAnswers
  <2>2. CASE ~CallAnswers(t)
    BY <1>7, <2>2
    DEF CallStep, LookUp, Decide, AuditDecision, ProviderAnswers, AuditCallInTry, AuditCallOutcome,
        callFrame
  <2>3. QED
    BY <2>1, <2>2
<1>8. CASE TurnStepNow(t)
  <2>1. {"transcript", "read", "session", "cancelled"} \subseteq Codes \ {"none"}
    BY DEF Codes, CallFailures, StoreFailures
  <2>2. CASE AppendLifecycle(t) \/ AppendUser(t) \/ AppendAssistant(t) \/ ReadTranscript(t)
    BY <1>3, <2>1, <2>2 DEF AppendLifecycle, AppendUser, AppendAssistant, AwaitAppend, ReadTranscript
  <2>3. CASE EmitRequested(t) \/ TouchSession(t)
    BY <1>3, <2>1, <2>3 DEF EmitRequested, TouchSession
  <2>4. CASE AuditRequested(t) \/ AuditReadFailed(t) \/ AuditSucceeded(t) \/ AuditFailed(t)
    BY <2>4 DEF AuditRequested, AuditReadFailed, AuditSucceeded, AuditFailed, AwaitAudit, Throw
  <2>5. CASE EmitSucceeded(t) \/ EmitFailed(t)
    BY <2>5 DEF EmitSucceeded, EmitFailed, emitFrame
  <2>6. CASE EmitUpdated(t) \/ EmitRuntimeFailed(t) \/ AppendError(t)
    BY <2>6 DEF EmitUpdated, EmitRuntimeFailed, AppendError
  <2>7. QED
    BY <1>8, <2>2, <2>3, <2>4, <2>5, <2>6 DEF TurnStepNow
<1>9. CASE UNCHANGED vars
  BY <1>9 DEF vars, runnerVars
<1>10. QED
  BY <1>2, <1>5, <1>6, <1>7, <1>8, <1>9 DEF RunnerNext, AllOver

LEMMA TornStep ==
  ASSUME ChainInv, RunnerInv, OrderInv, TornInv, [RunnerNext]_vars
  PROVE  TornInv'
<1>1. \A u \in Turns : failure[u] # "none" => failure'[u] # "none"
  BY FailuresStay
<1>2. ASSUME NEW s \in Sessions, NEW n \in DOMAIN transcript[s], CutOff(transcript[s][n])
      PROVE  failure'[transcript[s][n].turn] # "none"
  <2>1. PICK u \in Turns : u = transcript[s][n].turn
    BY LineOf
  <2>2. failure[u] # "none"
    BY <1>2, <2>1 DEF TornInv
  <2>3. QED
    BY <1>1, <2>1, <2>2
<1>3. ASSUME UNCHANGED transcript PROVE TornInv'
  BY <1>2, <1>3 DEF TornInv, CutOff
<1>4. ASSUME NEW t \in Turns, NEW type \in Types, NEW part \in Parts, Put(t, type, part),
             part = "line" \/ failure'[t] # "none"
      PROVE  TornInv'
  <2>1. PICK s \in Sessions : s = SessionOf[t]
    BY RunnerAssumption
  <2>2. ASSUME NEW r \in Sessions, NEW n \in DOMAIN transcript'[r], CutOff(transcript'[r][n])
        PROVE  failure'[transcript'[r][n].turn] # "none"
    <3>1. CASE n \in DOMAIN transcript[r] /\ transcript'[r][n] = transcript[r][n]
      BY <1>2, <2>2, <3>1
    <3>2. CASE ~(n \in DOMAIN transcript[r] /\ transcript'[r][n] = transcript[r][n])
      <4>1. SessionOf[t] \in Sessions /\ RunnerTypeOK
        BY RunnerAssumption DEF RunnerInv
      <4>2. PICK m \in Nat : Longer(SessionOf[t], m, [turn |-> t, type |-> type, part |-> part])
        BY <1>4, <4>1, PutAppends
      <4>3. \A q \in Sessions \ {SessionOf[t]} : transcript'[q] = transcript[q]
        BY <4>1, <1>4, PutAppends
      <4>4. r = SessionOf[t]
        BY <2>2, <3>2, <4>3
      <4>5. n = m
        BY <2>2, <3>2, <4>2, <4>4 DEF Longer
      <4>6. transcript'[r][n] = [turn |-> t, type |-> type, part |-> part]
        BY <4>2, <4>4, <4>5 DEF Longer
      <4>7. QED
        BY <1>4, <2>2, <4>6 DEF CutOff
    <3>3. QED
      BY <3>1, <3>2
  <2>3. QED
    BY <2>2 DEF TornInv, CutOff
<1>5. ASSUME NEW t \in Turns, TurnStepNow(t) PROVE TornInv'
  BY <1>3, <1>4, <1>5, TranscriptMoves DEF Record, Parts
<1>6. ASSUME NEW t \in Turns,
             \/ Refuse(t) \/ Submit(t) \/ BeginTurn(t) \/ Release(t)
             \/ CallStep(t) \/ Timeout(t) \/ CallerAbort(t)
      PROVE  UNCHANGED transcript
  BY <1>6
  DEF Refuse, Submit, BeginTurn, Release, runnerVars, logVars, CallStep, LookUp, Decide, AuditDecision,
      ProviderAnswers, AuditCallInTry, AuditCallOutcome, CallAnswers, Timeout, CallerAbort, callFrame
<1>7. CASE UNCHANGED vars
  BY <1>3, <1>7 DEF vars, runnerVars
<1>8. QED
  BY <1>3, <1>5, <1>6, <1>7 DEF RunnerNext, AllOver

\* A turn that has not failed only misses a line behind an append cut off by
\* another that has, and its first one only if that is of the same key.
LEMMA LostLines ==
  ASSUME ChainInv, RunnerInv, OrderInv, TornInv,
         NEW t \in Turns, failure[t] = "none", NEW n \in OwnLines(t)
  PROVE  \/ Readable(transcript[SessionOf[t]], n)
         \/ \E u \in Turns \ {t} :
              /\ LostTo(transcript[SessionOf[t]], n, u) /\ failure[u] # "none"
              /\ KeyOf[u] = KeyOf[t] => \A i \in OwnLines(t) : ~(i < n)
<1>1. PICK s \in Sessions : s = SessionOf[t]
  BY RunnerAssumption
<1>2. PICK log : log = transcript[s]
  OBVIOUS
<1>3. \A i \in OwnLines(t) : i \in DOMAIN log /\ i \in Nat /\ log[i].turn = t
  BY <1>1, <1>2, LineOf DEF OwnLines
<1>4. log[n].part = "line"
  BY <1>1, <1>2, <1>3 DEF TornInv, CutOff
<1>5. SUFFICES ASSUME ~Readable(log, n)
               PROVE  \E u \in Turns \ {t} :
                        /\ LostTo(log, n, u) /\ failure[u] # "none"
                        /\ KeyOf[u] = KeyOf[t] => \A i \in OwnLines(t) : ~(i < n)
  BY <1>1, <1>2
<1>6. n - 1 \in DOMAIN log /\ CutOff(log[n - 1])
  BY <1>4, <1>5 DEF Readable, CutOff
<1>7. PICK u \in Turns : u = log[n - 1].turn /\ Started(u)
  BY <1>2, <1>6, LineOf
<1>8. failure[u] # "none" /\ u # t
  BY <1>2, <1>6, <1>7 DEF TornInv
<1>9. ASSUME KeyOf[u] = KeyOf[t], NEW i \in OwnLines(t), i < n PROVE FALSE
  <2>1. i \in Nat /\ n \in Nat /\ i # n - 1
    BY <1>3, <1>7, <1>8
  <2>2. i < n - 1 /\ n - 1 < n
    BY <1>9, <2>1
  <2>3. ticket[t] <= ticket[u]
    BY <1>2, <1>3, <1>6, <1>7, <1>9, <2>2 DEF OrderInv
  <2>4. ticket[u] <= ticket[t]
    BY <1>2, <1>3, <1>6, <1>7, <1>9, <2>2 DEF OrderInv
  <2>5. ticket[u] \in Nat /\ ticket[t] \in Nat /\ Started(t)
    BY <1>1, <1>2, <1>3, LineOf DEF ChainInv, QueueTypeOK
  <2>6. Enqueued(u) /\ Enqueued(t)
    BY <1>7, <2>5 DEF Enqueued, Started, Finished
  <2>7. ticket[u] # ticket[t]
    BY <1>8, <2>6 DEF ChainInv, TicketInv
  <2>8. QED
    BY <2>3, <2>4, <2>5, <2>7
<1>10. QED
  BY <1>6, <1>7, <1>8, <1>9 DEF LostTo

\* Only reading the transcript takes a turn to where it holds its messages.
LEMMA ContextMoves ==
  ASSUME ChainInv, RunnerInv, [RunnerNext]_vars, NEW t \in Turns, phase'[t] \in Holding
  PROVE  ReadTranscript(t) \/ (context'[t] = context[t] /\ phase[t] \in Holding)
<1>1. RunnerTypeOK
  BY DEF RunnerInv
<1>2. ASSUME NEW u \in Turns \ {t},
             \/ Refuse(u) \/ Submit(u) \/ BeginTurn(u) \/ Release(u)
             \/ TurnStepNow(u) \/ CallStep(u) \/ Timeout(u) \/ CallerAbort(u)
      PROVE  context'[t] = context[t] /\ phase'[t] = phase[t]
  BY <1>2, QueueActionsAreLocal, TurnActionsAreLocal, CallActionsAreLocal DEF StepOf, SameScalars
<1>3. CASE Refuse(t) \/ Submit(t) \/ BeginTurn(t) \/ Release(t)
  BY <1>1, <1>3 DEF Refuse, Submit, BeginTurn, Goto, Release, runnerVars, Holding, RunnerTypeOK
<1>4. CASE CallStep(t) \/ Timeout(t) \/ CallerAbort(t)
  BY <1>1, <1>4
  DEF CallStep, LookUp, Decide, AuditDecision, ProviderAnswers, AuditCallInTry, AuditCallOutcome,
      CallAnswers, Timeout, CallerAbort, SettleRace, Goto, callFrame, Holding, RunnerTypeOK
<1>5. CASE TurnStepNow(t) /\ ~ReadTranscript(t)
  <2>1. UNCHANGED context
    BY <1>5
    DEF TurnStepNow, AppendLifecycle, AppendUser, AppendAssistant, AwaitAppend,
        AuditRequested, AuditReadFailed, AuditSucceeded, AuditFailed, AwaitAudit,
        EmitRequested, EmitSucceeded, EmitFailed, emitFrame, TouchSession, EmitUpdated,
        EmitRuntimeFailed, AppendError
  <2>2. ASSUME NEW from, NEW to, Goto(t, from, to)
        PROVE  phase[t] = from /\ phase'[t] = to
    BY <1>1, <2>2 DEF Goto, RunnerTypeOK
  <2>3. phase[t] \in Holding
    BY <1>5, <2>2
    DEF TurnStepNow, AppendLifecycle, AppendUser, AppendAssistant, AwaitAppend,
        AuditRequested, AuditReadFailed, AuditSucceeded, AuditFailed, AwaitAudit, Throw,
        EmitRequested, EmitSucceeded, EmitFailed, TouchSession, EmitUpdated,
        EmitRuntimeFailed, AppendError, Return, Holding
  <2>4. QED
    BY <2>1, <2>3
<1>6. CASE UNCHANGED vars
  BY <1>6 DEF vars, runnerVars
<1>7. QED
  BY <1>2, <1>3, <1>4, <1>5, <1>6 DEF RunnerNext, AllOver

\* What Messages keeps of a transcript.
LEMMA MessagesKeep ==
  ASSUME NEW log
  PROVE  /\ DOMAIN Messages(log) =
              {i \in DOMAIN log : log[i].type \in {"user", "assistant"} /\ Readable(log, i)}
         /\ \A i \in DOMAIN Messages(log) : Messages(log)[i] = log[i]
BY DEF Messages, Restrict, IsMessage

\* The lines of one key are in the order of its turns.
LEMMA InOrder ==
  ASSUME OrderInv, NEW s \in Sessions,
         NEW i \in DOMAIN transcript[s], NEW j \in DOMAIN transcript[s], i < j,
         KeyOf[transcript[s][i].turn] = KeyOf[transcript[s][j].turn]
  PROVE  ticket[transcript[s][i].turn] <= ticket[transcript[s][j].turn]
BY DEF OrderInv

\* A turn reads its own message last, and the exchanges of those before it.
LEMMA ReadIsComplete ==
  ASSUME ChainInv, RunnerInv, RunnerInv', OrderInv, TornInv, NEW t \in Turns, ReadTranscript(t)
  PROVE  CompleteFor(t)'
<1> SUFFICES ASSUME phase'[t] \in Holding PROVE (EndsWithOwn(t) /\ HasEarlier(t))'
  BY DEF CompleteFor
<1>1. PICK s \in Sessions : s = SessionOf[t]
  BY RunnerAssumption
<1>2. PICK log : log = transcript[s] /\ log = transcript'[s]
  BY DEF ReadTranscript, logVars
<1>3. phase[t] = "read" /\ UNCHANGED <<queueVars, result, transcript>>
  BY DEF ReadTranscript, Goto, logVars
<1>4. context'[t] = Messages(log)
  BY <1>1, <1>2 DEF ReadTranscript, Goto, Holding, RunnerInv, RunnerTypeOK
<1>5. PICK sent : sent = context'[t]
  OBVIOUS
<1>6. /\ DOMAIN sent = {i \in DOMAIN log : log[i].type \in {"user", "assistant"} /\ Readable(log, i)}
      /\ \A i \in DOMAIN sent : sent[i] = log[i]
  BY <1>4, <1>5, MessagesKeep
<1>7. \A i \in DOMAIN log : i \in Nat
  BY <1>2, LineOf
<1>8. stage[t] = "running" /\ failure[t] = "none"
  BY <1>3 DEF RunnerInv, TurnInv, ControlInv, PathInv, Opening, ChainInv, QueueTypeOK, Stages
<1>9. \A u \in Turns : SessionOf[u] = s =>
        \A i \in OwnLines(u) : i \in DOMAIN log /\ log[i].turn = u /\ TypeAt(u, i) = log[i].type
  BY <1>2 DEF OwnLines, TypeAt
\* A line of a turn of the key, not its first and a message, has been sent or is lost.
<1>10. ASSUME NEW u \in Turns, SessionOf[u] = s, KeyOf[u] = KeyOf[t], failure[u] = "none",
              NEW i \in OwnLines(u), NEW n \in OwnLines(u), i < n,
              TypeAt(u, n) \in {"user", "assistant"}
       PROVE  HasSent(t, n)'
  <2>1. n \in DOMAIN log /\ log[n].type \in {"user", "assistant"}
    BY <1>9, <1>10
  <2>2. CASE Readable(log, n)
    BY <1>1, <1>2, <1>5, <1>6, <2>1, <2>2 DEF HasSent
  <2>3. CASE ~Readable(log, n)
    <3>1. PICK v \in Turns : LostTo(log, n, v) /\ ~(KeyOf[v] = KeyOf[u])
      BY <1>1, <1>2, <1>10, <2>3, LostLines
    <3>2. LostToAnother(t, n)'
      BY <1>1, <1>2, <1>10, <3>1 DEF LostToAnother, LostTo, CutOff
    <3>3. n \notin DOMAIN sent
      BY <1>6, <2>3
    <3>4. QED
      BY <1>5, <3>2, <3>3 DEF HasSent
  <2>4. QED
    BY <2>2, <2>3
<1>11. EndsWithOwn(t)'
  <2>1. PICK i, j \in OwnLines(t) :
          i < j /\ OwnLines(t) = {i, j} /\ TypeAt(t, i) = "lifecycle" /\ TypeAt(t, j) = "user"
    BY <1>3 DEF RunnerInv, TurnInv, OwnInv, Two
  <2>2. j \in DOMAIN log /\ j \in Nat /\ log[j].turn = t /\ log[j].type = "user"
    BY <1>1, <1>7, <1>9, <2>1
  <2>3. HasSent(t, j)'
    BY <1>1, <1>8, <1>10, <2>1
  <2>4. ASSUME NEW n \in DOMAIN sent, KeyOf[sent[n].turn] = KeyOf[t]
        PROVE  n <= j
    <3>1. n \in DOMAIN log /\ n \in Nat /\ sent[n] = log[n]
      BY <1>6, <1>7
    <3>2. PICK u \in Turns : u = log[n].turn /\ Started(u) /\ n \in OwnLines(u)
      BY <1>2, <3>1, LineOf
    <3>3. CASE u = t
      <4>1. n \in {i, j} /\ i \in Nat
        BY <1>1, <1>7, <1>9, <2>1, <3>2, <3>3
      <4>2. QED
        BY <2>1, <2>2, <4>1
    <3>4. CASE u # t
      <4>1. ticket[u] < ticket[t] /\ ticket[u] \in Nat /\ ticket[t] \in Nat
        BY <1>8, <2>4, <3>1, <3>2, <3>4, RunningIsLast DEF ChainInv, QueueTypeOK
      <4>2. KeyOf[log[j].turn] = KeyOf[log[n].turn]
        BY <2>2, <2>4, <3>1
      <4>3. ~(j < n)
        <5>1. SUFFICES ASSUME j < n PROVE FALSE
          OBVIOUS
        <5>2. j \in DOMAIN transcript[s] /\ n \in DOMAIN transcript[s]
          BY <1>2, <2>2, <3>1
        <5>3. ticket[transcript[s][j].turn] <= ticket[transcript[s][n].turn]
          BY <1>2, <4>2, <5>1, <5>2, InOrder
        <5>4. QED
          BY <1>2, <2>2, <3>2, <4>1, <5>3
      <4>4. QED
        BY <2>2, <3>1, <4>3
    <3>5. QED
      BY <3>3, <3>4
  <2>5. QED
    BY <1>1, <1>2, <1>5, <2>2, <2>3, <2>4 DEF EndsWithOwn
<1>12. ASSUME NEW u \in Turns, Before(u, t), SessionOf[u] = SessionOf[t], result[u] = "ok"
       PROVE  SentOf(t, u, "user")' /\ SentOf(t, u, "assistant")'
  <2>1. PICK i, j, k \in OwnLines(u) :
          i < j /\ j < k /\ TypeAt(u, j) = "user" /\ TypeAt(u, k) = "assistant"
    BY <1>12 DEF RunnerInv, TurnInv, OwnInv, Three
  <2>2. failure[u] = "none" /\ KeyOf[u] = KeyOf[t]
    BY <1>12, OkNeverFailed DEF Before
  <2>3. HasSent(t, j)' /\ HasSent(t, k)'
    BY <1>1, <1>10, <1>12, <2>1, <2>2
  <2>4. /\ j \in DOMAIN log /\ log[j].turn = u /\ log[j].type = "user"
        /\ k \in DOMAIN log /\ log[k].turn = u /\ log[k].type = "assistant"
    BY <1>1, <1>9, <1>12, <2>1
  <2>5. QED
    BY <1>1, <1>2, <2>3, <2>4 DEF SentOf
<1>13. HasEarlier(t)'
  BY <1>3, <1>12 DEF HasEarlier, Before, Enqueued, queueVars
<1>14. QED
  BY <1>11, <1>13

\* What a turn has sent stays complete: those before it are over.
LEMMA SentStaysComplete ==
  ASSUME ChainInv, ChainInv', RunnerInv, OrderInv, [RunnerNext]_vars, NEW t \in Turns,
         EndsWithOwn(t), HasEarlier(t), phase[t] \in Holding, context'[t] = context[t]
  PROVE  EndsWithOwn(t)' /\ HasEarlier(t)'
<1>1. PICK s \in Sessions : s = SessionOf[t]
  BY RunnerAssumption
<1>2. \A n \in DOMAIN transcript[s] : n \in DOMAIN transcript'[s] /\ transcript'[s][n] = transcript[s][n]
  BY TranscriptsGrow DEF Grown
<1>3. ASSUME NEW n \in DOMAIN transcript[s], HasSent(t, n) PROVE HasSent(t, n)'
  <2>1. LostToAnother(t, n) => LostToAnother(t, n)'
    BY <1>1, <1>2 DEF LostToAnother, LostTo, CutOff
  <2>2. QED
    BY <1>1, <1>2, <1>3, <2>1 DEF HasSent
<1>4. EndsWithOwn(t)'
  BY <1>1, <1>2, <1>3 DEF EndsWithOwn
<1>5. Started(t)
  BY DEF Started, RunnerInv, TurnInv, ControlInv, ChainInv, QueueTypeOK, Stages, Holding
<1>6. ASSUME NEW u \in Turns, Before(u, t)' PROVE Before(u, t)
  <2>1. [QueueNext]_queueVars
    BY RunnerStepsQueue
  <2>2. CASE UNCHANGED <<ticket, arrivals>>
    BY <1>6, <2>2 DEF Before, ChainInv, TicketInv, QueueTypeOK
  <2>3. CASE \E v \in Turns : Enqueue(v)
    <3>1. PICK v \in Turns : Enqueue(v)
      BY <2>3
    <3>2. v # t /\ ticket'[t] = ticket[t] /\ stage[v] = "new" /\ ticket'[v] = arrivals + 1
      BY <1>5, <3>1 DEF Enqueue, Started, Finished, ChainInv, QueueTypeOK
    <3>3. ticket[t] <= arrivals /\ ticket[t] \in Nat /\ arrivals \in Nat
      BY DEF ChainInv, TicketInv, QueueTypeOK
    <3>4. u # v
      BY <1>6, <3>2, <3>3 DEF Before
    <3>5. ticket'[u] = ticket[u] /\ stage'[u] = stage[u] /\ stage'[t] = stage[t]
      BY <3>1, <3>2, <3>4 DEF Enqueue, ChainInv, QueueTypeOK
    <3>6. QED
      BY <1>6, <3>2, <3>5 DEF Before, Enqueued
  <2>4. QED
    BY <2>1, <2>2, <2>3 DEF QueueNext, TurnStep, Start, Finish, Settle, AllSettled, queueVars
<1>7. ASSUME NEW u \in Turns, Before(u, t)', SessionOf[u] = SessionOf[t], result'[u] = "ok"
      PROVE  SentOf(t, u, "user")' /\ SentOf(t, u, "assistant")'
  <2>1. Before(u, t)
    BY <1>6, <1>7
  <2>2. stage[u] \in Finished
    BY <1>5, <2>1, EarlierAreOver
  <2>3. result[u] = "ok"
    BY <1>7, <2>2, OverIsOver DEF RecordsKept
  <2>4. SentOf(t, u, "user") /\ SentOf(t, u, "assistant")
    BY <1>7, <2>1, <2>3 DEF HasEarlier
  <2>5. QED
    BY <1>1, <1>2, <1>3, <2>4 DEF SentOf
<1>8. HasEarlier(t)'
  BY <1>7 DEF HasEarlier
<1>9. QED
  BY <1>4, <1>8

LEMMA ContextInvariant == RunnerSpec => []ContextInv
<1>1. RunnerInit => ContextInv
  <2> SUFFICES ASSUME RunnerInit PROVE ContextInv
    OBVIOUS
  <2>1. OrderInv /\ TornInv
    BY DEF RunnerInit, OrderInv, TornInv
  <2>2. \A t \in Turns : phase[t] = "idle"
    BY DEF RunnerInit
  <2>3. QED
    BY <2>1, <2>2 DEF ContextInv, CompleteFor, Holding
<1>2. ChainInv /\ ChainInv' /\ RunnerInv /\ RunnerInv' /\ ContextInv /\ [RunnerNext]_vars => ContextInv'
  <2> SUFFICES ASSUME ChainInv, ChainInv', RunnerInv, RunnerInv', ContextInv, [RunnerNext]_vars
               PROVE  ContextInv'
    OBVIOUS
  <2>1. OrderInv /\ TornInv /\ \A t \in Turns : CompleteFor(t)
    BY DEF ContextInv
  <2>2. OrderInv' /\ TornInv'
    BY <2>1, OrderStep, TornStep
  <2>3. ASSUME NEW t \in Turns PROVE CompleteFor(t)'
    <3>1. CASE phase'[t] \notin Holding
      BY <3>1 DEF CompleteFor, Holding
    <3>2. CASE ReadTranscript(t)
      BY <2>1, <3>2, ReadIsComplete
    <3>3. CASE context'[t] = context[t] /\ phase[t] \in Holding
      <4>1. EndsWithOwn(t) /\ HasEarlier(t)
        BY <2>1, <3>3 DEF CompleteFor
      <4>2. QED
        BY <2>1, <3>3, <4>1, SentStaysComplete DEF CompleteFor
    <3>4. QED
      BY <3>1, <3>2, <3>3, ContextMoves
  <2>4. QED
    BY <2>2, <2>3 DEF ContextInv
<1>3. QED
  BY <1>1, <1>2, RunnerInvariant, RunsOnQueue, PTL DEF RunnerSpec

\* The provider is sent the turn's own message last of its key, and the whole
\* exchange of every earlier turn of the key that succeeded in the session, but
\* for what was lost to appends that turns of other keys had cut off.
THEOREM ContextsAreComplete == RunnerSpec => []ContextComplete
<1>1. ASSUME ContextInv, NEW t \in Turns, phase[t] = "provider"
      PROVE  EndsWithOwn(t) /\ HasEarlier(t)
  BY <1>1 DEF ContextInv, CompleteFor, Holding
<1>2. ContextInv => ContextComplete
  BY <1>1 DEF ContextComplete, EndsWithOwn, HasEarlier, SentOf, HasSent, LostToAnother
<1>3. QED
  BY <1>2, ContextInvariant, PTL

\* A turn only succeeds with its exchange appended in order and its interaction
\* in the session store, and what of the exchange cannot be read is lost to an
\* append that another turn had cut off: never the user's or the assistant's
\* message to a turn of the same key.
THEOREM SuccessIsDurable == RunnerSpec => []OkIsDurable
<1>1. ASSUME ChainInv, RunnerInv, ContextInv, NEW t \in Turns, result[t] = "ok"
      PROVE  LET log == transcript[SessionOf[t]] IN
             /\ \E i, j, k \in DOMAIN log :
                  /\ i < j /\ j < k
                  /\ {n \in DOMAIN log : log[n].turn = t} = {i, j, k}
                  /\ log[i].type = "lifecycle" /\ log[j].type = "user" /\ log[k].type = "assistant"
                  /\ \A n \in {i, j, k} :
                       \/ Readable(log, n)
                       \/ \E u \in Turns \ {t} :
                            LostTo(log, n, u) /\ failure[u] # "none" /\ (KeyOf[u] = KeyOf[t] => n = i)
             /\ SessionOf[t] \in persisted <=> t \in touched
             /\ t \in touched <=> Emitted(t, "session_updated")
  <2>1. TurnInv(t) /\ Three(t) /\ failure[t] = "none"
    BY <1>1, OkNeverFailed DEF RunnerInv, TurnInv, OwnInv
  <2>2. phase[t] # "emit_updated"
    BY <1>1, <2>1 DEF TurnInv, ControlInv
  <2>3. (SessionOf[t] \in persisted <=> t \in touched) /\ (t \in touched <=> Emitted(t, "session_updated"))
    BY <1>1, <2>1, <2>2 DEF TurnInv, EventInv
  <2>4. PICK i, j, k \in OwnLines(t) :
          /\ i < j /\ j < k /\ OwnLines(t) = {i, j, k}
          /\ TypeAt(t, i) = "lifecycle" /\ TypeAt(t, j) = "user" /\ TypeAt(t, k) = "assistant"
    BY <2>1 DEF Three
  <2>5. PICK log : log = transcript[SessionOf[t]]
    OBVIOUS
  <2>6. /\ i \in DOMAIN log /\ j \in DOMAIN log /\ k \in DOMAIN log
        /\ {n \in DOMAIN log : log[n].turn = t} = {i, j, k}
        /\ log[i].type = "lifecycle" /\ log[j].type = "user" /\ log[k].type = "assistant"
    BY <2>4, <2>5 DEF OwnLines, TypeAt
  <2>7. i \in Nat /\ j \in Nat /\ k \in Nat
    <3>1. PICK s \in Sessions : s = SessionOf[t]
      BY RunnerAssumption
    <3>2. QED
      BY <1>1, <2>5, <2>6, <3>1, LineOf DEF ContextInv
  <2>8. ASSUME NEW n \in {i, j, k}
        PROVE  \/ Readable(log, n)
               \/ \E u \in Turns \ {t} :
                    LostTo(log, n, u) /\ failure[u] # "none" /\ (KeyOf[u] = KeyOf[t] => n = i)
    <3>1. \/ Readable(log, n)
          \/ \E u \in Turns \ {t} :
               /\ LostTo(log, n, u) /\ failure[u] # "none"
               /\ KeyOf[u] = KeyOf[t] => \A m \in OwnLines(t) : ~(m < n)
      BY <1>1, <2>1, <2>4, <2>5, LostLines DEF ContextInv
    <3>2. n # i => i < n
      BY <2>4, <2>7
    <3>3. QED
      BY <2>4, <3>1, <3>2
  <2>9. QED
    BY <2>3, <2>4, <2>5, <2>6, <2>8
<1>2. ChainInv /\ RunnerInv /\ ContextInv => OkIsDurable
  BY <1>1 DEF OkIsDurable
<1>3. QED
  BY <1>2, RunnerInvariant, RunsOnQueue, ContextInvariant, PTL
-----------------------------------------------------------------------------
(* The keys of turns *)

\* Where both come from, a scope that covers an input is the one it defaults to.
LEMMA ScopesAgree ==
  ASSUME NEW i \in ChannelInputs, NEW j \in ChannelInputs, DOMAIN i.ids = DOMAIN j.ids,
         Acceptable(i), Acceptable(j)
  PROVE  ScopeOf(i) = ScopeOf(j) <=> i.scope = j.scope \/ Covers(j.scope, i) \/ Covers(i.scope, j)
<1>1. /\ i.kind = "channel" /\ j.kind = "channel"
      /\ i.scope \in {"thread", "room", "sender", "default"}
      /\ j.scope \in {"thread", "room", "sender", "default"}
  BY DEF ChannelInputs, Scopes
<1>2. /\ i.scope = "default" \/ i.scope \in DOMAIN i.ids
      /\ j.scope = "default" \/ j.scope \in DOMAIN i.ids
  BY <1>1 DEF Acceptable
<1>3. CASE i.scope = "default" /\ j.scope = "default"
  BY <1>3 DEF ScopeOf
<1>4. CASE i.scope # "default" /\ j.scope # "default"
  BY <1>4 DEF ScopeOf, Covers
<1>5. CASE i.scope = "default" /\ j.scope # "default"
  <2>1. ScopeOf(j) = j.scope /\ ~Covers(i.scope, j)
    BY <1>5 DEF ScopeOf, Covers
  <2>2. ScopeOf(i) = j.scope <=> Covers(j.scope, i)
    BY <1>1, <1>2, <1>5 DEF ScopeOf, Covers
  <2>3. QED
    BY <1>5, <2>1, <2>2
<1>6. CASE i.scope # "default" /\ j.scope = "default"
  <2>1. ScopeOf(i) = i.scope /\ ~Covers(j.scope, i)
    BY <1>6 DEF ScopeOf, Covers
  <2>2. ScopeOf(j) = i.scope <=> Covers(i.scope, j)
    BY <1>1, <1>2, <1>6 DEF ScopeOf, Covers
  <2>3. QED
    BY <1>6, <2>1, <2>2
<1>7. QED
  BY <1>3, <1>4, <1>5, <1>6

\* Keys are exact: neither do two conversations share one, nor does one
\* conversation have two.
THEOREM KeysAreExact ==
  ASSUME NEW i \in CliInputs \cup ChannelInputs, NEW j \in CliInputs \cup ChannelInputs,
         Acceptable(i), Acceptable(j)
  PROVE  RoutingKey(i) = RoutingKey(j) <=> SameConversation(i, j)
<1>1. CASE i \in CliInputs /\ j \in CliInputs
  <2>1. i.kind = "cli" /\ j.kind = "cli"
    BY <1>1 DEF CliInputs
  <2>2. RoutingKey(i) = RoutingKey(j) <=> i.session.name = j.session.name
    BY <2>1 DEF RoutingKey, CliKey, Normalize
  <2>3. QED
    BY <2>1, <2>2 DEF SameConversation
<1>2. CASE i \in ChannelInputs /\ j \in ChannelInputs
  <2>1. i.kind = "channel" /\ j.kind = "channel"
    BY <1>2 DEF ChannelInputs
  <2> DEFINE NamesOf(k) == [f \in DOMAIN k.ids |-> k.ids[f].name]
  <2>2. RoutingKey(i) = RoutingKey(j) <=>
          /\ ScopeOf(i) = ScopeOf(j)
          /\ i.channel.name = j.channel.name
          /\ NamesOf(i) = NamesOf(j)
    BY <2>1 DEF RoutingKey, ChannelKey, Normalize
  <2>3. NamesOf(i) = NamesOf(j) <=>
          /\ DOMAIN i.ids = DOMAIN j.ids
          /\ \A f \in DOMAIN i.ids : i.ids[f].name = j.ids[f].name
    <3>1. ASSUME NamesOf(i) = NamesOf(j)
          PROVE  /\ DOMAIN i.ids = DOMAIN j.ids
                 /\ \A f \in DOMAIN i.ids : i.ids[f].name = j.ids[f].name
      <4>1. DOMAIN NamesOf(i) = DOMAIN i.ids /\ DOMAIN NamesOf(j) = DOMAIN j.ids
        OBVIOUS
      <4>2. DOMAIN i.ids = DOMAIN j.ids
        BY <3>1, <4>1
      <4>3. ASSUME NEW f \in DOMAIN i.ids PROVE i.ids[f].name = j.ids[f].name
        <5>1. NamesOf(i)[f] = i.ids[f].name /\ NamesOf(j)[f] = j.ids[f].name
          BY <4>2
        <5>2. QED
          BY <3>1, <5>1
      <4>4. QED
        BY <4>2, <4>3
    <3>2. ASSUME DOMAIN i.ids = DOMAIN j.ids,
                 \A f \in DOMAIN i.ids : i.ids[f].name = j.ids[f].name
          PROVE  NamesOf(i) = NamesOf(j)
      BY <3>2
    <3>3. QED
      BY <3>1, <3>2
  <2>4. DOMAIN i.ids = DOMAIN j.ids =>
          (ScopeOf(i) = ScopeOf(j) <=> i.scope = j.scope \/ Covers(j.scope, i) \/ Covers(i.scope, j))
    BY <1>2, ScopesAgree
  <2>5. QED
    BY <2>1, <2>2, <2>3, <2>4 DEF SameConversation
<1>3. CASE i.kind # j.kind
  <2>1. RoutingKey(i).kind = i.kind /\ RoutingKey(j).kind = j.kind
    BY DEF RoutingKey, CliKey, ChannelKey, CliInputs, ChannelInputs
  <2>2. QED
    BY <1>3, <2>1 DEF SameConversation
<1>4. QED
  BY <1>1, <1>2, <1>3 DEF CliInputs, ChannelInputs
-----------------------------------------------------------------------------
\* Turns of one conversation never run together and no turn is queued behind
\* one of another conversation, for any number of turns, keys and inputs.
THEOREM ConversationsStayApart == QueueSpec => []ConversationsApart
<1>1. ChainInv /\ MutualExclusion => ConversationsApart
  <2> SUFFICES ASSUME ChainInv, MutualExclusion, NEW t \in Turns, NEW u \in Turns, t # u
               PROVE  IF SameConversation(InputOf[t], InputOf[u])
                      THEN ~(stage[t] = "running" /\ stage[u] = "running")
                      ELSE ~(stage[t] = "queued" /\ prev[t] = u)
    BY DEF ConversationsApart
  <2>1. KeyOf[t] = KeyOf[u] <=> SameConversation(InputOf[t], InputOf[u])
    BY RoutingAssumption, KeysAreExact
  <2>2. CASE SameConversation(InputOf[t], InputOf[u])
    BY <2>1, <2>2 DEF MutualExclusion
  <2>3. CASE ~SameConversation(InputOf[t], InputOf[u])
    <3>1. SUFFICES ASSUME stage[t] = "queued", prev[t] = u
                   PROVE  FALSE
      BY <2>3
    <3>2. Before(prev[t], t)
      BY <3>1, QueueAssumption DEF ChainInv, PrevIsPredecessor, Enqueued
    <3>3. QED
      BY <2>1, <2>3, <3>1, <3>2 DEF Before
  <2>4. QED
    BY <2>2, <2>3
<1>2. QED
  BY <1>1, ChainInvariant, NoTwoTurnsTogether, PTL
=============================================================================

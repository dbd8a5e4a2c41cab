---------------------------- MODULE AuditedCalls ----------------------------
(***************************************************************************)
(* What operations that ask for permission and keep an audit have in       *)
(* common: a call with its awaits, the decision of a policy                *)
(* (decidePermissionWithAudit of packages/permissions/src/index.ts) and    *)
(* the records it appends to a sink.                                       *)
(*                                                                         *)
(* at[c] is the await at which call c stands; trail[c] holds its records:  *)
(* of a decision ("permission"), of the call itself and of what it does in *)
(* between.  A policy that requires an approval is one that says no.       *)
(*                                                                         *)
(* A fault is a policy, a sink or an operation that fails for no reason    *)
(* inside the model; MaxFaults bounds them.                                *)
(***************************************************************************)
EXTENDS Naturals, Sequences, FiniteSets

CONSTANTS
  Calls,    \* calls of all operations
  Together, \* the sets of calls that may be made at the same time
  MaxFaults

ASSUME CallsAssumption == Together \subseteq SUBSET Calls /\ MaxFaults \in Nat

VARIABLES
  at,     \* where a call is
  error,  \* the error it is about to report
  result, \* what it returned
  trail,  \* its audit records, oldest first
  faults

callVars == <<at, error, result, trail, faults>>

CallsInit ==
  /\ \E made \in Together : at = [c \in Calls |-> IF c \in made THEN "idle" ELSE "never"]
  /\ error = [c \in Calls |-> "none"]
  /\ result = [c \in Calls |-> "none"]
  /\ trail = [c \in Calls |-> <<>>]
  /\ faults = 0
-----------------------------------------------------------------------------
Goto(c, from, to) == at[c] = from /\ at' = [at EXCEPT ![c] = to]
Fault == faults < MaxFaults /\ faults' = faults + 1

Log(c, of, outcome) == trail' = [trail EXCEPT ![c] = Append(@, [of |-> of, outcome |-> outcome])]

Fail(c, from, to, code) == Goto(c, from, to) /\ error' = [error EXCEPT ![c] = code]

\* The promise of the call settles.
Return(c, from, code) == Goto(c, from, "over") /\ result' = [result EXCEPT ![c] = code]

\* A sink that throws where nothing catches makes the call reject.
SinkRejects(c, from) == Return(c, from, "rejected") /\ Fault /\ UNCHANGED trail
-----------------------------------------------------------------------------
(* decidePermissionWithAudit: a check says where it begins, what comes      *)
(* after a yes or a no, and where an error leads to                         *)

\* policy.decide answers yes or no, or throws.
Decide(c, check) ==
  /\ \/ \E to \in {check.yes, check.no} : Goto(c, check.from, to) /\ UNCHANGED <<error, faults>>
     \/ Fail(c, check.from, check.broken, check.code) /\ Fault
  /\ UNCHANGED <<result, trail>>

\* Bug (mutation runs only): a decision that could not be audited is acted upon.
BugRecordDecisionSinkIgnored(c, check) ==
  /\ \/ Goto(c, check.yes, check.granted) /\ UNCHANGED error
     \/ Fail(c, check.no, check.denied, check.denial)
  /\ \/ Log(c, "permission", IF at[c] = check.yes THEN "allowed" ELSE "denied") /\ UNCHANGED faults
     \/ Fault /\ UNCHANGED trail
  /\ UNCHANGED result

\* The answer is audited before it is acted upon; a sink that throws is like a
\* policy that does.
RecordDecision(c, check) ==
  /\ \/ Goto(c, check.yes, check.granted) /\ Log(c, "permission", "allowed") /\ UNCHANGED <<error, faults>>
     \/ Fail(c, check.no, check.denied, check.denial) /\ Log(c, "permission", "denied") /\ UNCHANGED faults
     \/ /\ \E from \in {check.yes, check.no} : Fail(c, from, check.broken, check.code)
        /\ Fault /\ UNCHANGED trail
  /\ UNCHANGED result

Ask(c, check) == Decide(c, check) \/ RecordDecision(c, check)
-----------------------------------------------------------------------------
AllOver == (\A c \in Calls : at[c] \in {"never", "over"}) /\ UNCHANGED callVars

Records(c, of) == {i \in DOMAIN trail[c] : trail[c][i].of = of}
Recorded(c, of, outcome) == \E i \in Records(c, of) : trail[c][i].outcome = outcome
Returned(c) == result[c] \notin {"none", "rejected"}

\* One of the records closes the call: the last one, which says what it returned.
ClosedAsReturned(c, of) ==
  LET last   == Len(trail[c])
      closed == {i \in Records(c, of) : trail[c][i].outcome # "requested"}
  IN /\ closed = {last}
     /\ trail[c][last].outcome = CASE result[c] = "ok" -> "succeeded"
                                   [] result[c] = "denied" -> "denied"
                                   [] OTHER -> "failed"

Allowed(c) == Cardinality({i \in Records(c, "permission") : trail[c][i].outcome = "allowed"})
=============================================================================

------------------------- MODULE ToolRegistryProofs -------------------------
(***************************************************************************)
(* Facts that proofs about calls of tools and other audited operations     *)
(* have in common: a step moves one call, only a decision that is recorded *)
(* adds to the permissions on record, and an invocation of a tool leaves   *)
(* one closing record.                                                     *)
(***************************************************************************)
EXTENDS ToolRegistry, FiniteSetTheorems, TLAPS

Kinds    == {"permission", "tool", "operation", "call", "secret"}
Outcomes == {"requested", "allowed", "denied", "succeeded", "failed"}
Trails   == Seq([of : Kinds, outcome : Outcomes])

\* The part of the state that the permissions of a call depend on.
CallsTypeOK ==
  /\ DOMAIN at = Calls /\ at = [c \in Calls |-> at[c]]
  /\ trail \in [Calls -> Trails]

\* A step of call c leaves the others where they are.
StepOf(c) ==
  /\ CallsTypeOK'
  /\ \A d \in Calls \ {c} : at'[d] = at[d] /\ trail'[d] = trail[d]

\* A record is added to the trail of one call.
LEMMA LogStep ==
  ASSUME CallsTypeOK, NEW c \in Calls, NEW of \in Kinds, NEW STATE outcome, outcome \in Outcomes, Log(c, of, outcome)
  PROVE  trail' \in [Calls -> Trails] /\ \A d \in Calls \ {c} : trail'[d] = trail[d]
<1>1. [of |-> of, outcome |-> outcome] \in [of : Kinds, outcome : Outcomes]
  OBVIOUS
<1>2. trail[c] \in Seq([of : Kinds, outcome : Outcomes])
  BY DEF CallsTypeOK, Trails
<1>3. Append(trail[c], [of |-> of, outcome |-> outcome]) \in Seq([of : Kinds, outcome : Outcomes])
  BY <1>1, <1>2
<1>4. QED
  BY <1>3 DEF CallsTypeOK, Trails, Log

\* A decision, and its record.
LEMMA AskStep ==
  ASSUME CallsTypeOK, NEW c \in Calls, NEW STATE check, Ask(c, check)
  PROVE  StepOf(c)
<1>1. DOMAIN at' = Calls /\ at' = [d \in Calls |-> at'[d]] /\ \A d \in Calls \ {c} : at'[d] = at[d]
  BY DEF Ask, Decide, RecordDecision, Fail, Goto, CallsTypeOK
<1>2. trail' \in [Calls -> Trails] /\ \A d \in Calls \ {c} : trail'[d] = trail[d]
  BY LogStep DEF Ask, Decide, RecordDecision, CallsTypeOK, Kinds, Outcomes
<1>3. QED
  BY <1>1, <1>2 DEF StepOf, CallsTypeOK

\* The steps that every invocation of a tool takes.
LEMMA InvocationMoves ==
  ASSUME CallsTypeOK, NEW c \in Calls, InvocationStep(c)
  PROVE  StepOf(c)
<1>1. CASE Ask(c, InvocationCheck)
  BY <1>1, AskStep
<1>2. CASE ~Ask(c, InvocationCheck)
  <2>1. DOMAIN at' = Calls /\ at' = [d \in Calls |-> at'[d]] /\ \A d \in Calls \ {c} : at'[d] = at[d]
    BY <1>2 DEF CallsTypeOK, Goto, InvocationStep, Invoke, RefuseUnknown, AuditRequested, Refuse, AuditFailedOperation,
       AuditOperation, AuditSucceeded, Catch, SinkRejects, Return, Fail
  <2>2. trail' \in [Calls -> Trails] /\ \A d \in Calls \ {c} : trail'[d] = trail[d]
    BY <1>2, LogStep DEF InvocationStep, Invoke, RefuseUnknown, AuditRequested, Refuse, AuditFailedOperation,
       AuditOperation, AuditSucceeded, Catch, SinkRejects, CallsTypeOK, Kinds, Outcomes
  <2>3. QED
    BY <2>1, <2>2 DEF StepOf, CallsTypeOK
<1>3. QED
  BY <1>1, <1>2

\* Granting a permission adds one to those on record, and nothing else does.
LEMMA AllowedCount ==
  ASSUME CallsTypeOK, NEW c \in Calls, NEW of \in Kinds, NEW STATE outcome, outcome \in Outcomes, Log(c, of, outcome)
  PROVE  Allowed(c)' = IF of = "permission" /\ outcome = "allowed" THEN Allowed(c) + 1 ELSE Allowed(c)
<1> DEFINE Grants(t) == {i \in DOMAIN t : t[i].of = "permission" /\ t[i].outcome = "allowed"}
<1> DEFINE r == [of |-> of, outcome |-> outcome]
<1> DEFINE n == Len(trail[c]) + 1
<1>1. Allowed(c) = Cardinality(Grants(trail[c])) /\ Allowed(c)' = Cardinality(Grants(trail'[c]))
  <2>1. \A t : {i \in {j \in DOMAIN t : t[j].of = "permission"} : t[i].outcome = "allowed"} = Grants(t)
    OBVIOUS
  <2>2. QED
    BY <2>1 DEF Allowed, Records
<1>2. trail[c] \in Seq([of : Kinds, outcome : Outcomes]) /\ trail'[c] = Append(trail[c], r)
  BY DEF CallsTypeOK, Trails, Log
<1>3. /\ n \in Nat /\ DOMAIN trail[c] = 1..(n - 1) /\ DOMAIN trail'[c] = 1..n
      /\ \A i \in 1..(n - 1) : trail'[c][i] = trail[c][i]
      /\ trail'[c][n] = r
  BY <1>2
<1>4. IsFiniteSet(Grants(trail[c])) /\ n \notin Grants(trail[c])
  <2>1. IsFiniteSet(1..(n - 1))
    BY <1>3, FS_Interval
  <2>2. QED
    BY <1>3, <2>1, FS_Subset
<1>5. Grants(trail'[c]) = IF of = "permission" /\ outcome = "allowed" THEN Grants(trail[c]) \cup {n} ELSE Grants(trail[c])
  BY <1>3
<1>6. Cardinality(Grants(trail[c]) \cup {n}) = Cardinality(Grants(trail[c])) + 1
  BY <1>4, FS_AddElement
<1>7. QED
  BY <1>1, <1>5, <1>6

\* A decision is on record before the call goes on with what was granted.
LEMMA AskConsent ==
  ASSUME CallsTypeOK, NEW c \in Calls, NEW STATE check, Ask(c, check)
  PROVE  \/ at[c] = check.from /\ at'[c] \in {check.yes, check.no, check.broken} /\ Allowed(c)' = Allowed(c)
         \/ at[c] = check.yes /\ at'[c] = check.granted /\ Allowed(c)' = Allowed(c) + 1
         \/ at[c] = check.no /\ at'[c] = check.denied /\ Allowed(c)' = Allowed(c)
         \/ at[c] \in {check.yes, check.no} /\ at'[c] = check.broken /\ Allowed(c)' = Allowed(c)
<1>1. UNCHANGED trail => Allowed(c)' = Allowed(c)
  BY DEF Allowed, Records
<1>2. Log(c, "permission", "allowed") => Allowed(c)' = Allowed(c) + 1
  BY AllowedCount DEF Kinds, Outcomes
<1>3. Log(c, "permission", "denied") => Allowed(c)' = Allowed(c)
  BY AllowedCount DEF Kinds, Outcomes
<1>4. CASE Decide(c, check)
  BY <1>1, <1>4 DEF Decide, Fail, Goto, CallsTypeOK
<1>5. CASE RecordDecision(c, check)
  BY <1>1, <1>2, <1>3, <1>5 DEF RecordDecision, Fail, Goto, CallsTypeOK
<1>6. QED
  BY <1>4, <1>5 DEF Ask

\* Where an invocation of a tool is before its handler, and after what the
\* handler does.
Entry == {"idle", "requesting", "permitting", "allowing"}
Left  == {"operation_done", "operation_failed", "succeeding", "catching", "over"}

\* An invocation comes to its handler with one permission on record, and gets
\* no more around it.
LEMMA InvocationConsent ==
  ASSUME CallsTypeOK, NEW c \in Calls, InvocationStep(c)
  PROVE  \/ at[c] \in Entry /\ at'[c] \in Entry /\ Allowed(c)' = Allowed(c)
         \/ at[c] = "allowing" /\ at'[c] = "executing" /\ Allowed(c)' = Allowed(c) + 1
         \/ /\ at[c] \in Entry \cup {"unknown", "denying", "refusing"}
            /\ at'[c] \in {"unknown", "denying", "refusing", "over"} /\ Allowed(c)' = Allowed(c)
         \/ at[c] \in Left /\ at'[c] \in Left /\ Allowed(c)' = Allowed(c)
<1>1. CASE Ask(c, InvocationCheck)
  BY <1>1, AskConsent DEF InvocationCheck, Entry
<1>2. CASE ~Ask(c, InvocationCheck)
  <2>1. Allowed(c)' = Allowed(c)
    <3>1. CASE UNCHANGED trail
      BY <3>1 DEF Allowed, Records
    <3>2. CASE \E of \in Kinds \ {"permission"}, outcome \in Outcomes : Log(c, of, outcome)
      BY <3>2, AllowedCount
    <3>3. QED
      BY <1>2, <3>1, <3>2 DEF InvocationStep, Invoke, RefuseUnknown, AuditRequested, Refuse, AuditFailedOperation,
         AuditOperation, AuditSucceeded, Catch, SinkRejects, Kinds, Outcomes
  <2>2. QED
    BY <1>2, <2>1 DEF CallsTypeOK, Goto, Return, Fail, SinkRejects, InvocationStep, Invoke, RefuseUnknown,
       AuditRequested, Refuse, AuditFailedOperation, AuditOperation, AuditSucceeded, Catch, Entry, Left
<1>3. QED
  BY <1>1, <1>2
-----------------------------------------------------------------------------
(* Records *)

\* Where an invocation has no records yet.
Early == {"never", "idle", "unknown", "requesting"}

\* Records of kind k say nothing of the outcome so far, begin with the request
\* of a tool, or end with the outcome of a call that returns r.
Open(t, k)   == \A i \in DOMAIN t : t[i].of = k => t[i].outcome = "requested"
Begun(t)     == t # <<>> /\ t[1] = [of |-> "tool", outcome |-> "requested"]
OutcomeOf(r) == IF r = "ok" THEN "succeeded" ELSE IF r = "denied" THEN "denied" ELSE "failed"
Closed(t, k, r) ==
  /\ t # <<>> /\ t[Len(t)].of = k /\ t[Len(t)].outcome = OutcomeOf(r)
  /\ \A i \in 1..(Len(t) - 1) : t[i].of = k => t[i].outcome = "requested"

\* What is on record of a call where it is, and what its error is good for.
RecordInv(c) ==
  /\ error[c] # "ok" /\ (error[c] = "denied" => at[c] \in {"refusing", "over"})
  /\ at[c] \in Early => trail[c] = <<>>
  /\ at[c] # "over" => result[c] = "none" /\ Open(trail[c], "tool")
  /\ at[c] \notin Early \cup {"over"} => Begun(trail[c])
  /\ at[c] = "over" => \/ result[c] = "rejected"
                       \/ Closed(trail[c], "tool", result[c]) /\ (result[c] = "not_found" \/ Begun(trail[c]))

\* Errors and results belong to calls.
TextOK == error = [c \in Calls |-> error[c]] /\ result = [c \in Calls |-> result[c]]

\* What one more record does to a trail.
LEMMA OneMore ==
  ASSUME NEW t \in Trails, NEW of \in Kinds, NEW outcome \in Outcomes, NEW u, u = Append(t, [of |-> of, outcome |-> outcome])
  PROVE  /\ \A k : Open(t, k) /\ (of = k => outcome = "requested") => Open(u, k)
         /\ Begun(t) => Begun(u)
         /\ t = <<>> /\ of = "tool" /\ outcome = "requested" => Begun(u)
         /\ \A r : Open(t, of) /\ outcome = OutcomeOf(r) => Closed(u, of, r)
<1>1. /\ Len(t) \in Nat /\ DOMAIN t = 1..Len(t)
      /\ DOMAIN u = 1..(Len(t) + 1) /\ Len(u) = Len(t) + 1 /\ u # <<>>
      /\ \A i \in 1..Len(t) : u[i] = t[i]
      /\ u[Len(t) + 1] = [of |-> of, outcome |-> outcome]
  BY DEF Trails
<1>2. \A k : Open(t, k) /\ (of = k => outcome = "requested") => Open(u, k)
  BY <1>1 DEF Open
<1>3. Begun(t) => Begun(u)
  BY <1>1 DEF Begun, Trails
<1>4. t = <<>> /\ of = "tool" /\ outcome = "requested" => Begun(u)
  BY <1>1 DEF Begun
<1>5. \A r : Open(t, of) /\ outcome = OutcomeOf(r) => Closed(u, of, r)
  BY <1>1 DEF Open, Closed
<1>6. QED
  BY <1>2, <1>3, <1>4, <1>5

\* What one more record adds to those of a call.
LEMMA RecordedStep ==
  ASSUME CallsTypeOK, NEW c \in Calls, NEW of \in Kinds, NEW STATE outcome, outcome \in Outcomes, Log(c, of, outcome)
  PROVE  \A k, o : Recorded(c, k, o)' <=> Recorded(c, k, o) \/ (k = of /\ o = outcome)
<1> DEFINE n == Len(trail[c]) + 1
<1>1. trail[c] \in Seq([of : Kinds, outcome : Outcomes]) /\ trail'[c] = Append(trail[c], [of |-> of, outcome |-> outcome])
  BY DEF CallsTypeOK, Trails, Log
<1>2. /\ n \in Nat /\ DOMAIN trail[c] = 1..(n - 1) /\ DOMAIN trail'[c] = 1..n
      /\ \A i \in 1..(n - 1) : trail'[c][i] = trail[c][i]
      /\ trail'[c][n] = [of |-> of, outcome |-> outcome]
  BY <1>1
<1>3. [of |-> of, outcome |-> outcome].of = of /\ [of |-> of, outcome |-> outcome].outcome = outcome
  OBVIOUS
<1>4. \A i : i \in 1..n <=> i \in 1..(n - 1) \/ i = n
  BY <1>2
<1> HIDE DEF n
<1>5. SUFFICES ASSUME NEW k, NEW o PROVE Recorded(c, k, o)' <=> Recorded(c, k, o) \/ (k = of /\ o = outcome)
  OBVIOUS
<1>6. Recorded(c, k, o) <=> \E i \in 1..(n - 1) : trail[c][i].of = k /\ trail[c][i].outcome = o
  BY <1>2 DEF Recorded, Records
<1>7. Recorded(c, k, o)' <=> \E i \in 1..n : trail'[c][i].of = k /\ trail'[c][i].outcome = o
  BY <1>2 DEF Recorded, Records
<1>8. (\E i \in 1..n : trail'[c][i].of = k /\ trail'[c][i].outcome = o)
        <=> \/ \E i \in 1..(n - 1) : trail[c][i].of = k /\ trail[c][i].outcome = o
            \/ k = of /\ o = outcome
  BY <1>2, <1>3, <1>4
<1>9. QED
  BY <1>6, <1>7, <1>8

\* Records that are not of the invocation itself change nothing, wherever a
\* call is between its request and its end.
LEMMA HandlerKeepsRecords ==
  ASSUME CallsTypeOK, NEW c \in Calls, RecordInv(c), UNCHANGED result,
         at[c] \notin Early \cup {"over"}, at'[c] \notin Early \cup {"over"},
         error'[c] # "ok", error'[c] = "denied" => at'[c] = "refusing",
         UNCHANGED trail \/ \E of \in Kinds \ {"tool"}, outcome \in Outcomes : Log(c, of, outcome)
  PROVE  RecordInv(c)'
<1>1. CASE UNCHANGED trail
  BY <1>1 DEF RecordInv
<1>2. CASE \E of \in Kinds \ {"tool"}, outcome \in Outcomes : Log(c, of, outcome)
  <2>1. PICK of \in Kinds \ {"tool"}, outcome \in Outcomes : trail'[c] = Append(trail[c], [of |-> of, outcome |-> outcome])
    BY <1>2 DEF Log, CallsTypeOK
  <2>2. Open(trail[c], "tool") /\ Begun(trail[c]) /\ trail[c] \in Trails
    BY DEF RecordInv, CallsTypeOK
  <2>3. Open(trail'[c], "tool") /\ Begun(trail'[c])
    BY <2>1, <2>2, OneMore
  <2>4. QED
    BY <2>3 DEF RecordInv, Open, Begun
<1>3. QED
  BY <1>1, <1>2

\* Nor does a decision, whatever its check is.
LEMMA AskKeepsRecords ==
  ASSUME CallsTypeOK, TextOK, NEW c \in Calls, RecordInv(c), NEW STATE check, Ask(c, check),
         {check.from, check.yes, check.no, check.granted, check.denied, check.broken} \cap (Early \cup {"over"}) = {},
         "refusing" \notin {check.from, check.yes, check.no, check.granted},
         check.denial # "ok", check.code \notin {"ok", "denied"},
         check.denial = "denied" => check.denied = "refusing"
  PROVE  RecordInv(c)'
<1>1. at[c] \in {check.from, check.yes, check.no} /\ at'[c] \in {check.yes, check.no, check.granted, check.denied, check.broken}
  BY DEF Ask, Decide, RecordDecision, Fail, Goto, CallsTypeOK
<1>2. error'[c] # "ok" /\ (error'[c] = "denied" => at'[c] = "refusing")
  BY DEF Ask, Decide, RecordDecision, Fail, Goto, CallsTypeOK, TextOK, RecordInv
<1>3. UNCHANGED result /\ (UNCHANGED trail \/ \E of \in Kinds \ {"tool"}, outcome \in Outcomes : Log(c, of, outcome))
  BY DEF Ask, Decide, RecordDecision, Kinds, Outcomes
<1>4. QED
  BY <1>1, <1>2, <1>3, HandlerKeepsRecords

\* The steps of invokeResult, each of which leaves at most one record.
LEMMA InvocationKeepsRecords ==
  ASSUME CallsTypeOK, TextOK, NEW c \in Calls, RecordInv(c), InvocationStep(c)
  PROVE  RecordInv(c)'
<1>1. CASE Invoke(c)
  BY <1>1 DEF Invoke, Goto, RecordInv, CallsTypeOK, Early, Open, Begun
<1>2. CASE Ask(c, InvocationCheck)
  BY <1>2, AskKeepsRecords DEF InvocationCheck, Early
<1>3. CASE AuditFailedOperation(c) \/ AuditOperation(c)
  <2>1. /\ at[c] \in {"operation_failed", "operation_done"} /\ at'[c] \in {"catching", "succeeding"}
        /\ error'[c] # "ok" /\ error'[c] # "denied"
        /\ UNCHANGED result
    BY <1>3 DEF AuditFailedOperation, AuditOperation, Goto, Fail, RecordInv, CallsTypeOK, TextOK
  <2>2. UNCHANGED trail \/ \E of \in Kinds \ {"tool"}, outcome \in Outcomes : Log(c, of, outcome)
    BY <1>3 DEF AuditFailedOperation, AuditOperation, Kinds, Outcomes
  <2>3. QED
    BY <2>1, <2>2, HandlerKeepsRecords DEF Early
<1>4. CASE AuditRequested(c)
  <2>1. CASE SinkRejects(c, "requesting") /\ UNCHANGED error
    BY <2>1 DEF SinkRejects, Return, Goto, RecordInv, CallsTypeOK, TextOK, Early
  <2>2. CASE ~(SinkRejects(c, "requesting") /\ UNCHANGED error)
    <3>1. /\ at[c] = "requesting" /\ at'[c] \in {"permitting", "refusing"} /\ UNCHANGED result
          /\ error'[c] # "ok" /\ error'[c] # "denied" /\ Log(c, "tool", "requested")
      BY <1>4, <2>2 DEF AuditRequested, Goto, Fail, RecordInv, CallsTypeOK, TextOK
    <3>2. trail[c] = <<>> /\ trail[c] \in Trails /\ Open(trail[c], "tool") /\ result[c] = "none"
      BY <3>1 DEF RecordInv, Early, CallsTypeOK
    <3>3. trail'[c] = Append(trail[c], [of |-> "tool", outcome |-> "requested"])
      BY <3>1 DEF Log, CallsTypeOK
    <3>4. Open(trail'[c], "tool") /\ Begun(trail'[c])
      <4> DEFINE record == [of |-> "tool", outcome |-> "requested"]
      <4>1. record \in [of: Kinds, outcome: Outcomes]
        BY DEF Kinds, Outcomes
      <4>2. trail'[c] = Append(trail[c], record)
        BY <3>3
      <4> HIDE DEF record
      <4>3. QED
        BY <3>2, <4>1, <4>2, OneMore DEF record
    <3>5. QED
      BY <3>1, <3>2, <3>4 DEF RecordInv, Early, Open, Begun
  <2>3. QED
    BY <2>1, <2>2
<1>5. CASE RefuseUnknown(c) \/ Refuse(c) \/ AuditSucceeded(c) \/ Catch(c)
  <2>1. CASE \E from \in {"unknown", "refusing", "catching"} : SinkRejects(c, from) /\ UNCHANGED error
    BY <2>1 DEF SinkRejects, Return, Goto, RecordInv, CallsTypeOK, TextOK, Early
  <2>2. CASE Fail(c, "succeeding", "catching", "execution_failed") /\ UNCHANGED <<result, trail>>
    <3>1. at[c] = "succeeding" /\ at'[c] = "catching" /\ error'[c] = "execution_failed"
      BY <2>2 DEF Fail, Goto, CallsTypeOK, TextOK
    <3>2. QED
      BY <2>2, <3>1, HandlerKeepsRecords DEF Early
  <2>3. CASE \E code : \E from \in {"unknown", "refusing", "catching", "succeeding"} :
               /\ Return(c, from, code) /\ Log(c, "tool", OutcomeOf(code)) /\ UNCHANGED error
               /\ from = "unknown" => code = "not_found"
    <3>1. PICK code : \E from \in {"unknown", "refusing", "catching", "succeeding"} :
                 /\ Return(c, from, code) /\ Log(c, "tool", OutcomeOf(code)) /\ UNCHANGED error
                 /\ from = "unknown" => code = "not_found"
      BY <2>3
    <3>2. PICK from \in {"unknown", "refusing", "catching", "succeeding"} :
                 /\ Return(c, from, code) /\ Log(c, "tool", OutcomeOf(code)) /\ UNCHANGED error
                 /\ from = "unknown" => code = "not_found"
      BY <3>1
    <3>3. at[c] = from /\ at'[c] = "over" /\ result'[c] = code
      BY <3>2 DEF Return, Goto, CallsTypeOK, TextOK
    <3>4. Open(trail[c], "tool") /\ trail[c] \in Trails /\ (from # "unknown" => Begun(trail[c]))
      BY <3>3 DEF RecordInv, CallsTypeOK, Early
    <3>5. OutcomeOf(code) \in Outcomes /\ trail'[c] = Append(trail[c], [of |-> "tool", outcome |-> OutcomeOf(code)])
      BY <3>2 DEF Log, CallsTypeOK, OutcomeOf, Outcomes
    <3>6. Closed(trail'[c], "tool", code) /\ (code = "not_found" \/ Begun(trail'[c]))
      BY <3>2, <3>4, <3>5, OneMore DEF Kinds
    <3>7. QED
      BY <3>2, <3>3, <3>6 DEF RecordInv, Closed, Begun, Early
  <2>4. QED
    BY <1>5, <2>1, <2>2, <2>3 DEF RefuseUnknown, Refuse, AuditSucceeded, Catch, OutcomeOf, RecordInv, Return, Goto, Fail
<1>6. QED
  BY <1>1, <1>2, <1>3, <1>4, <1>5 DEF InvocationStep

\* A call that was closed by its last record was closed as it returned.
LEMMA ClosedByLast ==
  ASSUME CallsTypeOK, NEW c \in Calls, NEW k, Closed(trail[c], k, result[c])
  PROVE  ClosedAsReturned(c, k)
<1>1. Len(trail[c]) \in Nat \ {0} /\ DOMAIN trail[c] = 1..Len(trail[c])
  BY DEF Closed, CallsTypeOK, Trails
<1>2. {i \in Records(c, k) : trail[c][i].outcome # "requested"} = {Len(trail[c])}
  BY <1>1 DEF Closed, Records, OutcomeOf
<1>3. trail[c][Len(trail[c])].outcome = CASE result[c] = "ok" -> "succeeded"
                                          [] result[c] = "denied" -> "denied"
                                          [] OTHER -> "failed"
  BY Zenon DEF Closed, OutcomeOf
<1>4. QED
  BY <1>2, <1>3 DEF ClosedAsReturned
=============================================================================

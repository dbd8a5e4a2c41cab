---------------------------- MODULE SecretStore ----------------------------
(***************************************************************************)
(* EnvSecretStore.read, resolveSecretRef and resolveSecretRefs of          *)
(* packages/secrets/src/index.ts.  A reader resolves the references of its *)
(* list one after the other; Resolutions are calls of resolveSecretRefs,   *)
(* other readers resolve one reference each as part of something else and  *)
(* go on themselves from "answered".                                       *)
(*                                                                         *)
(* answers[c] holds what came of each reference so far: its "value",       *)
(* "nothing" (unset or empty), "denied", "failed" or "invalid".            *)
(*                                                                         *)
(* Left out: the form of references; a resolver without a store.           *)
(***************************************************************************)
EXTENDS AuditedCalls

CONSTANTS
  Resolutions, \* calls of resolveSecretRefs
  ActiveOf     \* per reader, whether each of its references is active, in the order of their names

Readers == DOMAIN ActiveOf

ASSUME SecretsAssumption ==
  /\ Resolutions \subseteq Readers /\ Readers \subseteq Calls
  /\ \A c \in Readers : ActiveOf[c] \in Seq(BOOLEAN)

VARIABLES
  answers,
  secrets, \* snapshot.secrets: positions of the references in it
  warnings \* snapshot.warnings, in order

secretVars == <<answers, secrets, warnings>>

SecretsInit ==
  /\ answers = [c \in Readers |-> <<>>]
  /\ secrets = [c \in Resolutions |-> {}]
  /\ warnings = [c \in Resolutions |-> <<>>]

Current(c) == Len(answers[c])
Latest(c)  == answers[c][Current(c)]
-----------------------------------------------------------------------------
(* EnvSecretStore.read *)

Answer(c, from, answer) ==
  /\ Goto(c, from, "answered")
  /\ answers' = [answers EXCEPT ![c] = Append(@, answer)]
  /\ UNCHANGED <<error, result, secrets, warnings>>

SecretCheck ==
  [from |-> "reading", yes |-> "granting_read", no |-> "forbidding_read",
   granted |-> "looking_up",
   denied |-> "read_denied", denial |-> "secret.read_denied",
   broken |-> "read_failed", code |-> "unexpected"]

AskForSecret(c) == Ask(c, SecretCheck) /\ UNCHANGED secretVars

\* A sink that throws does not hide that the read was denied or has failed.
AuditSecretSafely(c) ==
  /\ Answer(c, "read_denied", "denied") \/ Answer(c, "read_failed", "failed")
  /\ \/ Log(c, "secret", IF at[c] = "read_denied" THEN "denied" ELSE "failed") /\ UNCHANGED faults
     \/ Fault /\ UNCHANGED trail

\* The record of a read that was allowed is not optional.
LookUp(c) ==
  \/ /\ \E value \in {"value", "nothing"} : Answer(c, "looking_up", value)
     /\ Log(c, "secret", "succeeded")
     /\ UNCHANGED faults
  \/ Answer(c, "looking_up", "failed") /\ Fault /\ UNCHANGED trail
-----------------------------------------------------------------------------
(* resolveSecretRef *)

\* A reference is validated, and read.
Validate(c) ==
  /\ Current(c) < Len(ActiveOf[c])
  /\ \/ Goto(c, "resolving", "reading") /\ UNCHANGED <<error, result, secretVars>>
     \/ Answer(c, "resolving", "invalid")
  /\ UNCHANGED <<trail, faults>>

\* Bug (mutation runs only): a warning is all that comes of any missing secret.
BugOutcomeIgnoresActive(c) ==
  CASE Latest(c) = "value" -> "resolved"
    [] Latest(c) \in {"nothing", "denied"} -> "warning"
    [] OTHER -> "error"

\* What is missing from an inactive reference is worth a warning only.
Outcome(c) ==
  CASE Latest(c) = "value" -> "resolved"
    [] Latest(c) \in {"nothing", "denied"} /\ ~ActiveOf[c][Current(c)] -> "warning"
    [] OTHER -> "error"

SecretError(c) ==
  CASE Latest(c) = "denied"  -> "secret.read_denied"
    [] Latest(c) = "nothing" -> "secret.unresolved"
    [] Latest(c) = "invalid" -> "secret.invalid_ref"
    [] OTHER -> "unexpected"

SecretStep(c) == Validate(c) \/ AskForSecret(c) \/ AuditSecretSafely(c) \/ LookUp(c)
-----------------------------------------------------------------------------
(* resolveSecretRefs *)

Resolve(c) == Goto(c, "idle", "resolving") /\ UNCHANGED <<error, result, trail, faults, secretVars>>

\* The first error ends it; a value that was read for an inactive reference is
\* dropped.
Collect(c) ==
  /\ at[c] = "answered"
  /\ \/ /\ Outcome(c) # "error"
        /\ Goto(c, "answered", "resolving")
        /\ secrets' = IF Outcome(c) = "resolved" /\ ActiveOf[c][Current(c)]
                      THEN [secrets EXCEPT ![c] = @ \cup {Current(c)}] ELSE secrets
        /\ warnings' = IF Outcome(c) = "warning"
                       THEN [warnings EXCEPT ![c] = Append(@, [of |-> Current(c), status |-> Latest(c)])] ELSE warnings
        /\ UNCHANGED result
     \/ Outcome(c) = "error" /\ Return(c, "answered", SecretError(c)) /\ UNCHANGED <<secrets, warnings>>
  /\ UNCHANGED <<error, trail, faults, answers>>

ReturnSnapshot(c) ==
  /\ Current(c) = Len(ActiveOf[c])
  /\ Return(c, "resolving", "ok")
  /\ UNCHANGED <<error, trail, faults, secretVars>>

ResolutionStep(c) == Resolve(c) \/ SecretStep(c) \/ Collect(c) \/ ReturnSnapshot(c)
-----------------------------------------------------------------------------
(* Properties *)

\* A snapshot that is returned has a value for every active reference, for no
\* other, and one warning for each inactive one that was denied or unset; and a
\* resolution fails for nothing that concerns inactive references only, a
\* broken policy, sink or reference excepted.
SnapshotIsExact ==
  \A c \in Resolutions :
    LET active == {i \in DOMAIN ActiveOf[c] : ActiveOf[c][i]}
        warned == {i \in DOMAIN ActiveOf[c] \ active : answers[c][i] # "value"}
    IN /\ result[c] = "ok" =>
            /\ secrets[c] = active
            /\ {warnings[c][i].of : i \in DOMAIN warnings[c]} = warned
            /\ \A i \in DOMAIN warnings[c] : warnings[c][i].status = answers[c][warnings[c][i].of]
            /\ Len(warnings[c]) = Cardinality(warned)
       /\ result[c] \notin {"none", "ok"} => Latest(c) \in {"failed", "invalid"} \/ Current(c) \in active
=============================================================================

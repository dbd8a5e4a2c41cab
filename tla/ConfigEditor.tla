---------------------------- MODULE ConfigEditor ----------------------------
(***************************************************************************)
(* Reading, editing and writing the source configuration file in           *)
(* packages/config/src/index.ts, each call in a process of its own.        *)
(*                                                                         *)
(* A configuration is a function from its fields to values, or Unset.      *)
(* What a call does to it is a patch: set and unset are patches of one     *)
(* field, merge is one of some fields, replace and a write that is no edit *)
(* patch every field.  The value a call sets is named after the call.      *)
(*                                                                         *)
(* Everything between the authorization and the audit is one synchronous   *)
(* job: what others see of it is whether the file was replaced.  Its       *)
(* temporary file has a name that no process running at the same time      *)
(* uses, and is never read.                                                *)
(*                                                                         *)
(* Left out: which values are valid; a temporary path chosen by the        *)
(* caller.                                                                 *)
(***************************************************************************)
EXTENDS AuditedCalls

CONSTANTS
  Edits,      \* calls of editSourceConfigFileResult
  Overwrites, \* calls of writeSourceConfigFileResult
  Fields,
  PatchOf,    \* what a call does
  Overridden, \* fields that the environment sets
  Unset,
  Redacted,   \* the placeholder that stands for a secret in what is printed
  Old,        \* a value that was there beforehand
  NoConfig    \* a file that is missing or malformed

ConfigCalls == Edits \cup Overwrites
Values      == ConfigCalls \cup {Unset, Redacted, Old}
Configs     == [Fields -> Values]

ASSUME ConfigAssumption ==
  /\ ConfigCalls \subseteq Calls /\ Edits \cap Overwrites = {}
  /\ \A c \in ConfigCalls : \E part \in SUBSET Fields : PatchOf[c] \in [part -> {c, Unset, Redacted}]
  /\ \A c \in Overwrites : DOMAIN PatchOf[c] = Fields
  /\ Overridden \subseteq Fields
  /\ NoConfig \notin Configs

VARIABLES
  file,     \* the configuration at the path
  proposed, \* the configuration a call is going to write
  read,     \* history: how many writes had taken place when a call read the file
  written   \* history: the calls that replaced the file, in order

configVars == <<file, proposed, read, written>>

\* The file is missing or malformed, or may have been edited by hand.
ConfigInit ==
  /\ file \in {NoConfig} \cup [Fields -> {Old, Redacted}]
  /\ proposed = [c \in ConfigCalls |-> NoConfig]
  /\ read = [c \in ConfigCalls |-> 0]
  /\ written = <<>>
-----------------------------------------------------------------------------
(* Pure functions *)

\* parseSourceConfig, of a file.
Parsed(source) == source # NoConfig

\* Bug (mutation runs only): a merge that forgets what it was merged with.
BugMergedPatchOnly(source, patch) ==
  [f \in Fields |-> IF f \in DOMAIN patch THEN patch[f] ELSE Unset]

\* setSourceConfigValue, unsetSourceConfigValue, mergeSourceConfig and
\* replaceSourceConfig.
Merged(source, patch) == [f \in Fields |-> IF f \in DOMAIN patch THEN patch[f] ELSE source[f]]

\* validateWritableSourceConfig looks at the whole configuration, not at what
\* was changed.
Writable(config) == \A f \in Fields : config[f] # Redacted

\* loadConfigResult: overrides and defaults.
Loaded(f) ==
  CASE f \in Overridden -> "override"
    [] f \notin Overridden /\ file[f] = Unset -> "default"
    [] OTHER -> file[f]
-----------------------------------------------------------------------------
\* The rest of a call goes on with what was read here.
Propose(c, source) ==
  LET config == Merged(source, PatchOf[c]) IN
  /\ IF Writable(config)
     THEN Goto(c, "idle", "authorizing") /\ proposed' = [proposed EXCEPT ![c] = config] /\ UNCHANGED result
     ELSE Return(c, "idle", "invalid") /\ UNCHANGED proposed
  /\ read' = [read EXCEPT ![c] = Len(written)]
  /\ UNCHANGED <<error, trail, faults, file, written>>

\* A file that cannot be read or parsed is not edited.
FailRead(c) ==
  /\ Return(c, "idle", "invalid")
  /\ (~Parsed(file) /\ UNCHANGED faults) \/ Fault
  /\ UNCHANGED <<error, trail, configVars>>

Edit(c) == (Parsed(file) /\ Propose(c, file)) \/ FailRead(c)

Overwrite(c) == Propose(c, [f \in Fields |-> Unset])

\* authorizeWrite is the caller's; it may throw.
Authorize(c) ==
  /\ \/ Goto(c, "authorizing", "writing") /\ UNCHANGED <<error, faults>>
     \/ Fail(c, "authorizing", "refusing", "denied") /\ UNCHANGED faults
     \/ Fail(c, "authorizing", "refusing", "write_denied") /\ Fault
  /\ UNCHANGED <<result, trail, configVars>>

RefuseWrite(c) ==
  /\ \/ /\ Return(c, "refusing", error[c])
        /\ Log(c, "call", IF error[c] = "denied" THEN "denied" ELSE "failed")
        /\ UNCHANGED faults
     \/ SinkRejects(c, "refusing")
  /\ UNCHANGED <<error, configVars>>

\* mkdir, writeFile and rename, the last of which replaces the file.
WriteConfig(c) ==
  /\ \/ /\ Goto(c, "writing", "succeeding")
        /\ file' = proposed[c]
        /\ written' = Append(written, c)
        /\ UNCHANGED <<error, faults>>
     \/ Fail(c, "writing", "failing", "write_failed") /\ Fault /\ UNCHANGED <<file, written>>
  /\ UNCHANGED <<result, trail, proposed, read>>

\* The audit is inside the try.
AuditWrite(c) ==
  /\ \/ Return(c, "succeeding", "ok") /\ Log(c, "call", "succeeded") /\ UNCHANGED <<error, faults>>
     \/ Fail(c, "succeeding", "failing", "write_failed") /\ Fault /\ UNCHANGED <<result, trail>>
  /\ UNCHANGED configVars

\* The clean-up removes the temporary file, if there is one.
AuditFailedWrite(c) ==
  /\ \/ Return(c, "failing", error[c]) /\ Log(c, "call", "failed") /\ UNCHANGED faults
     \/ SinkRejects(c, "failing")
  /\ UNCHANGED <<error, configVars>>

\* The process ends, before or after it has replaced the file.
Die(c) ==
  /\ \E from \in {"authorizing", "writing", "succeeding"} : Return(c, from, "lost")
  /\ Fault
  /\ UNCHANGED <<error, trail, configVars>>
-----------------------------------------------------------------------------
ConfigStep(c) ==
  \/ c \in Edits /\ Edit(c)
  \/ c \in Overwrites /\ Overwrite(c)
  \/ Authorize(c) \/ RefuseWrite(c) \/ WriteConfig(c) \/ AuditWrite(c) \/ AuditFailedWrite(c)
-----------------------------------------------------------------------------
(* Properties *)

\* Write number j may have lost what write number i did: it came later and
\* changes the same field, or had read the file before.
MayLose(i, j, f) == i < j /\ (f \in DOMAIN PatchOf[written[j]] \/ read[written[j]] < i)

\* What a call has written is what the next load shows, unless the environment
\* sets the field or a later write changed it or overlapped ("optimistic", says
\* a comment in editSourceConfigFileResult): nothing else loses an edit, and no
\* write that failed or was lost leaves a file that cannot be loaded or has a
\* placeholder in place of a secret.
OnlyOverlapsLose ==
  \A i \in DOMAIN written :
    /\ Parsed(file) /\ Writable(file)
    /\ \A f \in DOMAIN PatchOf[written[i]] \ Overridden :
         (\A j \in DOMAIN written : ~MayLose(i, j, f)) =>
           Loaded(f) = IF PatchOf[written[i]][f] = Unset THEN "default" ELSE written[i]

\* A write is on record as it was: succeeded if the file was replaced and the
\* caller told so, and never denied or turned down after that.
WriteRecordIsTrue ==
  \A c \in ConfigCalls :
    LET replaced == \E i \in DOMAIN written : written[i] = c
    IN /\ Recorded(c, "call", "succeeded") <=> result[c] = "ok"
       /\ result[c] = "ok" => replaced
       /\ result[c] \in {"denied", "write_denied", "invalid"} => ~replaced
=============================================================================

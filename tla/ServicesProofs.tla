--------------------------- MODULE ServicesProofs ---------------------------
(***************************************************************************)
(* No command is started and no request leaves before every permission it  *)
(* needs was granted and recorded.  The invariant counts the grants on     *)
(* record of a command and of a request at each of its awaits; that one    *)
(* call writes no records of another is the larger part of the proof.      *)
(*                                                                         *)
(* What becomes of the edits of a configuration file: that only a later    *)
(* write that changes the same field, or that had read the file before,    *)
(* loses one, whatever calls are made and however they fail.               *)
(*                                                                         *)
(* And what is reported: the output of a command, the records of commands  *)
(* and writes, the one record that closes a call, and the snapshot of a    *)
(* resolution.  The invariant says of a call at each of its awaits what is *)
(* on record, of a child how far its promise has come, and of a resolution *)
(* what the answers before the current one have become.                    *)
(***************************************************************************)
EXTENDS Services, ToolRegistryProofs

Answers   == {"value", "nothing", "denied", "failed", "invalid"}
AnswersOK == answers \in [Readers -> Seq(Answers)]

\* A step of reader c leaves the answers of others alone.
AnswersOf(c) == AnswersOK' /\ \A d \in Readers \ {c} : answers'[d] = answers[d]

\* The steps of the command's handler.
LEMMA ShellMoves ==
  ASSUME CallsTypeOK, ShellCallStep
  PROVE  StepOf(Shell)
<1>1. CASE AskForShell
  BY <1>1, AskStep, ShellAssumption DEF AskForShell
<1>2. CASE ~AskForShell
  <2>1. DOMAIN at' = Calls /\ at' = [d \in Calls |-> at'[d]] /\ \A d \in Calls \ {Shell} : at'[d] = at[d]
    BY <1>2 DEF CallsTypeOK, Goto, ShellCallStep, RefuseCommand, Spawn, Resume, AuditFailedCommand, Fail
  <2>2. trail' \in [Calls -> Trails] /\ \A d \in Calls \ {Shell} : trail'[d] = trail[d]
    BY <1>2, LogStep, ShellAssumption DEF CallsTypeOK, ShellCallStep, RefuseCommand, Spawn, Resume, AuditFailedCommand,
       Kinds, Outcomes
  <2>3. QED
    BY <2>1, <2>2 DEF StepOf, CallsTypeOK
<1>3. QED
  BY <1>1, <1>2

\* What came of a reference is the latest answer of its reader.
LEMMA AnswerStep ==
  ASSUME AnswersOK, NEW c \in Readers, NEW from, NEW answer \in Answers, Answer(c, from, answer)
  PROVE  AnswersOf(c) /\ Latest(c)' = answer
<1>1. answers[c] \in Seq(Answers)
  BY DEF AnswersOK
<1>2. answers' = [answers EXCEPT ![c] = Append(answers[c], answer)]
  BY DEF Answer
<1>3. answers'[c] = Append(answers[c], answer)
  BY <1>2 DEF AnswersOK
<1>4. Append(answers[c], answer) \in Seq(Answers) /\ Append(answers[c], answer)[Len(Append(answers[c], answer))] = answer
  BY <1>1
<1>5. QED
  BY <1>2, <1>3, <1>4 DEF AnswersOK, AnswersOf, Latest, Current

\* The steps of a reader that resolves a reference.
LEMMA SecretMoves ==
  ASSUME CallsTypeOK, AnswersOK, NEW c \in Readers, SecretStep(c)
  PROVE  StepOf(c) /\ AnswersOf(c)
<1>1. CASE AskForSecret(c)
  BY <1>1, AskStep, SecretsAssumption DEF AskForSecret, secretVars, AnswersOK, AnswersOf
<1>2. CASE ~AskForSecret(c)
  <2>1. DOMAIN at' = Calls /\ at' = [d \in Calls |-> at'[d]] /\ \A d \in Calls \ {c} : at'[d] = at[d]
    BY <1>2 DEF CallsTypeOK, Goto, SecretStep, Validate, AuditSecretSafely, LookUp, Answer
  <2>2. trail' \in [Calls -> Trails] /\ \A d \in Calls \ {c} : trail'[d] = trail[d]
    BY <1>2, LogStep, SecretsAssumption DEF CallsTypeOK, SecretStep, Validate, AuditSecretSafely, LookUp,
       Kinds, Outcomes
  <2>3. AnswersOf(c)
    <3>1. CASE UNCHANGED answers
      BY <3>1 DEF AnswersOK, AnswersOf
    <3>2. CASE \E from \in {"looking_up", "read_denied", "read_failed", "resolving"}, answer \in Answers : Answer(c, from, answer)
      BY <3>2, AnswerStep
    <3>3. QED
      BY <1>2, <3>1, <3>2 DEF SecretStep, Validate, AuditSecretSafely, LookUp, secretVars, Answers
  <2>4. QED
    BY <2>1, <2>2, <2>3 DEF StepOf, CallsTypeOK
<1>3. QED
  BY <1>1, <1>2

\* The steps of resolveSecretRefs.
LEMMA ResolutionMoves ==
  ASSUME CallsTypeOK, AnswersOK, NEW c \in Resolutions, ResolutionStep(c)
  PROVE  StepOf(c) /\ AnswersOf(c)
<1>1. CASE SecretStep(c)
  BY <1>1, SecretMoves, SecretsAssumption
<1>2. CASE ~SecretStep(c)
  BY <1>2 DEF CallsTypeOK, StepOf, AnswersOK, AnswersOf, Goto, Return, ResolutionStep, Resolve, Collect, ReturnSnapshot, secretVars
<1>3. QED
  BY <1>1, <1>2

\* The steps of a provider call, and of its caller and its server.
LEMMA ChatMoves ==
  ASSUME CallsTypeOK, AnswersOK, NEW c \in ChatCalls, c \in Calls, ChatStep(c) \/ Respond(c) \/ Cancel(c)
  PROVE  StepOf(c) /\ AnswersOf(c)
<1>1. CASE AskForChat(c) \/ AskForEndpoint(c)
  BY <1>1, AskStep DEF AskForChat, AskForEndpoint, secretVars, AnswersOK, AnswersOf
<1>2. CASE ReadCredential(c)
  BY <1>2, SecretMoves DEF ReadCredential
<1>3. CASE ~(AskForChat(c) \/ AskForEndpoint(c) \/ ReadCredential(c))
  <2>1. DOMAIN at' = Calls /\ at' = [d \in Calls |-> at'[d]] /\ \A d \in Calls \ {c} : at'[d] = at[d]
    BY <1>3 DEF CallsTypeOK, Goto, Return, Fail, Throw, SinkRejects, ChatStep, Chat, RefuseChat, AuditMockAnswer,
       CallAdapter, Post, AbortRequest, CheckSignal, AuditAnswer, CatchChat, Respond, Cancel, callVars
  <2>2. trail' \in [Calls -> Trails] /\ \A d \in Calls \ {c} : trail'[d] = trail[d]
    BY <1>3, LogStep DEF CallsTypeOK, SinkRejects, ChatStep, Chat, RefuseChat, AuditMockAnswer,
       CallAdapter, Post, AbortRequest, CheckSignal, AuditAnswer, CatchChat, Respond, Cancel, callVars, Kinds, Outcomes
  <2>3. UNCHANGED answers
    BY <1>3 DEF ChatStep, Chat, RefuseChat, AuditMockAnswer, CallAdapter, Post, AbortRequest, CheckSignal,
       AuditAnswer, CatchChat, Respond, Cancel, secretVars
  <2>4. QED
    BY <2>1, <2>2, <2>3 DEF StepOf, CallsTypeOK, AnswersOK, AnswersOf
<1>4. QED
  BY <1>1, <1>2, <1>3

\* The steps of a configuration call, and the end of its process.
LEMMA ConfigMoves ==
  ASSUME CallsTypeOK, NEW c \in ConfigCalls, ConfigStep(c) \/ Die(c)
  PROVE  StepOf(c)
<1>1. DOMAIN at' = Calls /\ at' = [d \in Calls |-> at'[d]] /\ \A d \in Calls \ {c} : at'[d] = at[d]
  BY DEF CallsTypeOK, Goto, Return, Fail, SinkRejects, ConfigStep, Edit, Overwrite, Propose, FailRead, Authorize,
     RefuseWrite, WriteConfig, AuditWrite, AuditFailedWrite, Die
<1>2. trail' \in [Calls -> Trails] /\ \A d \in Calls \ {c} : trail'[d] = trail[d]
  BY LogStep, ConfigAssumption DEF CallsTypeOK, SinkRejects, ConfigStep, Edit, Overwrite, Propose, FailRead, Authorize,
     RefuseWrite, WriteConfig, AuditWrite, AuditFailedWrite, Die, Kinds, Outcomes
<1>3. QED
  BY <1>1, <1>2 DEF StepOf, CallsTypeOK
-----------------------------------------------------------------------------
\* How many permissions were granted to a command, and to a request, where it is.
ShellConsent ==
  /\ at[Shell] \in {"idle", "requesting", "permitting", "allowing"} => Allowed(Shell) = 0
  /\ at[Shell] \in {"executing", "granting"} => Allowed(Shell) = 1
  /\ at[Shell] = "spawning" => Allowed(Shell) = 2

ChatConsent(c) ==
  /\ at[c] \in {"idle", "deciding", "granting"} => Allowed(c) = 0
  /\ at[c] \in {"calling", "authorizing", "permitting"} => Allowed(c) = 1
  /\ at[c] \in {"resolving", "reading", "granting_read"} => Allowed(c) = 2
  /\ at[c] = "looking_up" => Allowed(c) = 3
  /\ at[c] = "answered" => c \in Readers /\ (Latest(c) = "value" => Allowed(c) = 3)

ConsentInv == CallsTypeOK /\ AnswersOK /\ ShellConsent /\ \A c \in ChatCalls : ChatConsent(c)

\* No step of a command moves on without the record of its permission.
LEMMA ShellKeepsConsent ==
  ASSUME CallsTypeOK, ShellConsent, InvocationStep(Shell) \/ ShellCallStep
  PROVE  ShellConsent'
<1>1. CASE InvocationStep(Shell)
  BY <1>1, InvocationConsent, ShellAssumption DEF ShellConsent, Entry, Left
<1>2. CASE AskForShell
  BY <1>2, AskConsent, ShellAssumption DEF ShellConsent, ShellCheck, AskForShell
<1>3. CASE RefuseCommand \/ Spawn \/ Resume \/ AuditFailedCommand
  BY <1>3, ShellAssumption DEF ShellConsent, CallsTypeOK, Goto, Fail, RefuseCommand, Spawn, Resume, AuditFailedCommand
<1>4. QED
  BY <1>1, <1>2, <1>3 DEF ShellCallStep

\* Nor does a step of a provider call.
LEMMA ChatKeepsConsent ==
  ASSUME CallsTypeOK, AnswersOK, NEW c \in ChatCalls, c \in Calls, ChatConsent(c), ChatStep(c) \/ Respond(c) \/ Cancel(c)
  PROVE  ChatConsent(c)'
<1>1. CASE AskForChat(c) \/ AskForEndpoint(c) \/ (ReadCredential(c) /\ AskForSecret(c))
  <2>1. ASSUME NEW STATE check, Ask(c, check), UNCHANGED answers,
               check \in {ChatCheck(c), EndpointCheck(c), SecretCheck}
        PROVE  ChatConsent(c)'
    BY <2>1, AskConsent DEF ChatConsent, ChatCheck, EndpointCheck, SecretCheck
  <2>2. QED
    BY <1>1, <2>1 DEF AskForChat, AskForEndpoint, AskForSecret, secretVars
<1>2. CASE ReadCredential(c) /\ ~AskForSecret(c)
  <2>1. c \in Readers
    BY <1>2 DEF ReadCredential
  <2>2. CASE Validate(c)
    <3>1. Allowed(c)' = Allowed(c)
      BY <2>2 DEF Validate, Allowed, Records
    <3>2. ASSUME Answer(c, "resolving", "invalid") PROVE Latest(c)' = "invalid"
      BY <2>1, <3>2, AnswerStep DEF Answers
    <3>3. QED
      BY <2>1, <2>2, <3>1, <3>2 DEF Validate, Answer, Goto, ChatConsent, CallsTypeOK
  <2>3. CASE AuditSecretSafely(c)
    <3>1. at'[c] = "answered"
      BY <2>3 DEF AuditSecretSafely, Answer, Goto, CallsTypeOK
    <3>2. Latest(c)' \in {"denied", "failed"}
      BY <2>1, <2>3, AnswerStep DEF AuditSecretSafely, Answers
    <3>3. QED
      BY <2>1, <3>1, <3>2 DEF ChatConsent
  <2>4. CASE LookUp(c)
    <3>1. at[c] = "looking_up" /\ at'[c] = "answered"
      BY <2>4 DEF LookUp, Answer, Goto, CallsTypeOK
    <3>2. CASE Log(c, "secret", "succeeded")
      BY <2>1, <3>1, <3>2, AllowedCount DEF ChatConsent, Kinds, Outcomes
    <3>3. CASE Answer(c, "looking_up", "failed") /\ UNCHANGED trail
      <4>1. Latest(c)' = "failed"
        BY <2>1, <3>3, AnswerStep DEF Answers
      <4>2. QED
        BY <2>1, <3>1, <4>1 DEF ChatConsent
    <3>4. QED
      BY <2>4, <3>2, <3>3 DEF LookUp
  <2>5. QED
    BY <1>2, <2>2, <2>3, <2>4 DEF ReadCredential, SecretStep
<1>3. CASE ~(AskForChat(c) \/ AskForEndpoint(c) \/ ReadCredential(c))
  <2>1. UNCHANGED answers
    BY <1>3 DEF ChatStep, Chat, RefuseChat, AuditMockAnswer, CallAdapter, Post, AbortRequest, CheckSignal,
       AuditAnswer, CatchChat, Respond, Cancel, secretVars
  <2>2. CASE UNCHANGED trail
    <3>1. Allowed(c)' = Allowed(c)
      BY <2>2 DEF Allowed, Records
    <3>2. Latest(c)' = Latest(c)
      BY <2>1 DEF Latest, Current
    <3>3. QED
      BY <1>3, <3>1, <3>2 DEF ChatConsent, CallsTypeOK, Goto, Return, Fail, Throw, SinkRejects, ChatStep, Chat,
         RefuseChat, AuditMockAnswer, CallAdapter, Post, AbortRequest, CheckSignal, AuditAnswer, CatchChat,
         Respond, Cancel, callVars
  <2>3. CASE ~UNCHANGED trail
    \* Only the last record of a call is written outside of decisions and secrets.
    <3>1. at'[c] \in {"over", "catching"}
      BY <1>3, <2>3 DEF CallsTypeOK, Goto, Return, Throw, Fail, SinkRejects, ChatStep, Chat,
         RefuseChat, AuditMockAnswer, CallAdapter, Post, AbortRequest, CheckSignal, AuditAnswer, CatchChat,
         Respond, Cancel, callVars
    <3>2. QED
      BY <3>1 DEF ChatConsent
  <2>4. QED
    BY <2>2, <2>3
<1>4. QED
  BY <1>1, <1>2, <1>3

\* What a call does leaves the permissions of the others as they are.
LEMMA OthersKeepConsent ==
  ASSUME CallsTypeOK, AnswersOK, NEW c \in Calls, StepOf(c), UNCHANGED answers \/ AnswersOf(c), Shell \in Calls, ChatCalls \subseteq Calls
  PROVE  /\ c # Shell /\ ShellConsent => ShellConsent'
         /\ \A d \in ChatCalls \ {c} : ChatConsent(d) => ChatConsent(d)'
<1>1. \A d \in Calls \ {c} : Allowed(d)' = Allowed(d) /\ at'[d] = at[d]
  BY DEF StepOf, Allowed, Records
<1>2. \A d \in Readers \ {c} : Latest(d)' = Latest(d)
  BY DEF AnswersOf, Latest, Current
<1>3. QED
  BY <1>1, <1>2 DEF ShellConsent, ChatConsent

\* No call has begun.
LEMMA InitialConsent == ServicesInit => ConsentInv
<1> SUFFICES ASSUME ServicesInit PROVE ConsentInv
  OBVIOUS
<1>1. CallsTypeOK /\ AnswersOK
  BY DEF ServicesInit, CallsInit, SecretsInit, CallsTypeOK, Trails, AnswersOK
<1>2. \A c \in Calls : at[c] \in {"idle", "never"} /\ Allowed(c) = 0
  <2>1. \A c \in Calls : at[c] \in {"idle", "never"} /\ trail[c] = <<>>
    BY DEF ServicesInit, CallsInit
  <2>2. \A c \in Calls : Allowed(c) = Cardinality({})
    <3>1. \A c \in Calls : {i \in Records(c, "permission") : trail[c][i].outcome = "allowed"} = {}
      BY <2>1 DEF Records
    <3>2. QED
      BY <3>1 DEF Allowed
  <2>3. QED
    BY <2>1, <2>2, FS_EmptySet
<1>3. Shell \in Calls /\ ChatCalls \subseteq Calls
  BY ServicesAssumption
<1>4. QED
  BY <1>1, <1>2, <1>3 DEF ConsentInv, ShellConsent, ChatConsent

\* The invariant is inductive.
LEMMA StepKeepsConsent == ConsentInv /\ [ServicesNext]_servicesVars => ConsentInv'
<1> SUFFICES ASSUME ConsentInv, [ServicesNext]_servicesVars PROVE ConsentInv'
  OBVIOUS
<1> USE DEF ConsentInv
<1>1. /\ Shell \in Calls /\ ChatCalls \subseteq Calls /\ Resolutions \subseteq Calls /\ ConfigCalls \subseteq Calls
      /\ Shell \notin ChatCalls /\ Shell \notin Resolutions /\ Shell \notin ConfigCalls
      /\ ChatCalls \cap Resolutions = {} /\ ChatCalls \cap ConfigCalls = {}
  BY ServicesAssumption, ProvidersAssumption
<1>2. ASSUME UNCHANGED <<at, trail, answers>> PROVE ConsentInv'
  <2>1. (CallsTypeOK /\ AnswersOK)'
    BY <1>2 DEF CallsTypeOK, AnswersOK
  <2>2. \A c \in Calls : Allowed(c)' = Allowed(c) /\ at'[c] = at[c]
    BY <1>2 DEF Allowed, Records
  <2>3. \A c \in ChatCalls : Latest(c)' = Latest(c)
    BY <1>2 DEF Latest, Current
  <2>4. ShellConsent' /\ \A c \in ChatCalls : ChatConsent(c)'
    BY <1>1, <1>2, <2>2, <2>3 DEF ShellConsent, ChatConsent
  <2>5. QED
    BY <2>1, <2>4
<1>3. ASSUME InvocationStep(Shell) \/ ShellCallStep, UNCHANGED answers PROVE ConsentInv'
  <2>1. StepOf(Shell)
    BY <1>1, <1>3, InvocationMoves, ShellMoves
  <2>2. QED
    BY <1>1, <1>3, <2>1, ShellKeepsConsent, OthersKeepConsent DEF StepOf, AnswersOK
<1>4. ASSUME NEW c \in ChatCalls, ChatStep(c) \/ Respond(c) \/ Cancel(c) PROVE ConsentInv'
  <2>1. c \in Calls /\ StepOf(c) /\ AnswersOf(c)
    BY <1>1, <1>4, ChatMoves
  <2>2. QED
    BY <1>1, <1>4, <2>1, ChatKeepsConsent, OthersKeepConsent DEF StepOf, AnswersOf
<1>5. ASSUME NEW c \in Calls \ (ChatCalls \cup {Shell}), StepOf(c), UNCHANGED answers \/ AnswersOf(c) PROVE ConsentInv'
  BY <1>1, <1>5, OthersKeepConsent DEF StepOf, AnswersOf, AnswersOK
<1>6. ASSUME NEW c \in Resolutions, ResolutionStep(c) PROVE ConsentInv'
  BY <1>1, <1>5, <1>6, ResolutionMoves
<1>7. ASSUME NEW c \in ConfigCalls, ConfigStep(c) \/ Die(c), UNCHANGED answers PROVE ConsentInv'
  BY <1>1, <1>5, <1>7, ConfigMoves
<1>8. ASSUME Abort \/ Timeout \/ ChildStep \/ ChildEvent, UNCHANGED answers PROVE ConsentInv'
  BY <1>2, <1>8 DEF Abort, Timeout, ChildStep, Write, Exit, Release, ChildEvent, SpawnError, Data, Close, callVars
<1>9. CASE \E c \in Calls : CallStep(c)
  BY <1>3, <1>4, <1>6, <1>7, <1>9 DEF CallStep, beyondVars, secretVars
<1>10. CASE OtherStep
  BY <1>4, <1>7, <1>8, <1>10 DEF OtherStep, beyondVars, secretVars
<1>11. CASE UNCHANGED servicesVars
  BY <1>2, <1>11 DEF servicesVars, callVars, beyondVars, secretVars
<1>12. QED
  BY <1>9, <1>10, <1>11 DEF ServicesNext

\* A child is started by Spawn only, and a request leaves with Post only.
LEMMA StepAsksFirst ==
  ASSUME ConsentInv, [ServicesNext]_servicesVars
  PROVE  /\ child = "none" /\ child' # "none" => Allowed(Shell) = 2
         /\ \A c \in posted' \ posted : Allowed(c) = 3 /\ Latest(c) = "value" /\ c \notin cancelled
<1>1. CASE Spawn /\ UNCHANGED <<beyondVars, configVars>>
  BY <1>1 DEF ConsentInv, ShellConsent, Spawn, Goto, beyondVars, providerVars
<1>2. ASSUME NEW c \in ChatCalls, Post(c), UNCHANGED <<shellVars, configVars>>
      PROVE  /\ UNCHANGED child
             /\ \A d \in posted' \ posted : Allowed(d) = 3 /\ Latest(d) = "value" /\ d \notin cancelled
  <2>1. posted' \ posted # {} => at[c] = "answered" /\ Outcome(c) = "resolved" /\ c \notin cancelled /\ posted' = posted \cup {c}
    BY <1>2 DEF Post
  <2>2. Outcome(c) = "resolved" => Latest(c) = "value"
    BY DEF Outcome
  <2>3. ChatConsent(c)
    BY DEF ConsentInv
  <2>4. QED
    BY <1>2, <2>1, <2>2, <2>3 DEF ChatConsent, shellVars, childVars
<1>3. CASE ~(Spawn /\ UNCHANGED <<beyondVars, configVars>>) /\ ~(\E c \in ChatCalls : Post(c) /\ UNCHANGED <<shellVars, configVars>>)
  <2>1. child = "none" => child' = "none"
    BY <1>3 DEF ServicesNext, servicesVars, CallStep, OtherStep, shellVars, childVars, ShellCallStep, RefuseCommand,
       AskForShell, Resume, AuditFailedCommand, Abort, Timeout, ChildStep, Write, Exit, Release, ChildEvent,
       SpawnError, Data, Close
  <2>2. UNCHANGED posted
    BY <1>3 DEF ServicesNext, servicesVars, CallStep, OtherStep, beyondVars, providerVars, ChatStep, Chat, AskForChat,
       RefuseChat, AuditMockAnswer, CallAdapter, AskForEndpoint, ReadCredential, AbortRequest, CheckSignal,
       AuditAnswer, CatchChat, Respond, Cancel
  <2>3. QED
    BY <2>1, <2>2
<1>4. QED
  BY <1>1, <1>2, <1>3

\* "Denied requests do not spawn a process" (docs/tasks.json, P07-T07), nor do
\* they reach a server, for any set of calls, any number of faults and any
\* policy: shell.execute starts its command after the two permissions it asks
\* for were granted and recorded, and the OpenAI-compatible adapter sends its
\* request after three, with the key that was found and not once its caller has
\* aborted it.
THEOREM ConsentComesFirst == ServicesSpec => NothingWithoutConsent
<1>1. ServicesInit => ConsentInv
  BY InitialConsent
<1>2. ConsentInv /\ [ServicesNext]_servicesVars => ConsentInv'
  BY StepKeepsConsent
<1>3. ConsentInv /\ [ServicesNext]_servicesVars =>
        [/\ child = "none" /\ child' # "none" => Allowed(Shell) = 2
         /\ \A c \in posted' \ posted : Allowed(c) = 3 /\ Latest(c) = "value" /\ c \notin cancelled]_servicesVars
  BY StepAsksFirst
<1>4. QED
  BY <1>1, <1>2, <1>3, PTL DEF ServicesSpec, NothingWithoutConsent
-----------------------------------------------------------------------------
(* The configuration file *)

\* None of the writes up to number n may have lost field f of write number i.
Survives(i, n, f) == \A j \in (i + 1)..n : ~MayLose(i, j, f)

\* A configuration shows what survives of the first n writes, but for some fields.
Carries(config, n, except) ==
  \A i \in 1..n : \A f \in DOMAIN PatchOf[written[i]] \ except :
    Survives(i, n, f) => config[f] = PatchOf[written[i]][f]

\* What a call is about to write: its patch on top of what was in the file when
\* it was read.
ProposalOK(c) ==
  /\ proposed[c] \in Configs /\ Writable(proposed[c])
  /\ read[c] <= Len(written)
  /\ \A f \in DOMAIN PatchOf[c] : proposed[c][f] = PatchOf[c][f]
  /\ Carries(proposed[c], read[c], DOMAIN PatchOf[c])

ConfigTypeOK ==
  /\ file \in {NoConfig} \cup Configs
  /\ proposed \in [ConfigCalls -> {NoConfig} \cup Configs]
  /\ read \in [ConfigCalls -> Nat]
  /\ written \in Seq(ConfigCalls)

\* A call that has written the file does not read it again.
WrittenOnce == \A i \in 1..Len(written) : at[written[i]] \in {"succeeding", "failing", "over"}

ConfigInv ==
  /\ ConfigTypeOK
  /\ WrittenOnce
  /\ written # <<>> => file \in Configs /\ Writable(file)
  /\ Carries(file, Len(written), {})
  /\ \A c \in ConfigCalls : at[c] \in {"authorizing", "writing"} => ProposalOK(c)
-----------------------------------------------------------------------------
\* A patch on top of a configuration is a configuration.
LEMMA MergedIsConfig ==
  ASSUME NEW c \in ConfigCalls, NEW source \in Configs
  PROVE  /\ Merged(source, PatchOf[c]) \in Configs
         /\ \A f \in DOMAIN PatchOf[c] : Merged(source, PatchOf[c])[f] = PatchOf[c][f]
         /\ \A f \in Fields \ DOMAIN PatchOf[c] : Merged(source, PatchOf[c])[f] = source[f]
<1>1. PICK part \in SUBSET Fields : PatchOf[c] \in [part -> {c, Unset, Redacted}]
  BY ConfigAssumption
<1>2. DOMAIN PatchOf[c] = part /\ \A f \in part : PatchOf[c][f] \in Values
  BY <1>1 DEF Values
<1>3. \A f \in Fields : source[f] \in Values
  BY DEF Configs
<1>4. QED
  BY <1>2, <1>3 DEF Merged, Configs

\* Patches have no fields of their own.
LEMMA PatchesAreOfFields == \A c \in ConfigCalls : DOMAIN PatchOf[c] \subseteq Fields
BY ConfigAssumption

\* A configuration that has nothing in it.
LEMMA EmptyConfig == [f \in Fields |-> Unset] \in Configs
BY DEF Configs, Values

\* Calls that do not touch the file, and moves within a call.
LEMMA FileStaysTrue ==
  ASSUME ConfigInv, UNCHANGED configVars,
         \A c \in ConfigCalls : \/ at'[c] = at[c]
                                \/ at[c] = "authorizing" /\ at'[c] = "writing"
                                \/ at'[c] \in {"failing", "over", "refusing"} /\ at[c] # "over"
                                   /\ (at'[c] = "refusing" => at[c] = "authorizing")
  PROVE  ConfigInv'
<1>1. ConfigTypeOK' /\ (written # <<>> => file \in Configs /\ Writable(file))'
  BY DEF ConfigInv, ConfigTypeOK, configVars, Writable
<1>2. WrittenOnce'
  BY DEF ConfigInv, ConfigTypeOK, configVars, WrittenOnce
<1>3. Carries(file, Len(written), {})'
  BY DEF ConfigInv, configVars, Carries, Survives, MayLose
<1>4. \A c \in ConfigCalls : (at[c] \in {"authorizing", "writing"})' => ProposalOK(c)'
  <2>1. \A c \in ConfigCalls : ProposalOK(c) => ProposalOK(c)'
    BY DEF configVars, ProposalOK, Carries, Survives, MayLose, Writable
  <2>2. QED
    BY <2>1 DEF ConfigInv
<1>5. QED
  BY <1>1, <1>2, <1>3, <1>4 DEF ConfigInv

\* A call that reads the file, or starts from nothing, proposes what survives.
LEMMA ProposeStaysTrue ==
  ASSUME ConfigInv, CallsTypeOK, NEW c \in ConfigCalls, c \in Calls,
         NEW STATE source, source \in Configs,
         Carries(source, Len(written), DOMAIN PatchOf[c]), Propose(c, source)
  PROVE  ConfigInv'
<1> DEFINE config == Merged(source, PatchOf[c])
<1>1. at[c] = "idle" /\ UNCHANGED <<file, written>> /\ read' = [read EXCEPT ![c] = Len(written)]
  BY DEF Propose, Goto, Return
<1>2. \A i \in 1..Len(written) : written[i] \in ConfigCalls /\ written[i] # c
  <2>1. \A i \in 1..Len(written) : written[i] \in ConfigCalls
    BY DEF ConfigInv, ConfigTypeOK
  <2>2. \A i \in 1..Len(written) : at[written[i]] # "idle"
    BY DEF ConfigInv, WrittenOnce
  <2>3. QED
    BY <1>1, <2>1, <2>2
<1>3. Len(written) \in Nat
  BY DEF ConfigInv, ConfigTypeOK
<1>4. \A i \in 1..Len(written) : read'[written[i]] = read[written[i]]
  BY <1>1, <1>2 DEF ConfigInv, ConfigTypeOK
<1>5. ASSUME at'[c] = "authorizing" PROVE ProposalOK(c)'
  <2>1. Writable(config) /\ proposed' = [proposed EXCEPT ![c] = config]
    <3>1. ~Return(c, "idle", "invalid")
      BY <1>5 DEF Return, Goto, CallsTypeOK
    <3>2. QED
      BY <3>1 DEF Propose
  <2>2. proposed'[c] = config /\ read'[c] = Len(written)
    BY <1>1, <2>1 DEF ConfigInv, ConfigTypeOK
  <2>3. config \in Configs /\ (\A f \in DOMAIN PatchOf[c] : config[f] = PatchOf[c][f])
    BY MergedIsConfig
  <2>4. Writable(proposed[c])'
    BY <2>1, <2>2 DEF Writable
  <2>5. Carries(config, Len(written), DOMAIN PatchOf[c])
    <3>1. \A i \in 1..Len(written) : DOMAIN PatchOf[written[i]] \subseteq Fields
      BY <1>2, PatchesAreOfFields
    <3>2. \A f \in Fields \ DOMAIN PatchOf[c] : config[f] = source[f]
      BY MergedIsConfig
    <3>3. QED
      BY <3>1, <3>2 DEF Carries
  <2>6. Carries(proposed[c], read[c], DOMAIN PatchOf[c])'
    BY <1>1, <1>3, <1>4, <2>2, <2>5 DEF Carries, Survives, MayLose
  <2>7. QED
    BY <1>1, <1>3, <2>2, <2>3, <2>4, <2>6 DEF ProposalOK
<1>6. ASSUME NEW d \in ConfigCalls \ {c}, ProposalOK(d) PROVE ProposalOK(d)'
  <2>1. proposed'[d] = proposed[d] /\ read'[d] = read[d] /\ read[d] \in Nat
    BY <1>1 DEF ConfigInv, ConfigTypeOK, Propose
  <2>2. Carries(proposed[d], read[d], DOMAIN PatchOf[d])'
    BY <1>1, <1>3, <1>4, <1>6, <2>1 DEF ProposalOK, Carries, Survives, MayLose
  <2>3. QED
    BY <1>1, <1>6, <2>1, <2>2 DEF ProposalOK, Writable
<1>7. \A d \in Calls \ {c} : at'[d] = at[d]
  BY DEF Propose, Goto, Return, CallsTypeOK
<1>8. at'[c] \in {"authorizing", "over"}
  BY DEF Propose, Goto, Return, CallsTypeOK
<1>9. ConfigTypeOK'
  <2>1. config \in Configs
    BY MergedIsConfig
  <2>2. QED
    BY <1>1, <1>3, <2>1 DEF ConfigInv, ConfigTypeOK, Propose
<1>10. WrittenOnce' /\ (written # <<>> => file \in Configs /\ Writable(file))'
  BY <1>1, <1>2, <1>7, ConfigAssumption DEF ConfigInv, WrittenOnce, Writable
<1>11. Carries(file, Len(written), {})'
  BY <1>1, <1>3, <1>4 DEF ConfigInv, Carries, Survives, MayLose
<1>12. QED
  BY <1>5, <1>6, <1>7, <1>8, <1>9, <1>10, <1>11, ConfigAssumption DEF ConfigInv

\* A call that replaces the file: no other write can have lost more than this one.
LEMMA WriteStaysTrue ==
  ASSUME ConfigInv, CallsTypeOK, NEW c \in ConfigCalls, c \in Calls,
         Goto(c, "writing", "succeeding"), file' = proposed[c], written' = Append(written, c),
         UNCHANGED <<proposed, read>>
  PROVE  ConfigInv'
<1>0. PICK n \in Nat : n = Len(written)
  BY DEF ConfigInv, ConfigTypeOK
<1>1. n = Len(written) /\ \A i \in 1..n : written[i] \in ConfigCalls
  BY <1>0 DEF ConfigInv, ConfigTypeOK
<1>2. Len(written)' = n + 1 /\ written'[n + 1] = c /\ \A i \in 1..n : written'[i] = written[i]
  BY <1>1 DEF ConfigInv, ConfigTypeOK
<1>3. at[c] = "writing" /\ at'[c] = "succeeding" /\ \A d \in Calls \ {c} : at'[d] = at[d]
  BY DEF Goto, CallsTypeOK
<1>4. ProposalOK(c)
  BY <1>3 DEF ConfigInv
<1>5. ConfigTypeOK' /\ (file \in Configs /\ Writable(file))'
  BY <1>4 DEF ConfigInv, ConfigTypeOK, ProposalOK, Writable
<1>6. WrittenOnce'
  <2>1. \A i \in 1..n : at'[written[i]] \in {"succeeding", "failing", "over"}
    BY <1>1, <1>3, ConfigAssumption DEF ConfigInv, WrittenOnce
  <2>2. QED
    BY <1>1, <1>2, <1>3, <2>1 DEF WrittenOnce
\* What survives this write too was written before the file was read, and is
\* no part of the patch.
<1>7. Carries(file, Len(written), {})'
  <2> SUFFICES ASSUME NEW i \in 1..(n + 1), NEW f \in DOMAIN PatchOf[written'[i]],
                      \A j \in (i + 1)..(n + 1) : ~MayLose(i, j, f)'
               PROVE  proposed[c][f] = PatchOf[written'[i]][f]
    BY <1>1, <1>2 DEF Carries, Survives
  <2>1. CASE i = n + 1
    BY <1>2, <1>4, <2>1 DEF ProposalOK
  <2>2. CASE i \in 1..n
    <3>1. ~MayLose(i, n + 1, f)'
      BY <1>1, <2>2 DEF Survives
    <3>2. f \notin DOMAIN PatchOf[c] /\ ~(read[c] < i)
      BY <1>1, <1>2, <2>2, <3>1 DEF MayLose
    <3>3. read[c] \in Nat /\ read[c] <= n
      BY <1>1, <1>4 DEF ProposalOK, ConfigInv, ConfigTypeOK
    <3>4. Survives(i, read[c], f)
      BY <1>1, <1>2, <2>2, <3>3 DEF Survives, MayLose
    <3>5. i \in 1..read[c] /\ f \in DOMAIN PatchOf[written[i]] \ DOMAIN PatchOf[c]
      BY <1>1, <1>2, <2>2, <3>2, <3>3
    <3>6. QED
      BY <1>2, <1>4, <2>2, <3>4, <3>5 DEF ProposalOK, Carries
  <2>3. QED
    BY <1>1, <2>1, <2>2
<1>8. ASSUME NEW d \in ConfigCalls \ {c}, ProposalOK(d) PROVE ProposalOK(d)'
  <2>1. read[d] \in Nat /\ read[d] <= n
    BY <1>1, <1>8 DEF ProposalOK, ConfigInv, ConfigTypeOK
  <2>2. Carries(proposed[d], read[d], DOMAIN PatchOf[d])'
    BY <1>1, <1>2, <1>8, <2>1 DEF ProposalOK, Carries, Survives, MayLose
  <2>3. QED
    BY <1>1, <1>2, <1>8, <2>1, <2>2 DEF ProposalOK, Writable
<1>9. QED
  BY <1>3, <1>5, <1>6, <1>7, <1>8, ConfigAssumption DEF ConfigInv

\* The steps of a configuration call, and the end of its process.
LEMMA ConfigCallStaysTrue ==
  ASSUME ConfigInv, CallsTypeOK, NEW c \in ConfigCalls, ConfigStep(c) \/ Die(c)
  PROVE  ConfigInv'
<1>1. c \in Calls
  BY ConfigAssumption
<1>2. CASE c \in Edits /\ Parsed(file) /\ Propose(c, file)
  <2>1. file \in Configs /\ Carries(file, Len(written), DOMAIN PatchOf[c])
    BY <1>2 DEF ConfigInv, ConfigTypeOK, Parsed, Carries
  <2>2. QED
    BY <1>1, <1>2, <2>1, ProposeStaysTrue
<1>3. CASE c \in Overwrites /\ Overwrite(c)
  <2>1. Carries([f \in Fields |-> Unset], Len(written), DOMAIN PatchOf[c])
    <3>1. \A i \in 1..Len(written) : DOMAIN PatchOf[written[i]] \subseteq Fields
      BY PatchesAreOfFields DEF ConfigInv, ConfigTypeOK
    <3>2. DOMAIN PatchOf[c] = Fields
      BY <1>3, ConfigAssumption
    <3>3. QED
      BY <3>1, <3>2 DEF Carries
  <2>2. QED
    BY <1>1, <1>3, <2>1, EmptyConfig, ProposeStaysTrue DEF Overwrite
<1>4. CASE WriteConfig(c) /\ Goto(c, "writing", "succeeding")
  <2>1. ~Fail(c, "writing", "failing", "write_failed")
    BY <1>1, <1>4 DEF Fail, Goto, CallsTypeOK
  <2>2. QED
    BY <1>1, <1>4, <2>1, WriteStaysTrue DEF WriteConfig
<1>5. CASE \/ FailRead(c) \/ Authorize(c) \/ RefuseWrite(c) \/ AuditWrite(c) \/ AuditFailedWrite(c) \/ Die(c)
           \/ WriteConfig(c) /\ ~Goto(c, "writing", "succeeding")
  <2>1. UNCHANGED configVars
    BY <1>5 DEF FailRead, Authorize, RefuseWrite, AuditWrite, AuditFailedWrite, Die, WriteConfig, configVars
  <2>2. /\ \A d \in Calls \ {c} : at'[d] = at[d]
        /\ \/ at[c] = "authorizing" /\ at'[c] \in {"writing", "refusing"}
           \/ at[c] # "over" /\ at'[c] \in {"failing", "over"}
    BY <1>1, <1>5 DEF FailRead, Authorize, RefuseWrite, AuditWrite, AuditFailedWrite, Die, WriteConfig, Return, Fail,
       Goto, SinkRejects, CallsTypeOK
  <2>3. QED
    BY <2>1, <2>2, FileStaysTrue, ConfigAssumption
<1>6. QED
  BY <1>2, <1>3, <1>4, <1>5 DEF ConfigStep, Edit
-----------------------------------------------------------------------------
\* Nothing is written.
LEMMA InitialConfig == ServicesInit => ConfigInv
<1> SUFFICES ASSUME ServicesInit PROVE ConfigInv
  OBVIOUS
<1>1. /\ file \in {NoConfig} \cup [Fields -> {Old, Redacted}]
      /\ proposed = [c \in ConfigCalls |-> NoConfig] /\ read = [c \in ConfigCalls |-> 0] /\ written = <<>>
  BY DEF ServicesInit, ConfigInit
<1>2. \A c \in ConfigCalls : at[c] \in {"idle", "never"}
  BY ConfigAssumption DEF ServicesInit, CallsInit
<1>3. ConfigTypeOK
  BY <1>1 DEF ConfigTypeOK, Configs, Values
<1>4. QED
  BY <1>1, <1>2, <1>3 DEF ConfigInv, WrittenOnce, Carries

\* The invariant is inductive: no other call touches the file.
LEMMA StepKeepsConfig == ConsentInv /\ ConfigInv /\ [ServicesNext]_servicesVars => ConfigInv'
<1> SUFFICES ASSUME ConsentInv, ConfigInv, [ServicesNext]_servicesVars PROVE ConfigInv'
  OBVIOUS
<1>1. CallsTypeOK /\ AnswersOK
  BY DEF ConsentInv
<1>2. /\ Shell \in Calls /\ ChatCalls \subseteq Calls /\ Resolutions \subseteq Calls /\ ConfigCalls \subseteq Calls
      /\ Shell \notin ConfigCalls /\ ChatCalls \cap ConfigCalls = {} /\ Resolutions \cap ConfigCalls = {}
  BY ServicesAssumption
<1>3. ASSUME NEW c \in ConfigCalls, ConfigStep(c) \/ Die(c) PROVE ConfigInv'
  BY <1>1, <1>3, ConfigCallStaysTrue
<1>4. ASSUME UNCHANGED configVars, NEW c \in Calls \ ConfigCalls, StepOf(c) PROVE ConfigInv'
  BY <1>2, <1>4, FileStaysTrue DEF StepOf
<1>5. ASSUME UNCHANGED <<at, configVars>> PROVE ConfigInv'
  BY <1>5, FileStaysTrue
<1>6. CASE \E c \in Calls : CallStep(c)
  <2>1. PICK c \in Calls : CallStep(c)
    BY <1>6
  <2>2. CASE c = Shell /\ (InvocationStep(c) \/ ShellCallStep) /\ UNCHANGED <<beyondVars, configVars>>
    BY <1>1, <1>2, <1>4, <2>2, InvocationMoves, ShellMoves DEF beyondVars, secretVars
  <2>3. CASE c \in ChatCalls /\ ChatStep(c) /\ UNCHANGED configVars
    BY <1>1, <1>2, <1>4, <2>3, ChatMoves
  <2>4. CASE c \in Resolutions /\ ResolutionStep(c) /\ UNCHANGED configVars
    BY <1>1, <1>2, <1>4, <2>4, ResolutionMoves
  <2>5. QED
    BY <1>3, <2>1, <2>2, <2>3, <2>4 DEF CallStep
<1>7. CASE OtherStep
  <2>1. CASE (Abort \/ Timeout \/ ChildStep \/ ChildEvent) /\ UNCHANGED <<beyondVars, configVars>>
    BY <1>5, <2>1 DEF Abort, Timeout, ChildStep, Write, Exit, Release, ChildEvent, SpawnError, Data, Close, callVars
  <2>2. CASE (\E c \in ChatCalls : Cancel(c) \/ Respond(c)) /\ UNCHANGED <<shellVars, configVars>>
    BY <1>1, <1>2, <1>4, <2>2, ChatMoves
  <2>3. QED
    BY <1>3, <1>7, <2>1, <2>2 DEF OtherStep
<1>8. CASE UNCHANGED servicesVars
  BY <1>5, <1>8 DEF servicesVars, callVars
<1>9. QED
  BY <1>6, <1>7, <1>8 DEF ServicesNext

\* A configuration that can be written holds no placeholder, so that what a
\* call patched is its own value or nothing.
LEMMA OnlyOverlapsLoseOfInv == ConfigInv => OnlyOverlapsLose
<1> SUFFICES ASSUME ConfigInv, NEW i \in DOMAIN written
             PROVE  /\ Parsed(file) /\ Writable(file)
                    /\ \A f \in DOMAIN PatchOf[written[i]] \ Overridden :
                         (\A j \in DOMAIN written : ~MayLose(i, j, f)) =>
                           Loaded(f) = IF PatchOf[written[i]][f] = Unset THEN "default" ELSE written[i]
  BY DEF OnlyOverlapsLose
<1>1. DOMAIN written = 1..Len(written) /\ Len(written) \in Nat /\ written[i] \in ConfigCalls /\ written # <<>>
  BY DEF ConfigInv, ConfigTypeOK
<1>2. file \in Configs /\ Writable(file) /\ Parsed(file)
  BY <1>1, ConfigAssumption DEF ConfigInv, Parsed
<1>3. ASSUME NEW f \in DOMAIN PatchOf[written[i]] \ Overridden, \A j \in DOMAIN written : ~MayLose(i, j, f)
      PROVE  Loaded(f) = IF PatchOf[written[i]][f] = Unset THEN "default" ELSE written[i]
  <2>1. file[f] = PatchOf[written[i]][f]
    BY <1>1, <1>3 DEF ConfigInv, Carries, Survives
  <2>2. f \in Fields /\ PatchOf[written[i]][f] \in {written[i], Unset, Redacted}
    BY <1>1, ConfigAssumption
  <2>3. file[f] # Redacted
    BY <1>2, <2>2 DEF Writable
  <2>4. Loaded(f) = IF file[f] = Unset THEN "default" ELSE file[f]
    BY <1>3, Zenon DEF Loaded
  <2>5. QED
    BY <2>1, <2>2, <2>3, <2>4
<1>4. QED
  BY <1>2, <1>3

\* What editSourceConfigFileResult or writeSourceConfigFileResult has written is
\* what the next load shows, for any number of processes, unless the environment
\* sets the field or a later write changed it or had read the file before; and
\* once a call has written it, the file can be loaded and holds no placeholder
\* for a secret.
THEOREM EditsAreLostToOverlapsOnly == ServicesSpec => []OnlyOverlapsLose
<1>1. ServicesInit => ConsentInv /\ ConfigInv
  BY InitialConsent, InitialConfig
<1>2. ConsentInv /\ ConfigInv /\ [ServicesNext]_servicesVars => (ConsentInv /\ ConfigInv)'
  BY StepKeepsConsent, StepKeepsConfig
<1>3. ConsentInv /\ ConfigInv => OnlyOverlapsLose
  BY OnlyOverlapsLoseOfInv
<1>4. QED
  BY <1>1, <1>2, <1>3, PTL DEF ServicesSpec
-----------------------------------------------------------------------------
(* Whose step a step is *)

\* The families of calls.
LEMMA Families ==
  /\ Shell \in Calls /\ ChatCalls \subseteq Calls /\ Resolutions \subseteq Calls /\ ConfigCalls \subseteq Calls
  /\ Shell \notin ChatCalls /\ Shell \notin Resolutions /\ Shell \notin ConfigCalls
  /\ ChatCalls \cap Resolutions = {} /\ ChatCalls \cap ConfigCalls = {} /\ Resolutions \cap ConfigCalls = {}
BY ServicesAssumption, ProvidersAssumption

\* Steps that move no call: those of the child, a timeout and an abort.
ShellEvent == Abort \/ Timeout \/ ChildStep \/ ChildEvent

\* Whose step a step is.
LEMMA StepsOfFamilies ==
  ASSUME [ServicesNext]_servicesVars
  PROVE  \/ InvocationStep(Shell) /\ UNCHANGED <<shellVars, beyondVars, configVars>>
         \/ ShellCallStep /\ UNCHANGED <<beyondVars, configVars>>
         \/ ShellEvent /\ UNCHANGED <<at, error, result, trail, beyondVars, configVars>>
         \/ \E c \in ChatCalls : (ChatStep(c) \/ Respond(c) \/ Cancel(c)) /\ UNCHANGED <<shellVars, configVars>>
         \/ \E c \in Resolutions : ResolutionStep(c) /\ UNCHANGED <<shellVars, providerVars, configVars>>
         \/ \E c \in ConfigCalls : (ConfigStep(c) \/ Die(c)) /\ UNCHANGED <<shellVars, beyondVars>>
         \/ UNCHANGED servicesVars
<1>1. ShellEvent => UNCHANGED <<at, error, result, trail>>
  BY DEF ShellEvent, Abort, Timeout, ChildStep, Write, Exit, Release, ChildEvent, SpawnError, Data, Close, callVars
<1>2. CASE \E c \in Calls : CallStep(c)
  BY <1>2 DEF CallStep
<1>3. CASE OtherStep
  BY <1>1, <1>3 DEF OtherStep, ShellEvent
<1>4. QED
  BY <1>2, <1>3 DEF ServicesNext
-----------------------------------------------------------------------------
(* The output of a command *)

\* While a child runs, what was kept is the part of what it has sent that fits.
Chars == {"a", "lead", "cont"}

OutputInv ==
  /\ sent \in Seq(Chars) /\ pipe \in Seq(Chars)
  /\ bytes \in Nat /\ bytes <= MaxBytes /\ bytes <= Len(sent)
  /\ kept = SubSeq(sent, 1, bytes)
  /\ truncated \in BOOLEAN /\ (truncated <=> Len(sent) > bytes) /\ (truncated => bytes = MaxBytes)
  /\ child = "closed" => ~held /\ pipe = <<>>

\* Cutting a part off a sequence and putting it behind another.
LEMMA Moved ==
  ASSUME NEW s \in Seq(Chars), NEW p \in Seq(Chars), NEW n \in 1..Len(p)
  PROVE  /\ SubSeq(p, 1, n) \in Seq(Chars) /\ Len(SubSeq(p, 1, n)) = n
         /\ SubSeq(p, n + 1, Len(p)) \in Seq(Chars)
         /\ s \o SubSeq(p, 1, n) \in Seq(Chars) /\ Len(s \o SubSeq(p, 1, n)) = Len(s) + n
OBVIOUS

\* A prefix of what came first stays one.
LEMMA Prefixes ==
  ASSUME NEW s \in Seq(Chars), NEW q \in Seq(Chars), NEW m \in 0..Len(s)
  PROVE  /\ SubSeq(s \o q, 1, m) = SubSeq(s, 1, m)
         /\ \A r \in 0..Len(q) : SubSeq(s \o q, 1, Len(s) + r) = s \o SubSeq(q, 1, r)
OBVIOUS

\* A chunk is appended, all of it or what fits.
LEMMA DataKeepsOutput == ASSUME OutputInv, Data PROVE OutputInv'
<1>1. PICK n \in 1..Len(pipe) :
         /\ AppendLimitedChunk(SubSeq(pipe, 1, n))
         /\ sent' = sent \o SubSeq(pipe, 1, n)
         /\ pipe' = SubSeq(pipe, n + 1, Len(pipe))
  BY DEF Data
<1>2. PICK chunk : chunk = SubSeq(pipe, 1, n)
  OBVIOUS
<1>3. chunk \in Seq(Chars) /\ Len(chunk) = n /\ pipe' \in Seq(Chars) /\ sent' \in Seq(Chars) /\ Len(sent') = Len(sent) + n
  BY <1>1, <1>2, Moved DEF OutputInv
<1>4. bytes \in Nat /\ bytes <= MaxBytes /\ bytes \in 0..Len(sent) /\ MaxBytes \in Nat /\ n \in Nat /\ Len(sent) \in Nat
  BY ShellAssumption DEF OutputInv
<1>5. (bytes = Len(sent) => kept = sent) /\ child' # "closed"
  BY DEF OutputInv, Data
<1>6. CASE Len(chunk) <= MaxBytes - bytes
  <2>1. kept' = kept \o chunk /\ bytes' = bytes + n /\ truncated' = truncated
    BY <1>1, <1>2, <1>3, <1>6 DEF AppendLimitedChunk
  <2>2. ~truncated /\ bytes = Len(sent)
    BY <1>3, <1>4, <1>6 DEF OutputInv
  <2>3. kept' = SubSeq(sent', 1, bytes')
    BY <1>1, <1>2, <1>3, <1>5, <2>1, <2>2
  <2>4. truncated' = FALSE /\ bytes' = Len(sent') /\ bytes' <= MaxBytes /\ bytes' \in Nat
    BY <1>3, <1>4, <1>6, <2>1, <2>2 DEF OutputInv
  <2>5. truncated' \in BOOLEAN /\ ((truncated <=> Len(sent) > bytes) /\ (truncated => bytes = MaxBytes))'
    <3>1. ~(Len(sent') > bytes')
      BY <1>3, <2>4
    <3>2. QED
      BY <2>4, <3>1
  <2>6. bytes' <= Len(sent')
    BY <1>3, <2>4
  <2>7. QED
    BY <1>3, <1>5, <2>3, <2>4, <2>5, <2>6 DEF OutputInv
<1>7. CASE ~(Len(chunk) <= MaxBytes - bytes)
  <2>1. kept' = kept \o SubSeq(chunk, 1, MaxBytes - bytes) /\ bytes' = MaxBytes /\ truncated' = TRUE
    BY <1>1, <1>2, <1>3, <1>7 DEF AppendLimitedChunk
  <2>2. MaxBytes - bytes \in 0..n /\ (bytes # MaxBytes => bytes = Len(sent))
    BY <1>3, <1>4, <1>7 DEF OutputInv
  <2>3. kept' = SubSeq(sent', 1, bytes')
    <3>1. CASE bytes = MaxBytes
      <4>1. kept' = kept
        BY <1>4, <2>1, <3>1 DEF OutputInv
      <4>2. QED
        BY <1>1, <1>2, <1>3, <1>4, <2>1, <3>1, <4>1, Prefixes DEF OutputInv
    <3>2. CASE bytes # MaxBytes
      <4>1. SubSeq(sent \o chunk, 1, Len(sent) + (MaxBytes - bytes)) = sent \o SubSeq(chunk, 1, MaxBytes - bytes)
        BY <1>3, <1>4, <2>2, Prefixes DEF OutputInv
      <4>2. Len(sent) + (MaxBytes - bytes) = MaxBytes /\ kept = sent
        BY <1>4, <1>5, <2>2, <3>2
      <4>3. sent' = sent \o chunk
        BY <1>1, <1>2
      <4>4. QED
        BY <2>1, <4>1, <4>2, <4>3
    <3>3. QED
      BY <3>1, <3>2
  <2>4. QED
    BY <1>3, <1>4, <1>5, <1>7, <2>1, <2>2, <2>3 DEF OutputInv
<1>8. QED
  BY <1>6, <1>7

\* The steps of the command, its child, its timer and its caller.
LEMMA ShellKeepsOutput ==
  ASSUME OutputInv, ShellCallStep \/ ShellEvent PROVE OutputInv'
<1>1. CASE Data
  BY <1>1, DataKeepsOutput
<1>2. CASE \E char \in {<<"a">>, <<"lead", "cont">>} : Write(char)
  <2>1. PICK char \in {<<"a">>, <<"lead", "cont">>} : Write(char)
    BY <1>2
  <2>2. char \in Seq(Chars)
    <3>1. <<"a">> \in Seq(Chars)
      BY DEF Chars
    <3>2. <<"lead", "cont">> \in Seq(Chars)
      BY DEF Chars
    <3>3. QED
      BY <3>1, <3>2
  <2>3. pipe' \in Seq(Chars) /\ child' # "closed"
    BY <2>1, <2>2 DEF Write, OutputInv
  <2>4. QED
    BY <2>1, <2>3 DEF Write, OutputInv, outputVars
<1>3. CASE Close \/ Exit \/ Release
  BY <1>3 DEF Close, Exit, Release, OutputInv, outputVars
<1>4. CASE Abort \/ Timeout \/ SpawnError \/ RefuseCommand \/ AskForShell \/ Resume \/ AuditFailedCommand
  BY <1>4 DEF Abort, Timeout, SpawnError, RefuseCommand, AskForShell, Resume, AuditFailedCommand,
     OutputInv, outputVars, childVars, shellVars
<1>5. CASE Spawn
  BY <1>5 DEF Spawn, OutputInv, outputVars
<1>6. QED
  BY <1>1, <1>2, <1>3, <1>4, <1>5 DEF ShellCallStep, ShellEvent, ChildStep, ChildEvent
-----------------------------------------------------------------------------
(* The record of a command *)

\* Where a command has no child yet and was not denied, and the others.
Before == {"never", "idle", "unknown", "requesting", "permitting", "allowing", "denying", "executing", "granting",
           "forbidding", "spawning"}

Denied    == Recorded(Shell, "permission", "denied")
Succeeded == Recorded(Shell, "operation", "succeeded")

\* The executor has resolved with a command that ended as it should.
EndedWell == settled = "resolved" /\ child = "closed" /\ exitCode \in {"zero", "null"} /\ ~timedOut

CommandInv ==
  /\ at[Shell] \in Before \cup {"refusing"} => child = "none" /\ settled = "no"
  /\ at[Shell] \in Before => ~Denied /\ ~Succeeded
  /\ Denied => child = "none"
  /\ child # "none" /\ at[Shell] # "running" => settled # "no"
  /\ settled \in {"no", "rejected", "resolved"} /\ (settled = "resolved" => child = "closed")
  /\ child \in {"exited", "closed"} => exitCode \in {"zero", "nonzero", "null"}
  /\ at[Shell] = "operation_done" \/ Succeeded => EndedWell

\* Steps of the call that leave the executor alone, and at most one record.
LEMMA CallKeepsCommand ==
  ASSUME CallsTypeOK, CommandInv, UNCHANGED shellVars,
         \/ UNCHANGED trail
         \/ \E of \in Kinds, outcome \in Outcomes :
              /\ Log(Shell, of, outcome)
              /\ (of = "operation" /\ outcome = "succeeded") => at[Shell] = "operation_done"
              /\ (of = "permission" /\ outcome = "denied") => at[Shell] \in Before /\ at'[Shell] \notin Before,
         \/ at[Shell] \in Before /\ at'[Shell] \in Before \cup {"refusing", "operation_failed", "catching", "over"}
         \/ at[Shell] \notin Before \cup {"running"} /\ at'[Shell] \in {"catching", "succeeding", "over"}
         \/ at[Shell] = "running" /\ settled # "no" /\ at'[Shell] \in {"operation_failed", "command_failed"}
         \/ at[Shell] = "running" /\ EndedWell /\ at'[Shell] = "operation_done"
  PROVE  CommandInv'
<1>1. /\ Denied' => Denied \/ (at[Shell] \in Before /\ at'[Shell] \notin Before)
      /\ Succeeded' => Succeeded \/ at[Shell] = "operation_done"
  <2>1. CASE UNCHANGED trail
    BY <2>1 DEF Denied, Succeeded, Recorded, Records
  <2>2. CASE ~UNCHANGED trail
    <3>1. PICK of \in Kinds, outcome \in Outcomes :
              /\ Log(Shell, of, outcome)
              /\ (of = "operation" /\ outcome = "succeeded") => at[Shell] = "operation_done"
              /\ (of = "permission" /\ outcome = "denied") => at[Shell] \in Before /\ at'[Shell] \notin Before
      BY <2>2
    <3>2. \A k, o : Recorded(Shell, k, o)' <=> Recorded(Shell, k, o) \/ (k = of /\ o = outcome)
      BY <3>1, RecordedStep, Families
    <3>3. QED
      BY <3>1, <3>2 DEF Denied, Succeeded
  <2>3. QED
    BY <2>1, <2>2
<1>2. UNCHANGED <<child, exitCode, settled, timedOut>>
  BY DEF shellVars, childVars, racerVars
<1>3. QED
  BY <1>1, <1>2 DEF CommandInv, EndedWell, Before

\* A decision about a command.
LEMMA AskKeepsCommand ==
  ASSUME CallsTypeOK, CommandInv, NEW STATE check, check \in {InvocationCheck, ShellCheck}, Ask(Shell, check), UNCHANGED shellVars
  PROVE  CommandInv'
<1>1. at[Shell] \in Before /\ at'[Shell] \in Before \cup {"refusing", "operation_failed", "catching", "over"}
  BY Families DEF Ask, Decide, RecordDecision, Fail, Goto, CallsTypeOK, InvocationCheck, ShellCheck, Before
<1>2. CASE UNCHANGED trail
  BY <1>1, <1>2, CallKeepsCommand
<1>3. CASE Log(Shell, "permission", "allowed")
  BY <1>1, <1>3, CallKeepsCommand DEF Kinds, Outcomes
<1>4. CASE Log(Shell, "permission", "denied") /\ Fail(Shell, check.no, check.denied, check.denial)
  <2>1. at'[Shell] \notin Before
    BY <1>4, Families DEF Fail, Goto, CallsTypeOK, InvocationCheck, ShellCheck, Before
  <2>2. QED
    BY <1>1, <1>4, <2>1, CallKeepsCommand DEF Kinds, Outcomes
<1>5. QED
  BY <1>2, <1>3, <1>4 DEF Ask, Decide, RecordDecision

\* The steps of invokeResult.
LEMMA InvocationKeepsCommand ==
  ASSUME CallsTypeOK, CommandInv, InvocationStep(Shell), UNCHANGED shellVars
  PROVE  CommandInv'
<1>1. CASE Ask(Shell, InvocationCheck)
  BY <1>1, AskKeepsCommand
<1>2. CASE Invoke(Shell) \/ RefuseUnknown(Shell) \/ AuditRequested(Shell)
  <2>1. at[Shell] \in Before /\ at'[Shell] \in Before \cup {"refusing", "operation_failed", "catching", "over"}
    BY <1>2, Families DEF Invoke, RefuseUnknown, AuditRequested, SinkRejects, Return, Fail, Goto, CallsTypeOK, Before
  <2>2. UNCHANGED trail \/ \E outcome \in Outcomes : Log(Shell, "tool", outcome)
    BY <1>2 DEF Invoke, RefuseUnknown, AuditRequested, SinkRejects, Outcomes
  <2>3. QED
    BY <2>1, <2>2, CallKeepsCommand DEF Kinds
<1>3. CASE Refuse(Shell) \/ AuditFailedOperation(Shell) \/ AuditOperation(Shell) \/ AuditSucceeded(Shell) \/ Catch(Shell)
  <2>1. at[Shell] \notin Before \cup {"running"} /\ at'[Shell] \in {"catching", "succeeding", "over"}
    BY <1>3, Families DEF Refuse, AuditFailedOperation, AuditOperation, AuditSucceeded, Catch, SinkRejects, Return,
       Fail, Goto, CallsTypeOK, Before
  <2>2. \/ UNCHANGED trail
        \/ \E of \in {"tool", "operation"}, outcome \in Outcomes :
             Log(Shell, of, outcome) /\ (of = "operation" /\ outcome = "succeeded" => at[Shell] = "operation_done")
    BY <1>3 DEF Refuse, AuditFailedOperation, AuditOperation, AuditSucceeded, Catch, SinkRejects, Outcomes, Goto
  <2>3. QED
    BY <2>1, <2>2, CallKeepsCommand DEF Kinds
<1>4. QED
  BY <1>1, <1>2, <1>3 DEF InvocationStep

\* The steps of the handler.
LEMMA HandlerKeepsCommand ==
  ASSUME CallsTypeOK, CommandInv, ShellCallStep
  PROVE  CommandInv'
<1>1. CASE AskForShell
  BY <1>1, AskKeepsCommand DEF AskForShell
<1>2. CASE RefuseCommand
  <2>1. at[Shell] \in Before /\ at'[Shell] = "operation_failed"
    BY <1>2, Families DEF RefuseCommand, Fail, Goto, CallsTypeOK, Before
  <2>2. QED
    BY <1>2, <2>1, CallKeepsCommand DEF RefuseCommand
<1>3. CASE Spawn
  <2>1. at[Shell] = "spawning" /\ at'[Shell] = "running" /\ child' \in {"running", "unborn"} /\ UNCHANGED <<trail, settled>>
    BY <1>3, Families DEF Spawn, Goto, CallsTypeOK
  <2>2. Denied' = Denied /\ Succeeded' = Succeeded
    BY <2>1 DEF Denied, Succeeded, Recorded, Records
  <2>3. QED
    BY <2>1, <2>2 DEF CommandInv, Before
<1>4. CASE Resume
  <2>1. at[Shell] = "running" /\ settled # "no"
    BY <1>4, Families DEF Resume, Fail, Goto, CallsTypeOK
  <2>2. at'[Shell] \in {"operation_failed", "command_failed"} \/ (at'[Shell] = "operation_done" /\ settled = "resolved" /\ ~CommandFailed)
    BY <1>4, Families DEF Resume, Fail, Goto, CallsTypeOK
  <2>3. settled = "resolved" /\ ~CommandFailed => EndedWell
    BY DEF CommandInv, CommandFailed, EndedWell
  <2>4. UNCHANGED <<trail, shellVars>>
    BY <1>4 DEF Resume
  <2>5. QED
    BY <2>1, <2>2, <2>3, <2>4, CallKeepsCommand
<1>5. CASE AuditFailedCommand
  <2>1. at[Shell] = "command_failed" /\ at'[Shell] \in {"succeeding", "catching"}
    BY <1>5, Families DEF AuditFailedCommand, Fail, Goto, CallsTypeOK
  <2>2. UNCHANGED trail \/ Log(Shell, "operation", "failed")
    BY <1>5 DEF AuditFailedCommand
  <2>3. UNCHANGED shellVars
    BY <1>5 DEF AuditFailedCommand
  <2>4. QED
    BY <2>1, <2>2, <2>3, CallKeepsCommand DEF Kinds, Outcomes, Before
<1>6. QED
  BY <1>1, <1>2, <1>3, <1>4, <1>5 DEF ShellCallStep

\* The child's steps and its events, its timer and its caller: the promise
\* settles once.
LEMMA EventKeepsCommand ==
  ASSUME CallsTypeOK, CommandInv, ShellEvent
  PROVE  CommandInv'
<1>1. UNCHANGED <<at, trail>>
  BY DEF ShellEvent, Abort, Timeout, ChildStep, Write, Exit, Release, ChildEvent, SpawnError, Data, Close, callVars
<1>2. UNCHANGED <<Denied, Succeeded>>
  BY <1>1 DEF Denied, Succeeded, Recorded, Records
<1>3. /\ settled' = settled \/ (settled = "no" /\ settled' = "rejected" /\ child # "none")
                            \/ (settled = "no" /\ settled' = "resolved" /\ child' = "closed")
      /\ timedOut' = timedOut \/ settled = "no"
      /\ \/ UNCHANGED <<child, exitCode>>
         \/ child = "running" /\ child' = "exited" /\ exitCode' \in {"zero", "nonzero", "null"}
         \/ child = "exited" /\ child' = "closed" /\ UNCHANGED exitCode
  BY DEF ShellEvent, Abort, Timeout, KillChild, ChildStep, Write, Exit, Release, ChildEvent, SpawnError, Data, Close,
     racerVars, childVars
<1>4. QED
  BY <1>1, <1>2, <1>3 DEF CommandInv, EndedWell, Before
-----------------------------------------------------------------------------
(* Records and results *)

\* A step of call c leaves the errors and results of others alone.
TextOf(c) == TextOK' /\ \A d \in Calls \ {c} : error'[d] = error[d] /\ result'[d] = result[d]

\* A decision.
LEMMA AskText ==
  ASSUME TextOK, NEW c \in Calls, NEW STATE check, Ask(c, check)
  PROVE  TextOf(c)
BY DEF Ask, Decide, RecordDecision, Fail, Goto, TextOK, TextOf

\* The steps of a command.
LEMMA CommandText ==
  ASSUME TextOK, InvocationStep(Shell) \/ ShellCallStep
  PROVE  TextOf(Shell)
<1>1. CASE Ask(Shell, InvocationCheck) \/ AskForShell
  BY <1>1, AskText, Families DEF AskForShell
<1>2. CASE ~(Ask(Shell, InvocationCheck) \/ AskForShell)
  BY <1>2, Families DEF InvocationStep, Invoke, RefuseUnknown, AuditRequested, Refuse, AuditFailedOperation,
     AuditOperation, AuditSucceeded, Catch, SinkRejects, Return, Fail, Goto, ShellCallStep, RefuseCommand, Spawn,
     Resume, AuditFailedCommand, TextOK, TextOf
<1>3. QED
  BY <1>1, <1>2

\* The steps of a reader of a secret.
LEMMA SecretText ==
  ASSUME TextOK, NEW c \in Calls, SecretStep(c)
  PROVE  TextOf(c)
<1>1. CASE AskForSecret(c)
  BY <1>1, AskText DEF AskForSecret
<1>2. CASE ~AskForSecret(c)
  BY <1>2 DEF SecretStep, Validate, AuditSecretSafely, LookUp, Answer, TextOK, TextOf
<1>3. QED
  BY <1>1, <1>2

\* The steps of a resolution.
LEMMA ResolutionText ==
  ASSUME TextOK, NEW c \in Calls, ResolutionStep(c)
  PROVE  TextOf(c)
<1>1. CASE SecretStep(c)
  BY <1>1, SecretText
<1>2. CASE ~SecretStep(c)
  BY <1>2 DEF ResolutionStep, Resolve, Collect, ReturnSnapshot, Return, TextOK, TextOf
<1>3. QED
  BY <1>1, <1>2

\* The steps of a provider call, its server and its caller.
LEMMA ChatText ==
  ASSUME TextOK, NEW c \in Calls, ChatStep(c) \/ Respond(c) \/ Cancel(c)
  PROVE  TextOf(c)
<1>1. CASE AskForChat(c) \/ AskForEndpoint(c) \/ ReadCredential(c)
  BY <1>1, AskText, SecretText DEF AskForChat, AskForEndpoint, ReadCredential
<1>2. CASE ~(AskForChat(c) \/ AskForEndpoint(c) \/ ReadCredential(c))
  BY <1>2 DEF ChatStep, Chat, RefuseChat, AuditMockAnswer, CallAdapter, Post, AbortRequest, CheckSignal, AuditAnswer,
     CatchChat, Respond, Cancel, callVars, SinkRejects, Return, Fail, Throw, TextOK, TextOf
<1>3. QED
  BY <1>1, <1>2

\* The steps of a configuration call.
LEMMA ConfigText ==
  ASSUME TextOK, NEW c \in Calls, ConfigStep(c) \/ Die(c)
  PROVE  TextOf(c)
BY DEF ConfigStep, Edit, Overwrite, Propose, FailRead, Authorize, RefuseWrite, WriteConfig, AuditWrite,
   AuditFailedWrite, Die, SinkRejects, Return, Fail, TextOK, TextOf
-----------------------------------------------------------------------------
(* The records of calls that are no tools *)

\* Up to its end a call leaves no record of its own; after it, one that says
\* what it returned, unless the sink made it reject, its process ended, or it
\* was turned down before it did anything.
CallRecordInv(c) ==
  /\ error[c] # "ok" /\ (error[c] = "denied" => at[c] \in {"refusing", "over"})
  /\ at[c] \in {"never", "idle"} => trail[c] = <<>>
  /\ at[c] # "over" => result[c] = "none" /\ Open(trail[c], "call")
  /\ at[c] = "over" => \/ result[c] \in {"rejected", "lost"} /\ Open(trail[c], "call")
                       \/ result[c] \in {"unavailable", "invalid"} /\ trail[c] = <<>>
                       \/ Closed(trail[c], "call", result[c])

\* A call goes on with a record of something else, or with none.
LEMMA GoingOnKeepsRecords ==
  ASSUME CallsTypeOK, NEW c \in Calls, CallRecordInv(c), UNCHANGED result,
         at[c] # "over", at'[c] \notin {"never", "idle", "over"},
         error'[c] # "ok", error'[c] = "denied" => at'[c] = "refusing",
         UNCHANGED trail \/ \E of \in Kinds \ {"call"}, outcome \in Outcomes : Log(c, of, outcome)
  PROVE  CallRecordInv(c)'
<1>1. CASE UNCHANGED trail
  BY <1>1 DEF CallRecordInv
<1>2. CASE \E of \in Kinds \ {"call"}, outcome \in Outcomes : Log(c, of, outcome)
  <2>1. PICK of \in Kinds \ {"call"}, outcome \in Outcomes : trail'[c] = Append(trail[c], [of |-> of, outcome |-> outcome])
    BY <1>2 DEF Log, CallsTypeOK
  <2>2. Open(trail[c], "call") /\ trail[c] \in Trails
    BY DEF CallRecordInv, CallsTypeOK
  <2>3. Open(trail'[c], "call")
    BY <2>1, <2>2, OneMore
  <2>4. QED
    BY <2>3 DEF CallRecordInv, Open
<1>3. QED
  BY <1>1, <1>2

\* A call returns what it puts on record, or rejects without a record.
LEMMA ReturningKeepsRecords ==
  ASSUME CallsTypeOK, TextOK, NEW c \in Calls, CallRecordInv(c), UNCHANGED error, NEW STATE from, NEW STATE code, from # "over",
         Return(c, from, code),
         \/ Log(c, "call", OutcomeOf(code))
         \/ code \in {"rejected", "lost"} /\ UNCHANGED trail
         \/ from = "idle" /\ code \in {"unavailable", "invalid"} /\ UNCHANGED trail
  PROVE  CallRecordInv(c)'
<1>1. at[c] = from /\ at'[c] = "over" /\ result'[c] = code
  BY DEF Return, Goto, CallsTypeOK, TextOK
<1>2. error'[c] = error[c] /\ Open(trail[c], "call") /\ (from = "idle" => trail[c] = <<>>)
  BY <1>1 DEF CallRecordInv
<1>3. CASE Log(c, "call", OutcomeOf(code))
  <2>1. OutcomeOf(code) \in Outcomes /\ trail'[c] = Append(trail[c], [of |-> "call", outcome |-> OutcomeOf(code)])
    BY <1>3 DEF Log, CallsTypeOK, OutcomeOf, Outcomes
  <2>2. Closed(trail'[c], "call", code)
    BY <1>2, <2>1, OneMore DEF Kinds, CallsTypeOK
  <2>3. QED
    BY <1>1, <1>2, <2>2 DEF CallRecordInv, Closed
<1>4. CASE /\ UNCHANGED trail
           /\ code \in {"rejected", "lost"} \/ (from = "idle" /\ code \in {"unavailable", "invalid"})
  BY <1>1, <1>2, <1>4 DEF CallRecordInv, Open
<1>5. QED
  BY <1>3, <1>4

\* The steps of a provider call.
LEMMA ChatKeepsRecords ==
  ASSUME CallsTypeOK, TextOK, NEW c \in Calls, CallRecordInv(c), ChatStep(c) \/ Respond(c) \/ Cancel(c)
  PROVE  CallRecordInv(c)'
<1>1. ASSUME NEW STATE check, Ask(c, check), check \in {ChatCheck(c), EndpointCheck(c), SecretCheck} PROVE CallRecordInv(c)'
  <2>1. at[c] # "over" /\ at'[c] \notin {"never", "idle", "over"} /\ error'[c] # "ok" /\ (error'[c] = "denied" => at'[c] = "refusing")
    BY <1>1 DEF Ask, Decide, RecordDecision, Fail, Goto, CallsTypeOK, TextOK, CallRecordInv, ChatCheck, EndpointCheck,
       SecretCheck, Caught
  <2>2. UNCHANGED result /\ (UNCHANGED trail \/ \E of \in Kinds \ {"call"}, outcome \in Outcomes : Log(c, of, outcome))
    BY <1>1 DEF Ask, Decide, RecordDecision, Kinds, Outcomes
  <2>3. QED
    BY <2>1, <2>2, GoingOnKeepsRecords
<1>2. CASE AskForChat(c) \/ AskForEndpoint(c) \/ (ReadCredential(c) /\ AskForSecret(c))
  BY <1>1, <1>2 DEF AskForChat, AskForEndpoint, AskForSecret
<1>3. CASE ReadCredential(c) /\ ~AskForSecret(c)
  <2>1. at[c] # "over" /\ at'[c] \notin {"never", "idle", "over", "refusing"} /\ at[c] # "refusing" /\ UNCHANGED <<error, result>>
    BY <1>3 DEF ReadCredential, SecretStep, Validate, AuditSecretSafely, LookUp, Answer, Goto, CallsTypeOK
  <2>2. UNCHANGED trail \/ \E of \in Kinds \ {"call"}, outcome \in Outcomes : Log(c, of, outcome)
    BY <1>3 DEF ReadCredential, SecretStep, Validate, AuditSecretSafely, LookUp, Kinds, Outcomes
  <2>3. error'[c] # "ok" /\ error'[c] # "denied"
    BY <2>1 DEF CallRecordInv
  <2>4. QED
    BY <2>1, <2>2, <2>3, GoingOnKeepsRecords
<1>4. CASE Cancel(c)
  BY <1>4 DEF Cancel, callVars, CallRecordInv, Open, Closed
<1>5. CASE \/ CallAdapter(c) \/ Post(c) \/ Respond(c) \/ AbortRequest(c) \/ CheckSignal(c)
           \/ Chat(c) /\ at'[c] # "over"
           \/ AuditAnswer(c) /\ at'[c] # "over"
  <2>1. /\ at[c] # "over" /\ at'[c] \notin {"never", "idle", "over"} /\ UNCHANGED <<trail, result>>
        /\ error'[c] # "ok" /\ (error'[c] = "denied" => at'[c] = "refusing")
    BY <1>5 DEF CallAdapter, Post, Respond, AbortRequest, CheckSignal, Chat, AuditAnswer, Return, Throw, Fail, Goto, Caught,
       SecretError, CallsTypeOK, TextOK, CallRecordInv
  <2>2. QED
    BY <2>1, GoingOnKeepsRecords
<1>6. CASE Chat(c) /\ at'[c] = "over"
  <2>1. Return(c, "idle", "unavailable") /\ UNCHANGED <<error, trail>>
    BY <1>6 DEF Chat, Goto, Fail, CallsTypeOK
  <2>2. QED
    BY <2>1, ReturningKeepsRecords
<1>7. CASE RefuseChat(c) \/ AuditMockAnswer(c) \/ CatchChat(c) \/ (AuditAnswer(c) /\ at'[c] = "over")
  <2>1. UNCHANGED error
    BY <1>7 DEF RefuseChat, AuditMockAnswer, CatchChat, AuditAnswer, Throw, Fail, Goto, CallsTypeOK
  <2>2. CASE \E from \in {"refusing", "mocking", "catching"} : Return(c, from, "rejected") /\ UNCHANGED trail
    BY <2>1, <2>2, ReturningKeepsRecords
  <2>3. CASE \E from \in {"refusing", "mocking", "catching", "aborting", "succeeding"}, code \in {"ok", error[c]} :
               Return(c, from, code) /\ Log(c, "call", OutcomeOf(code))
    BY <2>1, <2>3, ReturningKeepsRecords
  <2>4. QED
    BY <1>7, <2>2, <2>3 DEF RefuseChat, AuditMockAnswer, CatchChat, AuditAnswer, SinkRejects, Return, Throw, Fail, Goto,
       OutcomeOf, CallRecordInv, CallsTypeOK
<1>8. QED
  BY <1>2, <1>3, <1>4, <1>5, <1>6, <1>7 DEF ChatStep

\* The steps of a configuration call, and the end of its process.
LEMMA ConfigKeepsRecords ==
  ASSUME CallsTypeOK, TextOK, NEW c \in Calls, CallRecordInv(c), ConfigStep(c) \/ Die(c)
  PROVE  CallRecordInv(c)'
<1>1. CASE at'[c] # "over"
  <2>1. /\ at[c] # "over" /\ at'[c] \notin {"never", "idle", "over"} /\ UNCHANGED <<trail, result>>
        /\ error'[c] # "ok" /\ (error'[c] = "denied" => at'[c] = "refusing")
    BY <1>1 DEF ConfigStep, Edit, Overwrite, Propose, FailRead, Authorize, RefuseWrite, WriteConfig, AuditWrite,
       AuditFailedWrite, Die, SinkRejects, Return, Fail, Goto, CallsTypeOK, TextOK, CallRecordInv
  <2>2. QED
    BY <2>1, GoingOnKeepsRecords
<1>2. CASE at'[c] = "over"
  <2>1. UNCHANGED error
    BY <1>2 DEF ConfigStep, Edit, Overwrite, Propose, FailRead, Authorize, RefuseWrite, WriteConfig, AuditWrite,
       AuditFailedWrite, Die, Fail, Goto, CallsTypeOK
  <2>2. CASE Return(c, "idle", "invalid") /\ UNCHANGED trail
    BY <2>1, <2>2, ReturningKeepsRecords
  <2>3. CASE \E from \in {"refusing", "failing", "authorizing", "writing", "succeeding"}, code \in {"rejected", "lost"} :
               Return(c, from, code) /\ UNCHANGED trail
    BY <2>1, <2>3, ReturningKeepsRecords
  <2>4. CASE \E from \in {"refusing", "failing", "succeeding"}, code \in {"ok", error[c]} :
               Return(c, from, code) /\ Log(c, "call", OutcomeOf(code))
    BY <2>1, <2>4, ReturningKeepsRecords
  <2>5. CASE RefuseWrite(c) \/ AuditWrite(c) \/ AuditFailedWrite(c)
    BY <1>2, <2>3, <2>4, <2>5 DEF RefuseWrite, AuditWrite, AuditFailedWrite, SinkRejects, Return, Fail, Goto,
       OutcomeOf, CallRecordInv, CallsTypeOK
  <2>6. CASE ~(RefuseWrite(c) \/ AuditWrite(c) \/ AuditFailedWrite(c))
    BY <1>2, <2>2, <2>3, <2>6 DEF ConfigStep, Edit, Overwrite, Propose, FailRead, Authorize, WriteConfig, Die, Return,
       Fail, Goto, CallsTypeOK
  <2>7. QED
    BY <2>5, <2>6
<1>3. QED
  BY <1>1, <1>2


\* The handler of a command leaves no record of the invocation.
LEMMA HandlerKeepsToolRecords ==
  ASSUME CallsTypeOK, TextOK, RecordInv(Shell), ShellCallStep
  PROVE  RecordInv(Shell)'
<1>1. CASE AskForShell
  BY <1>1, AskKeepsRecords, Families DEF AskForShell, ShellCheck, Early
<1>2. CASE RefuseCommand \/ Spawn \/ Resume \/ AuditFailedCommand
  <2>1. /\ at[Shell] \notin Early \cup {"over"} /\ at'[Shell] \notin Early \cup {"over"}
        /\ error'[Shell] # "ok" /\ error'[Shell] # "denied" /\ UNCHANGED result
    BY <1>2, Families DEF RefuseCommand, Spawn, Resume, AuditFailedCommand, Fail, Goto, CallsTypeOK, TextOK, RecordInv, Early
  <2>2. UNCHANGED trail \/ \E of \in Kinds \ {"tool"}, outcome \in Outcomes : Log(Shell, of, outcome)
    BY <1>2 DEF RefuseCommand, Spawn, Resume, AuditFailedCommand, Kinds, Outcomes
  <2>3. QED
    BY <2>1, <2>2, HandlerKeepsRecords, Families
<1>3. QED
  BY <1>1, <1>2 DEF ShellCallStep
-----------------------------------------------------------------------------
(* What is on record of a write *)

Replaced(c) == \E i \in DOMAIN written : written[i] = c

WriteInv(c) ==
  /\ at[c] = "succeeding" => Replaced(c)
  /\ at[c] = "failing" => error[c] = "write_failed"
  /\ at[c] = "over" => /\ result[c] = "ok" => Replaced(c)
                       /\ result[c] \in {"denied", "write_denied", "invalid"} => ~Replaced(c)

\* A file that is replaced is replaced by one call.
LEMMA ReplacedStep ==
  ASSUME written \in Seq(ConfigCalls), NEW c \in ConfigCalls, written' = Append(written, c)
  PROVE  Replaced(c)' /\ \A d \in ConfigCalls \ {c} : Replaced(d)' <=> Replaced(d)
<1> DEFINE n == Len(written) + 1
<1>1. /\ n \in Nat /\ DOMAIN written = 1..(n - 1) /\ DOMAIN written' = 1..n
      /\ written'[n] = c /\ \A i \in 1..(n - 1) : written'[i] = written[i]
  OBVIOUS
<1>2. \A i : i \in 1..n <=> i \in 1..(n - 1) \/ i = n
  BY <1>1
<1> HIDE DEF n
<1>3. \A d : Replaced(d) <=> \E i \in 1..(n - 1) : written[i] = d
  BY <1>1 DEF Replaced
<1>4. ASSUME NEW d PROVE Replaced(d)' <=> \E i \in 1..n : written'[i] = d
  BY <1>1 DEF Replaced
<1>5. Replaced(c)'
  BY <1>1, <1>2, <1>4
<1>6. ASSUME NEW d \in ConfigCalls \ {c} PROVE Replaced(d)' <=> Replaced(d)
  BY <1>1, <1>2, <1>3, <1>4
<1>7. QED
  BY <1>5, <1>6

\* Calls that stay where they are.
LEMMA OthersKeepWrite ==
  ASSUME NEW d, at'[d] = at[d], error'[d] = error[d], result'[d] = result[d], Replaced(d)' <=> Replaced(d), WriteInv(d)
  PROVE  WriteInv(d)'
BY DEF WriteInv

\* The steps of a configuration call: the file is replaced by a write that succeeds
\* only, and what fails after that is no denial.
LEMMA ConfigKeepsWrites ==
  ASSUME CallsTypeOK, TextOK, ConfigInv, NEW c \in ConfigCalls, CallRecordInv(c), WriteInv(c), ConfigStep(c) \/ Die(c)
  PROVE  WriteInv(c)' /\ \A d \in ConfigCalls \ {c} : Replaced(d)' <=> Replaced(d)
<1>1. c \in Calls /\ written \in Seq(ConfigCalls)
  BY Families DEF ConfigInv, ConfigTypeOK
<1>2. at[c] \in {"idle", "authorizing", "writing", "refusing"} => ~Replaced(c)
  BY <1>1 DEF ConfigInv, WrittenOnce, Replaced
<1>3. CASE written' = Append(written, c) /\ Goto(c, "writing", "succeeding")
  BY <1>1, <1>3, ReplacedStep DEF WriteInv, Goto, CallsTypeOK
<1>4. CASE UNCHANGED written
  <2>1. \A d \in ConfigCalls : Replaced(d)' <=> Replaced(d)
    BY <1>4 DEF Replaced
  <2>2. CASE FailRead(c) \/ RefuseWrite(c) \/ AuditFailedWrite(c) \/ Die(c)
    BY <1>1, <1>2, <2>1, <2>2 DEF FailRead, RefuseWrite, AuditFailedWrite, Die, SinkRejects, Return, Goto,
       CallsTypeOK, TextOK, WriteInv, CallRecordInv
  <2>3. CASE Authorize(c) \/ AuditWrite(c) \/ (\E source : Propose(c, source))
    BY <1>1, <1>2, <2>1, <2>3 DEF Authorize, AuditWrite, Propose, Return, Fail, Goto, CallsTypeOK, TextOK, WriteInv,
       CallRecordInv
  <2>4. CASE WriteConfig(c) /\ ~Goto(c, "writing", "succeeding")
    BY <1>1, <1>2, <2>1, <2>4 DEF WriteConfig, Fail, Goto, CallsTypeOK, TextOK, WriteInv
  <2>5. CASE WriteConfig(c) /\ Goto(c, "writing", "succeeding")
    <3>1. written' = Append(written, c)
      BY <1>1, <2>5 DEF WriteConfig, Fail, Goto, CallsTypeOK
    <3>2. QED
      BY <1>3, <2>5, <3>1
  <2>6. QED
    BY <2>2, <2>3, <2>4, <2>5 DEF ConfigStep, Edit, Overwrite
<1>5. (written' = Append(written, c) /\ Goto(c, "writing", "succeeding")) \/ UNCHANGED written
  BY DEF ConfigStep, Edit, Overwrite, Propose, FailRead, Authorize, RefuseWrite, WriteConfig, AuditWrite,
     AuditFailedWrite, Die, configVars
<1>6. \A d \in ConfigCalls \ {c} : Replaced(d)' <=> Replaced(d)
  BY <1>1, <1>5, ReplacedStep DEF Replaced
<1>7. QED
  BY <1>3, <1>4, <1>5, <1>6
-----------------------------------------------------------------------------
(* What a resolution has collected *)

\* The references among the first n that are active, and those without a value.
ActiveUpTo(c, n) == {i \in 1..n : ActiveOf[c][i]}
WarnedUpTo(c, n) == {i \in 1..n : answers[c][i] # "value"}

\* The first n references are in the snapshot or in its warnings.
Collected(c, n) ==
  /\ secrets[c] = ActiveUpTo(c, n)
  /\ \A i \in 1..n : answers[c][i] # "value" => ~ActiveOf[c][i]
  /\ DOMAIN warnings[c] = 1..Len(warnings[c]) /\ Len(warnings[c]) = Cardinality(WarnedUpTo(c, n))
  /\ {warnings[c][j].of : j \in DOMAIN warnings[c]} = WarnedUpTo(c, n)
  /\ \A j \in DOMAIN warnings[c] : warnings[c][j].status = answers[c][warnings[c][j].of]

SnapshotInv(c) ==
  /\ at[c] # "over" => result[c] = "none"
  /\ Current(c) <= Len(ActiveOf[c])
  /\ at[c] \in {"reading", "granting_read", "forbidding_read", "looking_up", "read_denied", "read_failed"} =>
       Current(c) < Len(ActiveOf[c])
  /\ at[c] = "answered" => Current(c) # 0 /\ Collected(c, Current(c) - 1)
  /\ at[c] \notin {"answered", "over"} => Collected(c, Current(c))
  /\ at[c] = "over" =>
       IF result[c] = "ok" THEN Current(c) = Len(ActiveOf[c]) /\ Collected(c, Current(c))
       ELSE Current(c) # 0 /\ (Latest(c) \in {"failed", "invalid"} \/ ActiveOf[c][Current(c)])

SnapshotTypeOK ==
  /\ AnswersOK
  /\ secrets = [c \in Resolutions |-> secrets[c]] /\ warnings = [c \in Resolutions |-> warnings[c]]
  /\ \A c \in Resolutions : warnings[c] \in Seq([of : Nat, status : Answers])

\* What was collected does not depend on answers that come later.
LEMMA CollectedKept ==
  ASSUME AnswersOK, NEW c \in Resolutions, NEW n \in 0..Current(c), Collected(c, n),
         UNCHANGED <<secrets, warnings>>, \A i \in 1..n : answers'[c][i] = answers[c][i]
  PROVE  Collected(c, n)'
<1>1. WarnedUpTo(c, n)' = WarnedUpTo(c, n)
  BY DEF WarnedUpTo
<1>2. \A j \in DOMAIN warnings[c] : warnings[c][j].of \in 1..n
  BY DEF Collected, WarnedUpTo
<1>3. QED
  BY <1>1, <1>2 DEF Collected, ActiveUpTo

\* A reader that answers has one more reference to collect.
LEMMA AnswerKeepsSnapshot ==
  ASSUME SnapshotTypeOK, CallsTypeOK, TextOK, NEW c \in Resolutions, SnapshotInv(c),
         NEW from, from \notin {"over", "answered"}, NEW answer \in Answers, Answer(c, from, answer),
         Current(c) < Len(ActiveOf[c])
  PROVE  SnapshotInv(c)'
<1>1. c \in Readers /\ c \in Calls /\ answers[c] \in Seq(Answers) /\ Len(ActiveOf[c]) \in Nat
  BY SecretsAssumption DEF SnapshotTypeOK, AnswersOK
<1>2. answers'[c] = Append(answers[c], answer)
  BY <1>1 DEF Answer, SnapshotTypeOK, AnswersOK
<1>3. Current(c)' = Current(c) + 1 /\ Current(c) \in Nat /\ \A i \in 1..Current(c) : answers'[c][i] = answers[c][i]
  BY <1>1, <1>2 DEF Current
<1>4. at[c] = from /\ at'[c] = "answered" /\ UNCHANGED <<result, secrets, warnings>>
  BY <1>1 DEF Answer, Goto, CallsTypeOK
<1>5. Collected(c, Current(c))
  BY <1>4 DEF SnapshotInv
<1>6. PICK n \in Nat : n = Current(c)
  BY <1>3
<1>7. Collected(c, n)'
  BY <1>3, <1>4, <1>5, <1>6, CollectedKept DEF SnapshotTypeOK
<1>8. Current(c)' - 1 = n
  BY <1>3, <1>6
<1>9. result'[c] = "none"
  BY <1>4 DEF SnapshotInv
<1>10. Current(c)' <= Len(ActiveOf[c]) /\ Current(c)' # 0
  BY <1>1, <1>3
<1>11. QED
  BY <1>4, <1>7, <1>8, <1>9, <1>10 DEF SnapshotInv

\* A resolution that goes on without an answer.
LEMMA GoingOnKeepsSnapshot ==
  ASSUME SnapshotTypeOK, NEW c \in Resolutions, SnapshotInv(c), UNCHANGED <<secretVars, result>>,
         at[c] \notin {"over", "answered"}, at'[c] \notin {"over", "answered"},
         at'[c] \in {"reading", "granting_read", "forbidding_read", "looking_up", "read_denied", "read_failed"} =>
           Current(c) < Len(ActiveOf[c])
  PROVE  SnapshotInv(c)'
<1>1. c \in Readers /\ answers[c] \in Seq(Answers)
  BY SecretsAssumption DEF SnapshotTypeOK, AnswersOK
<1>2. Current(c)' = Current(c) /\ Current(c) \in Nat /\ Collected(c, Current(c))
  BY <1>1 DEF Current, secretVars, SnapshotInv
<1>3. PICK n \in Nat : n = Current(c)
  BY <1>2
<1>4. Collected(c, n)'
  BY <1>2, <1>3, CollectedKept DEF SnapshotTypeOK, secretVars
<1>5. QED
  BY <1>2, <1>3, <1>4 DEF SnapshotInv

\* The answer is collected: a value of an active reference into the snapshot,
\* what is missing from an inactive one into the warnings.
LEMMA CollectKeepsCollected ==
  ASSUME SnapshotTypeOK, CallsTypeOK, NEW c \in Resolutions, SnapshotInv(c), Collect(c), Outcome(c) # "error"
  PROVE  Collected(c, Current(c))' /\ SnapshotTypeOK'
<1>1. c \in Readers /\ answers[c] \in Seq(Answers) /\ Len(ActiveOf[c]) \in Nat /\ ActiveOf[c] \in Seq(BOOLEAN)
  BY SecretsAssumption DEF SnapshotTypeOK, AnswersOK
<1>2. PICK n \in Nat : n = Current(c)
  BY <1>1 DEF Current
<1>3. at[c] = "answered" /\ n \in 1..Len(ActiveOf[c]) /\ Collected(c, n - 1) /\ Current(c)' = n
  BY <1>1, <1>2 DEF Collect, SnapshotInv, Current
<1>4. answers' = answers /\ Latest(c) = answers[c][n] /\ answers[c][n] \in Answers
  BY <1>1, <1>2, <1>3 DEF Collect, Latest, Current
<1>5. 1..n = (1..(n - 1)) \cup {n} /\ n \notin 1..(n - 1)
  BY <1>3
<1>6. ActiveUpTo(c, n) = IF ActiveOf[c][n] THEN ActiveUpTo(c, n - 1) \cup {n} ELSE ActiveUpTo(c, n - 1)
  BY <1>5 DEF ActiveUpTo
<1>7. WarnedUpTo(c, n) = IF answers[c][n] # "value" THEN WarnedUpTo(c, n - 1) \cup {n} ELSE WarnedUpTo(c, n - 1)
  BY <1>5 DEF WarnedUpTo
<1>8. ActiveUpTo(c, n)' = ActiveUpTo(c, n) /\ WarnedUpTo(c, n)' = WarnedUpTo(c, n)
  BY <1>4 DEF ActiveUpTo, WarnedUpTo
<1>9. /\ secrets' = IF Outcome(c) = "resolved" /\ ActiveOf[c][n] THEN [secrets EXCEPT ![c] = secrets[c] \cup {n}] ELSE secrets
      /\ warnings' = IF Outcome(c) = "warning" THEN [warnings EXCEPT ![c] = Append(warnings[c], [of |-> n, status |-> answers[c][n]])]
                     ELSE warnings
  <2>1. ~(Outcome(c) = "error" /\ Return(c, "answered", SecretError(c)) /\ UNCHANGED <<secrets, warnings>>)
    OBVIOUS
  <2>2. QED
    BY <1>2, <1>4, <2>1 DEF Collect
<1>10. CASE answers[c][n] = "value"
  <2>1. Outcome(c) = "resolved"
    BY <1>4, <1>10 DEF Outcome
  <2>2. warnings' = warnings /\ secrets'[c] = ActiveUpTo(c, n) /\ secrets' = [d \in Resolutions |-> secrets'[d]]
    BY <1>3, <1>6, <1>9, <2>1 DEF SnapshotTypeOK, Collected
  <2>3. WarnedUpTo(c, n) = WarnedUpTo(c, n - 1)
    BY <1>7, <1>10
  <2>4. \A i \in 1..n : answers[c][i] # "value" => ~ActiveOf[c][i]
    BY <1>3, <1>5, <1>10 DEF Collected
  <2>5. Collected(c, n)'
    BY <1>3, <1>4, <1>8, <2>2, <2>3, <2>4 DEF Collected
  <2>6. QED
    BY <1>2, <1>3, <1>4, <2>2, <2>5 DEF SnapshotTypeOK, AnswersOK
<1>11. CASE answers[c][n] # "value"
  <2>1. Outcome(c) = "warning" /\ ~ActiveOf[c][n]
    BY <1>2, <1>4, <1>11 DEF Outcome
  <2>2. secrets' = secrets /\ warnings'[c] = Append(warnings[c], [of |-> n, status |-> answers[c][n]])
        /\ warnings' = [d \in Resolutions |-> warnings'[d]]
        /\ \A d \in Resolutions \ {c} : warnings'[d] = warnings[d]
    BY <1>9, <2>1 DEF SnapshotTypeOK
  <2>3. WarnedUpTo(c, n) = WarnedUpTo(c, n - 1) \cup {n} /\ n \notin WarnedUpTo(c, n - 1)
    BY <1>5, <1>7, <1>11 DEF WarnedUpTo
  <2>4. \A i \in 1..n : answers[c][i] # "value" => ~ActiveOf[c][i]
    BY <1>3, <1>5, <2>1 DEF Collected
  <2>5. Cardinality(WarnedUpTo(c, n)) = Cardinality(WarnedUpTo(c, n - 1)) + 1
    <3>1. IsFiniteSet(1..(n - 1))
      <4>1. n - 1 \in Nat
        BY <1>3
      <4>2. QED
        BY <4>1, FS_Interval
    <3>2. IsFiniteSet(WarnedUpTo(c, n - 1))
      BY <3>1, FS_Subset DEF WarnedUpTo
    <3>3. QED
      BY <2>3, <3>2, FS_AddElement
  <2> DEFINE w == warnings[c]
             v == warnings'[c]
             m == Len(warnings[c])
  <2>6. w \in Seq([of : Nat, status : Answers]) /\ [of |-> n, status |-> answers[c][n]] \in [of : Nat, status : Answers]
    BY <1>4 DEF SnapshotTypeOK
  <2>7. /\ v \in Seq([of : Nat, status : Answers]) /\ m \in Nat /\ Len(v) = m + 1 /\ DOMAIN v = 1..(m + 1) /\ DOMAIN w = 1..m
        /\ v[m + 1] = [of |-> n, status |-> answers[c][n]]
        /\ \A j \in 1..m : v[j] = w[j]
    BY <2>2, <2>6
  <2>8. \A j \in 1..m : w[j].status = answers[c][w[j].of]
    BY <1>3, <2>7 DEF Collected
  <2>9. v[m + 1].of = n /\ v[m + 1].status = answers[c][v[m + 1].of] /\ 1..(m + 1) = (1..m) \cup {m + 1}
    BY <2>7
  <2>10. /\ {v[j].of : j \in 1..(m + 1)} = {w[j].of : j \in 1..m} \cup {n}
         /\ \A j \in 1..(m + 1) : v[j].status = answers[c][v[j].of]
    <3>1. \A j \in 1..m : v[j] = w[j]
      BY <2>7
    <3> HIDE DEF v, w, m
    <3>2. {v[j].of : j \in 1..(m + 1)} = {v[j].of : j \in 1..m} \cup {v[m + 1].of}
      BY <2>9, Zenon
    <3>3. {v[j].of : j \in 1..m} = {w[j].of : j \in 1..m}
      BY <3>1
    <3>4. \A j \in 1..m : v[j].status = answers[c][v[j].of]
      BY <2>8, <3>1
    <3>5. \A j \in 1..(m + 1) : v[j].status = answers[c][v[j].of]
      BY <2>9, <3>4
    <3>6. QED
      BY <2>9, <3>2, <3>3, <3>5
  <2>11. SnapshotTypeOK'
    BY <1>4, <2>2, <2>7 DEF SnapshotTypeOK, AnswersOK
  <2>12. Collected(c, n)'
    BY <1>3, <1>4, <1>6, <1>8, <2>1, <2>2, <2>3, <2>4, <2>5, <2>7, <2>10 DEF Collected
  <2>13. QED
    BY <1>2, <1>3, <2>11, <2>12
<1>12. QED
  BY <1>10, <1>11

\* The steps of resolveSecretRefs.
LEMMA ResolutionKeepsSnapshot ==
  ASSUME SnapshotTypeOK, CallsTypeOK, TextOK, NEW c \in Resolutions, SnapshotInv(c), ResolutionStep(c)
  PROVE  SnapshotInv(c)' /\ SnapshotTypeOK'
<1>1. c \in Readers /\ c \in Calls /\ answers[c] \in Seq(Answers) /\ Len(ActiveOf[c]) \in Nat
  BY SecretsAssumption DEF SnapshotTypeOK, AnswersOK
<1>2. CASE \E from \in {"looking_up", "read_denied", "read_failed", "resolving"}, answer \in Answers :
             Answer(c, from, answer) /\ (from = "resolving" => Current(c) < Len(ActiveOf[c]))
  <2>1. SnapshotInv(c)'
    <3>1. PICK from \in {"looking_up", "read_denied", "read_failed", "resolving"}, answer \in Answers :
             Answer(c, from, answer) /\ (from = "resolving" => Current(c) < Len(ActiveOf[c]))
      BY <1>2
    <3>2. Current(c) < Len(ActiveOf[c])
      BY <3>1 DEF Answer, Goto, SnapshotInv
    <3>3. QED
      BY <3>1, <3>2, AnswerKeepsSnapshot
  <2>2. AnswersOK' /\ UNCHANGED <<secrets, warnings>>
    BY <1>1, <1>2, AnswerStep DEF Answer, SnapshotTypeOK, AnswersOf
  <2>3. QED
    BY <2>1, <2>2 DEF SnapshotTypeOK
<1>3. CASE AskForSecret(c) \/ Resolve(c) \/ (Validate(c) /\ Goto(c, "resolving", "reading"))
  <2>1. /\ UNCHANGED <<secretVars, result>>
        /\ at[c] \notin {"over", "answered"} /\ at'[c] \notin {"over", "answered"}
        /\ at'[c] \in {"reading", "granting_read", "forbidding_read", "looking_up", "read_denied", "read_failed"} =>
             Current(c) < Len(ActiveOf[c])
    BY <1>1, <1>3 DEF AskForSecret, Ask, Decide, RecordDecision, SecretCheck, Resolve, Validate, Answer, Fail, Goto, CallsTypeOK,
       SnapshotInv
  <2>2. QED
    BY <2>1, GoingOnKeepsSnapshot DEF SnapshotTypeOK, AnswersOK, secretVars
<1>4. CASE Collect(c) /\ Outcome(c) # "error"
  <2>1. Collected(c, Current(c))' /\ SnapshotTypeOK'
    BY <1>4, CollectKeepsCollected
  <2>2. at[c] = "answered" /\ at'[c] = "resolving" /\ UNCHANGED <<answers, result>>
    BY <1>1, <1>4 DEF Collect, Return, Goto, CallsTypeOK
  <2>3. Current(c)' = Current(c)
    BY <2>2 DEF Current
  <2>4. QED
    BY <2>1, <2>2, <2>3 DEF SnapshotInv
<1>5. CASE Collect(c) /\ Outcome(c) = "error"
  <2>1. at[c] = "answered" /\ at'[c] = "over" /\ result'[c] = SecretError(c) /\ UNCHANGED secretVars
    BY <1>1, <1>5 DEF Collect, Return, Goto, CallsTypeOK, TextOK, secretVars
  <2>2. Current(c)' = Current(c) /\ Latest(c)' = Latest(c)
    BY <2>1 DEF Current, Latest, secretVars
  <2>3. Latest(c) \in Answers
    BY <1>1, <2>1 DEF SnapshotInv, Latest, Current
  <2>4. Latest(c) \in {"failed", "invalid"} \/ ActiveOf[c][Current(c)]
    BY <1>5, <2>3 DEF Outcome, Answers
  <2>5. SecretError(c) # "ok"
    BY DEF SecretError
  <2>6. QED
    BY <2>1, <2>2, <2>4, <2>5 DEF SnapshotInv, SnapshotTypeOK, AnswersOK, secretVars
<1>6. CASE ReturnSnapshot(c)
  <2>1. at[c] = "resolving" /\ at'[c] = "over" /\ result'[c] = "ok" /\ UNCHANGED secretVars /\ Current(c) = Len(ActiveOf[c])
    BY <1>1, <1>6 DEF ReturnSnapshot, Return, Goto, CallsTypeOK, TextOK
  <2>2. PICK n \in Nat : n = Current(c)
    BY <1>1 DEF Current
  <2>3. Collected(c, n)' /\ Current(c)' = n
    BY <2>1, <2>2, CollectedKept DEF SnapshotInv, SnapshotTypeOK, secretVars, Current
  <2>4. QED
    BY <2>1, <2>2, <2>3 DEF SnapshotInv, SnapshotTypeOK, AnswersOK, secretVars
<1>7. QED
  BY <1>2, <1>3, <1>4, <1>5, <1>6 DEF ResolutionStep, SecretStep, Validate, AuditSecretSafely, LookUp, Answers

\* Resolutions that stay where they are.
LEMMA OthersKeepSnapshot ==
  ASSUME NEW c, at'[c] = at[c], result'[c] = result[c], answers'[c] = answers[c], secrets'[c] = secrets[c],
         warnings'[c] = warnings[c], SnapshotInv(c)
  PROVE  SnapshotInv(c)'
<1>1. Current(c)' = Current(c) /\ Latest(c)' = Latest(c)
  BY DEF Current, Latest
<1>2. ASSUME NEW n PROVE Collected(c, n)' <=> Collected(c, n)
  <2>1. WarnedUpTo(c, n)' = WarnedUpTo(c, n)
    BY DEF WarnedUpTo
  <2>2. QED
    BY <2>1 DEF Collected
<1>3. /\ Collected(c, Current(c))' <=> Collected(c, Current(c))
      /\ Collected(c, Current(c) - 1)' <=> Collected(c, Current(c) - 1)
  <2>1. PICK n : n = Current(c)
    OBVIOUS
  <2>2. PICK m : m = Current(c) - 1
    OBVIOUS
  <2>3. (Collected(c, n)' <=> Collected(c, n)) /\ (Collected(c, m)' <=> Collected(c, m))
    BY <1>2
  <2>4. QED
    BY <1>1, <2>1, <2>2, <2>3 DEF Collected, WarnedUpTo, ActiveUpTo
<1>4. QED
  BY <1>1, <1>3 DEF SnapshotInv

\* A resolution that is over has collected all of its references, or failed at
\* one for which it may.
LEMMA SnapshotOfInv ==
  ASSUME SnapshotTypeOK, \A c \in Resolutions : SnapshotInv(c)
  PROVE  SnapshotIsExact
<1> SUFFICES ASSUME NEW c \in Resolutions
             PROVE  LET active == {i \in DOMAIN ActiveOf[c] : ActiveOf[c][i]}
                        warned == {i \in DOMAIN ActiveOf[c] \ active : answers[c][i] # "value"}
                    IN /\ result[c] = "ok" =>
                            /\ secrets[c] = active
                            /\ {warnings[c][i].of : i \in DOMAIN warnings[c]} = warned
                            /\ \A i \in DOMAIN warnings[c] : warnings[c][i].status = answers[c][warnings[c][i].of]
                            /\ Len(warnings[c]) = Cardinality(warned)
                       /\ result[c] \notin {"none", "ok"} => Latest(c) \in {"failed", "invalid"} \/ Current(c) \in active
  BY DEF SnapshotIsExact
<1> DEFINE n == Len(ActiveOf[c])
           active == {i \in DOMAIN ActiveOf[c] : ActiveOf[c][i]}
           warned == {i \in DOMAIN ActiveOf[c] \ active : answers[c][i] # "value"}
<1>1. n \in Nat /\ DOMAIN ActiveOf[c] = 1..n /\ SnapshotInv(c) /\ Current(c) \in Nat
  BY SecretsAssumption DEF SnapshotTypeOK, AnswersOK, Current
<1>2. ActiveUpTo(c, n) = active
  BY <1>1 DEF ActiveUpTo
<1>3. CASE result[c] = "ok"
  <2>1. Collected(c, n)
    BY <1>3, <1>1 DEF SnapshotInv
  <2>2. WarnedUpTo(c, n) = warned
    BY <1>1, <2>1 DEF WarnedUpTo, Collected
  <2>3. QED
    BY <1>2, <1>3, <2>1, <2>2 DEF Collected
<1>4. CASE result[c] \notin {"none", "ok"}
  <2>1. Current(c) \in 1..n /\ (Latest(c) \in {"failed", "invalid"} \/ ActiveOf[c][Current(c)])
    BY <1>1, <1>4 DEF SnapshotInv
  <2>2. QED
    BY <1>1, <1>4, <2>1
<1>5. QED
  BY <1>3, <1>4
-----------------------------------------------------------------------------
(* All calls together *)

RecordsInv ==
  /\ TextOK
  /\ RecordInv(Shell)
  /\ \A c \in ChatCalls \cup ConfigCalls : CallRecordInv(c)
  /\ \A c \in ConfigCalls : WriteInv(c)

SnapshotsInv == SnapshotTypeOK /\ \A c \in Resolutions : SnapshotInv(c)

ServicesInv == ConsentInv /\ ConfigInv /\ OutputInv /\ CommandInv /\ RecordsInv /\ SnapshotsInv

\* What a step of one call leaves alone.
LEMMA OthersKeepRecords ==
  ASSUME RecordsInv, NEW c \in Calls, StepOf(c), TextOf(c),
         \A d \in ConfigCalls \ {c} : Replaced(d)' <=> Replaced(d)
  PROVE  /\ TextOK'
         /\ c # Shell => RecordInv(Shell)'
         /\ \A d \in (ChatCalls \cup ConfigCalls) \ {c} : CallRecordInv(d)'
         /\ \A d \in ConfigCalls \ {c} : WriteInv(d)'
<1>1. \A d \in Calls \ {c} : at'[d] = at[d] /\ trail'[d] = trail[d] /\ error'[d] = error[d] /\ result'[d] = result[d]
  BY DEF StepOf, TextOf
<1>2. c # Shell => RecordInv(Shell)'
  BY <1>1, Families DEF RecordsInv, RecordInv, Open, Begun, Closed
<1>3. \A d \in (ChatCalls \cup ConfigCalls) \ {c} : CallRecordInv(d)'
  BY <1>1, Families DEF RecordsInv, CallRecordInv, Open, Closed
<1>4. \A d \in ConfigCalls \ {c} : WriteInv(d)'
  BY <1>1, Families, OthersKeepWrite DEF RecordsInv
<1>5. QED
  BY <1>2, <1>3, <1>4 DEF TextOf

\* Steps of other calls.
LEMMA OthersKeepCommand ==
  ASSUME CommandInv, UNCHANGED shellVars, at'[Shell] = at[Shell], trail'[Shell] = trail[Shell]
  PROVE  CommandInv'
BY DEF CommandInv, EndedWell, Denied, Succeeded, Recorded, Records, shellVars, childVars, racerVars

\* Nothing has happened.
LEMMA InitialServices == ServicesInit => ServicesInv
<1> SUFFICES ASSUME ServicesInit PROVE ServicesInv
  OBVIOUS
<1>1. ConsentInv /\ ConfigInv
  BY InitialConsent, InitialConfig
<1>2. /\ \A c \in Calls : at[c] \in {"idle", "never"} /\ error[c] = "none" /\ result[c] = "none" /\ trail[c] = <<>>
      /\ TextOK
  BY DEF ServicesInit, CallsInit, TextOK
<1>3. OutputInv
  <2>1. sent = <<>> /\ pipe = <<>> /\ kept = <<>> /\ bytes = 0 /\ truncated = FALSE /\ child = "none"
    BY DEF ServicesInit, ShellInit
  <2>2. <<>> \in Seq(Chars) /\ Len(<<>>) = 0 /\ SubSeq(<<>>, 1, 0) = <<>>
    OBVIOUS
  <2>3. ~(Len(sent) > bytes) /\ kept = SubSeq(sent, 1, bytes) /\ bytes <= MaxBytes
    BY <2>1, <2>2, ShellAssumption
  <2>4. sent \in Seq(Chars) /\ pipe \in Seq(Chars) /\ bytes \in Nat /\ bytes <= Len(sent)
    BY <2>1, <2>2
  <2>5. truncated \in BOOLEAN /\ (truncated <=> Len(sent) > bytes) /\ (truncated => bytes = MaxBytes)
    BY <2>1, <2>3, Zenon
  <2>6. child # "closed"
    BY <2>1
  <2>7. QED
    BY <2>3, <2>4, <2>5, <2>6 DEF OutputInv
<1>4. CommandInv
  BY <1>2, Families DEF ServicesInit, ShellInit, CommandInv, Before, Denied, Succeeded, Recorded, Records
<1>5. RecordsInv
  <2>1. RecordInv(Shell)
    BY <1>2, Families DEF RecordInv, Early, Open
  <2>2. \A c \in ChatCalls \cup ConfigCalls : CallRecordInv(c)
    BY <1>2, Families DEF CallRecordInv, Open
  <2>3. \A c \in ConfigCalls : WriteInv(c)
    BY <1>2, Families DEF WriteInv
  <2>4. QED
    BY <1>2, <2>1, <2>2, <2>3 DEF RecordsInv
<1>6. SnapshotsInv
  <2>1. SnapshotTypeOK
    BY DEF ServicesInit, SecretsInit, SnapshotTypeOK, AnswersOK
  <2>2. ASSUME NEW c \in Resolutions PROVE SnapshotInv(c)
    <3>1. /\ at[c] \in {"idle", "never"} /\ result[c] = "none" /\ Current(c) = 0 /\ secrets[c] = {} /\ warnings[c] = <<>>
          /\ Len(ActiveOf[c]) \in Nat
      BY <1>2, Families, SecretsAssumption DEF ServicesInit, SecretsInit, Current
    <3>2. WarnedUpTo(c, 0) = {} /\ ActiveUpTo(c, 0) = {}
      BY DEF WarnedUpTo, ActiveUpTo
    <3>3. Collected(c, 0)
      <4>1. DOMAIN warnings[c] = {} /\ 1..0 = {} /\ Len(warnings[c]) = 0 /\ DOMAIN warnings[c] = 1..0
        BY <3>1
      <4>2. {warnings[c][j].of : j \in DOMAIN warnings[c]} = {}
        BY <4>1
      <4>3. QED
        BY <3>1, <3>2, <4>1, <4>2, FS_EmptySet DEF Collected
    <3>4. QED
      BY <3>1, <3>3 DEF SnapshotInv
  <2>3. QED
    BY <2>1, <2>2 DEF SnapshotsInv
<1>7. QED
  BY <1>1, <1>3, <1>4, <1>5, <1>6 DEF ServicesInv

\* The invariant is inductive.
LEMMA StepKeepsServices == ServicesInv /\ [ServicesNext]_servicesVars => ServicesInv'
<1> SUFFICES ASSUME ServicesInv, [ServicesNext]_servicesVars PROVE ServicesInv'
  OBVIOUS
<1>1. /\ ConsentInv /\ ConfigInv /\ OutputInv /\ CommandInv /\ RecordsInv /\ SnapshotsInv
      /\ CallsTypeOK /\ AnswersOK /\ TextOK /\ SnapshotTypeOK
  BY DEF ServicesInv, ConsentInv, RecordsInv, SnapshotsInv
<1>2. ConsentInv' /\ ConfigInv'
  BY <1>1, StepKeepsConsent, StepKeepsConfig
<1>3. ASSUME UNCHANGED shellVars PROVE OutputInv'
  BY <1>1, <1>3 DEF OutputInv, shellVars, childVars, outputVars
<1>4. ASSUME UNCHANGED written PROVE \A d \in ConfigCalls : Replaced(d)' <=> Replaced(d)
  BY <1>4 DEF Replaced
<1>5. ASSUME UNCHANGED secretVars, NEW c \in Calls \ Resolutions, StepOf(c), TextOf(c) PROVE SnapshotsInv'
  <2>1. \A d \in Resolutions : SnapshotInv(d)'
    BY <1>1, <1>5, Families, OthersKeepSnapshot DEF SnapshotsInv, StepOf, TextOf, secretVars
  <2>2. QED
    BY <1>1, <1>5, <2>1 DEF SnapshotsInv, SnapshotTypeOK, AnswersOK, secretVars
<1>6. CASE ((InvocationStep(Shell) /\ UNCHANGED shellVars) \/ ShellCallStep) /\ UNCHANGED <<beyondVars, configVars>>
  <2>1. StepOf(Shell) /\ TextOf(Shell)
    BY <1>1, <1>6, InvocationMoves, ShellMoves, CommandText, Families
  <2>2. RecordsInv'
    <3>1. RecordInv(Shell)'
      BY <1>1, <1>6, InvocationKeepsRecords, HandlerKeepsToolRecords, Families DEF RecordsInv
    <3>2. QED
      BY <1>1, <1>4, <1>6, <2>1, <3>1, OthersKeepRecords, Families DEF RecordsInv, configVars
  <2>3. CommandInv'
    BY <1>1, <1>6, InvocationKeepsCommand, HandlerKeepsCommand
  <2>4. OutputInv'
    BY <1>1, <1>3, <1>6, ShellKeepsOutput
  <2>5. SnapshotsInv'
    BY <1>5, <1>6, <2>1, Families DEF beyondVars
  <2>6. QED
    BY <1>2, <2>2, <2>3, <2>4, <2>5 DEF ServicesInv
<1>7. CASE ShellEvent /\ UNCHANGED <<at, error, result, trail, beyondVars, configVars>>
  <2>1. StepOf(Shell) /\ TextOf(Shell)
    BY <1>1, <1>7 DEF StepOf, TextOf, CallsTypeOK, TextOK
  <2>2. RecordsInv'
    <3>1. RecordInv(Shell)'
      BY <1>1, <1>7 DEF RecordsInv, RecordInv, Open, Begun, Closed
    <3>2. QED
      BY <1>1, <1>4, <1>7, <2>1, <3>1, OthersKeepRecords, Families DEF RecordsInv, configVars
  <2>3. CommandInv' /\ OutputInv'
    BY <1>1, <1>7, EventKeepsCommand, ShellKeepsOutput
  <2>4. SnapshotsInv'
    BY <1>5, <1>7, <2>1, Families DEF beyondVars
  <2>5. QED
    BY <1>2, <2>2, <2>3, <2>4 DEF ServicesInv
<1>8. ASSUME NEW c \in ChatCalls, ChatStep(c) \/ Respond(c) \/ Cancel(c), UNCHANGED <<shellVars, configVars>>
      PROVE  ServicesInv'
  <2>1. c \in Calls \ Resolutions /\ c # Shell /\ c \notin ConfigCalls /\ StepOf(c) /\ TextOf(c) /\ AnswersOf(c)
    BY <1>1, <1>8, ChatMoves, ChatText, Families
  <2>2. UNCHANGED <<secrets, warnings>>
    BY <1>8 DEF ChatStep, Chat, AskForChat, RefuseChat, AuditMockAnswer, CallAdapter, AskForEndpoint, ReadCredential,
       SecretStep, Validate, AskForSecret, AuditSecretSafely, LookUp, Answer, Post, AbortRequest, CheckSignal,
       AuditAnswer, CatchChat, Respond, Cancel, secretVars
  <2>3. RecordsInv'
    <3>1. CallRecordInv(c)'
      BY <1>1, <1>8, <2>1, ChatKeepsRecords DEF RecordsInv
    <3>2. QED
      BY <1>1, <1>4, <1>8, <2>1, <3>1, OthersKeepRecords DEF RecordsInv, configVars
  <2>4. SnapshotsInv'
    <3>1. \A d \in Resolutions : SnapshotInv(d)'
      BY <1>1, <2>1, <2>2, Families, OthersKeepSnapshot, SecretsAssumption DEF SnapshotsInv, StepOf, TextOf, AnswersOf
    <3>2. QED
      BY <1>1, <2>1, <2>2, <3>1 DEF SnapshotsInv, SnapshotTypeOK, AnswersOf
  <2>5. CommandInv' /\ OutputInv'
    BY <1>1, <1>3, <1>8, <2>1, OthersKeepCommand, Families DEF StepOf
  <2>6. QED
    BY <1>2, <2>3, <2>4, <2>5 DEF ServicesInv
<1>9. ASSUME NEW c \in Resolutions, ResolutionStep(c), UNCHANGED <<shellVars, providerVars, configVars>>
      PROVE  ServicesInv'
  <2>1. c \in Calls /\ c # Shell /\ c \notin ChatCalls \cup ConfigCalls /\ StepOf(c) /\ TextOf(c) /\ AnswersOf(c)
    BY <1>1, <1>9, ResolutionMoves, ResolutionText, Families
  <2>2. RecordsInv'
    BY <1>1, <1>4, <1>9, <2>1, OthersKeepRecords DEF RecordsInv, configVars
  <2>3. SnapshotsInv'
    <3>1. SnapshotInv(c)' /\ SnapshotTypeOK'
      BY <1>1, <1>9, ResolutionKeepsSnapshot DEF SnapshotsInv
    <3>2. \A d \in Resolutions \ {c} : secrets'[d] = secrets[d] /\ warnings'[d] = warnings[d]
      BY <1>1, <1>9 DEF SnapshotTypeOK, ResolutionStep, Resolve, SecretStep, Validate, AskForSecret, AuditSecretSafely,
         LookUp, Answer, Collect, ReturnSnapshot, secretVars
    <3>3. \A d \in Resolutions \ {c} : SnapshotInv(d)'
      BY <1>1, <2>1, <3>2, Families, OthersKeepSnapshot, SecretsAssumption DEF SnapshotsInv, StepOf, TextOf, AnswersOf
    <3>4. QED
      BY <3>1, <3>3 DEF SnapshotsInv
  <2>4. CommandInv' /\ OutputInv'
    BY <1>1, <1>3, <1>9, <2>1, OthersKeepCommand, Families DEF StepOf
  <2>5. QED
    BY <1>2, <2>2, <2>3, <2>4 DEF ServicesInv
<1>10. ASSUME NEW c \in ConfigCalls, ConfigStep(c) \/ Die(c), UNCHANGED <<shellVars, beyondVars>>
       PROVE  ServicesInv'
  <2>1. c \in Calls \ Resolutions /\ c # Shell /\ c \notin ChatCalls /\ StepOf(c) /\ TextOf(c)
    BY <1>1, <1>10, ConfigMoves, ConfigText, Families
  <2>2. CallRecordInv(c)' /\ WriteInv(c)' /\ \A d \in ConfigCalls \ {c} : Replaced(d)' <=> Replaced(d)
    BY <1>1, <1>10, <2>1, ConfigKeepsRecords, ConfigKeepsWrites DEF RecordsInv
  <2>3. RecordsInv'
    BY <1>1, <2>1, <2>2, OthersKeepRecords DEF RecordsInv
  <2>4. SnapshotsInv'
    BY <1>5, <1>10, <2>1 DEF beyondVars
  <2>5. CommandInv' /\ OutputInv'
    BY <1>1, <1>3, <1>10, <2>1, OthersKeepCommand, Families DEF StepOf
  <2>6. QED
    BY <1>2, <2>3, <2>4, <2>5 DEF ServicesInv
<1>11. CASE UNCHANGED servicesVars
  <2>1. StepOf(Shell) /\ TextOf(Shell) /\ UNCHANGED <<shellVars, beyondVars, configVars, at, error, result, trail>>
    BY <1>1, <1>11 DEF servicesVars, callVars, StepOf, TextOf, CallsTypeOK, TextOK
  <2>2. RecordsInv'
    <3>1. RecordInv(Shell)'
      BY <1>1, <2>1 DEF RecordsInv, RecordInv, Open, Begun, Closed
    <3>2. QED
      BY <1>1, <1>4, <2>1, <3>1, OthersKeepRecords, Families DEF RecordsInv, configVars
  <2>3. CommandInv' /\ OutputInv'
    BY <1>1, <1>3, <2>1, OthersKeepCommand
  <2>4. SnapshotsInv'
    BY <1>5, <2>1, Families DEF beyondVars
  <2>5. QED
    BY <1>2, <2>2, <2>3, <2>4 DEF ServicesInv
<1>12. QED
  BY <1>6, <1>7, <1>8, <1>9, <1>10, <1>11, StepsOfFamilies

\* It holds throughout.
LEMMA ServicesHold == ServicesSpec => []ServicesInv
BY InitialServices, StepKeepsServices, PTL DEF ServicesSpec
-----------------------------------------------------------------------------
\* A promise that is resolved is one of a child that is closed.
LEMMA OutputOfInv == ServicesInv => OutputIsAccountedFor
<1>1. ServicesInv => OutputInv /\ CommandInv
  BY DEF ServicesInv
<1>2. OutputInv /\ CommandInv => OutputIsAccountedFor
  BY DEF OutputInv, CommandInv, OutputIsAccountedFor
<1>3. QED
  BY <1>1, <1>2

\* A call has its closing record when it is over, and no success before.
LEMMA RecordsOfInv == ServicesInv => RecordsAreTrue
<1> SUFFICES ASSUME ServicesInv PROVE RecordsAreTrue
  OBVIOUS
<1>1. CommandRecordIsTrue
  BY DEF ServicesInv, CommandInv, CommandRecordIsTrue, EndedWell, Denied, Succeeded
<1>2. ASSUME NEW c \in ConfigCalls PROVE Recorded(c, "call", "succeeded") <=> result[c] = "ok"
  <2>1. CallRecordInv(c) /\ trail[c] \in Trails
    BY Families DEF ServicesInv, RecordsInv, ConsentInv, CallsTypeOK
  <2>2. Open(trail[c], "call") => ~Recorded(c, "call", "succeeded")
    BY DEF Open, Recorded, Records
  <2>3. Closed(trail[c], "call", result[c]) => (Recorded(c, "call", "succeeded") <=> result[c] = "ok")
    <3>1. Len(trail[c]) \in Nat /\ DOMAIN trail[c] = 1..Len(trail[c])
      BY <2>1 DEF Trails
    <3>2. trail[c] # <<>> => Len(trail[c]) \in 1..Len(trail[c])
      BY <2>1 DEF Trails
    <3>3. \A i \in 1..Len(trail[c]) : i = Len(trail[c]) \/ i \in 1..(Len(trail[c]) - 1)
      BY <3>1
    <3>4. QED
      BY <3>1, <3>2, <3>3 DEF Closed, Recorded, Records, OutcomeOf
  <2>4. trail[c] = <<>> => Open(trail[c], "call")
    BY DEF Open
  <2>5. QED
    BY <2>1, <2>2, <2>3, <2>4 DEF CallRecordInv
<1>3. ASSUME NEW c \in ConfigCalls
      PROVE  (result[c] = "ok" => Replaced(c)) /\ (result[c] \in {"denied", "write_denied", "invalid"} => ~Replaced(c))
  BY DEF ServicesInv, RecordsInv, CallRecordInv, WriteInv
<1>4. WriteRecordIsTrue
  BY <1>2, <1>3 DEF WriteRecordIsTrue, Replaced
<1>5. QED
  BY <1>1, <1>4 DEF RecordsAreTrue

\* A call that returned ended with its closing record.
LEMMA ClosedOfInv == ServicesInv => ClosedOnce
<1> SUFFICES ASSUME ServicesInv, NEW c \in Calls \ Resolutions, Returned(c)
             PROVE  \/ result[c] \in {"unavailable", "invalid"} /\ trail[c] = <<>>
                    \/ result[c] = "lost"
                    \/ ClosedAsReturned(c, IF c = Shell THEN "tool" ELSE "call")
  BY DEF ClosedOnce
<1>1. CallsTypeOK
  BY DEF ServicesInv, ConsentInv
<1>2. CASE c = Shell
  <2>1. Closed(trail[c], "tool", result[c])
    BY <1>2 DEF ServicesInv, RecordsInv, RecordInv, Returned
  <2>2. QED
    BY <1>1, <1>2, <2>1, ClosedByLast
<1>3. CASE c \in ChatCalls \cup ConfigCalls
  <2>1. CallRecordInv(c)
    BY <1>3 DEF ServicesInv, RecordsInv
  <2>2. CASE Closed(trail[c], "call", result[c])
    BY <1>1, <1>3, <2>2, ClosedByLast, Families
  <2>3. QED
    BY <2>1, <2>2 DEF CallRecordInv, Returned
<1>4. QED
  BY <1>2, <1>3, ServicesAssumption

\* Of every resolution that is over.
LEMMA SnapshotsOfInv == ServicesInv => SnapshotIsExact
<1>1. ServicesInv => SnapshotTypeOK /\ \A c \in Resolutions : SnapshotInv(c)
  BY DEF ServicesInv, SnapshotsInv
<1>2. QED
  BY <1>1, SnapshotOfInv

\* What shell.execute returns as the output of a command that settled is all that
\* the command printed, or exactly the part that fits maxOutputBytes if it says so,
\* for every limit, every cut into chunks and every order of exit, release, data,
\* timeout and abort.
THEOREM OutputOfEveryCommand == ServicesSpec => []OutputIsAccountedFor
BY ServicesHold, OutputOfInv, PTL

\* What the audit says of a command and of every write of the configuration is what
\* happened: success is on record of a command that ended by itself, in time and
\* well, a denied one was never started, and a write is a success exactly when its
\* caller is told so, which takes a file that was replaced.
THEOREM EveryRecordIsTrue == ServicesSpec => []RecordsAreTrue
BY ServicesHold, RecordsOfInv, PTL

\* A command, a call of a provider and an edit of the configuration that return are
\* closed by exactly one record, the last one, that says what they returned,
\* however many policies, sinks, servers and disks fail.
THEOREM EveryCallIsClosedOnce == ServicesSpec => []ClosedOnce
BY ServicesHold, ClosedOfInv, PTL

\* resolveSecretRefs returns a value for every active reference and a warning for
\* each inactive one without a value, and fails for no inactive one that is denied
\* or unset, for any list of references.
THEOREM EverySnapshotIsExact == ServicesSpec => []SnapshotIsExact
BY ServicesHold, SnapshotsOfInv, PTL
=============================================================================

# Verification of Dominic Nexus

TLA+ specifications of the runtime of Dominic Nexus, an agent runtime in TypeScript on Node.js: the
turn queue, the agent runner with its provider calls, the transcript and session stores, the event
bus, the tool registry with its file, web and shell tools, the providers, secrets and configuration,
the memory stores and the command line chat. TLC checks small instances; TLAPS proves, for every
instance, the safety of the turn queue and its routing keys, of the agent runner, the session store and
the event bus, the permissions of tools, commands and provider requests, and what becomes of the edits
of the configuration. Paths below are relative to `src/`.

## 1. Inventory

The program is one Node.js process. JavaScript runs one job at a time, so everything between two
`await`s is atomic, and everything else is not: promise reactions, timers, abort signals, file
operations, provider answers, subscribers, and a person's answer to a prompt all come in between.
Nothing takes a lock on a file.

| Part | State | Operations | Hard because | Correct when |
|---|---|---|---|---|
| `SessionTurnQueue` (`packages/core/src/session-routing.ts`) | Map from routing key to the last promise | `enqueue` | the clean-up of a turn runs after later turns were chained; rejected turns | turns of a key run one by one in order of arrival; the Map neither leaks nor loses an entry |
| routing keys (same file) | none | create, parse, validate | one conversation can be spelled in several ways, with and without its default scope | two inputs share a key exactly if they mean the same conversation |
| `AgentRunner` (`packages/core/src/index.ts`) | none of its own between turns | `runTurn` | timer, caller's abort and answer race; late answers; each store can fail in the middle of a turn | audit, events, transcript and result of a turn tell the same story; a stuck provider does not block the key |
| providers (`packages/providers/src/index.ts`) | Map of providers | `chatResult`, register, list models; the OpenAI-compatible adapter | three permissions per request, each decided and audited while the call may be cancelled; an audit sink that throws inside and outside a `try` | no request without its permissions and its key; one outcome on record |
| transcript store (`packages/core/src/transcript-store.ts`) | JSONL file per session, chain of appends per session | `append`, `read` | appends cut off in the middle of a line; reads beside appends | a log per session with atomic appends |
| session store (`packages/core/src/session-store.ts`) | JSON document per session | `create`, `load`, `update`, `list` | load, write to one shared temporary name, rename, without a lock | a record per session that changes atomically |
| event bus (`packages/core/src/event-bus.ts`) | Set of subscribers | `subscribe`, unsubscribe, `emit` | the Set changes between two awaited deliveries | nobody skipped, nobody called after leaving |
| permissions (`packages/permissions/src/index.ts`) | rules | decisions for providers, files, shell, network; interactive approval | a decision is awaited and can throw | denial ends the operation, and every decision is audited first |
| tools (`packages/tools/src/index.ts`) | registry; files it replaces | `invokeResult`, file tools, web tools, shell executor | timeouts, cancellation, temporary files, children that keep pipes open | a tool returns once, within its time, and leaves files whole |
| memory (`packages/memory/src/index.ts`) | Markdown files, one for the root and one per day; a Map | `write`, `search`, `appendDailyNote`, `searchDailyNotes` | entries delimited by markers that an entry can quote; appends that were cut off | a search returns what was written, in order, or fails because a file is damaged |
| config (`packages/config/src/index.ts`) | JSON file | load, edit (set, unset, merge, replace), write | read-modify-write without a lock, from several processes; audit after the rename | the file is always a valid configuration; only an overlapping edit is lost |
| secrets (`packages/secrets/src/index.ts`) | none | `read`, `resolveSecretRef`, `resolveSecretRefs` | some failures are worth a warning only, depending on what failed and whether the reference is active | a snapshot has every active secret and says what else is missing |
| audit, logging (`packages/audit`, `packages/logging`) | a sink | append | the sink may throw | records complete and redacted |
| shared, plugin-sdk, channels | none | values and types | - | - |
| command line chat (`apps/cli/src/chat.ts`) | lines typed ahead, waiters; the history of the chat | `question`, the line and close events, the loop | lines typed ahead, an approval prompt in the middle of a call, input closed at any time | no line is lost or used twice; history holds approved exchanges; a closed input ends the chat |

How they interact. The command line (or any other host) calls `AgentRunner.runTurn`. The runner
queues the turn in `SessionTurnQueue` under its routing key. A turn appends to the transcript store,
reads the transcript back as context, records in the audit sink, emits on the event bus, calls the
provider through `ProviderRegistry.chatResult` (which asks the permission policy and audits), appends
the answer and updates the session store. Different keys run at the same time over the same stores.
The stores ask the permission policy before every file access; tools do the same and are invoked
through the tool registry. The OpenAI-compatible adapter asks the network policy and resolves its key
as a secret, which asks the policy once more.

## 2. Modules

| Module | What it is |
|---|---|
| `FifoTurns` | abstract: a FIFO line per key, one turn at a time |
| `SessionTurnQueue` | `enqueue` and the life of the promise it makes |
| `SessionTurnQueueProofs` | theorems about `SessionTurnQueue`, with proofs |
| `SessionRouting` | the routing keys, and what it means that two inputs are of one conversation |
| `RoutedTurns` | the turn queue under the keys of its turns |
| `AgentRunner` | extends `SessionTurnQueue`: `runTurn`, `runTurnNow`, `runProviderChat` and `ProviderRegistry.chatResult` |
| `AgentRunnerProofs` | theorems about `AgentRunner` and `RoutedTurns`, on those about the queue |
| `TranscriptLog` | abstract: a log per session |
| `TranscriptStore` | the JSONL files; instantiates `SessionTurnQueue` for the chain of appends |
| `TranscriptStoreProofs` | theorems about `TranscriptStore`, on those about the queue |
| `SessionRecords` | abstract: a record per session |
| `SessionStore` | documents written to a temporary file and renamed, over inodes |
| `SessionStoreProofs` | theorems about `SessionStore` |
| `EventBus` | the live Set of subscribers and the awaited loop over it |
| `AuditedCalls` | calls, the decision of a policy and its audit, which the following share |
| `ToolRegistry` | extends `AuditedCalls`: `invokeResult` around a handler |
| `ToolRegistryProofs` | lemmas about steps of calls, the permissions on record and the records that close a call |
| `FileTools` | extends `ToolRegistry`: the handlers of `write_file` and `read_file`, over inodes |
| `WebTools` | extends `ToolRegistry`: the handlers of `web.fetch` and `web.search` |
| `Tools` | composes the two: calls of all kinds beside each other |
| `ToolsProofs` | theorems about `Tools`: permissions, records, and files |
| `ShellTool` | extends `ToolRegistry`: the handler of `shell.execute` with the default executor and a child process |
| `SecretStore` | extends `AuditedCalls`: `EnvSecretStore.read`, `resolveSecretRef` and `resolveSecretRefs` |
| `ProviderCalls` | extends `SecretStore`: `chatResult` of the registry and of both providers, and the adapter's request |
| `ConfigEditor` | extends `AuditedCalls`: edits and overwrites of the configuration file |
| `Services` | composes `ShellTool`, `ProviderCalls` and `ConfigEditor` |
| `ServicesProofs` | theorems about `Services`: permissions, the configuration file, output, records, and snapshots |
| `MarkdownMemory` | the root file, the daily notes and `InMemoryStore` |
| `ChatConsole` | the questioner, the chat loop and the interactive approval |
| `PeripheryProofs` | theorems about the parts that stand apart: `EventBus`, `ChatConsole`, `MarkdownMemory` |
| `MC...` | the instances TLC checks |

Definitions called `Bug...` are altered copies of the definition that follows them. No
specification uses them; they are put in the place of the original to see that a property notices.

### SessionTurnQueue

`queues` is the Map, with `NoTurn` for a missing key; `prev[t]` the promise that turn `t` was
chained on; `stage[t]` where its operation is; `settled` the turns whose `settled` promise has run
its `finally`. `Enqueue` is the whole synchronous method, `Start` the reaction of `previous.then`,
`Finish` the end of the operation (either way), `Settle` the clean-up with its check that the entry
is still its own. `arrivals` and `ticket` are history: the order of the calls.

### AgentRunner

`phase[t]` is the `await` at which `runTurnNow` stands and an action is what happens from one await
to the next, so a turn is `lifecycle`, `user`, `read`, `audit_requested`, `emit_requested`,
`provider`, then either `audit_succeeded`, `emit_succeeded`, `assistant`, `touch`, `emit_updated`
or the failure branches. `race[t]` is the promise of `runProviderChat`, settled once, by
`CallAnswers`, `Timeout` or `CallerAbort`. `call[t]` and `verdict[t]` are `chatResult`, an activity
that goes on after the turn has stopped waiting: look-up, decision, audit of the decision, the
provider, audit of the outcome inside the `try` (whose throw leads to the `catch`, which audits again) or
outside it. What a turn leaves behind is in `transcript`, `audit`, `events`, `touched` and `result`.

`transcript[s]` is what the appends of a session have put into its file, in the order of the store's
chain. An append that fails has left nothing, a piece of its line, or all of it (`AppendFails`), and
behind a piece (`CutOff`) the next append does not begin a line of its own, so that a read skips it
though it was acknowledged (`Readable`, `Messages`). That the chain is one per session, and that a crash
can do the same, is `TranscriptStore`'s. `AsksPolicy` are the awaits in which a store has asked the
policy for `filesystem.write`.

### TranscriptStore

A file is a sequence of lines, a line a sequence of parts with a flag for its newline. `WritePiece`
lets `appendFile` stop after part of the JSON text, all of it, or all with the newline; whatever
comes next continues the last unended line. `EventsIn` is what `read` recovers: lines with exactly
one complete text, by the number of the line, whose order is that of the array `read` returns and whose
gaps are the lines it reports as malformed. `Crash` keeps the files and loses the chains and the calls.

### SessionStore

Files are inodes, named after the operation that created them, because a rename moves a file that
another writer may have open. `tmp[s]` and `live[s]` are the directory entries. `OpenTemp` creates
or truncates, `WriteTemp` writes with or without a remainder of another writer's bytes, `Rename`
replaces; `FailWrite` and `Crash` may leave a scrap. A document is the set of updates it contains
and its two timestamps. `laneOf` says which operations one caller makes one after the other.
`load` has no action of its own: `LoadError` and `DocumentIn` are what it returns, to `update`
(`LoadForUpdate`, `FailLoad`) and to `list` (`LoadListed`), which leaves out without a word whatever it
cannot load: a file that is not whole, but also one whose path cannot be resolved or whose read
rejects. `unread` is history, the sessions a list has left out for that second reason.

### EventBus

`entries` is the iteration order of the Set: a deleted element leaves a dead entry, one that is added
again comes last. `cursor[e]` is how far the loop for event `e` has come. `Emit` calls the first
subscriber at once; `Answer` is a subscriber's promise settling and the loop going on. `departures`
is history: how often a subscriber has left while an event was being emitted.

### SessionRouting, RoutedTurns

A component of a key, as it comes in, is a name and a spelling (spaces around it, a Unicode form), and
`Normalize` keeps the name. A key stands for the JSON text of its parts. `SameConversation` is the
reference definition: the inputs name the same things and ask for the same scope, or leave it out
where the default comes to the same (`Covers`, which is written from what a scope means and not from
`ScopeOf`). `RoutedTurns` gives every turn of the queue the key of its input.

### AuditedCalls, ToolRegistry, FileTools, WebTools, Tools

`at[c]` is the await at which a call stands, `trail[c]` its audit records. A permission check is a decision of the policy
(`Decide`) and then its audit (`RecordDecision`); a record like `InvocationCheck` says where it
begins and where a yes, a no and an error lead to, which differs: `invokeResult` turns an error into
a refusal, `authorizeFilesystemOperation` into a denial, and `NetworkPolicy.authorize` lets it through
to the catch block. A handler goes from `executing` to `operation_done` or `operation_failed`, where
it audits, and then to `succeeding` or `catching`, which are in `invokeResult` again.

The file at the path and the temporary files are inodes named after the call that created them, so
that a rename or a removal that meets another call's file shows. `Names` are the milliseconds.
`requested` holds the web calls whose request has been sent.

### ShellTool

`child` is what the operating system says of the process, `settled` the executor's promise, `at` the
handler. The callbacks are actions: `Data`, `Close`, `SpawnError`, `Timeout`, `Abort`; `Write`, `Exit`
and `Release` are the child's and the processes' it leaves behind (`held`). Output is a sequence of
bytes in which a character may take two, because `appendLimitedChunk` cuts at a byte and `decodeUtf8`
comes after.

### SecretStore, ProviderCalls

`answers[c]` is what came of each reference of a reader so far; `ActiveOf` lists which are active. A
reader stands at `resolving`, `reading`, `looking_up` and so on until `answered`, from where
`resolveSecretRefs` collects and goes on to the next (`Collect`), and the adapter goes on to its
request (`Post`). `ChatCalls` may be `Direct`, to a provider, which looks at the signal first, or to
the registry, and `Mocked`. `posted` are the requests that have left. The transport is `fetch`: it
rejects as soon as its signal is aborted, and its server may never answer. `AgentRunner` has the
registry's part of `chatResult` once more, inside the race a turn makes of it.

### ConfigEditor, Services

A configuration is a function from fields to values, and what a call does to it a patch. `proposed[c]`
is what a call is going to write, made of what it has read; between that and the write there are the
authorization, which may wait for a person, and other processes. `WriteConfig` is `mkdir`, `writeFile`
and `rename` in one, because they are synchronous and the temporary file has a name of its own; `Die`
ends the process before or after it. `read` and `written` are history. In `Services` a command, a
provider call and a resolution share no state with one another but the bound on faults; configuration
calls share the file.

### MarkdownMemory

A file is a sequence of pieces, each the text of a record up to some point (`upto`): an append that
was cut off left less than the whole. `Parse` finds blocks like the parser, from a start marker to
the next end marker, and `Block` what the first fence in it makes of it; a `Quoting` record has the
end marker in its own content. A call goes from the decision through the authorization of a file and
the access to the audit of its outcome, and a search of daily notes returns to the authorization for
each day. `Volatile` is the `InMemoryStore`, without authorization or damage. A search goes through at
least one place: the root file, or the days of a range, which has its first (`MemoryAssumption`).
`Ours` drops the records of other namespaces, like the loop over `parsed.value`. What a search is held to
is fixed when it is called: `due` is history, the writes acknowledged by then. `SearchIsComplete` names
spots in the files (`Spots`) that what was found lies at, in order, and counts the writes that are due,
lie in a place of the search, and are neither at those spots nor beyond the limit (`Skipped`).

### ChatConsole

`pending` are the lines typed while nobody waited, `waiting` says that `question` has a waiter,
`answer` is the settled promise until the loop or the approval prompt goes on with it (`Resume`).
`phase` is where `runChatLoop` stands, `messages` its history, by number of the line. `typed` and
`used` are history.

## 3. Runs

| Run | Instance | Shows |
|---|---|---|
| `turn_queue` | 4 turns, 3 of one conversation that they spell in two ways, with and without its scope | `FifoOrder`, `EntryIsLastPending`, refinement of `FifoTurns` (`ImplementsFifo`), that a turn starts when its predecessors are over (`HeadOfLineStarts`), and that turns of a conversation never run together and never wait for another's (`ConversationsApart`); 20,833 states |
| `runner` | 2 turns of one session and key, the first with a timeout and a caller's signal, two faults, appends that are cut off included | the record of a turn is consistent (`EnvelopeAgrees`, `OkIsDurable`, `CallIsAuditedOnce`), cancellation leaves no success in it (`CancelledLeavesNoSuccess`), late answers are dropped (`LateAnswerIsDropped`), the context is complete (`ContextComplete`), a stuck provider does not hold up the key (`TimeoutFreesTheQueue`); 674,002 states |
| `runner_cancelled` | the same | **violated**: the provider package may have recorded a success for a turn that timed out |
| `transcript` | 3 appends, 1 read, 1 cut-off append, 1 crash | `ImplementsLog`, `OneLossPerTear`, and that a read has what was appended before it, in order (`ReadsFollowCalls`); 1,462,964 states |
| `transcript_recovery` | the same | **violated**: a cut-off append takes the next acknowledged event with it |
| `sessions` | 2 sessions, 2 creations, 2 updates, 1 list, 1 crash; one or two callers | `ImplementsRecords`, `ReportsAreTrue`, and, but for files that could not be read, `ListIsComplete` for sessions with one caller; `TimestampsMatchEdits` for all; 711,220 states |
| `event_bus` | 2 subscribers, 3 subscriptions, 3 events of 2 emitters | `NobodyIsSkipped`, `EmitterOrder`, and that nobody is called after leaving, or with one event more often than once and once more for each time of leaving while it was emitted (`OneCallPerStay`); 252,891 states |
| `tools` | 3 file calls of one path together (a create, an overwrite and a read; 2 overwrites and a read; 3 overwrites), or a web call beside a read; one fault | an invocation is closed once and truly (`ClosedOnce`), the record of a write tells what became of the file (`PublishedAsRecorded`), nobody sees a part of a text but of a file being created (`FileIsWhole`), nothing is written or sent without two recorded permissions (`EffectsArePermitted`); 1,133,784 states |
| `services` | a command with up to 5 bytes of output against a limit of 3; or one of 4 provider calls (registry or direct, adapter or mock); or the resolution of 3 secrets; or an edit that sets a placeholder; or 3 edits at once; or 2 edits beside an overwrite, of 3 fields; 2 faults | `OutputIsAccountedFor`, `RecordsAreTrue`, `ClosedOnce`, that a snapshot of secrets is exact (`SnapshotIsExact`), that only overlapping edits lose one another (`OnlyOverlapsLose`), that nothing starts without recorded consent (`NothingWithoutConsent`), and that every call ends that nobody outside holds up (`CallsEnd`); 62,903 states |
| `shell_limits` | the command with one fault | **violated**: output cut inside a character makes the command fail |
| `memory` | 3 writes and a search, all in the root file, in memory, in one day or in two; 1 cut-off append, 1 fault, one record that quotes the marker, of another namespace | `SearchIsComplete`, `OnlyDamageFailsSearch`, `WritesAreApproved` |
| `chat_console` | 5 lines of 5 kinds, typed at any time, and the end of the input | `LinesInOrder`, `HistoryIsApproved`, `CloseEndsTheLoop` |

Why the bounds are enough. The queue's clean-up looks at one key and at whether its entry was
replaced: three turns of a key give a predecessor, one whose entry was replaced, and one enqueued
after a clean-up; the fourth is another key. A turn of the runner meets another turn only through
the queue, the transcript and a late provider call, all of which two turns show: a turn is followed by
one that needs what it has left and may be a success, a failure, or a failure that has left a piece of
a line. `MaxFaults = 2` lets a failure of the second turn meet one of the first, and the event that is to
record a failure fail as well. Two turns of different keys in one session, in which a turn can lose its
user or assistant event to a line the other has cut off, are not an instance of a run: the theorems are
about any assignment of keys. Damage in a transcript reaches the next line and no further, so a torn
line, the one it spoils and one after that suffice (`MaxTears`, `MaxCrashes`).
A session's document meets one other writer at a time at its temporary file. File calls meet only at
the path and at a shared temporary name, for which two calls are a collision and a third is the case
the properties except (`Crowded`, below); a web call shares nothing but the sink. A command needs an
output that fits, one that ends at the limit and one that is cut inside and between characters, which
5 bytes against 3 give. Three references are an active one between two inactive ones, so that an error
comes before and after warnings. An edit of the configuration is lost to one other write at a time:
with three calls there is one that overlaps both, one that follows the other two, and a pair of which
one dies or fails; the fields are one that two calls change, one that one changes and one that the
environment sets. `MaxFaults = 2` in `services` lets a failure meet the failure of its own audit.
Damage in a memory file reaches the next record, as in a transcript, so three
records suffice; `Limit = 2` is met by the two of the searched namespace. Five lines are two exchanges with their approvals
and one line more.

Constants that bound: `MaxFaults` (all but the queue, the bus and the console), `MaxTears`,
`MaxCrashes`, `MaxLines`, `MaxOutput`; `MaxBytes` and `Limit` are parameters of the program.

Runs that may stop are not deadlocks: each specification has an explicit step for "everything is
over", and every other state without a successor would be reported.

### Fairness

`MicrotaskFairness` (`turn_queue`): reactions of settled promises run; that is the event loop.
Nothing is assumed of the operations. `FairRunnerSpec` (`runner`) adds that the runner's own steps
end where they do not ask the policy (`AsksPolicy`), that is, file reads, the audit sink and the
subscribers answer, and that a timer that was armed fires. Nothing is assumed of the policy and the
provider, nor of the caller. The policy is asked twice over: whether the provider may be called, inside
the race that the timer settles, and whether a file may be written, by `appendNow` and `writeSession`,
where nothing bounds the answer, and `InteractiveApprovalPolicy` may be asking a person. So no append
and no update of the session is assumed to end (an update of a session that has no file ends before it
asks), and `TimeoutFreesTheQueue` excepts a key whose line stands still in one of them for ever. Sinks
and reads are in-process code over the local file system; that no timeout covers them is listed as a
hazard. `ConsoleSpec` (`chat_console`) assumes that promise reactions run and that a provider call that
was approved ends; nobody has to type. `ServicesSpec` (`services`) assumes that policies, audit sinks and
the disk answer, that a `fetch` whose signal is aborted rejects, that timers fire, that events of the
child are delivered and that a child that was sent a signal ends; nothing of a child left alone, of the
processes it leaves behind, of callers or of servers. That is why `CallsEnd` excepts `Hung`, since killing the
shell does not close pipes that others hold and the promise waits for them, and `Unanswered`, since only
the caller bounds a request.

### What the violations say

`CancelledAuditsNoSuccess`. `docs/tasks.json:814` says that cancelled operations do not emit success
events. `chatResult` checks the signal, then awaits the audit append of `provider.call` /
`succeeded`; a timeout in that window cancels the turn with this record in the log. The runner's own
records, its events and the transcript do keep to the rule, which `CancelledLeavesNoSuccess` checks.

`AcknowledgedIsReadable`. `docs/tasks.json:732` says transcripts are recoverable line by line.
`appendFile` continues whatever the file ends with, so after an append that was cut off the next one,
though acknowledged, is on the same line and unreadable. `OneLossPerTear` and `ImplementsLog` bound
this: one acknowledged event per cut-off append, and nothing that was readable and acknowledged.
`OkIsDurable` and `ContextComplete` say what it means to the runner: a turn that has left a piece of a
line has failed, the next turn of its key begins with a lifecycle event, and only that is lost.

`OutputIsWithinLimits`. The executor bounds the output of a command to `maxOutputBytes` and has a flag
for it, but when the cut is inside a multi-byte character the decoded text has a replacement character
of three bytes and may be longer, and `validateShellExecutorResult` rejects it: the command fails as
one that broke the limits (`packages/tools/src/index.ts:3024`), although it was the executor that cut.

### What the properties leave open

* Three overwrites in one millisecond (`Crowded`): the second finds the temporary file of the first and
  its clean-up removes it; the third creates its own under that name, and the first renames the
  third's, complete or not. `FileIsWhole` and `PublishedAsRecorded` do not hold then, and except it.
* A line typed ahead can answer an approval prompt that is shown later. `HistoryIsApproved` says only
  that a yes came right after the message it approves, not that the person had seen the prompt.
* A child that is ended by a signal from elsewhere has no exit code and counts as a success;
  `CommandRecordIsTrue` allows it.
* A memory record whose content quotes the end marker makes every later search of its file fail;
  `OnlyDamageFailsSearch` counts it as damage.
* An audit sink that throws after an append or a rename makes a call fail that has had its effect.
* Two callers that update one session lose one another's updates; `ReportsAreTrue` is for one. So do
  edits of the configuration that overlap, which a comment in `editSourceConfigFileResult` says.
* A turn of another key of the same session may be at any append when a line is cut off. Its user or
  assistant event can then be lost although the turn is a success, and be missing from a later context.
  `OkIsDurable` and `ContextComplete` except what stands directly behind such a line.
* A list does not say which sessions it has left out because their files could not be read;
  `ListIsComplete` excepts them.
* Only the provider phase of a turn has a timeout: an approval prompt for a transcript or session file
  that nobody answers, a sink or a subscriber that never settles holds up its key. `web.fetch` gives its
  transport neither a timeout nor the caller's signal.
* `MockProvider` does not look at its signal after the decision and may succeed after an abort.
* A refusal of the policy for an inactive secret is a warning, a policy that throws is an error for the
  same reference; `SnapshotIsExact` allows both.

## 4. Proofs

`SessionTurnQueueProofs` holds, for any sets of turns and keys and any assignment of keys
(`QueueAssumption`):

* `TypeCorrect`: `QueueSpec => []QueueTypeOK`.
* `FirstInFirstOut`: `QueueSpec => []FifoOrder`.
* `NoTwoTurnsTogether`: `QueueSpec => []MutualExclusion`.
* `MapIsExact`: `QueueSpec => []EntryIsLastPending`.
* `QueueImplementsFifo`: `QueueSpec => ImplementsFifo`.

None of the properties is inductive by itself: that a turn starts after all earlier ones is a fact
about the turn a turn waits for, of which a step sees one link. `ChainInv` adds what a link says:
tickets number the enqueued turns (`TicketInv`); a settled turn is finished (`SettledIsFinished`);
`prev[t]` is the turn of the key enqueued just before `t`, and `NoTurn` only when all those before
were settled already (`PrevIsPredecessor`); the Map holds the last turn of its key until that turn
settles (`EntryIsLast`); and whatever comes before a started turn has settled (`SettledInOrder`).
`FifoOrder` and `EntryIsLastPending` follow from it in each state, `MutualExclusion` from
`FifoOrder` because one of two turns of a key has the smaller ticket, and each step of the queue
maps to a step of `FifoTurns` or to a stutter.

The last part of `AgentRunnerProofs` adds, for any names, spellings and inputs:

* `KeysAreExact`: two acceptable inputs have the same routing key exactly if they mean the same
  conversation. Its lemma `ScopesAgree` goes through the cases of the default scope.
* `ConversationsStayApart`: `QueueSpec => []ConversationsApart`, from `KeysAreExact`, `FifoOrder` and
  the part of `ChainInv` that says that a turn waits for a turn of its own key.

The rest of `AgentRunnerProofs` holds for any turns, sessions, keys, answers and number of faults, with calls that
go on after their turn has stopped waiting:

* `CancelledIsNoSuccess`: `RunnerSpec => []CancelledLeavesNoSuccess`.
* `EnvelopesAgree`: `RunnerSpec => []EnvelopeAgrees`.
* `SuccessIsDurable`: `RunnerSpec => []OkIsDurable`.
* `CallsAreAuditedOnce`: `RunnerSpec => []CallIsAuditedOnce`.
* `LateAnswersAreDropped`: `RunnerSpec => LateAnswerIsDropped`.
* `ContextsAreComplete`: `RunnerSpec => []ContextComplete`.

The first five compare what a turn has left in different places, and each place is written by another
await. `RunnerInv` says for each await what is there by then: in the runner's audit (`CoreInv`: nothing,
opened, or closed as succeeded or failed), among the events, which are one await behind the audit
(`EventInv`), among the turn's own appends to the transcript (`OwnInv`: none, one, two or three, of which
type and in which order, whether or not a reader gets to see them) and what the packages below have audited
of the call (`CallInv`). `failure` tells which way a turn took to where it is (`PathInv`); the timed-out
turn whose call is still running is the case where that and the state of the call differ. Turns share a transcript, so the lemmas about
appends say that a line of one turn leaves another's own lines alone.

`ContextsAreComplete` is about two turns. That the transcript of a session has the lines of a key in the
order of its turns (`OrderInv`) needs that two turns of one key are never under way together, which is
`NoTwoTurnsTogether` of the queue: `RunnerStepsQueue` shows that the runner takes only steps of the queue
or leaves it alone, so every invariant of the queue holds here. When a turn reads its transcript, an
earlier turn of the key is over, so its lines are all there and before the turn's own message. Which of
them can be read is `TornInv`: an append that was cut off is of a turn that has failed, so that a turn which
succeeds, or has come as far as its provider, has left none itself. Behind a piece that an earlier turn of
its key has left only its first event can stand, which is no message. `SuccessIsDurable` rests on it too.

`TranscriptStoreProofs` is about any appends, reads and sessions, with every failure, appends cut off
anywhere and any number of restarts:

* `ReadsFollowTheCalls`: `StoreSpec => []ReadsFollowCalls`.
* `OneLossPerCutOff`: `StoreSpec => []OneLossPerTear`.
* `StoreIsALog`: `StoreSpec => ImplementsLog`, the refinement.

The chains of appends are an instance of the queue, so `ChainInv` and the lemmas about its steps are
instantiated; what is new is `CrashKeepsChain`, as a restart is no step of the queue. `CallsInv` adds what
an append has written and returned by the state of its promise. `FilesInv` ties that to the bytes: every
part of a line is what one append of the session has put, each append is there once, in the order of the
calls, and of a line that has several parts all but the last are of appends that were cut off (`FileOK`).
A write keeps it because whoever has put something before a running append is over (`OthersAreOver`, from
the order of the queue), so an open line is either its own or that of an append that was cut off
(`BytesGrow`, `WriteKeepsFile`). An event that was acknowledged and is not readable therefore ends a line
that a cut off append begins, and no two end the same line: that injection is `LossesAreFew`. `ReadsInv`
says that all that was called before a read has settled when it reads, and `StepIsOnward` that what has
settled does not become readable any more. A write appears in the log when its text is complete, at the
end; the event at the end vanishes if the line is continued, and nobody has acknowledged it by then
(`WriteToLog`). That no more than `MaxTears` acknowledgements are given for what is not in the log is
`Losses` with the bound the guards keep (`TornBound`).

`PeripheryProofs` has a section for each of three parts that share no state. That of the bus is about any
subscribers, subscriptions and events, each delivered by a loop over a Set that others change between
two awaits:

* `NoSubscriberIsSkipped`: `BusSpec => []NobodyIsSkipped`.
* `EmittersKeepOrder`: `BusSpec => []EmitterOrder`.
* `CalledOncePerStay`: `BusSpec => OneCallPerStay`.

The properties speak of deliveries, the loop of places in the Set, and `BusInv` ties the two together: a
subscriber has one live place (`OnePlace`), whoever is still owed an event has its place ahead of the
cursor (`OwedIsAhead`), nobody was called with an event more often than it has left during its emission, and
once more only while its live place is behind the cursor (`CallsAreStays`), and an emitter is done with
an event before it goes on to the next (`OneByOne`).

That of the chat is about any number of lines, typed and closed at any time:

* `NoLineIsLost`: `ConsoleSpec => []LinesInOrder`.
* `EveryExchangeWasApproved`: `ConsoleSpec => []HistoryIsApproved`.

`ConsoleInv` adds to them that a question is open exactly while the loop awaits one, and waits for a line
only when none has been kept (`OneQuestion`), so that a line that finds a waiter does not overtake
another; that the line the loop prompts for or calls with is the last input among the lines used,
followed by its yes once there is a call (`CurrentIsInput`); and that all that is kept came of lines
before that one (`HistoryIsPast`).

That of the memory is about any calls, places, namespaces and failures:

* `EveryWriteWasApproved`: `MemorySpec => WritesAreApproved`, from what a call has on record where it
  is (`OnRecord`).
* `OnlyDamageMakesInvalid`: `MemorySpec => []OnlyDamageFailsSearch`.
* `SearchFindsWhatIsDue`: `MemorySpec => []SearchIsComplete`, from `SearchInv`.

`ScanOK` says that a search that goes on has a place left to read, and that one that will report invalid
memory has a damaged file among its places, which no append mends. The rest is about the parser alone.
`Parse` is a recursive function, which TLA+ takes to be a choice of some function that satisfies the
equation, so that there is one has to be shown (`LoopExists`): a function on the last pieces extends to
one piece more, because the loop only looks ahead (`LoopMovesOn`). That a file of whole records is
accepted (`WholeFileParses`) goes the same way, from behind. Both take the least piece from which on it
holds and show that it is the first (`LeastElement`), where an induction theorem would be used otherwise.

`SearchIsComplete` speaks of searches that are over, so `SearchInv` says the same of one that is on its
way: there are spots for what it has found, and each whole record it is due, in the places read so far,
is at one of them, beyond the limit, or swallowed, which means that its block begins with a torn piece
(`ReadAt`). Three arguments carry it.
A search that goes on (`NextPlaceInOrder`): a parse without error gives the record of the first fence of
each block, in the order of the blocks, and a whole record ends its block, so that it is the one given or
a torn one precedes it in the block (`BlockRecord`, `ParseRecovers`); the filter keeps the order
(`OursAreFiltered`), and the limit a prefix (`BoundedIsPrefix`).
Appends beside it (`ReadStays`): files only grow, and what is appended after the call is not due.
Counting (`SwallowsOne`, `FewAreTorn`): a write has one piece, in its place (`OnePieceEach`), so a torn
write precedes one end and swallows one record, and there are no more torn writes than appends that were
cut off; the map from what was skipped to what tore it is an injection (`FS_Injection`).

`SessionStoreProofs` is about any operations and sessions, called by anyone, with a failure of every step
and any number of crashes:

* `ReportsHold`: `SessionSpec => []ReportsAreTrue`.
* `ListsAreComplete`: `SessionSpec => []ListIsComplete`.
* `TimestampsHold`: `SessionSpec => []TimestampsMatchEdits`.
* `SessionsAreRecords`: `SessionSpec => ImplementsRecords`, the refinement.

`SerialInv` follows the one writer of a session: from its load to its rename, its document is what is live
and its own update, and once written it is alone in the temporary file (`WriterInv`); what is live is a
whole document with exactly the updates that were acknowledged (`StoredInv`). It rests on `FileInv`, which
holds with any number of writers: a file belongs to one session, and the temporary file is never the live
one, so a write that fails, or a crash in the middle of it, damages nothing that can be loaded. The record
of the refinement is therefore the set of acknowledged updates, which only a rename changes. `StampInv`
needs no such caller: every document in memory or in a file has the timestamps of the updates it contains,
because it is made of a document that had, by a writer that has not read the clock before. `ListInv` says
of a list on its way that what it must return is still to be read, found already, or could not be read.

`ToolsProofs` and `ServicesProofs` are about permissions, for any calls made together, any number of
faults and any answers of the policies:

* `EffectsComeAfterPermission`: `ToolsSpec => EffectsArePermitted`.
* `ConsentComesFirst`: `ServicesSpec => NothingWithoutConsent`.

The properties look at one step; that the permissions are on record by then is the invariant
(`ToolsInv`, `ConsentInv`): for each await of a call, how many grants are on its trail. The lemmas in
`ToolRegistryProofs` say that a step of one call writes no record of another (`StepOf`), that `Ask`
adds a grant exactly when it goes on with one (`AskConsent`) and what `invokeResult` does to the number
(`InvocationConsent`). Two things make the invariants stronger than that. A rename may put the file of
another call in place, if they share a temporary name, so `ToolsInv` also says that whatever is at a
temporary name was opened by a call that was permitted and has not asked again since; and a request
leaves with the key that was found, so `ConsentInv` says that an answer with a value means three
grants. `FilesTypeOK` adds that an overwrite has chosen a temporary name before it opens it.

The second part of `ToolsProofs` is about what the records of those calls say:

* `InvocationsCloseOnce`: `ToolsSpec => []ClosedOnce`.

A record in the middle of a call must not look like its end, so the invariant (`RecordInv`) says for
each await what is on the trail by then: nothing before the request is written; only the request among
the invocation's own records until the call is over, with an error that says `denied` only on its way
to a refusal; and in the end a last record with the outcome that is returned. `HandlerKeepsRecords`
is the argument for every step of a handler, whose records are of another kind.

The third part is about the files of any number of calls that create, overwrite and read one path:

* `RecordsTellOfFiles`: `ToolsSpec => []PublishedAsRecorded`.
* `FilesAreWhole`: `ToolsSpec => []FileIsWhole`.

Both are said of fewer than three overwrites that share a temporary name, which is the clock and the
process, as three of them can break both: the first removes the file of the second in its clean-up, the
third opens one under the name, and the second renames that before it is complete. With two the invariant
(`WholeInv`) holds: while an overwrite fills or renames its file, the file at its name is its own, or
there is none because the other one has removed it and is on its way out (`HoldsTemp`); so a rename
either puts in place what the call itself has completed, or fails. `OperationInv` says for each await
which records of the operation there are, and `DiskInv` that the file at the path, and what a read has
opened, were put there by a call.

The second part of `ServicesProofs` is about any number of processes, fields and patches:

* `EditsAreLostToOverlapsOnly`: `ServicesSpec => []OnlyOverlapsLose`.

A file says nothing of who has read what, so the invariant (`ConfigInv`) follows the edits through the
calls that are about to write: the file carries all that survives of what was written (`Carries`), a
proposal carries all that survived when its call read the file, but for its own patch (`ProposalOK`),
and a call that has written does not read again (`WrittenOnce`). When a call replaces the file, an edit
that survives this write too was written before the call read and is no part of its patch; so the
proposal carries it.

Its third part is about what is reported of commands, requests, edits and resolutions:

* `OutputOfEveryCommand`: `ServicesSpec => []OutputIsAccountedFor`.
* `EveryRecordIsTrue`: `ServicesSpec => []RecordsAreTrue`.
* `EveryCallIsClosedOnce`: `ServicesSpec => []ClosedOnce`.
* `EverySnapshotIsExact`: `ServicesSpec => []SnapshotIsExact`.

`OutputInv` is about the executor alone: what is kept is the prefix of what was sent of the length that
is counted, the flag says exactly that something is missing, and the pipe of a closed child is empty.
Whether the child ended well is decided in the executor and put on record two awaits later, so
`CommandInv` carries it over them: a call that is past its child has a promise that is settled, a
command is put on record as succeeded only if it `EndedWell`, and a denied one has no child.
`WriteInv` does the same for the rename of a configuration file and the record of it.
`CallRecordInv` is for calls that are no tools what `RecordInv` is for tools, with two ends more: a
process that ends, and a call that is turned down before it leaves any record. `SnapshotInv` says of a
resolution that the references before the current one are in the snapshot or in its warnings, each once
and with the answer it got; that a reference is a fact about a list of any length is what
`SecretsAssumption` gives, that a list of flags says which references are active.

All of these rest on the assumptions on the constants that the modules name (`QueueAssumption`,
`RoutingAssumption`, `CallsAssumption`, `FileToolsAssumption`, `ToolsAssumption`, `ShellAssumption`,
`SecretsAssumption`, `ProvidersAssumption`, `ConfigAssumption`, `ServicesAssumption`,
`RunnerAssumption`, `BusAssumption`, `SessionStoreAssumption`, `StoreAssumption`, `ConsoleAssumption`,
`MemoryAssumption`), which TLC evaluates on the instances of
the runs.

Only model-checked: liveness (`HeadOfLineStarts`, `TimeoutFreesTheQueue`, `CallsEnd`,
`CloseEndsTheLoop`), which is outside the prover's reach. Every invariant and every action property of
a passing run is a theorem. For that, what is recursive is a function: the parse and the filter of the
memory in place of operators of the community modules, which the provers cannot look into.

## 5. Not modelled

Contents of messages, formatting, redaction, logging, branded strings, type declarations: nothing
checked depends on them. Power failures: nothing is synced to disk, so no order of writes could be
promised. `createRuntimeContext`, the capture subscriber of the tests; schemas and the normalisation of
limits of the tools; registration of tools and providers and the listing of models, which do not change
while calls run; which values of a configuration are valid; the form of secret references;
`parseSessionRoutingKey`, which only takes a key apart; start-up of the command line. The rules of the
permission policies are computations without state, and a decision is any of their answers: a custom
policy whose answer contradicts itself (`allowed` with a kind that says no) is not among them. The
parts listed as `not_modelled` in `PROJECT.json` keep no state.

## 6. Plan

1. Done: the queue with its keys and proofs; runner, stores, bus; tools (registry, files, web, shell);
   providers, secrets, configuration; memory; chat. Proofs of every safety property that the passing
   runs check.
2. The rules of the permission policies as operators against a reference definition, used by the
   modules that now choose a decision freely; the runner over the transcript and session stores
   themselves instead of their promises.

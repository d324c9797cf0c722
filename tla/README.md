# Verification of KissBot

TLA+ models of the KissBot agent system, their TLC configurations, and proofs
checked by TLAPS. Paths are relative to the repository; the modules and
configurations lie next to this file. `PROJECT.json` holds the same inventory
in a machine-readable form: every run, every property with a mutant that breaks
it, the source lines each definition models, and the hazards with their lines.

## The system

KissBot is a Rust workspace. Chat platforms are attached through *channels*;
the *Nexus* of the agent turns what comes in into conversations with a
language model, executes the tools the model asks for, answers through a
channel, and records everything in a *memory* system that later condenses the
records.

| component | source | state | operations | modules |
|---|---|---|---|---|
| batching queue | `kissbot-agent/src/pipelines/channel_batch_processor.rs` | message queue, trigger queue, delay queue, shared atomic deadline | `BatchProducer::send` by any task; `BatchConsumer::run`, one task per session | `BatchQueue`, `MessageBatching` |
| session context | `kissbot-llm/src/session.rs` | messages in memory, current and pending system message, cache file, history files | append, set and apply system message, revert, archive and reset, recover | `SessionContext` |
| agentic loop | `kissbot-agent/src/pipelines.rs`, `pipelines/token_reducer.rs`, `message.rs` | token usage, contents to send, the session it works on | rounds of model and tool calls, reduction of the context, its recovery from the memory store | `AgenticLoop`, `ContextRecovery` |
| session and pipeline maps | `kissbot-agent/src/nexus.rs`, `session_manager.rs`, `pipelines.rs:595-648` | sessions and pipelines by key | `ensure_session`, `prune_sessions`, `sync_pipeline`, `incoming_message` | `NexusSessions` |
| agent configuration | `kissbot-agent/src/config_manager.rs`, `configs/`, `command_router.rs`, `http_server.rs` | one structure behind a lock, and its file | commands of administrators, the management API, copies of settings for sessions | `AgentConfig` |
| agent channel manager | `kissbot-agent/src/channel_manager.rs` | clients, ids of messages sent, queue of binding changes | connect, reconnect, bind, send, filter echoes | `ChannelLink`, `EchoFilter`, `NexusSessions` |
| channel server and client | `kissbot-channel/src/*.rs`, `kissbot-channel-client/src/channel_client.rs` | connections, bindings of users to connections, transfers | bind, unbind, close, deliver, upload, download | `ChannelLink`, `AttachmentTransfer` |
| web channel | `kissbot-channel-web/src/*.rs` | users, groups, message files, attachments | manage users and groups, send, store, deliver, pages | `WebMessenger`, `AttachmentTransfer` |
| stations and tools | `kissbot-agent/src/station*`, `kissbot-mcp/src/*.rs` | tables of routes | list over sub-stations, call | `StationRouting` |
| LLM provider | `kissbot-llm/src/provider.rs`, `kissbot-agent/src/provider.rs` | instances by name | build a request, attempt, read the answer | `ModelCalls` |
| memory store | `kissbot-memory-store/src/*.rs`, `kissbot-memory/src/*.rs` | record files, their index, subscribers | append, rewrite, query, notify | `MemoryStore`, `ContextRecovery`, `RecordNotify` |
| abstract memory | `kissbot-memory-struct-abstract/src/*.rs` | per role: marks, case tree, current cases, watermarks, case files | follow the store, archive, rebuild, locate | `RecordNotify`, `CaseArchive`, `CasePlacement` |
| ego memory | `kissbot-memory-ego/src/*.rs` | agents, roles, individuals as files and in memory, a search index | create, update, read, search | `EgoMemory` |
| security, types, user interfaces, the unfinished input processor | see `PROJECT.json` | | | |

How they interact: the channel server delivers an incoming message over a
websocket to the agent, whose channel manager drops echoes of its own messages
and hands the rest to the Nexus; the Nexus records it in the memory store,
finds or makes the session and its pipeline, and the pipeline puts the message
into its batching queue. The one consumer task of that queue runs the agentic
loop on each batch: append to the session context, call the model, append the
answer, call tools through the stations, repeat, and send what is to be said
through the channel manager. The memory store notifies the abstract memory,
which archives new records into cases when it is asked for one. Commands of
administrators come in as messages and change the configuration, which sessions
copy their settings from.

### What is hard here

- Concurrency without locks: several senders and one consumer share an atomic
  deadline and three queues; connection, binding, session and route maps are
  read before an `await` and changed after it.
- Crashes: the session context, the stores and the configuration keep their
  state in files that are written in place or one after another.
- Failures in the middle: nearly every file operation is awaited and may fail,
  memory is usually changed before the file, and many callers ignore the error.
- Ordering and duplication: echoes overtake the response that announces them,
  records arrive late, chunks of a transfer are handled by tasks of their own,
  notices cross, reconnections replay bindings.

`PROJECT.json` lists the hazards with their lines and the properties that
would catch them.

## Modules

Each component's module has its state as variables, one action per handler or
per step between two awaits, and its properties; `*_proofs` extends it with
theorems, `MC*` with an instance for TLC. An instance that checks several
components does so one at a time (a variable `part` or `store` says which).

| module | instance | what it is |
|---|---|---|
| `MessageBatching` | | abstract: what the batching stage promises its neighbours |
| `BatchQueue` | `MCBatchQueue` | the queue, one action per access to shared memory or to a queue; implements `MessageBatching` |
| `SessionContext` | `MCSessionContext` | memory, cache file and history files of one session, one action per awaited file operation |
| `AgenticLoop` | `MCAgenticLoop` | turns, rounds, tools and reductions of both pipelines |
| `NexusSessions` | `MCNexusSessions` | the maps of sessions and pipelines, with their guards, under concurrent messages and changes of binding |
| `AgentConfig` | `MCAgentConfig` | the configuration, its levels and copies, its file, and the commands that meet on it |
| `ChannelLink` | `MCChannelServer` | which connection speaks for a user |
| `AttachmentTransfer` | `MCChannelServer` | uploads and downloads in chunks |
| `WebMessenger` | `MCAgentServices` | users, groups, messages and their pages |
| `EchoFilter` | `MCAgentServices` | what an agent says, on its way back to it |
| `StationRouting` | `MCAgentServices` | listings and calls over stations, with their tables of routes |
| `ModelCalls` | `MCAgentServices` | the provider behind a session, the request made in its protocol, and what the answer leaves |
| `MemoryStore` | `MCMemory` | record files, their writers and their index |
| `ContextRecovery` | `MCMemory` | a context rebuilt from the store by two queries, while the store goes on writing; extends `MemoryStore` |
| `EgoMemory` | `MCMemory` | things with their locks, files and copies, and the search index |
| `RecordNotify` | `MCRecordNotify` | notifications of new records, from the store to the marks of a role |
| `CaseArchive` | `MCCaseArchive` | archiving with its files, watermarks, rebuilds and crashes |
| `CasePlacement` | `MCCasePlacement` | merging, grouping, the way down the tree, summaries and answers |

### How the state and the actions correspond to the code

`BatchQueue`: `Push` puts the event into the message queue; `Stamp`, `Raise`
and `PushTrigger` are the later steps of `send`, which any number of senders
interleave (`Raise` is one turn of the compare-and-swap loop, which may find
that another task was faster). The consumer's loop is `ReceiveTrigger`,
`Expire` (a trigger leaves the delay queue), `Judge` (the deadline it read
against the clock), `Clear`, `DrainOne`/`DrainEnd` and `LoopReturns` (the batch
processor comes back, which may take any time). `Tick` is the monotonic clock,
in the unit of the smallest interval. Accesses to the atomic take effect in one
order; the reorderings `Ordering::Relaxed` allows are left out.

`SessionContext`: the session's mutex admits one operation at a time. Each is
a choice of starting step for one scheme: archive the memory, remove the cache
file and cut the memory down, open the cache file, write its System line,
write the messages, change the memory. `Fail` is an error of the present file
operation, returned by `?`; `CutLine` separates a line from its newline, which
are two writes; `Crash` and `Recover` are the end and the return of the process.

`AgenticLoop`: `TakeBatch` is the call of `incoming_message_batch`; `CheckLimit`
to `AppendToSend` are `send_messages_with_limit`, with the two reducers between
them (`AskSummary`/`TakeSummary`, `Remember`); `ModelAnswers`/`ModelFails` end
the provider's call; `ToolReturns` is one future of `join_all`, in any order;
`ToolsJoined` appends their messages, `Output` sends what is to be said and
decides about the next round; `EndTurn` drops the local variables. A message is
its kind, the turn or response it belongs to and, for calls, how many or which
one. Operations of the session context are single steps here, each with the
outcomes `SessionContext` shows they can have.

`NexusSessions`: a task handles each incoming message and one task consumes the
queue of binding changes. `Locate` finds the key of a message's channel;
`FindSession`, `OpenEntry`, `InsertSession`, `SyncPipeline`, `StartPrompt` and
`EndPrompt` are `ensure_session`, cut at its awaits and at its accesses to the
maps; `Dispatch` and `Enqueue` hand the message to the pipeline. `ChangeBinding`
and `ChangeEvent` begin `apply_channel_key`; `ListChannels`, `ReadKey`,
`RetainSessions` and `RetainPipelines` are its `prune_sessions`, `Answer` its
end, and `EditChannel` is the management API next to it. A guard of a map held
across an await is state (`opening`, `readers`): whoever needs it waits, and
since the maps block, it keeps its worker thread (`Block`, `blocked`). Guards are
per key; in the code two keys may share a shard, but a holder never asks for a
second guard, so this makes no circle.

`AgentConfig`: each command of a set that meets (`Workloads`) goes through the
steps between its locks: `AcceptCommand`/`Receive`, `LookUp`, `FindSession` and
`AskModels` (`/model`), `FindOut` and `CheckOut` (a reply), `ReadSetting` and
`TakeSnapshot` (a session's copy), then `Refuse` or `Apply`, `Truncate` and `Fill`
with the lock held. The kinds of settings stand for the types of the levels:
merged field by field, replaced, united.

`ChannelLink`: the loop of a client (`Connect`, `AskBind`, `Closed`, again), the
server's handlers (`BindCheck`, then `BindInsert` after the await of `get_info`;
`UnbindCheck`, `UnbindRemove`), and its clean-up in `Unregister`, `Collect` and
`SweepUser` steps. A request is one message: its answer may come late or never,
and the loop ignores it.

`AttachmentTransfer`: `RegisterUpload`, `SendChunk` (a request on its way),
`WriteChunk` (put into the queue), `Work` (the worker of an upload), `Answer` and
`Conclude`; `Header`, `PushBlock`, `Confirm` and `Take` for a download. A block is
<<attachment, position>>.

`WebMessenger`: changes in two steps, in memory under the lock and in the file,
then notices without the lock; messages from `Send` through `Flush`, `WriteLine`
and `Publish` to `PushStored` and `Deliver`; pages as operators over lines and days.

`EchoFilter`: a reply is accepted by the channel (`Accept`), stored and sent to
every bound identity (`SendOn`), while its answer with the id is on its way back
(`Speak`, `Register`); `FilterOut` or `Hear` meets the event; `Age` and `Kept` are
the eviction after 60 s.

`StationRouting`: a listing is a stack of frames, one per station that lists for
the one before (`AskStation`, `AskServer`, `Refused`, `Finish`), `StoreTable`
replaces the table; a call follows tables (`RunTool`, `Forward`, `RefuseCall`).
`LoseCall`, `Unreachable`, `Abandon` and `StationRestarts` are its failures.

`ModelCalls`: `Say` begins a round, `Choose` and `Configure` find the provider's
settings, `BuildRequest` makes the request from the context, `AttemptFails` and
`ModelAnswers` end an attempt, `ReturnTools` appends what tools returned; meanwhile
`SetModel` and `SetProvider` change the configuration.

`MemoryStore`: `Accept` takes a request, `Check` its files one by one, and its
records go into the queues; `Take`, `WriteLine`, `Hook` and `EndWrite` are a writer,
which appends or, when a record is late, writes the file anew; `Mark`, `Query`
and `Scan` are the index. `ContextRecovery` adds a reader between these:
`ReadRecent`, `ReadWindow`, `EndWindow`.

`EgoMemory`: a task changes a thing under its lock (`BeginWrite`, `Truncate`,
`Fill`, `MarkDirty`) or searches (`LoadIndex`, `SyncAll`, then `TakeMark`, `Fetch`,
`Reindex` for each key, `Answer`). The three managers work alike and are one; a
thing holds the text that is searched, and the rest.

`RecordNotify`: `StoreNext` are the store's writes and its broadcasts,
`ClientNext` the loop that connects and reads, `RoleNext` the marks of a role and
the requests that clear them.

`CaseArchive`: a request holds the lock of its role; the names of the actions
are its awaited file operations in order (`Ensure…`, `Read…File`, `Decide`,
`AppendCopies`, `Apply`, `SaveTree`, `SaveCurrent`, `SaveMark`). `CasePlacement` is
one such request without its files: `NextChannel`, `GroupItems`, `Descend` level
by level, `Land`, `Summarise`, `Apply`, `Respond`; any call of the model may fail.

Names of ghost variables say what a property excepts; they are listed with the
runs.

## Runs

| run | bounds | shows |
|---|---|---|
| `batch_queue` | 3 messages with intervals 0, 1 and 2, sends up to tick 1, clock to 3 | a recorded message always has a deadline and a trigger that will find it passed (`NoLostWakeup`); batches are the abstract stage's (`ImplementsMessageBatching`); every message is processed (`EveryMessageProcessed`) |
| `session_context` | 2 messages, 2 texts, 2 seconds, context of 2, every fault | what was acknowledged is kept (`NoContextLost`), and a restart restores what the model is sent (`CacheMirrorsMemory`) |
| `agentic_loop` | 2 turns, 2 rounds, 2 tools, 1 failed operation, crashes, either pipeline | every request is well-formed but for four named causes, carries its batch, tools are reported once, every turn ends |
| `nexus_sessions` | 2 channels, 2 bindings, 2 events, 2 messages, 2 changes, 1 edit, 3 workers | one live session per key; pruning spares a bound session; nobody waits for ever |
| `agent_config` | a channel, 2 agents, a role, 6 sets of up to 5 commands that meet, 2 failed writes or restarts | a restart changes nothing (`RestartChangesNothing`); sessions keep the model set for them, or that of the nearest level (`ModelInForce`); reply channels and keys stay as they were verified (`ChoicesKept`) |
| `agent_model` | the same | **violated**: `/model` answers that the model asked for is in force (`ModelAsAnswered`), see below |
| `memory` | store: 3 requests for the files of 2 days, 4 records, one request late, contexts of 1 or 2 records from 2 starts, 1 failure. Ego: an agent, its role, its individuals, 3 requests by 2 tasks, 1 failure, starting empty or with everything stored | files stay in order and numbered and requests are kept or refused as a whole (`FilesKept`); queries see what was written (`QueriesSeeWrites`); a context rebuilt meanwhile holds what it should, as a conversation (`ContextRecovered`); searches find the text readers see (`SearchAccurate`); memory shows what a restart would (`WritesKept`) |
| `channel_server` | 2 clients that want one user, 3 connections, 2 more requests, the deletion of the user; 2 attachments of 2 and 1 blocks, 3 chunk requests, 1 download, 1 fault | who was told it is bound is bound (`ToldIsBound`), nobody is stranded (`NoneStranded`); what a sender or a reader was told is in the files (`UploadKept`, `DownloadKept`) |
| `agent_services` | web: 1 user and no group at first, at most 2 and 1, 2 changes and 2 messages at once, 2 days, 1 failure, 4 of these events in all (`MaxWebEvents`). Echoes: 2 replies, 1 post, 2 identities, 1 fault. Stations: 3 and a server in 4 arrangements, 2 listings, 1 call, 2 losses. Models: 2 providers, 3 attempts, 2 edits, 1 call id | accepted messages are delivered once and in order (`AcceptedDelivered`), notices tell the memberships (`NoticesTell`), pages leave nothing out (`PagesComplete`); the agent's own words are kept out of what it hears (`OwnWordsKeptOut`); listings are complete and a call runs the tool that was listed (`ListingComplete`, `ListedToolRuns`); requests go where and are as the configuration says (`CallsAsConfigured`) |
| `record_notify` | 3 records, 2 suffixes, 2 failures | a record no request has looked at is announced or marked, but for four windows (`NoRecordMissed`) |
| `case_archive` | a role with an event, 2 channels, a think record, 2 requests, 1 crash or I/O error | what a watermark covers is in a case (`InOrderRecordsCovered`), once without faults (`CopiedOnce`); the three state files agree (`StateFilesAgree`); a rebuild leaves other suffixes alone (`SuffixesIsolated`) |
| `case_placement` | 2 records and 2 messages of a channel, a message of another, every grouping and every way down every tree of two names | merging is exact, groups end at leaves, summaries cover their subtrees, every message is located once |

Each property of a passing run has a mutant in `PROJECT.json`: a definition of
the model changed as a plausible mistake in the code would change it, under
which the property fails. Type invariants are theorems of the proof modules and
not checked again by runs.

### Exceptions a property names

Where the code can break what it seems to promise, the property says when, by
a ghost variable, and holds everywhere else.

| property | excepted |
|---|---|
| `EveryRequestWellFormed` | a failed append, a crash, a reduction that cuts a tool exchange in two, a failing tool in `default` |
| `InOrderRecordsCovered`, `CopiedOnce`, `LocatedOnce` | records an accepted grouping omits (`dropped`, `omitted`), suffixes whose rebuild broke off (`broken`), late records of the channel (`OutOfOrder`), and for `CopiedOnce` of any channel of the file (`Late`) |
| `FilesKept`, `QueriesSeeWrites`, `ContextRecovered` | files whose rewriting was cut off (`damaged`), records whose write failed (`lost`), files written anew between the two queries (`shifted`) |
| `NoRecordMissed` | four windows: `Broadcast`, `ListFails`, `Insert`, `RebuildFails` (`excused`) |
| `ToldIsBound`, `NoneStranded` | a removal decided for another connection (`robbed`), a bind that spans a whole removal (`late`) |
| `UploadKept`, `DownloadKept` | transfer ids that outlived a restart, an old file removed after the first block (`mixed`) |
| `WritesKept`, `SearchAccurate` | overlapping creations of an agent (`raced`), failed writes (`unsaved`), failures since the last mark (`missed`), two synchronisations of one key (`crossed`) |
| `NoticesTell`, `AcceptedDelivered`, `PagesComplete` | crossed notices (`crossed`), changes not saved (`untold`), messages in a failed batch or a restart (`lost`), days from before a restart (`forgotten`) |
| `OwnWordsKeptOut` | `early`, `expired`, `unheard`, `copied`, as its comment says |
| `ListedToolRuns` | lost calls, routes that changed or went (`moved`), names no header carries |
| `CallsAsConfigured` | providers configured anew under an instance or request (`replaced`), contexts with a failed tool (`toolFailed`), with answers of the other protocol or malformed ones |
| `RestartChangesNothing`, `ModelInForce`, `ChoicesKept` | failed writes (`unsaved`, `unsure`), replies that read an older channel (`erased`), channels added with a pair nobody verified and roles verified for an agent the channel no longer had (`unverified`) |

### Bounds, and why they are enough

- `batch_queue`: a lost wakeup needs one message whose enqueue overlaps the
  consumer's clear, and one earlier message that made the consumer run; the
  third gives the first two a different interval and a second overlap.
- `session_context`: two messages tell order and partial writes apart, two
  texts a change of the system message, two seconds two archives.
- `agentic_loop`: the second round is the one without new messages, the second
  turn starts from what the first left, two tools return in either order and one
  may fail. `MAX_TOOL_ROUNDS` is 10 in the code; rounds differ only in being the
  first, the last or neither.
- `nexus_sessions`: two messages race for one session, or for one and the
  pruning of another; two changes let a key be left and bound again; the edit
  changes a channel between the reads of the pruning. Three workers are one per
  task, which `NoStandstill` needs: with fewer, tasks that wait for an entry can
  keep all of them while its holder has none.
- `agent_config`: each set is one race (a reply against binding and unbinding,
  two changes of agent and role, `/model` against edits of providers and
  levels, …); two failures are a failed write and a restart after it.
- `memory`: a late record needs a file with two; a context crosses the boundary
  of two days; two tasks on three kinds of things overlap in every pair of steps,
  and the tasks are symmetric.
- `channel_server`: a third connection is one that comes while the first is
  removed and the second refused. Two chunks overlap, a third repeats.
- `agent_services`: two changes make notices cross, two messages make batches,
  two days pages that span files; two listings at once replace each other's
  tables, in a row, a diamond, a circle and two stations that are each other's.
  A failure meets every three of the changes and messages. Tasks, replies and
  listings are symmetric.
- `record_notify`, `case_archive`, `case_placement`: two suffixes tell isolation,
  one failure anywhere is what the state files must survive, and a later request
  finds what the one before left. Two channels share the files of `case_archive`,
  which is what shifts the numbers of records.

Runs whose tasks are used up stop, so deadlock is not checked there;
`NoStandstill`, `NoneStranded` and the liveness properties stand in for it.

### Fairness

`BatchQueue` assumes weak fairness of the consumer's steps, of the steps of a
`send` that has begun and of the clock: tokio polls a woken task, `send` never
awaits, and time passes. `AgenticLoop` assumes weak fairness of the loop as a
whole: the HTTP clients of the models and of remote tools have timeouts and the
number of retries is bounded (`kissbot-llm/src/provider.rs:56-64`, 214;
`kissbot-mcp/src/client.rs:54`), so a call ends in an answer or an error. The
other modules claim nothing that must eventually happen.

## What the code does and its text does not say

`agent_model` is a run that TLC must find violated. `/model <provider> <model>`
passes the provider's name twice (`command_router.rs:163`): the model asked for
appears only in the answer. A provider that lists no model of its own name
refuses every `/model`; one that does is answered with success and another model.

Met while modelling, and either excepted by name above or outside the properties:

- `parse_groups` compares only the ends of groups, so an index missing inside
  one is accepted (`model.rs:215`), which the comment at 182 rules out.
- The client of the notifications waits for a disconnection also after an attempt
  that failed (`notify.rs:46`), and does not connect again; its comment at 42 and
  `docs/spec/memory-struct-abstract.md:233` say it does.
- A record that comes late moves the numbers of the later ones of its file, which
  holds all channels of a role: one that is archived already, of whichever channel,
  may then lie beyond its watermark by its new number and is archived again
  (`archive.rs`, `locate.rs`: the watermark is a time and a number).
- A session's second message may be dropped when it comes before its pipeline
  has been created (`nexus.rs:117`).
- The agent may hear itself (`channel_manager.rs:357`, `nexus.rs:203` say it does
  not): with two bound identities, or when an echo overtakes the answer.
- `date_sets` of the web channel knows only days written since the start; a
  failed batch is dropped without notice (`NoopErrorHandler`).
- A failed write of the configuration answers an error and is in force; a file
  that was cut off keeps the program from starting.
- `/unbind` does not clear the reply channel, as a comment of `command_router.rs`
  says it does; `OutChannelConfig::merge` replaces also by `None`.
- A listing replaces the whole table of a station; two that are each other's sub,
  listing at once, can be left with routes that point at each other.
- Calls of models without an id or name are kept as they came, and an answer
  without choices as null; a change of model mixes the formats of two protocols.
- A failed query makes a recovered context empty; queries are not one snapshot.

## Proofs

The proof modules prove, for every value of the constants that meets the
`ASSUME` of the component's module:

- `BatchQueue`: `TypeCorrect`, `NoWakeupIsLost`, `DebounceHolds`, and
  `QueueImplementsBatching`, the step simulation of `MessageBatching`. The
  inductive invariant says of every recorded message where its wakeup is: in a
  sender that has not finished, in the trigger queue, in the delay queue, or in
  the consumer's hands before the clear.
- `SessionContext`, without torn lines: `ContextTypes`, `NothingIsLost`,
  `CacheIsTheContext`. `NoContextLost` is not inductive: while an operation is
  under way the acknowledged messages are partly in the memory, in `rest` or in
  `dump`, and the invariant says which step still holds them.
  `CacheMirrorsMemory` rests on an invariant of every step: what is in the file,
  followed by what is still to be written, is the system line and the memory
  the operation will leave.
- `AgenticLoop`: `LoopTypesHold`, `RequestsWellFormed`, `ToolTalkOnce` and
  `FirstRequestHasBatch`. A context is well-formed at every moment but while the
  tools run, when it ends with an assistant message whose answers are missing;
  lemmas say what may be appended, and that what remains after going back to
  the last assistant message is well-formed if no tool message was taken back.
  For the batch, the invariant follows the pending messages through the
  reduction: what was taken back and what is new stay in order.
- `NexusSessions` (in `Sessions_proofs`, with `SessionContext`): `NexusTypes`, `SessionsAreUnique`, `PruningSparesBound` and
  `NoStandstillWithEnoughWorkers`, the last for any finite set of messages
  smaller than the number of workers. The invariant says who holds each guard
  and at which step, that a locked entry is vacant, that the session in the map
  is the last created, and what the pruning has decided so far.
- `ChannelLink`: `LinkTypes`, `ToldAreBound`, `NobodyStranded`. The invariant
  relates each connection's removal to what is still bound to it: everything
  bound to a connection being removed is in the list the clean-up works on, or
  will be collected.
- `AttachmentTransfer` (in `ChannelServer_proofs`, with `ChannelLink`): `TransferTypes`,
  `UploadsAreKept`, `DownloadsAreKept`. The uploads' part of the invariant: an id
  is the one its attachment was given, a running worker knows how long its
  temporary file is, that file and what was acknowledged are a beginning of the
  attachment, and a chunk waits in the queue of its own upload or of one marked as
  mixed. The downloads' part: one block of a download is under way at most, it is
  the next to be written, and a confirmation that came means it was. Uploads need
  nothing of the downloads but that ids are counted together; downloads need that
  a file with its name does not change, which is a lemma about all actions.
- `CaseArchive`: `ArchiveInvHolds` (the invariant itself), `NothingLost`,
  `NothingTwice`, `FilesAgree`, `Isolation`. None of the properties is inductive:
  the watermark is written after the copies, the tree and the pointers, and a
  crash may come between any two of them. `ArchiveInv` says of every watermark, on
  disk, in memory and in the view of the request, that it is at its start or stands
  at a record that is in a case (`Reached`), and that no record which came in order
  lies behind it without a copy (`Passed`); of the request, at each of its stages,
  that its batch is what is pending behind the mark (`RestIsPending`), that the
  copies of its chunk are in the files or still to be appended (`Carried`), and that
  it works on the cases of its own suffix (`OwnParts`); and of pointers that they lie
  in the trees (`Pointing`). As long as nothing failed, `Exact` counts: files, tree
  and what is still to be appended add up, nothing pending has a copy, and only the
  suffix whose rebuild is under way is incomplete. Records are numbered by their
  place in the file, so the lemmas are about what the arrival of a record does to
  the places of the others: in order it leaves them as they are, late it moves them
  away from the start, so that a record may become pending again, never be skipped.
  That `CopiedOnce` excepts files with late records (`Late`) came out of the proof:
  with two channels in one file the step failed, and the run with two channels
  showed the history.
- `RecordNotify` (in `AbstractMemory_proofs`, with `CasePlacement`): `NotifyTypes`,
  `NothingMissed`. The invariant places every unannounced record in one stage
  between the store's queue and a mark.
- `CasePlacement`: `PlacementInvHolds` (the invariant itself), `BatchesAreExact`,
  `VerdictsAreSound`, `SummariesAreWhole`, `EverythingLocated`. Of a batch it is
  proved what `merge_batch` makes: the matches come about message by message
  (`PairsByStep`, `PairsMatch`), and a sequence in the order of time exists
  because the order is total on a finite set. The tree has two levels (`TreeOf`),
  which gives closed forms of ancestors, depth and subtree. `PlacementInv` has five
  parts: what was there before the chunk is kept and what is new holds nothing yet
  (`TreeInv`); groups share no item and verdicts lead to leaves (`DecideInv`); a case
  is told what it holds and what its children are told, while summaries are computed
  from the leaves up (`CoverInv`), which is what is inductive of `SummariesCover`; the
  rest of a batch is what is pending of its channel (`BatchInv`); and what is not to
  be located any more is located once (`LocInv`). Assumed are one finite request,
  its messages in a sequence without repetition, and the orders of records and of
  messages to be strict and total, as those of lists are.
- `MemoryStore`: `RequestsAreKept` and `QueriesAreCurrent` (both in
  `Memory_proofs`, with `EgoMemory`). The invariant (`StoreInv`) says of each file
  whose writes were never cut off what it is at each step of its writer: at rest it
  is sorted, numbered and known (`AtRest`); while lines are appended it is the old
  file and the lines done, and with the rest it will be sorted and numbered
  (`Appending`); while it is written anew it is the lines done over the old ones, no
  longer than the new file, whose records are all among the new ones (`Rewriting`).
  What is accepted is in the file, in the writer's lines, queued or lost (`Held`),
  and nothing is queued that is in one of the others (`Queued`), so that no record
  is written twice. The index is a beginning of the file unless it is marked as a
  whole (`Indexed`). Lemmas say what sorting by a relation returns for any finite
  set (`SortedByRelation`, `LinesArranged`) and what a file is with more lines
  (`GoodWithMore`), written anew (`JoinedLines`, `AfterLines`) or read on (`RestRead`).
  Of a file a write was cut off in only the types are said, with which no record of a
  refused request is in it: the code does not repair it. Assumed are the order within a request to be strict and total in each
  file, as the order of a list is, and no two requests to have a record in common.
- `ContextRecovery` (in `Memory_proofs`): `ContextsAreRecovered`, both parts of
  `ContextRecovered`. The first, `RecallWhole`, needs all of `StoreInv`, since the two
  queries read files that are being appended to: `IndexReaches` adds that an unmarked
  index has the lines a running writer found. Of the reader, `RecoveryInv` says as long
  as nothing was shifted that the lines found are those of the files and what was
  readable at the start is there to be found (`Recalling`); during the first query,
  that the days left are earlier than what was found, and a record not found is due
  on one of them or there is enough (`Backwards`); during the second, that a record
  not found lies before the window, or its day is due and it is not after the oldest
  (`Onwards`). What a query adds from a file is each line asked for, once, because
  numbers of a file in order tell its lines apart (`QueryTakes`). The second part,
  `TurnsTaken`, needs no more than types: `AllPacked` follows `Speak` from record to
  record and says where in what was spoken each message ends (`PackedUpTo`), which
  gives back what was left out at the beginning and the whole of the rest. Assumed are
  one file for each day, and days that do not fall as time rises.
- `WebMessenger` (in `Messages_proofs`, with `BatchQueue`): `NoticesAreTrue` and
  `MessagesAreDelivered`. For the first, the invariant (`WebInv`) follows the word on
  each membership: as long as a notice of it is on its way, the last one says what
  the groups say (`Told`), and none of another change is; when there is none, the
  user was told so, or was not told and nothing changed since it was bound. A user
  that was removed is the exception, since its memberships end without notices of
  their own: it is in no list any more, its number is not given again, and the
  notice that will unbind it is on its way (`Leaving`). Of the file at the start it
  is assumed that the numbers of users and groups are below the next ones and that
  groups that are gone have no members, which every change keeps.
  For the second (`MessageInv`), the numbers of a file's messages rise in everything
  that holds them, and from what was shown over what is stored and being written to
  what waits (`FilesHold`, `HandedHold`); what a user is still to be sent comes after
  what it was sent of that file (`SentHold`); and every message is somewhere on that
  way or lost, and when it has been shown, everybody it is owed to has it or is on the
  list of those it will be sent to (`NoneMissed`). Membership is looked at twice in the
  code, when a message is accepted and when it is pushed: what makes the second look
  find everybody is that whoever is owed a message is bound and may get it in the
  present configuration, which each change keeps by taking out those that may not.
  `PagesAreComplete` rests on the second: of each file a page shows the lines next to
  the one asked for, because numbers rise in it and none is above its bound; the
  files of a group laid out day after day are all its messages (`LaidOut`), and what
  the walk over its days returns is a piece of that (`OlderIs`, `NewerIs`). A file
  that has lines is known by its day, or is still being written, or was forgotten in
  a restart (`DaysKnown`).
- `EgoMemory`: `WritesAreKept` and `SearchesAreAccurate`. Four parts
  (`EgoTypes`, `Kinds`, `WriteInv`, `SearchInv`): who holds a lock and what its
  file holds at each step of a write; and for the index, that a key whose entry
  is not the text of the thing is marked, about to be marked, or in the hands of
  exactly one synchronisation that will read it after the change.
- `EchoFilter`: `OwnWords`. The invariant (`EchoInv`) says for each reply where its
  id is (on its way, pending, old, or used up by an echo) and which events of it
  are still to come.
- `ModelCalls` (in `AgentServices_proofs`, with `EchoFilter`): `CallTypesHold`,
  `RequestsAsConfigured`. The invariant (`CallsInv`) says that the instance kept for
  a provider is where the provider is, or the provider was configured anew; and that
  in a context where nothing went wrong every message with calls is followed by as
  many tool messages as it has calls, but for the last one while its tools run.
  Without an answer of the first protocol there are no tool messages, so what the
  other protocol leaves out does not change how the context ends.

- `AgentConfig` (in `AgentServices_proofs`): `RestartsAreHarmless`,
  `SessionsKeepModels`, `ChoicesAreKept`. The invariant (`ConfigHolds`) says where
  each command is and what it has verified there; that nobody but the writer is in
  the middle of a change; and of the file as well as of the memory, since a restart
  takes the one for the other: copies are the model chosen or what the levels said
  (`CopiesHold`, but for the key a command is just switching), keys are verified
  (`KeysHold`), and reply channels are set and bound (`OutsHold`). For the last, a
  reply that has not met a change since it read its channel knows the one that is
  set, so that it clears none that was asked for. The sets of commands, the pairs
  the ego memory knows, the models, the levels and the channels at the start are
  any; sessions start without copies, those of earlier runs come with `Restart`.
- `StationRouting` (in `AgentServices_proofs`): `StationInvHolds` (the invariant
  itself), `ListingsAreComplete`, `ListedToolsRun`. What the properties say with ways
  through a graph is first said step by step: a tool a station has is its own, or one
  of a sub-station's under the name it is given (`ToolCases`, `ToolPassed`), where the
  stations passed are a parameter (`ToolFrom`). The invariant (`StationInv`) then says
  of each frame of a listing that what it has found is what the sub-stations asked so
  far give, all of it if nothing failed (`ListIs`), also when a cycle was refused: by
  a refused station no tool is reached that has not been passed. Of tables it says
  that a name leads to its tool (`Leads`): there is a set of `<<host, stations passed,
  name, tool>>` in which each name is at the host of its tool, or a route leads on to
  another member, or has moved. Such a set outlives every later listing, because
  whatever a new table replaces becomes one of those that moved; so a call, which
  takes many steps, stays in one. That routes never move without cycles and failures
  is an invariant of its own (`Settled`): a table is determined by the order of the
  sub-stations asked (`TableRight`), since a station above, which a listing would
  leave out, cannot be met below (`ToolsWhoeverAsks`). Assumed are finitely many
  stations and that tools' names are sequences.

Recursion over data is written without a recursive operator: the last assistant
message of a context and the i-th member of a set of numbers by what they are, the
packing of a context as a fold, the name of a tool along a way as a recursive
function. Facts about it are proved by the least counterexample, from the
well-ordering of the naturals; of folds, functions and `FlattenSeq` lemmas prove
first that their definitions meet the step (`SpeakByStep`, `JoinByStep`,
`NameAlongIs`). The walk over the days of a page is a recursive function too, of
which a closed form is shown to meet the recursion.

Left to TLC: liveness (`EveryMessageProcessed`, `TurnEnds`), which is out of the
prover's reach under fairness, and the violation. Every invariant and every action
property the other runs check is proved.

## What is not modelled

Within the modelled components: names and renames; texts, prompts and the
rendering of results; arguments and results of tools; sampling parameters and
counts of usage; the completion of names; the placeholders a tool or think
record leaves among channel records; byte offsets of lines; reorderings of
relaxed atomics; raw sessions, whose settings work like those of sessions with a
memory; a pipeline configuration edited after its session was first used;
`default_memory` on a session without memory, which nothing constructs; queries by
a range of time.

Left out altogether: `abstract_input_processor.rs`, which is unfinished (its
`flush_batch` ends in `todo!()`); the checks of `kissbot-security`, which have no
state; the types of the API but where a definition is one of them; the command
line and the pages, but for their side of uploads and downloads.

The map in `PROJECT.json` covers about 30 % of the Rust sources: what it leaves
is HTTP plumbing (routes, parsing, clients), types and serialisation, prompts,
error types, getters, start-up code, mocks and the unfinished processor.

## What is left

That `SessionContext` implements the single-step context `AgenticLoop` works on is
stated nowhere but in their comments; the reading of cases for display and the
paging of the abstract memory are not modelled.

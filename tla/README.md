# A TLA+ model of Evot

Evot is a terminal coding agent: a Rust engine that talks to language models and runs
tools (`src/src/engine`), a Rust application around it that keeps sessions, runs, settings, a
cloud account, a chat gateway and background work (`src/src/app`), a native addon
(`src/cli/addon`), and a terminal client in TypeScript (`src/cli/src`). This directory models
the parts in which several actors work on the same state, and the algorithms they rely on,
checks the models with TLC and proves the main safety properties with TLAPS.

Paths below leave out the prefix: `engine/` is `src/src/engine/src/`, `app/` is
`src/src/app/src/`.

1. [The system](#1-the-system)
2. [The modules](#2-the-modules)
3. [The runs](#3-the-runs)
4. [Fairness](#4-fairness)
5. [What is proved](#5-what-is-proved)
6. [Disagreements](#6-disagreements)
7. [What is not modelled](#7-what-is-not-modelled)
8. [The plan](#8-the-plan)

## 1. The system

### How the parts interact

A request (a message of the user, a message of a chat channel, an HTTP call, a scheduled
task) reaches the **Agent**. Under the lifecycle gate of its session the Agent stops the run
that is active, and spawns a new **run**. The run builds a turn, starts an **engine**, and drives
it: it flushes what the engine says to the **transcript** through the session's `Session`
object, and sends events to whoever listens. The engine asks a model through a **provider**, runs the
**tool** calls of the answer in parallel, drains **queues** of steering messages and follow-ups
between turns, and **compacts** its context when it grows. The bash tools start child processes
in the session's **process manager**, which survive the turn, the run and even the listener.
Other clients of the same session, in this process or in another, write to the same transcript at
any time; a **sync** carries it to the cloud and to other machines. The **gateway** keeps a chat
transport running, the **dispatcher** claims due tasks from the cloud, the **dashboard** serves
sessions to a browser; all of them read **settings** and a **cloud account** that anyone may change.

### The components

| component | state | operations | hard because | correct when |
|---|---|---|---|---|
| process manager (`engine/tools/process/manager.rs`) | table of tasks with status and flags, notices, tombstones, permits, a monitor per child | start, background, stop, claim, drain, forget, terminate, kill | an end is committed and announced in two critical sections; claims and drains take two each, in opposite orders | no completion is lost or told twice, ends are final, limits hold, what eviction reclaims is at rest |
| bash, task_output, task_stop (`engine/tools/`) | where each call of a batch is, the waits and their generation | poll, yield, format, wait, give up, claim | decisions on snapshots; a cancelled turn must return although nothing dies | what is handed back stays collectable; a command in the foreground is watched |
| session transcript (`app/sessions/session.rs`, `app/compact/`) | one file; per object a sequence and the resolved context; per run a buffer | open, append, strict append, flush, compact, clear | others append in between; abandoned appends; plans made from old contexts | memory is a past of the file; no record is torn, repeated or dropped by a compaction |
| transcript file (`app/storage/fs/`) | lines, a backup, a lock | open, migrate, append, read from the end | a process may die between two writes | the file is what the store in memory would be |
| run lifecycle (`app/agent/`) | gate, registry, per run phase, tokens, engine, manager | send, clear, delete, fork, compact, stop; build, install, drive, complete | completion before registration, abort around installation, timeouts | one live run, which can be reached; aborted engines stop; requests are answered |
| run events (`app/agent/run/`, `app/conversation/`) | pending events, byte budget, listener | project, coalesce, send, flush, replay | the producer waits for a listener that may have gone | what is shown is what was made and what a replay shows |
| agent loop (`engine/runner/driver.rs`, `tool_exec.rs`) | context, new messages, pending prompts, guards, compaction check | ask, execute, steer, nudge, follow up, compact, retry, cancel | a cancel at every await; a check may drop, retry and retry again | one result per call, no prompt or message lost, bounded requests |
| prompt queues (`engine/agent/queue.rs`) | two queues of versioned entries | send, edit, withdraw, move, promote, drain | edits race the drain; a promotion takes two lock sections | a prompt is in one place until it is delivered or withdrawn |
| compaction (`engine/context/compaction/`) | what was summarised before, the plan, the stages | cut, reclaim, summarise, retry, fall back, prune | summaries of summaries; stages that fail | old history is given once; only what is evicted is forgotten |
| model call (`engine/runner/llm_call.rs`) | attempt, budgets, channel | stream, retry, wait, forward, cancel | four budgets and a cancel at every await | attempts do not mix; cancelled calls end |
| providers (`engine/provider/`) | none between requests | build a request, decode an answer | merging and dropping of blocks; streams cut anywhere | requests are accepted and tell the history; broken answers are errors |
| tools on files (`engine/tools/file/`, `explore/`, `validation.rs`, `spill/`) | locks by name, last reads | edit, read, write, grep, glob, coerce, cap | batches run concurrently; text changes shape | edits are local and not lost; what is left out is said |
| automation (`app/automation/`) | request id, lease, work, report | claim, heartbeat, work, deliver, report | answers are lost; a lease runs out | work under a lease only; reported truly, in the end |
| gateway (`app/gateway/`, `app/delivery/`) | settings wanted and running, connection, frames, handlers, token, reply | reload, replace, connect, receive, handle, send, edit | restarts in the middle of messages, edits that fail, tokens that expire | one transport; every message is taken; the answer is shown |
| dashboard (`app/gateway/channels/http/`) | cached rows, chats, requests | list, chat, new, delete, sweep | clients that leave, deletes beside lists, restarts | runs end with their client; deletes leave nothing |
| cloud sync (`app/sync/`, `session_meta.rs`) | copies, cursors, link, title | push, pull, share, unshare, save, rename | acknowledgements are lost; two writers of one record | copies are prefixes of each other; writers keep each other's fields |
| settings (`app/conf/`, `app/models/`) | env file, configuration of each process, live selection | load, save, edit, sign in, switch | pages save what they read long ago | a save keeps what it is not about |
| cloud account (`app/auth/`) | login, key, lock, device codes | sign in, mint, recover, sign out | calls recover at once; logins overtake them | one new key per revoked one; nothing is written over a new login |

`PROJECT.json` lists every component with what of it is modelled, and the hazards: what in
this code is hard to test, at the line where it bites, with the properties that would catch it
going wrong.

## 2. The modules

| module | models |
|---|---|
| `ProcessManager` | the manager, its monitors, its callers; implements `CompletionNotices` |
| `ProcessTools` (extends it) | the tool calls of one turn, the user, the manager |
| `SessionTranscript` | the transcript, several `Session` objects and the runs that use them |
| `TranscriptFile` | the file on disk, its migration and its readers; implements `TranscriptStore` |
| `RunLifecycle` | requests, gate, registry, control plane and runs of a session |
| `RunEvents` | engine events, outbox, listener, recorded and replayed nodes |
| `PromptQueues`, `Conversation` | the two queues; the pure algorithms on a history |
| `AgentLoop` (extends both) | one run of the engine |
| `ConversationCases` | every short history, for the algorithms of `Conversation` |
| `SummaryChain` | a session compacted again and again |
| `ModelCall` | one logical call of a model |
| `ProviderRequests`, `StreamDecode` | what four builders make of a history; what three decoders make of a stream |
| `ToolInput`, `ToolResults` | arguments before, results after a tool |
| `CommandOutput`, `ByteText` | tail, file and result of a command; cuts of a text by bytes |
| `TextEdits`, `FileReads`, `FileTools`, `SearchTools` | edit, read, the locks of a batch, grep and glob |
| `Automation` | dispatchers, leases and a cloud that loses answers |
| `ChatChannel`, `ChatMessages`, `ChatReply`, `ChatRequests` | transport, incoming message, growing answer, requests with a token |
| `Dashboard`, `CloudSync`, `Settings`, `CloudAccount` | sessions of the console, copies of a session, the env file, login and key |
| `ProcessProofs` | theorems about the manager and the promise it keeps, and about the tools |
| `ChatProofs` | theorems about the growing answer and the shared token |
| `SessionTranscriptProofs`, `RunLifecycleProofs` | theorems about the transcript and the lifecycle |
| `AgentLoopProofs`, `HistoryProofs` | theorems about the loop with its queues, and about the histories it sends and leaves |
| `RecordsProofs`, `ServicesProofs` | theorems about `CloudSync`, `CloudAccount` and `Dashboard`, and about `Automation` and `RunEvents` |
| `MC*` | instances for TLC |

Every module names its state after the code's and says beside each variable which field it is. The
`map` of `PROJECT.json` gives the lines of every definition. A definition that no other one uses
and that differs a little from the next one (`OwedToClaimed` before `Owed`, say) is a mutant of it: the
form that a plausible bug would give it.

### ProcessManager and CompletionNotices

A call that takes one lock is one action; a call that gives up a lock between two effects is one
action per critical section.

| code | actions |
|---|---|
| `start` | `BeginStart` (prune), `EntombPruned`, `Admit` (limits, permit), `SpawnFails` or `Spawn` |
| the child | `ProcessExits` |
| `monitor_process` | `ObserveExit`, `ObserveCancel`, `DeadlineKills`, `DeadlineBackgrounds` (the `select!`), `Commit` (status, permit), `Announce` (notice) |
| `background`, `background_all_foreground` | `ToBackground`, `BackgroundAllForeground` |
| `stop`, `stop_all_background` | `Stop`, `StopAllBackground` |
| `claim_notification` | `ClaimNotification` (flag), `DropQueued` (queue) |
| `take_notifications` | `TakeNotifications` (queue), `MarkTaken` (flag) |
| `forget` | `Forget` (table), `EntombForgotten` (tombstone), `DropQueued` |
| `terminate_all`, `kill_all_now` | `TerminateAll`, `KillAllNow` |
| other sessions | `OtherSessionStarts`, `OtherSessionFinishes` |

A task is numbered by its start. Of its output only the existence of the file is kept; of the clock,
that a deadline may come at any moment, once. A stop requests `Killed` and then cancels the token; the
two are one flag because the monitor may take either branch when both are ready.
`CompletionNotices` says per task which phase it is in and whether its notice is owed, posted or
told; `PhaseOf` and `NoticeOf` map the table, the flags, the queue and the drainers to it.

### ProcessTools

The calls of a turn are futures of one `join_all`, polled by one task: a call gives way to
another only where it awaits (`Polled`), while monitors and the user interleave everywhere. A bash call goes
through `BashCheck`, `BashBegin`, `BashAdmit`, `BashSpawn`, then round by round `BashCancelled`,
`BashPolls`, `BashYields` or `BashYieldRefused`, and in the end `BashFormats`, `BashForgets`,
`BashReturns`. A query is a blocking `task_output` (`WatchRegisters` to `WatchFinishes`) or a
`task_stop` (`StopCalled`, `StopReturns`) on a task that was handed back, and answers in
`QueryAnswers`. The user detaches, stops, ends waits (`UserReleases`) and cancels the turn; notices are
drained between turns. `answered` and `returned` are history: what the model has been told.

### SessionTranscript, TranscriptFile and TranscriptStore

In `SessionTranscript` the file lock makes one storage call one action. A commit is a loop under
the object's own lock: `Accepted` or `Abandoned` (the append lands, and the caller learns of it or has
gone), `Conflict`, `Reread`, `GivesUp`, `StalePlan`, `AppendFails`, `ReadFails`. A message is a number; a
context is the set of the messages that it represents, verbatim or through a summary. `tail` says
whether the file ends in a whole line, a torn one, or one written behind a torn one. The run around it is
`StartRun`, `Say`, `TurnEnds`, `Compacts`, `PersistCompaction`, `EngineCompletes`; `Exit` drops an object
or kills its process at any point. `TranscriptFile` opens the storage call: a line is its brackets, its
entries and its newline, one cell each; a process may die between any two of the steps of an append or
of a migration, and reads go through a window that doubles from the end.

### RunLifecycle and RunEvents

In `RunLifecycle` a step ends at an await or where a lock is given up. Who holds the lifecycle gate is
read off the program counters (`HoldsGate`). `Send` and `Ask` begin a request; `Decides` is what a
channel does before the gate (steer, refuse, go on); `TakeGate`, `Interrupt`, `Stopped` and `TimesOut`
are `interrupt_active_run`; `Start`, `Register`, `Retire`, `Erase` and `Copy` what is done behind the
gate. The run goes through `Begins`, `Build`, `Submit`, `Install`, `Flush`, `FinalFlush` or
`FlushFails`, `DetachEngine`, `Complete`, `Unregister`. `Stop` and `ReachEngine` are the two halves of an
abort. `RunEvents` is the inside of a drive: `ReadEngine` projects one engine event, `Flush` records,
`CheckBudget`, `Sleep` and `Wake` are the wait for capacity with its lost-wakeup rule, and the nodes of
`ScreenMatchesTranscript` are what `chat_projection.rs` builds live and from a transcript.

### AgentLoop, PromptQueues, Conversation, SummaryChain

`AgentLoop` has one action per segment of `run_loop` between awaits: `Begin`, `Open`, `Ask`,
`AnswerTalks`/`AnswerCalls`/`AnswerFails`, `Execute` (a batch of calls, `Cut`, `SkipRepeated`),
`Executed`, `Steer`, `Nudge`, `FollowUp`, `StopAtLimit`, `LeaveCancelled`, and a compaction check entered
with `CheckAt` and left through one of its `Check…`, `Summarize`, `StageFails`, `Succeed`, `Leave`
actions. The model, the tools, the summariser and the judge are choices. `PromptQueues` gives each lock
section of a client an action; an entry carries the version that decides a race. `Conversation` holds
`Sanitized` (`sanitize_tool_pairs`), `Plan` (`plan_core` with its cut points) and `Candidates`/`Pruned` of
the judge, which the loop uses and `ConversationCases` checks on every history of up to five messages.
`SummaryChain` follows what each generation of summaries is given: a message is the set of what it
accounts for.

### The services

`ModelCall` has a bounded channel, a forwarder and the budgets of `llm_call.rs`. `Automation` keeps the
lease of each run at the cloud as a token and the ticks since it was last shown; a dispatcher polls its work only
between heartbeats (`Freeze`, `Working`). `ChatChannel` composes supervisor, transport, connection,
dedup and handlers; frames come in any order, again and again, until acknowledged. `ChatMessages`,
`ChatReply` and `ChatRequests` are the three algorithms around it. `CloudSync` has actors that push,
pull, share and unshare step by step, and the two-writer rule of `session_meta.rs`. `Dashboard`, `Settings`
and `CloudAccount` have one program counter per handler, page, terminal or call.

### The algorithms on text

`TextEdits` runs the five tiers of `edit.rs` on texts of a few characters that keep what the tiers
look at (blank, curly quote, wide form, CR, LF, mark). `FileReads`, `SearchTools`, `CommandOutput` and
`ToolResults` keep sizes and places. `ToolInput` is the recursive coercion as a function of schema and
value. `ProviderRequests` numbers every block, so that losing, repeating and reordering can be told;
`StreamDecode` has the same of the pieces of a stream.

## 3. The runs

Twelve runs; each stays below five minutes with two workers. Three of them are unions: components that
share no state are instantiated side by side, a behaviour picks one of them (`part`) and the
rest stay at their initial states, so the states of a union are the sum, not the product, of those of
its parts. A property of a union is the conjunction of the properties of one component, behind `Is(part)` where it is
no invariant of the initial state. `CopiesAgree`, `SessionsAreAccountedFor`, `KeysAreShared` and `EventsArrive` are the components' own: `MCRecords`
extends `CloudSync`, `Dashboard`, `CloudAccount` and `RunEvents`, and `MCExchanges` extends `ChatReply` and `ChatRequests` for `AnswerIsShown` and
`StaleTokensHeal`, so that the theorems about them and the runs speak of the same formulas.

| run | instance | states | what it shows |
|---|---|---|---|
| `manager` | 2 tasks, every limit 1, nothing retained, 1 foreign permit, one task that is killed at its deadline | 1.5 M | `CompletionsAreKept`, `ReclaimableIsQuiet`, `LimitsHold`, `OutcomesStick`, `ShutdownReachesAll` (a shutdown ends every task, but for the start that `kill_all_now` may overtake), and `KeepsPromise` (it implements `CompletionNotices`) |
| `tools_races` | a foreground and a background bash call, a query, one release of the waits, nothing retained | 2.2 M | `WaitsAreKept`: what is handed back stays collectable, and a task in the foreground is watched by a call or was asked to end (a detached one may still be reported as ended and forgotten: Disagreements, 1); `AnsweredIsSilent`: an outcome is told once |
| `endings` | two background bash calls and a query; a channel and a direct client with one run | 53 K | under fairness, cancelled turns return, stopped tasks end, owed notices are posted, one deliberate task at a time; requests are answered; stopped runs, and those whose listener leaves, end unless a listener stays for good and never reads |
| `lifecycle_races` | two channels, one direct client, 2 runs | 2.5 M | `RunsAreAlone`, `RegistryIsRight`, `EnginesAreHeld`, `ToolsShareTheManager`, `ChannelsDoNotInterrupt` |
| `transcript_clients` | two clients, 1 message, 1 retry, 3 records, clears | 1.7 M | `MemoryIsFaithful`, `NoMessageIsLost`, `SaidOnce`, `StaysReadable` |
| `agent_turns` | 2 prompts, 2 turns, 2 calls, a judge, three histories | 0.75 M | `RequestsAreAnswerable` (a request is a conversation that a provider accepts), `PromptsAreSomewhere`, `NothingIsForgotten`, `RequestsAreBounded`, `CancelEndsTheRun` |
| `services` (union) | 2 devices, 1 due run, 2 targets; 1 model call with 3 errors; 2 messages, 2 revisions, 3 connections | 0.2 M | `WorkComesToAnEnd`, `ModelCallsComeToAnEnd`, `MessagesComeToAnEnd` |
| `records` (union) | see `MCRecords` and its cfg | 0.65 M | eight properties, one for each component that keeps records |
| `exchanges` (union) | see `MCExchanges` | 0.5 M | `ToolsTellTheTruth`, `AnswerIsShown`, `StaleTokensHeal`, `ModelIsUnderstood` |
| `yield_reports_end` | one foreground bash call | *violation* | Disagreements, 1 |
| `clear_undone` | two clients, 1 message, 5 records | *violation* | Disagreements, 2 |
| `swept_sessions` | one session, one request, one chat, one restart | *violation* | Disagreements, 3 |

### The bounds, and why they are enough

- *Two tasks, limits of 1.* Monitors do not look at each other's tasks; they meet in the queue, the
  permits, the table and the tombstones. Two tasks are enough to order, to overflow a limit of one, and to
  prune or replace one while the other runs. The theorems lift the bound.
- *Two bash calls, one query, one release.* Every pair of calls that can race on one task occurs. A second
  release changes the generation again, which a waiting call cannot tell from the first. `MaxRetained` is 0:
  every claimed task may be evicted at once, which is where a tool could lose what it has handed back.
- *Two Session objects.* A conflict needs one that writes and one that loses. `MaxRetries` is 1 (8 in
  the code), so that giving up is reached. The theorems lift these bounds.
- *Two channels, one direct client, two runs.* Two channels to steer one another, a direct client to
  bypass them, two runs for a late completion to meet a later registration.
- *Two prompts, two turns, two calls.* A prompt can overtake the other, a batch can be cut, skipped
  or interrupted between its calls, and a compaction can come before, between and after. The three histories are a
  new session, one with something to cut, and one longer than what the judge spares (`Recent`), so that pruning happens.
- *One lease, two devices, two faults; a term just above what `lease.rs` relies on.* A lost claim, a lost
  heartbeat and a takeover in one behaviour.
- *Two machines with one actor each, two changes (entries together with the renames of any one copy), one trouble; one file with two writers and one death;
  five engine events; histories of five messages; three generations of a summary* reach a
  conflict, a repair, a coalesced event, every pair of neighbours, and a summary of a summary of a summary.
- *Two env files to start from, a stale provider `tier` and the user's own `tier-mine`.* The cleanup of a load
  deletes the second with the first (`Extends`), and a hand edit may fall anywhere, inside a transaction too. One save and
  one load; what only a save looks at stops changing after the last one.
- *Outputs of up to four chunks, a tail of 13 and a file of 32 bytes, a display of 7 bytes and lines of 4.* An
  output may fit everywhere, overflow the display only, lose the beginning of its tail, at a newline or within a line,
  and overflow the file as well; texts of a tool result come one and two at a time.
- *Symmetry* is used for the two clients of the transcript and the two channels of the lifecycle, never
  in a run with liveness.
- *Deadlock* is checked in `manager`, `lifecycle_races`, `transcript_clients` and `agent_turns`; in the others
  the calls return, the work is reported, the text is edited, and the system stops as it should.

## 4. Fairness

The manager and the tools: a monitor whose `select!` is ready is polled; a call that has begun its
second critical section, and a tool call that has begun, go on: the tokio runtime polls tasks that
are woken. Nothing obliges a process to exit, a deadline to come, the user to act or a wait to stall.

The lifecycle: tasks that are spawned run. Taking the gate is strongly fair, because a tokio `Mutex`
is first come, first served. An engine that has been told to stop ends: it looks at its token at every
await, which `CancelEndsTheRun` of `AgentLoop` shows. Nothing obliges an engine to end that has not been
told, a write to fail, or a client to ask. That requests are answered nevertheless is due to the
timeout of the wait.

The listener of a run owes nothing. While what it has not read exceeds the byte budget, the drive loop waits for
it alone (`tx.wait_for_capacity()`, `runtime.rs:298-300`, `outbox.rs:137-150`) and sees neither the cancel of its run
nor its engine: so `Reads`, which enables the steps of the loop, is false while the listener `lags`, and only its catching
up or leaving makes it true again. A listener that lags and catches up again and again leaves these steps enabled again and
again, not all the time; the loop is woken at each of these moments and goes on, so the last two, the end of a told engine and
the final flush, are strongly fair. A listener that stays and never reads keeps a stopped run from ending for good:
`StoppedRunsEnd` is about the runs whose listener lives (`ListenerLives`, no assumption but the premise of the property),
and `StopsReachEveryRun` about all, which is false (Disagreements, 17). Requests are answered in either case.

The agent loop is one task; its fairness is that of its next step. Clients, tools and the model owe
nothing, except that a call which has been made returns: each is a choice of the step that makes it.

Automation: a dispatcher polls and beats, and time passes. The steps of its work are strongly fair: the guard
polls it only between two heartbeats, so they are ready again and again and not all the time. The model call:
the call, its forwarder and the two arms of its `select!` are polled; the provider need not answer. The chat
channel: supervisor, transport and handlers are polled, and the platform sends a frame again until it is
acknowledged, to whichever transport is there.

The remaining components have no liveness properties of their own.

## 5. What is proved

All theorems are for arbitrary constants, under the assumptions named in the modules:
`LimitsAssumption` (limits are natural numbers, at least one tombstone), `SessionAssumption`,
`LifecycleAssumption` (channels and direct clients are disjoint), `CallsAssumption`, `PromptsAssumption` and
`LoopAssumption` (limits are natural numbers, those on turns and calls are not 0), `EventsAssumption`
and `ReplyAssumption` (limits are natural numbers), `SyncAssumption` (every actor has a machine),
`AccountAssumption` and `DashboardAssumption` (nobody is called "free"). Two say more:

- `HistoriesAssumption`: a run starts from a history in which every spoken answer is followed by the results of its calls and
  a summary comes first. `HistoriesStayUsable` closes the circle, since every run leaves such a history, however it ends. A history that
  was torn from outside is what `sanitize_tool_pairs` is for: `TornHistoriesAreMended`.
- `AutomationAssumption`: the cloud waits for longer than one heartbeat interval and two request timeouts (`Term > Interval + 2 * Timeout`,
  which `lease.rs` relies on and cannot check), and a list of targets is not empty (`target.rs` refuses one that is).

TLC evaluates each on every run that extends the module, and has checked each inductive invariant on an instance before it was proved.

**ProcessProofs, the manager.** The properties of the queue are not inductive: that a completion is not lost
depends on which step the monitor has reached. The invariant `IInv` says of every task
that its status, its monitor and its process agree (`Lifecycle`: terminal exactly when the
monitor is past `Commit`, only then claimed; background and notifying together), and which of the queue, the
drainers and the claimers holds its notice (`Delivery`). From it follow `TypeCorrect`,
`CompletionsStay`, `ReclaimIsSafe`, and, step by step (`TaskStep`), the action properties
`EndsAreFinal`, `DetachesStick`, `ClaimsSilence`, `DecisionsStick`. The limits need two more facts, in `LimitsInv`:
a start that was admitted still has room when it spawns (`RoomForAdmitted`), and a tombstone is of a task that
was started and is not tracked (`TombstonesOfStarted`). With them `LimitsAreKept`. That a shutdown is thorough needs
two others, in `ShutdownInv`: a task that runs is in the table, where the shutdown finds it, or was asked to end before it
was released (`ReleasedAreAsked`), and `terminate_all` never falls into a start, since both take the lifecycle lock
(`ClosedBetweenStarts`). `kill_all_now` takes none, and `ShutdownIsThorough` allows it the one start that it may overtake.

`PromiseIsKept`, in the same module: `ProcessManager` implements `CompletionNotices`. Each visible
step is a step of the promise (pruning and forgetting are `Release`, a detach or a deadline `Detach`,
`Commit` is `End`, `Announce` is `Post`, a drain or a claim `Tell`), and all others leave phases and
notices alone. `Delivery` is what makes `Announce` a legal `Post`, and `DropQueued` and `MarkTaken` stutter.

**ProcessProofs, the tools.** The tools add their calls to the steps of the manager, so the first part shows that the
manager's `IInv` survives them; the only one that removes a task is `forget`. `CallKnows` and `QueryKnows` say what a
call may rely on at each of its steps about its own task (what a call waits
for, or has answered as running, is in the table or claimed; a background answer owes its notice; a query asks only for
what was handed back), and `TasksApart` that two calls never hold one task. From
these follow `WaitsStayKept` (`WaitsAreKept`) and `AnswersAreSilent` (`AnsweredIsSilent`), for any number of calls and tasks.

**SessionTranscriptProofs.** `IInv` says of every object that its memory is a past of the file, of every
batch in flight that it is well formed for its purpose, and of every plan not found stale that it knows
all that was said up to its expected sequence (`Plan`). That last part is what makes
`NoMessageIsLost` inductive: the property says nothing of the plan that a later step will write. The lemmas
`Prefix`, `PlainAppend`, `ControlAppend` and `BatchAppend` say what appending does to the context that a
file resolves to. `MessagesAreSaidOnce` has an invariant of its own (`SaidInv`): a message is in the file or in the
buffer of one run, never in both nor in two, and the batch of a commit is what its run has buffered; so neither a retry
after an abandoned append nor a rebase can write it again.

**RunLifecycleProofs.** That at most one run is alive is not inductive either; what is, is what the holder of
the gate knows at each step (`HolderKnows`): while it waits, only its target is alive; while it acts, nothing
is; when it registers, only what it has spawned. Together with the exclusive gate and the two
registry properties this is `GateInv`; `EngineInPhase` adds what exists of an engine at each
phase, and `OneConversation` what a channel that found nothing to steer may rely on.

**AgentLoopProofs.** Three invariants, one on top of the other.

- `BoundInv` counts requests by the place of the loop (`Budget`). Of the recovery attempt it says that it is the budget of
  one request: `attempted` is set when that request is allowed, and taken back only where a turn has been counted or
  where a message goes in, which happens while nothing is owed (`InHand`). `AskingIsBounded` (`RequestsAreBounded`) follows.
- `PromptInv` says that six disjoint places hold every accepted prompt (`Places`): withdrawn, two queues, on the way
  between them, told, in the loop's hand. A retry takes the failed answer out of what was told; that it never takes a
  prompt out needs to know what the messages end with (`QuietEnd`), and that nothing is in the loop's hand when a step
  overwrites it is `InHand` again. `PromptsHaveAPlace` (`PromptsAreSomewhere`) follows.
- `VersionInv` says that what a client saw is never newer than the entry, and equal versions mean the same queue and
  text. A promotion takes the entry out of one queue and puts it into the other under two locks, with a new version;
  the invariant covers the entry in between. `StaleEditsAreRefused` (`VersionsTellTheTruth`) follows, which no run lists:
  it is proved instead.

`TypeCorrect` is a consequence of the first two, and of a client remembering one entry at most (`OneSeen`).

**HistoryProofs.** Histories are sequences that are filtered, cut and joined, and an induction over sequences cannot be
instantiated. The first part gets by without: the natural numbers are well founded, so a place at which a claim about a prefix
fails has a first one (`LeastOne`), and the step before it is the contradiction. That gives `PickedIs`, which says that the messages picked out
of a sequence are those at the picked places in their order, and from it what pruning (`PrunedUsable`), cutting (`CutUsable`), joining
(`JoinedAnswered`, `JoinedOrderly`) and the repair do to a history whose calls are answered. The second part is one lemma for each action of the loop.

- `HistoryInv` is `Exchanges`, `BoundInv`, `PromptInv` and types. `Exchanges` is what the loop knows of its context: between an
  answer and the end of its batch the context is a sound history and that one answer, and `results` answers a beginning of its calls (`InCalls`);
  everywhere else it is sound (`Sound`) and ends as the place of the loop demands (`Placed`). The other parts say why nothing is asked for
  twice and that a prompt from a queue is a user's message. `RequestsStayAnswerable` (`RequestsAreAnswerable`) and `HistoriesStayUsable` follow.
- `Remembers` says that the context represents whatever the run has said, itself or by a summary (`Recalls`), at each place at which a
  check or a failure takes something out. `NothingGetsForgotten` (`NothingIsForgotten`) follows.
- `TornHistoriesAreMended` is about `Sanitized` alone, for every list of messages: each call has one result in its own exchange and each result
  its call, even where call ids recur, results are missing or come twice, or a call is answered before it is made.

**RecordsProofs.** Three components, each with an invariant of its own.

- `SyncInv`: every mark that says how much of a transcript is the cloud's tells the truth (`Marked`): in the metadata, in a push, in a pull, and in
  what a share puts back (`Knows`), as long as nobody has replaced the cloud copy and no run has written into a copy that lacks entries; and every
  entry follows what its author had (`Follows`). `CopiesAlwaysAgree` (`CopiesAgree`) follows for any machines and any clients on each.
- `AccountInv`: the refresh lock is held by the recovery that is between entering and leaving (`LockIsHeld`), the key it replaces does not work any
  more and the cache holds no other one (`KeyIsDead`), and an answer is compared with the login of its own request (`KnowsPassed`).
  `KeysStayShared` (`KeysAreShared`) and `AccountTypeCorrect` follow.
- For the console: what each chat stream has sent and made at its stage, who may list what while sessions are removed, and that a run that nobody
  has told to stop belongs to a stream at work. `SessionsStayAccountedFor` (`SessionsAreAccountedFor`) and `ConsoleTypeCorrect` follow.

**ServicesProofs.** `Automation`, for any devices, runs, targets and faults, and `RunEvents`, for any budget and any number of events.

- `TokenInv`: a token belongs to the device that made it, the id of the next request is new, and what the cloud leases has no verdict and has been
  answered or is waited for. `NewRequest` needs that among one more number than are used, one is free.
- `LeaseInv` is an argument about clocks. A dispatcher that goes on showed its token at most one timeout before its clock was reset, so
  the silence at the cloud is at most `Timeout + clock`, and a heartbeat is due at `Interval`: the silence of a lease under which someone works
  stays below `Term`, and only a lease that is silent for longer is taken back. `LeasesStayHonoured` and `OneDispatcherWorks` follow: no two
  dispatchers of a user ever work on one run.
- `ReportInv`: which sends have been tried and which confirmed under a token at each stage of the work, and that nothing is sent under a token that has been
  reported. A send without an answer counts as an error, whether it arrived or not (`delivery.rs:36-41`), so "failed" says that some target has not
  confirmed, not that it has received nothing; "sent" says that all have. `ReportsStayTrue` follows. The run of this component has `LeasesAreHonoured` and `ReportsAreTrue` as parts of `WorkComesToAnEnd`.
- `EventsInvariant` is about the stream of a run. `Flows` says that what is queued and what was shown, taken apart into the pieces that were
  merged, is what was sent, and that the queue weighs what is counted (`Sending`, `Showing`). `RoomIsAwaited` adds the place between the look at
  the budget and the sleep, where a wake-up could be lost: a loop there, or asleep, that has not been woken still lacks room, or the listener is about
  to notify. `ScreenKeepsUp` compares screen and replay while an event is half handled: what is shown and is still to be shown is what is written and
  is still to be written, answers and results only (`ProjectionIsFair`: the projection owes both sides the same). `EventsKeepArriving` (`EventsArrive`) follows. What
  joining and summing compute step by step comes from the same argument by a first place as in `HistoryProofs` (`FlattenedGrows`, `BytesGrow`, `BytesShrink`).

**ChatProofs.** `ChatReply`, for any limits of a channel and any faults, and `ChatRequests`, for any callers and tokens.

- `ReplyInvariant`: of an answer that fits, what lies before `text_offset` is shown by messages that are not edited any more (`FinishedIsShown`), and
  the current message shows exactly what lies between the offset and the last end that was sent (`CurrentShowsTheRest`). So an edit that fails,
  after which the offset moves to that end, leaves nothing out. That the run ends with the whole answer says nothing of the
  steps before; these two make it inductive. `ScreenInOrder` says that no message begins before an earlier one and that nothing comes back to the
  thread. `AnswersAreShown` (`AnswerIsShown`) follows.
- `TokenInvariant`: what a request may rely on at each stage as long as nobody disturbed it (`Undisturbed`): the token it has fetched is the newest;
  the cache is empty or holds the newest one when it tries again; so what it sends the second time is the newest. `StaleTokensAlwaysHeal` (`StaleTokensHeal`) follows.

**Only model-checked.**

- Liveness (`TurnsComeToAnEnd`, `RunsComeToAnEnd`, `WorkComesToAnEnd`, `ModelCallsComeToAnEnd`, `MessagesComeToAnEnd`,
  `CancelEndsTheRun`), which is out of the prover's reach.
- `HistoriesStayWhole`, `ModelIsUnderstood`, `SummariesCarryHistory`, `ToolsTellTheTruth`, `SettingsAreKept` and `FilesAreStores`:
  they say what folds and recursive definitions over texts, blocks, settings and lines compute for every input, one definition after another. Each would
  need an induction of its own for each function, and the operators declared `RECURSIVE` are out of the prover's reach altogether.
  `ContextIsRecent`, a part of `ModelIsUnderstood`, is about the sorting of messages.

## 6. Disagreements

Where the code does something else than a comment, a document or a test of it says. The first three are runs.

1. `yield_reports_end`. When the foreground wait has elapsed and `background()` refuses, because the user or the
   deadline has detached the task since the snapshot was read, the bash call formats the running
   task as a finished one and forgets it (`engine/tools/bash.rs:392`); the comment at 373-374 says of such a task
   that it is handed back as a background result.
2. `clear_undone`. A run counts only context items as interleaved, so a `/clear` by another client during the run
   is not, and the automatic compaction of that run, planned before it, becomes the last control point
   (`app/agent/run/runtime.rs:348`; `app/sessions/session.rs:20-22`).
3. `swept_sessions`. The sweep of drafts looks at metadata only. A server that ends between the entries
   of a run and its title and turns leaves a conversation that looks like a draft, and a day later the sweep deletes it
   (`app/gateway/channels/http/server.rs:773`; the comment at 753 says "forgotten New-chat drafts").

Others have a property in a module that no run lists, because the code does not have it; each was seen violated.

4. `OnlyMessagesMakePlansStale` (`SessionTranscript`). A record without context between the flush and
   `write_compact` fails the strict sequence check and stops the run (`runtime.rs:390`; the comment at 260-262
   says that such records must not block a compaction).
5. `HistoryIsLatest` (`RunLifecycle`). A request opens its Session before it waits for the gate and for the run it
   interrupts (`app/agent/agent.rs:626-627`), so its turn is built without what that run recorded last;
   `runtime.rs:54-56` says that the latest history is resolved at call time.
6. `RemovedSummariesAreSupplied` (`SummaryChain`). A summary that covers only a split turn gets "No prior
   history." in place of the previous summary, which has left the context (`summarizer/llm.rs:33`; `types.rs:124-127`).
7. `CutCallsAreNotRun` (`StreamDecode`). A stream cut inside a tool call can still end as a complete call
   (Anthropic and completions decoders), although `driver.rs:521-528` relies on cut calls being marked.
8. `BatchesStayTogether`, `TextModelsSeeNoImages` (`ProviderRequests`). The completions builder puts images of a
   result between the results of a batch; the Anthropic and Bedrock builders send images to text-only models,
   although `file/read.rs:207-209` says that they are dropped.
9. `CappingNeverPanics` (`ToolResults`). The cap of search output slices at a byte offset that may lie inside a
   character (`explore/walk.rs:80`; 74-75 and 92-93 speak of boundaries).
10. `SpillIsComplete` (`CommandOutput`), `SingleFilesAreWhole` (`SearchTools`), `LargeFilesShowEverything` and
    `StubsPointAtContent` (`FileReads`). When a line nearly fills the tail, the cut at its end (`manager.rs:203-210`) leaves so little that
    the result seems complete, and the output file is removed without a notice (`bash.rs:605-607`, 660-664), although
    53 and `engine/tests/tools/bash.rs:475` promise all of it there. With the constants of the code that takes a line longer than about
    206 KiB; wherever no line is over-long `WhatIsCutIsSaved` holds, cut tails included. a grep of one file is cut per file (`grep.rs:17-18`); a large file is read without a limit of bytes
    and its remaining lines are miscounted; the "unchanged" stub survives the compaction of what it refers to (`read.rs:59-61`).
11. `UniqueMeansUnique` (`TextEdits`) and `SameFileIsSerialised` (`FileTools`). The exact tier counts
    matches without overlaps (`edit.rs:67`); the lock of a file that does not exist yet is its spelled path (`mutex.rs:19-20`).
12. `CappedAnswersAreNoticed` (`RunEvents`). The notice of a capped answer compares with `"max_tokens"`, while
    `StopReason::Length` displays as `length` (`chat_projection.rs:522-524`, `types/llm.rs:24`).
13. `OriginalIsKept` (`TranscriptFile`). A crash while the backup is written leaves a partial backup that is
    never rewritten, and the original is then replaced.
14. `RevisionsTellTheTruth` (`Settings`). The revision is computed from a second read of the
    file (`conf/load/mod.rs`), so an edit in between is taken for known (`update.rs:5`, `env_transaction.rs:11`). And the cleanup
    after a stale provider removes every key that begins with its prefix (`conf/load/cloud.rs:75-83`): `EVOT_LLM_TIER_` is also the
    beginning of `EVOT_LLM_TIER_MINE_…`, the user's own `tier-mine`, which the process still holds and a later save writes back.
    `SavesKeepTheRest` names the two as its exceptions; without either it is violated.
15. `OnlyDeadLoginsAreCleared` (`CloudAccount`). A refused refresh signs out without reading the login again, and so
    can clear one that was made meanwhile (`cli/addon/src/auth.rs`).
16. `EarlierTextIsShown` (`ChatReply`). When the finalizing edit fails, or the text is longer than a message at that
    point, the text beyond the last good edit is not shown (`delivery/stream.rs:296-303`; comments 72-78).
17. `StopsReachEveryRun` (`RunLifecycle`). A stopped run whose listener stays and reads no more waits for capacity without looking at
    its cancel (`outbox.rs:139-150`); 137-138 rule it out for a closed listener only.
18. `BuildersTellTheSame` (`ProviderRequests`). Of a tool result with several texts the Anthropic builder, where no image is among
    them, and the completions builder send only the first (`anthropic/request.rs:57-65`, `openai_compat/request.rs:128-133`), the Responses
    and Bedrock builders all: a session that goes on with another model tells it different results.
    `RequestsTellTheHistory` lets exactly these texts be left out.

Met while reading, with no property:

- `kill_all_now` takes no lifecycle lock (`manager.rs:690`): a `start` past its check spawns a child that it does not
  signal, although 684-688 say that it prevents orphans. A later stop by the model overwrites the attribution
  of a stop by the user (`manager.rs:625`, 106). A cancelled bash call forgets its task after five seconds, dead or not
  (`bash.rs:358`; `task_output.rs:324`). `forget` entombs every task with its output retained (`manager.rs:816-818`, 91).
  A blocking wait is counted before its generation is read (`task_output.rs:157-158`). A monitor that announces after `forget`
  queues a notice of a task the session has been told of (`manager.rs:442`; `tests/tools/background_process.rs:1401-1404`).
- A rebase re-reads the context of a Session and not `llm_payload_hash` (`session.rs:446`, 608-613). Steering accepted after the
  last drain is never delivered (`registry.rs:67-75`). `/dump` builds a turn without the gate (`agent.rs:884-900`).
- On a failed recovery the popped answer is not put back into the context while `new_messages` keeps it; a notice
  drained with the follow-ups is lost if the loop is cancelled before it is injected; the branch for an exhausted overflow after an
  empty answer (`trigger.rs`) cannot be reached.
- The lease guard "freezes work" by not polling it (`lease.rs:36-44`), but the run it submitted goes on. A report that fails
  three times leaves the run to the expiry of its lease, and possibly to a second delivery.
- Two first pulls of one session on one machine, with a run that begins between the metadata and the entries of one of them, let the
  entries of the cloud and those of the run interleave, although `app/sync/pull.rs:1-2` says that a run writing concurrently cannot be interleaved:
  a first pull compares nothing before it installs. `CopiesAgree` therefore ends where a run writes into a copy that lacks entries (`torn`).
- A push after a forced push or after unshare and share can interleave when lengths coincide (`push.rs:1`); a pull that is
  interrupted, or a push whose answer is lost, makes equal copies look diverged; the acknowledgement of a push that races an
  unshare brings the link back.
- The quota branch ignores `RetryPolicy::disabled()` (`retry.rs:14`, 22). The completions decoder accepts the end of a
  stream without a reason.
- A redelivery after a reconnect is handled twice (deduplication is per connection); a message acknowledged and held by
  a transport that is stopped for new settings is lost; messages of one chat may overtake each other.
- A transcript that begins with `[` and continues with old lines is never migrated; a migration that decodes to nothing blocks
  every operation. `session_stats.turns` undercounts (`chat_projection.rs:595-652`).
- A cloud login that changes between the comparison of a recovery and its write is not noticed (`auth/recovery.rs:139-149`), so the key of the old
  login can be written over the new one's; `KeysAreShared` ends at the comparison.
- The model pin and `allow_from` are not written although `settings.rs:76-79` says complete; a stale page deletes providers added since.

## 7. What is not modelled

In the modelled components: the wording of outputs, the wall clock, command policies; renaming, `/dump` and side
conversations; the limit over all sessions of the process registry; a panic in `run_loop`, which would leave its entry registered;
two sessions whose gates share a shard; the variables file; session forks and portable images; device registration
of automation; gzip, idle clock and downgrade of a model call; Bedrock's decoder; JSON repair; schemas with arrays of types;
images and diffs of the file tools; the ranking index of search; process environment and TOML in settings.

Whole components: process spawning, web fetch, the sandbox, share, search and traces, the addon, the host
bridge and the terminal client. `PROJECT.json` gives the reason for each.

## 8. The plan

Done: the modules of section 2, with the runs of section 3 and the theorems of section 5. Left, in this order:

1. `TranscriptFile` implements `TranscriptStore`: what the brackets and newlines of a line parse to, by the first place at which two readings differ.
2. `ProcessRegistry`: eviction and the limit over all sessions, composed with the promise of a manager.

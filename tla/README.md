# A verification development of OpenSlate

OpenSlate is an agent runtime in Rust: a loop that asks a language model, runs
the tools it calls and keeps the conversation, with a runner for sub-agents, a
session core shared by several clients, a SQLite store that survives crashes, a
WebSocket server and a mobile runtime. This directory holds TLA+ models of the
parts that carry its own protocol logic, the TLC configurations that check
them, and proofs that TLAPS checks.

Paths below are under `src/crates/`; `RuntimeBridge.kt` is under
`src/android/app/src/main/java/dev/openslate/mobile/bridge/`.

## 1. The system

### Components, their state, their operations

| Component | Code | State | Operations |
|---|---|---|---|
| Agent loop | `openslate-core/src/runtime.rs` (`execute_run`) | messages of the run, step and empty-turn counters, slots of a parallel batch | checkpoints, request and stream, serial and parallel tools, cancellation, truncation |
| Agent runner | `openslate-core/src/runner.rs` | execution tree, stack of callers, shared budgets, denial counts | run_root with its watchdog, call_agent, the choke point of every tool call, bridge calls of run_code |
| Transcript operations | `openslate-core/src/ask_user.rs` | none | find open calls, repair them, add a late result |
| Compaction | `openslate-core/src/context_manager/compact.rs` | none | summarise or cut the oldest messages |
| Run manager | `openslate-core/src/run_manager.rs` | agent tree, tracer | start a run, resume it from a tool result |
| Tool registry | `openslate-core/src/tool.rs`, `mcp.rs` | the owner of each name; connections to tool servers | register, unregister, look up and call |
| Recorder | `openslate-store-sqlite/src/recorder.rs` | `last_seq`, `activated`, the queue `pending` | begin, resume, write with retry and queue, finish |
| Store | `write.rs`, `query.rs` of the same crate | tables runs, messages, pending_questions, transcript_entries, ... | one statement or transaction per operation |
| Session core | `openslate-session/src/session.rs`, `state.rs` | `CoreInner`: busy mark, history, transcript, session id, run, manager, token | submit, cancel, new session, settings |
| Engine turn | `openslate-session/src/engine.rs` | copy of the history | run on a blocking thread, one network retry, catch panics, finalize, auto-compact |
| Approval bridge | `openslate-session/src/approval.rs` | pending requests, session scopes | decide (blocks the engine thread), respond, deny_all |
| Questions | `openslate-mobile/src/askuser.rs` | waiters, rows of pending questions | ask, reply, late reply, cancel all, expiry |
| Transcript rows | `openslate-mobile/src/transcripts.rs` | cursors of the tracked runs, the writer's lock | background passes, forced flushes, rebuilding, healing of the tail |
| Mobile runtime | `openslate-mobile/src/runtime.rs` | the session core, the store, the registry and the connection it holds | start-up restoration, open_session, reload_mcp, set_exec_backends, shutdown |
| Tool recovery | `openslate-mobile/src/mcp_recovery.rs`, `hostcall.rs`, `RuntimeBridge.kt` | latch, generation, cooldown; pending host calls; the application's ladder and its round | one recovery round for all who failed, one retry per call, time-outs |
| Server | `openslate-server/src/{ws,hub,lib}.rs` | connections | one task per connection, broadcast, graceful shutdown |

The other parts (configuration, model registry, built-in tool servers,
providers, notifications, attachments, interfaces) are listed in `PROJECT.json`
with the reason they are not modelled.

### How they interact

A client's message is dispatched in the task of its connection. `handle_submit`
takes the core lock, checks the busy mark, closes open calls, pushes the user
message and sets the mark; then, out of the lock and over several awaits, it
opens the run, writes through the recorder and perhaps compacts; then it hands
a *copy* of the history, the run manager and a token to the engine. The
engine's loop appends each message to the recorder first and to its copy
second. `finalize_turn` puts the copy back under the lock. Cancelling touches
the token alone. An approval blocks the engine's thread until some client
answers. A question of `ask_user` has a row in the store and may be answered
after the turn, or the process, is gone; the answer then starts a turn.

A tool call goes through the runner, whatever agent makes it. `call_agent` runs
another `execute_run` inside the tool call of the first; all loops of a tree
are one future on one thread and share the runner's stack of callers, its
budgets and the token. Remote tools hold a connection that a reload may
replace under them; a call that loses its connection asks the host application
to bring the tool host back and is sent once more.

On mobile the displayed transcript is written to rows by a background loop
which finds its place by counting; new sessions, openings and the shutdown
force a flush. A restart or an opening reads the rows back and mends their tail
from the message log.

### What is hard, and what makes each part correct

* **Recorder.** Statements fail, the process dies, the run is adopted again,
  two callers share it. Correct: nothing is stored twice, the log changes only
  at its end, order is lost only for what was refused, ending a run drains the
  queue, a message is never forgotten while the recorder lives.
* **Agent loop.** Cancellation races the stream and the tools of a batch.
  Correct: every request is one a provider accepts, finished outputs are kept,
  a cancel ends the run soon.
* **Runner.** Agents within agents share a stack, budgets, a token and a thread
  that an approval may block. Correct: a call is checked and charged for the
  agent that makes it, budgets hold for the whole tree, the watchdog's verdict
  is not lost to a race, a cancel ends every layer.
* **Conversation.** The same conversation is kept in memory, in the log and in
  the question rows, and they are updated separately, around failures, retries
  and restarts. Correct: the three agree, a question that can be answered stays
  answerable, an answer counts once.
* **Session.** Handlers run concurrently and let go of the lock between their
  steps. Correct: the busy mark keeps them apart, a turn writes to the run of
  its session, nothing of an old session shows up in a new one, busy ends.
* **Transcript rows.** One writer that counts, and handlers that delete rows
  and replace what is counted. Correct: the rows are a prefix of what is
  shown, nothing is shown twice after a crash, a running call is not stored
  without its output, the backlog drains.
* **Tools and their recovery.** Reloads fail half-way; calls hold tools that
  reloads replace; requests time out and are answered late. Correct: between
  reloads the registry is exactly what the live configuration says, nobody is
  handed a tool whose connection was dropped, one retry per call, answers
  reach their own request, every call ends.

`PROJECT.json` lists the hazards line by line, with the properties on them.

## 2. The modules

| Module | Models | Composes |
|---|---|---|
| `MessageLedger` | what a recorder promises, abstractly: a message is new, offered, queued, stored or lost | |
| `RunRecorder` | the recorder and its two callers, the statements of the store, crash and resume | implements `MessageLedger` |
| `RunRecorderProofs` | theorems about it | extends `RunRecorder` |
| `Transcript` | messages, open calls, repair, late results, truncation, compaction, what a provider accepts | |
| `AgentLoop` | one run of `execute_run` | extends `Transcript` |
| `LoopThread` | the thread of that run, which a tool that waits for an approval blocks | extends `AgentLoop` |
| `AgentLoopProofs` | theorems about the transcript's operators and the loop | extends `AgentLoop` and `SequenceLemmas` |
| `Conversation` | one conversation: turns, questions, failures, restarts | extends `AgentLoop`, whose `LoopNext` is its `TurnStep` |
| `ConversationProofs` | theorems about it | extends `Conversation` and `AgentLoopProofs` |
| `Session` | the session core, its handlers, the bridge and, on mobile, `open_session` | |
| `SessionProofs` | theorems about it | extends `Session` |
| `SequenceLemmas` | facts about numbers, sequences and `FlattenSeq` the theorems rest on | |
| `TranscriptSync` | the transcript, its rows, the background writer, and the handlers that flush, reset and restore | |
| `TranscriptSyncProofs` | theorems about it | extends `TranscriptSync` and `SequenceLemmas` |
| `McpTools` | the tool registry under `reload_mcp` and `set_exec_backends` | |
| `McpRecovery` | calls of remote tools, recovery rounds, host calls and the application's ladder | extends `McpTools`, whose reloads are the ladder's |
| `McpProofs` | theorems about both | extends `McpRecovery` |
| `Delegation` | a tree of agents, the runner they share, approvals, the server's shutdown | |
| `DelegationProofs` | theorems about it | extends `Delegation` |

The `MC` modules instantiate them for TLC. Definitions introduced as "a slip" or
a "mutant" are plausible bugs; no specification uses them, each is what one
property must be able to catch.

### How state and actions correspond to the code

**RunRecorder.** `rows` and `status` are the tables; `lastSeq`, `activated` and
`pending` the fields of the struct; `pc`, `own`, `job`, `attempt` and `slot` are
the local state of the two callers: the *writer* (the engine's
`write_message_with_meta`) and the *finisher* (`finish_with`). What a caller
does between two awaits is one action: `FlushFront`, `PersistOnce` up to its
statement, the statement's success (`ActivateOk`, `InsertOk`) or failure
(`RetryAttempt`, `FlushGivesUp`, `EnqueueOwn`), `PopFront`. A message is its
number in order of production. `FinishWaits` says whether the caller of
`finish_with` lets the engine finish first (server shutdown after a launched
turn, `/new`) or not (mobile shutdown). `DropTail` is the deletion of the
highest row around a resumption, at the start-up and in `open_session`. It and
`Resume` assume `Alone`: no caller is in the previous recorder of the run, nor
will be. That is so after a death of the process; `open_session` does not
ensure it (section 3).

**AgentLoop.** `pc` is the place in `execute_run`; "check" is the top of the
loop. A response is one of the batches of `Batches` or none; a call is an id
with a kind: *plain*, *ask* (ask_user: stays open on a cancel), *serial*
(call_agent or run_code: makes the batch serial) or *malformed* (its arguments
are no object). `messages` is the conversation in memory, `log` what went
through the sink. The only input besides the provider and the tools is
`CancelToken`.

**LoopThread.** `asking` says that a call waits in `decide`, inside its own
poll: then the loop does not move, whatever it waits for, and a cancel is not
seen (`CancelUnseen`). Any call may ask, once; `Respond` is the client's answer.

**Transcript.** A message has a role, the calls it makes, the call it answers
and what kind of result that is. `DanglingCalls`, `RepairMessages`, `Repaired`
and `WithLateResult` translate the functions of `ask_user.rs`;
`ProviderValid` is the contract of providers that the comments there state
(every call answered directly behind it, no result without its call).

**Conversation.** `mode` is what the session is doing; `history` is
`inner.history`; `openRows` are the pending rows; `toWrite` is what a submit has
put in memory and not yet in the log. Question rows are written by
`AskQuestion` and closed by answers (`TurnStep`), by the task a cancel spawns
(`CloseRows`), by a late answer, by expiry and by the start-up. `soiled` and
`displaced` are history variables: the log that was loaded has a result out of
its place, and the last start-up has put an expired result elsewhere in memory
than in the log.

**Session.** `running`, `history`, `session`, `run`, `manager`, `cancel` are
fields of `CoreInner`; `engine` is the running turn with its copies; each
client has a `pc` naming the await it is in. A handler step is what the code
does under one hold of the core lock or between two awaits. A message says
which prompt it belongs to and who wrote it. `born` and `unstored` are history
variables: the session a prompt was accepted in, and sessions in which the
store refused a run. `Racing` says whether other handlers may run while a
session is being reopened.

**TranscriptSync.** `transcript` is the list of entries on the screen, an entry
its kind, the message it shows and, for a call, whether it has its output;
`rows[r]` the stored entries of run `r` by their number, `messages[r]` its log;
`cursors` and `writer` are `SyncState`: how many rows are written, and who
holds its lock in which pass. A pass (`LoopPass`, `FlushPass`) reads the
transcript once and inserts one row per step. `turn` is the engine's turn as
far as it shows; `switch` the handler (`NewSession`, `OpenSession`, `Shutdown`)
that changes the session. `Restart` is the death of the process and
`assemble_state`. `Healed` translates `heal_truncated_tail`, `Rebuilt`
`rebuild_transcript`, `Projected` `project_from_messages`.

**McpTools.** `registry` maps each name to its owner: nobody, a shell of the
phone, a fixed tool, or a tool of one connection. `reload` is a `reload_mcp`
under way: connecting, unregistering, yielding the shells, registering name by
name, rolling back, swapping the guard, settling the shells, in the order of
the code; each write of the registry that a caller could see is a step.

**McpRecovery.** A call has a `pc`: sent, failed, waiting for the latch,
requesting, retrying. A request is an id of `HostCallRouter`; its coroutine in
the application is a handler that shares or climbs the ladder, under
`mcpRecoverMutex`. `overtaken` and `ended` are history variables.

**Delegation.** Each node of `tree` has a `layer`: where its `execute_run`
stands, its batch, the calls in flight. Exactly one layer is on top and moves;
the others await the call that started the next. A step is what happens on the
one thread between two points at which the future may be suspended or the
thread blocked. `suspended` says that it went back to its executor, after
which the poll goes from the outside in, so that the watchdog in `run_root` and
the token of the outermost loop are looked at first. `ask` is the approval
`decide` blocks on. `stop` is `graceful_shutdown_work`.

## 3. The runs

`CHECK_DEADLOCK FALSE` is in every passing configuration because every model
may stop: a user may send nothing more, and the bounds below run out.

| Run | Bounds | States | Shows |
|---|---|---|---|
| `run_recorder` | 3 messages, 1 retry, 6 refused statements, 2 resumptions | 1.0 M | `StoredOnce`, `OnlyQueuedOvertaken`, `AppendOnly`, `HealthyFinishDrains`, `ImplementsLedger` |
| `agent_loop` | 3 steps, 2 empty turns, 5 batches of up to 3 calls | 35 k | `RequestsValid`, `OnlyQuestionsDangle`, `OutputsKept`, `AtMostOneMoreStep`, `CancelStops` |
| `conversation` | 3 turns of 1 step, 2 restarts, 2 batches | 2.5 M | `SubmittedValid`, `OutputOnce`, `HistoryIsDurable`, `QuestionsSurvive`, `RestoredAlike` |
| `session` | 2 clients, 2 prompts, 3 sessions, 1 approval, with `open_session` | 378 k | `IdleIsIdle`, `TurnOwnsSession`, `TurnsAreStored`, `ScopesOfThisSession`, `ClosedRunsAreQuiet`, `BusyEnds` |
| `transcript_sync` | 3 runs of which 1 tracked, 2 turns, 3 turns, handlers and faults together | 672 k | `RowsFollowMemory`, `ShownOnce`, `OnlyFlushSnapshots`, `BacklogDrains` |
| `mcp_tools` | 4 names, 3 reloads, 2 switches, 1 death of the host | 41 k | `RegistrySettled`, `ToolsOnOpenConnections` |
| `mcp_recovery` | 2 calls, 2 reloads, 1 death of the host | 429 k | `AnswersOwnRequest`, `RequestsJustified`, `EveryCallEnds`, and one retry per call (`TypeOK`) |
| `delegation` | a chain of 3 agents, 2 steps each, 3 tool calls, 2 delegations, 1 bridge call, 2 denials | 403 k | `CallersMatch`, `BudgetHolds`, `WatchdogAborts`, `EndsWhenAnswered` |
| `recorder_shutdown` and three others | see section 4 | | disagreements between the code and its comments |

What the properties say is written above each of them in its module.

*Why the bounds suffice.* Recorder: six refusals use up the retries of three
messages (two attempts each), so the whole conversation can be in the queue at
once, and two resumptions allow a crash in the middle of a flush of a run that
was already resumed. The code retries three times; the constant changes the
length of a phase and nothing else, and the theorems hold for every value.
Loop: three steps show a limit reached, a response after a batch and a
truncation; a batch of three has a first, a middle and a last call. Conversation:
one step per turn keeps the log short, three turns allow a failure, its
repair and a turn behind it, two restarts allow a log that was repaired,
loaded, and changed again. `conversation_repair` needs four turns and smaller
batches. Session: two clients are one to be interrupted and one to interrupt;
two prompts make a second turn while a first one's session is replaced, and
three sessions let a closed one be reopened from a third. Transcript: one
tracked cursor forces evictions with two runs; three events allow a turn whose
insert is refused and a restart behind it, or a turn and two changes of the
session; the archived run has a question open at its end, the case healing and
dropping are about. Tools: three reloads are one that registers, one that
replaces and one that is rolled back; two shell names let one be taken over and
the other kept. Recovery: two calls are one that leads the round and one that
shares it, comes late to it or overtakes it. Delegation: a chain of three has
a middle agent that both calls and is called; two calls in a batch are one
running and one pending; each budget can be exhausted by two agents together.
No symmetry is declared: liveness is checked in the same runs.

*Preconditions, and what fails without them.*

* `RunRecorder` assumes `Alone` of every resumption: one recorder at a time
  writes to the run. `open_session` does not ensure it. A `finish_with` that
  `NewSession` has spawned (`session.rs:281`) may still flush the run it opens
  (`runtime.rs:1898`); and an engine that a submit starts between its guard and
  its installation goes on with the old recorder. Then two counters number one
  log: the index refuses rows, which are queued and come in later, and rows
  come below the end, so `AppendOnly` fails. The late `finish_run` leaves the
  run `completed` while it is continued, against `recorder.rs:153`; and
  `open_session` deletes whatever has the highest number two awaits after it
  popped the tail (`runtime.rs:1854`), perhaps the message of that engine. The
  other properties of the recorder are stated under `Alone` too.
* `MCSession` has `Racing = FALSE`: nothing else is handled while a session is
  being reopened. `session_switch` is the same model without it.
* `MCTranscriptSync` has `Reopening = FALSE`: `open_session` is not given the
  session that is already current. With it, `open_session` deletes the rows
  and invalidates the cursor (`runtime.rs:1872-1873`) while the old transcript
  is still in memory, the loop counts from 0 and writes the *old* entries, and
  INSERT OR IGNORE keeps them when the new ones come: `RowsFollowMemory` fails.
* `MCMcpTools` has `Serial = TRUE`: the shells are not switched during a
  reload. `set_exec_backends` (`runtime.rs:645`) takes no part in the reload's
  serialisation; beside one it may register again a shell the reload has just
  yielded, and `RegistrySettled` fails.

*Fairness.* `RunRecorder`: weak fairness of each caller's steps and of
`FinishRun` (timers fire and tasks are scheduled), none of the store's
recovery: `HealthyFinishDrains` starts when no refusal is left.
`LoopThread`: weak fairness of the loop's steps while its thread is not
blocked; providers and tools may stay silent for ever, as the stream and the
tools are awaited against the token. A tool that waits for an approval blocks
the thread, a cancel does not wake it (`approval.rs:244`), and clients promise
nothing: so `CancelStops` is about behaviours in which the thread is not
blocked for ever. `AgentLoop` itself has only safety. `Session`: weak
fairness of each client's current handler and of the engine's thread, and
separately of the end of the turn (the loop's limits end it, as `CancelStops`
and the step limit show in `AgentLoop`); none of clients, so nobody has to
answer an approval and `BusyEnds` excepts that case. `TranscriptSync`: weak
fairness of the loop's timer, of a handler's flush and of a pass under way;
the store's faults are bounded by the events, so it recovers.
`McpRecovery`: weak fairness of each call, whose waits all have a timer; the
application, the tool host and the user promise nothing. `Delegation`: weak
fairness of the engine's thread and of the shutdown; a provider that stays
silent and a tool that never returns are allowed as long as nothing is
cancelled, and clients need not answer: `EndsWhenAnswered` is about behaviours
in which they do. `Conversation` and `McpTools` have only safety properties.

## 4. Where the code and its comments differ

Each has a run that finds the shortest behaviour, and an entry under "findings".

1. `recorder_shutdown`: mobile shutdown does not wait for the engine; two
   flushes of one queue can drop a message.
2. `conversation_repair`: calls left open by a failed turn are repaired in
   place in memory and at the tail in the log; two restarts later the results
   are out of place. `SubmittedValid` holds as long as no such log was loaded.
3. `session_switch`: `open_session` has no second busy guard.
4. `delegation_shutdown`: `deny_all` denies the approvals asked so far. The
   rest of a parallel batch, or a serial call that comes before the cancel,
   asks again and blocks the engine's thread; the shutdown waits for it.
   `EndsWhenAnswered` is what does hold.

Met while modelling, without a run of their own:

* A flush of the recorder that gives up lets a younger message overtake the
  queue (`recorder.rs:219`), where the comments promise order.
  `OnlyQueuedOvertaken` is what does hold.
* The activation mark is set before its statement (`recorder.rs:260`): one
  refused statement and a resumed run is written to while its row stays
  interrupted.
* A late answer to one of two open calls sends a request in which the other is
  still open (`run_manager.rs:213`), although the comment there says that the
  model sees the same history as with an immediate answer.
* The select over the stream (`runtime.rs:609`) lacks the `biased` its comment
  describes. `AtMostOneMoreStep` bounds the consequence.
* The comment of `execute_run` (`runtime.rs:409`) says malformed arguments
  become an error message in the tool output; lines 826 and 942-944 end the
  run with an error.
* The mark of an incomplete turn is stored at the cursor's number and moves the
  cursor, while the transcript in memory has no such entry
  (`transcripts.rs:149`); the entry that gets this number later is not stored.
  `RowsFollowMemory` excepts exactly that (`LacksMark`).
* Two questions in one batch: a crash, a late answer to one of them, whose run
  asks for tools with the other question still open, and another crash. When
  the other question now expires, its result goes behind its call in memory and
  at the end of the log (`append_expired_tool_result`, `askuser.rs:1577`, whose
  comment at 1564 takes the two for the same place), and the start-up that
  drops the tail with the open calls drops the assistant message from memory
  but from the log the row with the highest number, the expired result
  (`runtime.rs:2445`). It takes a provider that accepts the request with the
  open call. `HistoryIsDurable` and `RestoredAlike` except a start-up that did
  this (`displaced`). The batches of the run have one question each, so there
  the exception never applies; with `MCTwoQuestions` and two turns TLC finds
  either property violated without it, and both hold with it.
* `RuntimeBridge.kt:3141` reads the round a request came in behind the mutex of
  the running ladder, so a request that came during a ladder never shares it
  and climbs its own; that one finds the host alive and only reloads.
* During a reload the tools to be replaced are briefly missing, and a call that
  is sent again may have been executed by the tool server before its
  connection was lost.
* `max_tool_calls = 0` is no limit in the choke point (`runner.rs:1283-1298`),
  but `check_limits` (`runtime.rs:213-240`) then denies every `call_agent`.
* The overshoot of `max_tool_calls` by a parallel batch that the source
  describes (`runtime.rs:998`) cannot happen on one task: there is no await
  between the check and the addition (`BudgetHolds`).
* A delegated child whose parent is cancelled is dropped with its future: its
  node stays `running` and its tokens are not added, contrary to
  `runner.rs:736-739`.

## 5. The proofs

`RunRecorderProofs` proves, for every number of messages, retries, refusals
and resumptions:

* `TypeCorrect`: `Spec => []TypeOK`, for both values of `FinishWaits`. The
  inductive invariant is `LogInv`: the types, and that no row and no INSERT in
  flight has a number above `lastSeq`, that nothing exists before `begin`, and
  that a call that persists has a message to persist. The last one is needed
  for the types: without it a row could hold `NoMessage`.
* `LogAppendOnly`: `Spec => AppendOnly`, assuming `FinishWaits`, and so under
  `Alone`, which guards `Resume` and `DropTail` in `Spec`: rows come above all
  others, and what is deleted is the tail, with no write in progress.
  `SerialInv` adds that one caller at a time is in the recorder (`OneUser`) and
  that the number of an INSERT in flight is above every row's (`SlotIsFresh`).
  `resume` needs that a nonempty log has a highest number
  (`MaxMessageSeqIsMax`, by well-foundedness of the naturals): this is where
  continuing from the highest number and not from the number of rows matters.
  That the tail is one row (`TailIsOneRow`) needs that no number is given twice
  (`OnePerNumber`).
* `NumbersAreFree`: under the same assumptions the unique index never refuses a
  number, from `SerialInv`.
* `LogHasNoDuplicates`: `Spec => []StoredOnce`, assuming `FinishWaits`.
  `OnceInv` adds that only what was produced exists (`Produced`), where the
  message in hand stands with respect to queue and log (`InHand`), and that a
  queued message is queued once and not stored unless it is the one being
  popped (`QueuedOnce`).

* `LogOrder`: `Spec => []OnlyQueuedOvertaken`, assuming `FinishWaits`.
  `OrderInv` adds that the message in hand is the latest and was not refused,
  that the queue is in order and that no stored message that was ever queued is younger than one
  still in the queue.
* `KeepsLedger`: `Spec => ImplementsLedger`, assuming `FinishWaits`: the
  recorder refines `MessageLedger`, whose fate of a message is read off the
  recorder's state by `FateOf`. Every step of the recorder is a step of the
  ledger or a stutter; deleting the tail withdraws its message. It
  needs that between two calls nothing is in hand
  (`ClearBetween`) and that what a flush is about to take off the queue is
  stored (`PopsStored`): otherwise taking it off would lose it.

The only assumption on the constants is `ConstantsAssumption`. The assumption
`FinishWaits` cannot go: `recorder_shutdown` shows two callers in one flush.
Nor can `Alone` from what is said of numbers and places, which two counters
break (section 3).

`AgentLoopProofs` proves, for every set of batches, both ways of running them
and all limits (`LoopAssumption`), the safety properties of the run
`agent_loop`:

* `LoopTypeCorrect`, with the inductive invariant `LoopTypeInv`: the types, how
  the place in a batch agrees with `pc` (`BatchOK`), and how far the counters
  may be in each place (`CountsOK`).
* `OneMoreStep` follows from `CountsOK`: a cancelled run whose response is
  still to come has made no step since the cancel. The bound on the steps is
  not inductive without that.
* `OutputsAreKept`: an output taken in is in the log, or its call is still
  ahead of the drain (`OutputsOK`).
* `RequestsPaired` and `QuestionsDangle`, from `PairingInv`: while a batch is
  being answered there is one message `b` that declares it, the results behind
  `b` answer exactly the calls before `next` but for the questions in `stay`
  that a cancel leaves open, and everything before `b` is answered and
  in its place. `ProviderValid` speaks of a whole sequence; `PairOpens`,
  `PairAnswers`, `PairSkips` and `PairEnds` say what one more message, or
  none, does to the batch being answered.

`Transcript` defines its operators without recursion where it can: with folds
of the community modules, maps and `CHOOSE`. What these folds return for every
sequence (`FlattenMembers`, `MissingMembers`, `DanglingMembers`) is proved from
`Least`: a set of numbers has a least element, so the least place at which a
claim fails is refuted. That is induction without a theorem that takes an
operator. What does not depend on the transcript is in `SequenceLemmas`.

`ConversationProofs` proves, for any number of turns and restarts and all
batches, the five properties of the run `conversation`, and its types:

* `TypeCorrect`, from `ConversationTypeInv`: that of the loop, the types, and
  what is under way in each mode (`UnderWayOK`).
* `OneOutput`: `OutputsInv` says that a pending row, an output in the log, an
  output taken in and a late answer on its way are of different calls, so that
  whichever comes next is the first. `OutputOnce` alone says nothing of where
  the next output can come from.
* `Durable`, `QuestionsStayOpen` and `DroppedAlike`, from `MemoryInv`: while
  the process comes up, memory is the log unless a result was displaced, and a
  pending row whose call is open in the log is open in memory *even then*;
  afterwards memory is in the log, or in what a submit has still to write.
  The second part is what lets `QuestionsSurvive` stand without the exception.
* `SubmissionsValid`: the requests of a submitted turn are valid, from
  `ServedInv`. At the launch the history has every call answered in place and
  every result grounded; `PairingInv` of the loop then keeps it so. The history
  is what an earlier turn left, perhaps with questions open, a late or expired
  result put in, the tail dropped, or the log as a crash left it: so what has to
  hold all along is weaker and of more places. No id is declared twice, all are
  below the next one and no result declares calls (`Apart`), in the log whatever
  happens (`LogServed`); in the history (`HistoryServed`) and in the turn
  (`TurnServed`) every result is grounded as well, resumed turns included
  (`GroundInv`), as long as nothing was cut and no soiled log was loaded.
  `RepairServes` says that the repair turns such a history into one that a
  provider accepts: the closing results go behind the run of their call, in
  place of nothing, and each call gets one (`ClosedAll`, `MissingOnce`). Where
  `Repaired` puts each message (`RepairMends`) is a fact about `FlattenSeq`
  (`FlattenLays`). Without `Apart` two calls with one id would share a result.

The loop's own steps are taken from `AgentLoopProofs`; what they leave of the
conversation is stated once (`LoopKeeps`, `StepWrites`, `StepAppends`,
`GroundStays`).

`DelegationProofs` proves, for every set of agents, every relation of who may
delegate to whom, all batches and all limits (`DelegationAssumption`):

* `TypeCorrect`, `CallersMatched`, `BudgetHeld`, `WatchdogAborted`: the four
  safety properties of the run `delegation`.
* They follow from one inductive invariant, `IInv` (theorem `Invariance`). Its
  core is the shape of the tree: the layers that run form one path from the
  root, every layer on it but the last awaits the delegation that started the
  next, and the stack of callers is that path; a layer that is not on it does
  not exist. None of the four properties is inductive without it: that a call
  is charged to the right agent depends on the top of the stack being the one
  layer that moves, which in turn depends on a batch with a delegation in it
  being serial. The steps are sorted by what they do to the path: `StepOnTop`
  (the last layer moves), `StepDown` (it delegates), `StepUp` (it returns and
  its caller takes the result) and `StepAway` (the tree is dropped); each
  action then has a short lemma that says which of the four it is.

`SessionProofs` proves, for every set of clients and any number of prompts,
sessions and approvals, all six safety properties of the run `session`
(`TypeCorrect`, `IdleWhenIdle`, `TurnOwnership`, `StoredTurns`, `ScopesMatch`,
`ClosedStaysQuiet`), assuming `~Racing`. Four invariants carry them:

* `GuardInv` says what the busy mark excludes. `Exclusive`: one submit at a
  time, with the mark and before its turn; one `open_session` at a time, with
  neither mark nor turn and every other client idle. `Turn`: a running turn has
  the manager, the session and its run; without one the manager is home, there
  is no token and no approval. `Locals`: what a handler holds between two
  awaits (its run, its prompt) is still what the core has. `IdleIsIdle` alone
  is not inductive: that a turn ends with the right session needs the handlers
  that could have changed it to be excluded.
* On it stand three that do not need each other: `ScopeInv` (no scopes when an
  opened session is about to be installed), `QuietInv` (neither the current
  run nor one about to become it is closed or on its way to be) and `StoredInv`
  (history, a turn's copy and a loaded conversation are in the run, up to the
  prompt of a submit that is on its way there).

The assumption cannot go: `session_switch` shows `TurnOwnsSession` violated
with `Racing`.

`McpProofs` proves the two properties of the run `mcp_tools`, for every
set of names and servers and any number of reloads, deaths and switches:
`Settled` and `ToolsOpen`, assuming `Serial`. The inductive invariant `IInv`
says for each phase of a reload what every name of the registry is, as a
function of the registry, the guard and the shells the reload began with
(`Wanted`, `Half`, `Unshelled`): so a roll-back, from whichever name it
starts, ends where the reload began. Without it nothing ties the registry in
the middle of a reload to the one `RegistrySettled` speaks of. `ToolsTypeCorrect`
is the types, with no assumption on `Serial`.

It proves as well, for any finite set of calls and any number of
reloads and deaths of the host, the safety properties of the run
`mcp_recovery`:

* `RecoveryTypeCorrect`, `OwnAnswers` and `JustifiedRequests`, from `RInv`. What
  it adds to the types: how often a call in each place was sent, and that a
  call overtaken while it waits remembers an older generation (`CallOK`); that
  the ids of the requests made and of those that
  may still come fit one for each call (`AsksOnce`, by counting); that an id
  not yet given has no answer and no handler (`AnswersOK`).
* `SettledUnderRecovery`: the two properties of `McpTools` hold of the composed
  system, assuming `Serial`, because each of its steps is a step of `McpTools`
  or leaves the registry alone.

`TranscriptSyncProofs` proves, for any number of runs, turns, faults and
tracked cursors and every archive whose entries have ids of their own, the four
safety properties of the run `transcript_sync`:

* `TypeCorrect`, from `TypeInv`. Besides the types it says how many ids a turn
  may still use (`TurnOK`: an entry's id is that of a message that exists), that
  a pass past its first statements has its run tracked and reads no further
  than what it copied (`WriterOK`), and that a handler which opens a session
  finds no turn (`SwitchOK`). `Rebuilt`, `Healed` and `Project` keep the types
  for every table and every log, `Folded` for every batch.
* `NoEarlySnapshots`: `WindowIsOld` says that the calls a pass of the loop has
  still to store are older than the turn under way, `QuietIsOld` that all of
  what it copied is, when it began in a quiet session: a turn that starts in
  the middle of a pass must not get into it. The property holds of the rows a
  refused flush left behind too.
* `RowsFollow`, assuming `~Reopening`. `PlaceInv` says that a run's rows have
  no gaps, that neither a cursor nor a pass is beyond them, and that no pass
  writes to the run a handler is opening. On it, `FollowInv`: a pass of the
  current run copied entries that are still in the transcript at their places,
  the rows follow the transcript, and the rows of the session being opened
  follow the transcript that was built from them and is not installed yet.
  `RowsFollowMemory` looks only at the current run and is not inductive: what
  open_session installs is settled while another run is current.
* `EntriesShownOnce`, assuming `~Reopening`, from `OnceInv`. It compares the rows
  of a run, what a pass has copied and what is shown with `Plan`, the outline
  of the run's messages with the user entry that a turn still owes. They are
  `Clean`: no entry at two places, and an entry at an earlier place than the
  plan gives it has a torn place before it, so that `Healed` does not mend
  behind it and show it again. What is shown and what a pass writes are
  moreover level with the plan as far as they go (`Fits`). The parts of
  `OnceInv` say so of the rows (`RowsFit`), of the pass (`PassFits`), of the
  transcript (`ShownFits`) and of the one being opened (`BuiltFits`). The main
  lemmas are that `Healed` of rows that are clean is clean, and that dropping,
  tearing or overwriting rows keeps them clean.

Checked by TLC and not proved: liveness (`HealthyFinishDrains`, `CancelStops`,
`BusyEnds`, `BacklogDrains`, `EveryCallEnds`, `EndsWhenAnswered`), which needs
fairness and ENABLED.

## 6. What is abstracted or left out

Text, arguments, costs, usage and events are abstracted everywhere. In
particular: sizes in bytes (truncation and compaction may happen whenever the
sequence is long enough to change), the non-streaming path of the loop, the
LLM budget, the title task, snapshots and the order of broadcast events, AI
review, the matching of rules, the matching of a question to its call by
arguments. The sink of `AgentLoop` and `Conversation` does not fail: refused
writes are the subject of `RunRecorder`. In `Session` the row of the old run is
closed in the same step as the scopes, although `NewSession` spawns a task for
it, and `RunRecorder` has one recorder of a run at a time. `Delegation` has no
tokens, costs, outputs or audit rows, no
`parallel_tool_calls = false`, and one engine thread, so one blocked approval
at a time; the rules an `always_tool` answer adds are left out.
`TranscriptSync` leaves out the entries for approvals, reasoning and
delegations, late answers of questions, and failing deletions of rows.
`McpRecovery` leaves out the host calls that `fail_all` exempts at shutdown.

Hazards that are modelled or excluded, but that no property and no entry of
`PROJECT.json` covers: a cancel sent while a submit is still setting up finds
no token and is answered with a notice (`session.rs:203`); a shutdown that
takes the engine task while a submit has not launched it yet
(`server/lib.rs:366`); a question matched to an older open call with equal
arguments (`askuser.rs:862`); truncation that keeps a tool result without its
call (`runtime.rs:1331`, which `RequestsValid` excepts).

## 7. What is not modelled, and the plan

Done, in this order: the recorder and its ledger, the transcript and the loop,
the conversation, the session, the recorder's theorems; then the transcript
rows, the tool registry, its recovery, and delegation; then the theorems about
delegation, the registry and the session; then those about the ledger, the
recovery, the loop, the conversation and the transcript's rows; then the
loop's thread.

Not modelled: the terminal and desktop interfaces, the configuration and its
validation, the model registry, the providers, the built-in file and shell
tools, the JavaScript engine, notifications, attachments, secrets and logs.
Together they are most of the repository's lines; they parse, validate,
convert, draw or wrap an external library, and hold no protocol of their own.

Worth doing next:

1. `Hub`: registration with a snapshot under the core lock, broadcasts and
   queues per connection; each client's view as a refinement of the core's
   event sequence.
2. `Session`: the old run's `finish_with` as a task of its own, and shutdown
   against a submit that is still setting up.
3. Two recorders of one run, without `Alone`: that messages are still stored
   once, and each recorder's own in order.

# MiniCode in TLA+

MiniCode is a coding-agent workbench: a Python backend (`backend/`) that runs an
agent loop against an LLM, a WebSocket protocol between it and a React/Electron
frontend, and a set of durable stores that let a conversation survive a lost
connection, a crashed process and a second process on the same data directory.
The agent loop is mostly data; the durable stores and the coroutines around them
are where the program's own concurrency is, and they are what is specified here.

Contents: [inventory](#inventory), [plan](#plan), [the modules](#the-modules),
[runs](#runs), [proofs](#proofs), [findings](#findings), [limits](#limits).

## Inventory

`PROJECT.json` lists every component with its sources and status. Those with a
concurrent core of their own:

| Component | State | Operations | Correct when |
|---|---|---|---|
| **Durable user-message queue** `ws/durable_user_queue.py` | one JSON file per session: `queues`, `inflight`, `turn_inputs` and their owners; client-command records; a lease file per runtime; per-runtime baselines | `load`, `save` (three-way merge), `claim_user_message`, `settle_user_message`, `pending_user_messages`, recovery of dead owners, `close` | an accepted message is in the file until a turn takes it in; it is there once; a stale snapshot neither deletes nor revives one |
| **Run manager and queue dispatch** `ws/run_manager.py`, `ws/handler.py`, `ws/handlers/misc.py` | the manager's copy of the queue, the registered run, the `_queue_dispatching` and `_queue_steering` fences, the dispatch coroutine | enqueue, dequeue, finish dispatch, steer, cancel, clear, `cleanup`, `schedule_next_queued_user_message` | follow-ups leave in order, exactly one claim is unsettled, and an idle conversation with work in it is always kicked |
| **Turn-local steer queue** `agent/turn_input.py`, `agent/turn_kernel.py` | phase `closed/current/next`, pending steers | enqueue after durable publication, pop at a boundary, defer, seal | a steer that is not consumed becomes a follow-up; one that is consumed is acknowledged once |
| **Memory job store** `memory/job_store.py` | SQLite: `stage1_outputs`, `jobs`, `memory_state` | claim, complete, fail, abandon for phases 1 and 2, heartbeat, forget, prune, usage, reset | a lost claim settles nothing; a forgotten thread's memory never returns; slots are bounded; phase 2 rests only on the latest catalogue |
| **Memory generation** `memory/generation.py`, `memory/file_memory.py` | worker tasks, the raw inputs, MEMORY.md and their committed baseline, reset barrier, workspace lock | startup, phase-1 extraction, phase-2 consolidation, forget, reset | what was forgotten is neither stored again nor left in MEMORY.md at rest; the owner of phase 2 consolidates its own inputs |
| **Client-command admission** `ws/command_dispatcher.py`, `ws/client_command_log.py` | bounded set of recent ids, append-only log, durable command records, command tasks | receive, acknowledge, schedule, run, replay | an acknowledged command is executed, once, across reconnects and crashes |
| **Event outbox, log and renderer cursor** `ws/event_outbox.py`, `ws/event_log.py`, `ws/handlers/session.py`, `hooks/useWebSocket.ts` | sequence numbers, bounded replay window, write queue, log file; the renderer's cursor, its failed events and its recovery buffer | emit, write, delete a conversation, `session.restore`, `session.replay`, apply | a reconnecting renderer applies every event once and in order, or is shown a snapshot instead; the log keeps the window |
| **Session lifecycle** `ws/session_lifecycle.py`, `ws/manager.py` | attached connection, retiring sessions | connect, disconnect, idle expiry, shutdown | one live session per id and process |
| **Turn wait state and approvals** `ws/turn_wait_state.py`, `ws/approval_runtime.py`, `agent/tool_batch_execution.py`, `chat/controlEvents.ts` | waiters, payloads and early responses of the pending requests; notices sent; the page's prompts | ask, wait, answer, reject by a steer, approve by a permission mode, interrupt, expire, send again | no wait without a prompt, no prompt without a wait, and no decision undone by a later one |
| **Leader inbox** `agent/parent_notification_outbox.py`, `agent/swarm_store.py`, `agent/mailbox_delivery.py`, `ws/run_manager.py` | mailbox rows and their leases, outbox items, wake requests, wake claim, query guard | send, finish, wake, claim, read, renew, acknowledge | a subagent's message or result reaches its leader, is acknowledged only when a request that held it ends, and is part of one answered request only |
| **Compaction** `ws/compaction_coordinator.py` | revision of the history compacted | snapshot, summarise, commit | a compaction never overwrites messages added meanwhile |
| **Conversation repository**, **tasks and scheduler** | revisions, cross-process claims | append, archive, delete; claim, lease | see plan |

The rest (providers, tools, hooks, MCP, plugins, sandbox, permissions, checkpoints,
services, frontend, terminals) converts data, performs I/O or evaluates policies
without shared state of its own and is listed as not modelled with the reason.

### How they interact

A prompt arrives as a *client command*. To an idle conversation it starts a run
directly; to a busy one it is appended to the *durable queue*. A run owns a
*turn-local queue*; a "steer" puts a message into both (durable first). When a
run's `cleanup` unregisters it, what it did not consume goes back to the head of
the durable queue and the queue is kicked: `schedule_next_queued_user_message`
claims the head and starts a *dispatch coroutine*, which starts the next run and
settles the claim when that run admits the message or exits without doing so.
A subagent of a run reports through the *leader inbox*: its messages are stored in the
mailbox, its result in the outbox, and both raise a wake signal that starts a run
of the leader if there is none. A tool call that needs leave, or an MCP server with a
question, puts a request into the *turn wait state* and waits; answers, steers and
interrupts settle it there. What a run says goes to the renderer through the
*event outbox*, which numbers it, keeps a window of it and writes it to a log.
Runs end in *memory generation*, which claims phase-1 and phase-2 jobs in the
*memory job store* from any process on the data directory.

Everything in one process runs on one event loop: synchronous code is atomic and
coroutines interleave at `await`. Two processes share the files and the SQLite
database and interleave at every locked access. That is the granularity used
throughout.

### What is hard

`PROJECT.json` "hazards" gives each with its line. In groups:

* *stale snapshots*: the queue file is saved by merging a delta computed from a
  baseline, and different methods refresh different parts of the baseline;
* *crash and restart* between claiming and settling, and leases that are freed
  some time after their process has died;
* *fences held across awaits*: dispatch and steering fences can swallow a kick;
* *two-step operations*: dequeue is two file transactions, a steer is a durable
  and a volatile half, a settled claim is followed by a re-read;
* *failing writes* after which memory and file disagree;
* *late workers*: expired leases, superseded revisions, forgotten threads and a
  database that was swapped beneath a running worker;
* *answers and endings*: a request is sent before anybody waits for its answer, and a
  deadline, a steer or an interrupt may come before, with or after that answer;
* *reconnection*: a renderer's cursor, the window, the log and a snapshot taken an
  await earlier have to agree about which events it has seen;
* *claims in one place, effects in another*: a prompt holds messages whose lease may
  lapse, and a request that is retried or cancelled must not acknowledge them;
* *liveness*: every path to an idle conversation must kick the queue, every
  notification must wake its leader, and every reconnection must end.

## Plan

In order of importance. Each module is written to be proved about as well as
checked: parameters are CONSTANTS with named assumptions, one action per
operation, invariants as named conjuncts, no recursive operator.

1. `DurableUserQueue`, composed by `SessionQueue`, which with one runtime at a time implements
   `FollowUpService`, with its proofs: **done**.
2. `MemoryJobStore` with its proofs: **done**.
3. `ClientCommands`, which implements `CommandDelivery`, with its proofs: **done**.
4. `MemoryGeneration`: the phase-1/phase-2 coroutines over `MemoryJobStore`, with
   the workspace lock and the reset. It implements the store's specification
   (`UsesStore`), whose proved invariants then hold of it, with its proofs: **done**.
5. `LeaderInbox`: messages and results of subagents to their leader, with its
   proofs: **done**.
6. `EventReplay`: the outbox, its log, `session.restore` and the renderer's cursor, with its
   proofs: **done**; an abstract specification (a renderer's view is a prefix of what was
   emitted, or a snapshot of one) would restate `NothingSkipped` and is not written.
7. `Approvals`: requests, waits, answers and prompts, with its proofs: **done**; that every
   wait whose prompt is answered ends is left to a later, smaller instance.
8. `Compaction`: compare-and-swap on a history that grows.

## The modules

### DurableUserQueue

The file of one session, restricted to one conversation: the file is keyed by
conversation and nothing crosses the keys. `disk` is the file; `ownerQueue`,
`ownerInflight` and `ownerTurn` are the object's baselines
(`_queues_baseline`, `_inflight_baseline`, `_turn_inputs_baseline`); `life` is
the state of the lease. Each public method holds a thread lock and a file lock
and starts by reading the file and recovering dead owners, so each is one action
whose first step is `Recovered`.

`MergeQueueDelta` is the code's three-way merge with its occurrence numbering
(so equal messages are distinct), the caller's relative order, and insertion of
new messages before their successor. `OwnedDelta` is `merge_owned_delta`: an
inflight claim or promoted input changes only if its holder edited it. The
action `RefuseSave` is the `RuntimeError` raised over another live owner's part.

A runtime that stops goes through `gone` before `dead`: while a lease cannot be
shown to be free its work is left alone.

### SessionQueue

Extends the store with the runtimes using it. `loc` is the manager's own copy
(`_user_message_queues`, `_inflight_user_messages`, `_turn_inputs`), which a user
sees and edits; `run`, `phase`, `steers` and `consumed` are the registered run
and its turn-local queue; `disp`, `cmd`, `dispatching` and `advance` the dispatch
coroutine; `steering` and `steerCmd` a steer command in progress. `todo` is the
rest of a synchronous call that has made one file access and has another step to
go: other runtimes may act in between, the same runtime may not (`Ready`).

| Action | Code |
|---|---|
| `Start`, `Resync` | session init, `session.sync`: load, kick |
| `Submit`, `SubmitSteer` | `enqueue_user_message`, `enqueue_user_message_as_steer` |
| `Cancel`, `Clear` | `remove_queued_user_message`, `clear_user_message_queue` |
| `SteerQueued`, `RestoreAsFollowUp`, `FinishSteering` | `handle_user_message_queue_steer` and its `finally` |
| `Dispatch`, `KickIgnored`, `RefreshAfterClaim` | `schedule_next_queued_user_message`, `dequeue_user_message` |
| `StartQueued`, `Admit`, `SettleAdmitted`, `SettleRejected`, `RefreshAfterSettle`, `FinishDispatch` | the dispatch coroutine and `finish_user_message_dispatch` |
| `PopSteer`, `DeliverSteer`, `AckSteer`, `DeferMailbox` | the kernel's boundary input and `acknowledge_turn_input` |
| `EndRun` | `cleanup`: unregister, seal the turn queue, advance |
| `Shutdown`, `Crash`, `FreeLease` | session shutdown, process death, lease probe |
| `CommandFails`, `ClaimFails`, `SettleFails`, `AckFails`, `EndRunFails`, `RestoreFails` | the same calls when the file write raises |

`accepted`, `taken`, `excused`, `dropped`, `steered` and `missed` are history:
they are read by properties only. (`Fresh` reads `accepted` because message ids
are unique.)

Two runtimes alive at once (`MaxLive = 2`) are two MiniCode processes on one data
root. Within one process the connection manager awaits a retiring session before
it makes its successor. The leases and the merge exist for the two-process case.

### FollowUpService

The abstract promise of the queue: a message that has *entered* waits until a turn has taken it in
and that is *recorded*, or until the user *removes* it. It is taken in again only if the record of
the last time was *lost*, and one that was not *redirected* into a turn only when no older one of
that kind still waits. Files, claims, fences, turns, runs and leases do not appear. `ServesFollowUps`
states that `SessionQueue` implements it under the mapping entered = `accepted`,
waiting = the messages that are `OnDisk`, served = `taken`, lost = `excused`, redirected = `steered`,
removed = `dropped`.
A claim and its recovery, a requeue, a rejected dispatch, a restored steer, a sealed turn queue and a
restart are stutters of it: nothing the user can tell has happened. What it allows on purpose:
a message that was removed may still be taken in, by the turn or the dispatch
that had it already (a clear does not call it back); a run that ends between taking a
steer in and acknowledging it loses the record (`lost`), and the message is delivered again.
The state of the abstract specification says nothing of who holds what, so it promises nothing for two live
runtimes, where the record of one may be undone by the other (see [also seen](#also-seen)).

### MemoryJobStore

The three tables, one action per method, each a `BEGIN IMMEDIATE` transaction.
Nothing is assumed of the callers: any claim ever granted (`issued1`, `issued2`)
may be completed, failed, abandoned or renewed at any time, which covers stalled,
cancelled and superseded workers of any process. Clock comparisons are Booleans
(`lease`, `wait`, `cooling`) that may become false at any moment. `epoch` counts
how often a thread was forgotten, pruned or reset, and an output remembers the
epoch of the claim that produced it.

`retry_remaining` of phase 2 is left out: `claim_phase2` refills it on every
claim and no guard can see it exhausted. The migration of version-1 databases
is left out.

### ClientCommands

The session's dispatchers, their connections, the client-command part of the
durable file and the deduplication log.

`pending` and `holder` are `_client_pending` and `_client_inflight` with its
owners; `log` is the JSONL file and `recent` a runtime's window of it; `task` is
the stage of each command's asyncio task (`_active_client_commands` holds it until
its done-callback). `receiver` has one slot per websocket connection: the coroutine
that handles it replays what is pending (`left`), then receives, and in between
waits for an acknowledgement to be sent (`at = "acking"`, with what it will do
afterwards). `conn`, `up` and `wire` are the attached connection, whether it still
reaches the client, and what is on its way; `client` is what the frontend keeps in
its list of unacknowledged commands. An acknowledgement reaches the client only
over the connection that was current when it was sent: acknowledgements carry no
conversation id, so the event log does not replay them.

| Action | Code |
|---|---|
| `Send`, `ClientLoses`, `Disconnect`, `Attach`, `Create` | the frontend's `sendCommandNow` and reconnection; `ConnectionManager.connect`/`disconnect`; the dispatcher's constructor loading file and log |
| `StartReplay`, `Replay`, `StartReceiving`, `Leave` | `_replay_pending_client_commands`, the loop of `run` |
| `ReceiveSeen`, `ReceiveOverBacklog`, `ReceiveOwned`, `ReceiveUnpersisted` | the branches of `run` for a durable command |
| `AckSent`, `ReceiverFails` | `_send_client_command_ack`, then `_schedule_durable_client_command`; the same raising |
| `Claim`, `ClaimFails`, `Execute`, `Mark`, `Complete`, `CompleteFails`, `TaskDone` | `_run_durable_client_command` step by step |
| `HandlerFails`, `MarkFails`, `ReleaseFails` | its `except` and `finally` branches |
| `Stop`, `CancelTask`, `Close`, `Crash`, `FreeLease` | `SessionLifecycle.shutdown`, process death, lease probe |

`Mark` and `Complete` belong to one synchronous stretch: between them the runtime
takes no other step (`Loop`), but it may crash, and other processes may act.
`runs` counts effects; `excused` counts those that could not be recorded (a crash
or failure between effect and mark, an unreadable log, an id that left the window).

### CommandDelivery

The abstract promise: a command is *owned* from its acceptance until it has taken
effect, takes effect only while it is owned, and is acknowledged only when it is
owned or has taken effect. Files, leases, connections, tasks and the number of
runtimes do not appear. `DeliversCommands` states that `ClientCommands` implements
it under the mapping owned = in the file, effects = `runs > 0`, acked = what the
client has dropped. "At most once" is not part of this promise since the code
cannot keep it across a crash; `ExecutedOnce` says when it does.

### MemoryGeneration

Extends the store with the coroutines that use it: `task` is a background task
(`run_startup` or `forget_and_consolidate`) with its own, possibly old, `view` of the
conversations, and `ex` its concurrent extractions. `raw`, `memory`, `valid` and
`baseline` are the memory directory: the inputs phase 2 writes, MEMORY.md, whether it
passes validation, and the committed versions of both. An output is represented by the
revision and epoch it was extracted from, and MEMORY.md by the outputs it draws on.
Users edit, disable, pollute, archive, restore and delete conversations at any await.

| Action | Code |
|---|---|
| `Startup`, `ListConversations`, `Reconcile`, `ChooseCandidates`, `Forget` | `run_startup`, `forget_and_consolidate` up to the extractions |
| `ClaimThread`, `ClaimRefused`, `ReadConversation`, `Extract`, `Reread`, `Settle1`, `Raises1` | `_run_phase1`, `_extract_phase1` |
| `Claim2OfWorker`, `Claim2Refused`, `SelectOutputs`, `FilterOutput`, `Prepare`, `Consolidate`, `CheckSelection`, `Commit`, `Fail2`, `Heartbeat`, `Raises2` | `_run_phase2` and what it awaits |
| `EditConversation`, `ChangeMode`, `Stop`, `Reset`, `TimePasses` | turns, the conversation handlers, cancellation and process death, `memory.reset`, clocks |

`UsesStore` is `StoreSpec` itself: every step of this module is a step of the store's
specification, under the identity mapping, so what is proved of the store holds here.

### LeaderInbox

One conversation, one process, and the sessions (windows) it serves. `mail` is the
delivery of each message in the swarm store (`lapsed`: leased by a claim that is no
longer fresh), `outbox` the status of each notification: a message leaves a marker
there, the result of a background subagent is there only. `asked` and `waking` are a
session's wake requests ahead of its attempts and its wake task; `fence`, `guard` and
`wakeClaim` are a steer command, the query guard and `_WAKE_CLAIMS`. `run` is a
session's registered run: what its prompt holds is `held` (claims still its own),
`lost` (claims whose row was claimed anew) and `taken` (results). History: `seen` counts the
answered requests that held an item, `unread` are the items a request without an answer
acknowledged, and `missed` those whose wake signal was spent without a turn.

| Action | Code |
|---|---|
| `Post`, `Finish`, `CrashInPost` | `send_swarm_message`; the end of a background subagent; a death between the mailbox and the marker |
| `WakeBusy`, `WakeIdle`, `WakeStart` | `_dispatch_parent_notification_wake` |
| `Prompt`, `Admit` | a user's turn; `_run_agent` at the query guard |
| `ClaimMail`, `ReadInbox` | the claim of the mailbox, then `inject_parent_notifications` at the boundary |
| `Renew`, `LeaseLapses` | the heartbeat and the leases |
| `Answer`, `RequestFails` | the request ends and acknowledges: the settlement says "proceed", or "terminate" for a provider error, a timeout, a budget boundary or a stream without its terminal frame |
| `Retry`, `Interrupt` | it is made again, or the run is cancelled: nothing is acknowledged |
| `Cleanup`, `Steer`, `EndSteer`, `Close`, `Open`, `Crash` | the end of a run, steer commands, sessions and the process |

### EventReplay

One session's outbox and one renderer. `eventSeq`, `cursor`, `window` and `unwritten`
are the outbox's counters and window, `queue`, `write` and `failed` its writer, `disk`
the log. `restore` is the handler of `session.restore`, which reads the window, awaits,
and only then sends (`Look`, `SendRestored`, `SendReplay`). `wire` is what is on its way;
`mode`, `cur`, `holes`, `buffer` and `applied` are the renderer's recovery flags, cursor
(`lastReceivedServerSeq`), failed numbers, recovery buffer and recent event ids. A
message is an event of a conversation or an answer; deltas and other live-only messages
only take a number, as the answers do, and are not separate actions.

| Action | Code |
|---|---|
| `Emit` | `send_payload`, `_envelope`, `_stage` of an event that can be replayed |
| `StartWrite`, `FinishWrite`, `FailWrite` | `_persist_pending`, `_persist_batch`: appends, rewrites and repairs |
| `BeginDelete`, `EndDelete` | `delete_conversation_events`, which holds the send lock while the writer drains |
| `Inspect` | `load_persisted_window` of the export endpoint |
| `Look`, `SendRestored`, `SendReplay` | `handle_session_restore`, `replay_missed_events` |
| `Receive`, `ReducerFails` | the `message` listener: `deliverInboundEvent`, `commitProcessedInboundEvent`, `eventsFromSessionReplay`, `finishSessionRecovery` |
| `Attach`, `Create`, `Disconnect`, `Crash`, `Reload` | `ConnectionManager.connect`/`disconnect`, the `open` and `close` listeners, process death or retirement, a new page |

History variables carry what the properties need: `shown` (events a snapshot contained),
`kept` (events neither deleted nor lost with the end of the log), `repeated`, `deleted`,
`origin` (the last runtime made over an unreadable log) and `behind`. `behind` is the excuse of
`NothingSkipped` and `AppliedInOrder`:
the renderer holds a number that a later runtime gave out again *without telling it*.
It is set only where the code has no way to tell (see [findings](#findings)), and a
snapshot clears it.

### Approvals

One conversation, one run of it and one page. A request belongs to the run's tool batch
(`Tool`), to a command such as `terminal.exec` that goes on when the run is stopped
(`Side`), or to an MCP server acting for the run (`Elicit`). `payload`, `waiters` and
`response` are the tables of `TurnWaitState`; `ask` is where the coroutine of a request is
and `future` what it waits for; `notified` and `owed` are the `approval.cancelled` notices
sent and still to be sent. `due` and `resend` are a restore that has not listed the pending
requests yet, and those it listed and has still to send. `out` and `answers` are on the
wire, `prompts` is what the page shows; an event is one of `control_request` or
`approval.cancelled` for a set of requests.

| Action | Code |
|---|---|
| `Emit` | the store and event of a request; for MCP the waiter too, and giving up when nobody is connected (`_handle_mcp_elicitation`) |
| `StoppedBeforeWait`, `OutOfTime` | the checks of `_await_approval_within_turn_deadline` before it waits |
| `TakeResponse`, `BeginWait`, `Resume`, `Leave` | `approval_handler` and its `finally`; the end of `_handle_mcp_elicitation` |
| `Interrupted`, `Expire` | the future is cancelled, the run stops or the time is up: the notice is sent before the tables are cleared |
| `Deliver`, `AutoApprove`, `SteerReject` | `_handle_control_response`, `auto_approve_pending_tool_approvals`, `_reject_pending_approvals`, all by `_resolve_pending_approval` |
| `CancelRun`, `NotifyCancelled` | `SessionRunManager.cancel` with `_cancel_pending_approvals`, and its notices, which wait for the send lock |
| `Disconnect`, `Reload`, `Reconnect`, `ReconnectWithoutReplay`, `Reemit`, `Resend` | connections; `session.restore` and `reemit_pending_state` |
| `Receive`, `Answer` | `handleControlEvent`; `respond` of the prompt |

How the replay keeps events in order is the subject of `EventReplay`. Here a reconnect
either sees every event it missed or skips them all (a gap, or a snapshot for a new page).

History: `decided` is the decision that counts (the last one before the coroutine waits,
then the first), `undone` says that an approval was returned against it, `abandoned` and
`stray` name the exceptions of `NothingLeaks` and `PromptsArePending` (see
[also seen](#also-seen)).

## Runs

| Run | Instance | Question |
|---|---|---|
| `SessionQueue_one` | 2 messages, 2 runtimes one after the other, 1 failing write, 1 interrupt, 1 clear | Is an accepted message ever lost, duplicated, taken twice without cause, reordered, or brought back? Do the runtime and its file implement `FollowUpService`? |
| `SessionQueue_live` | 2 messages, 1 runtime, no faults, 1 resync | Is every accepted message eventually taken in? |
| `SessionQueue_two` | 1 message, 2 simultaneous runtimes | Does an unsettled claim stay its owner's? |
| `MemoryJobStore` | 2 threads, 2 revisions, 1 slot, 1 retry, 3 claims, 3 catalogue changes, 1 forget | All store properties under undisciplined callers |
| `ClientCommands_one` | 2 commands, 2 successive runtimes, a window of 1 id, a backlog of 1 task, 1 failing write, 1 failing handler | Is a command executed twice without cause, or lost once acknowledged? |
| `ClientCommands_two` | 1 command, 2 simultaneous runtimes, 2 connections, 1 failing handler | Do two runtimes ever execute a command together? Do they implement `CommandDelivery`? |
| `ClientCommands_live` | 1 command, 2 successive runtimes, 2 connections, no faults | Is an acknowledged command eventually executed, across crashes and shutdowns? |
| `MemoryGeneration` | 1 conversation, 2 workers of 2 processes, 2 revisions, 3 claims, 2 catalogue changes, 1 change of mode, 2 tasks, 1 forget | Is a forgotten conversation ever stored again? Does MEMORY.md at rest hold exactly stored revisions, none of them forgotten or replaced? Does an owner consolidate foreign inputs? Do the workers keep to the store's specification? |
| `LeaderInbox` | 2 windows, 1 message, 1 result, 1 fault | Is anything acknowledged by anything but the end of a request that held it, or read twice? Does the wake claim leak? Is every notification acknowledged in the end? |
| `EventReplay` | a window of 2, 5 events and disturbances together | Is an event skipped, applied twice or out of order? Does the log keep the window? Do deleted events return? Does a renderer always catch up? |
| `Approvals` | one request of each kind of which two are made, 1 lost connection or reload, 1 steer or permission mode, 1 interrupt | Is a decision undone by a late one? Does a request that is over leave something behind? Are the prompts of a page that has caught up those that wait? |
| `EventReplay_deaf` | a window of 2, 3 events and disturbances together | expected violation: an event that fails to apply |

### Bounds

* `Msg`: two messages suffice for losing, duplicating, merging and overtaking
  (`FollowUpsInOrder` compares two at a time). A message may be steered, restored, claimed and
  requeued any number of times; `MaxTaken` cuts off only re-delivery after an
  unrecorded delivery.
* `Owner`: a crash needs a successor; two simultaneous runtimes are enough for a
  stale baseline.
* `MaxFaults`, `MaxInterrupts`, `MaxClears`, `MaxResyncs`: budgets of events that
  could otherwise repeat; one failing write at any point, combined with a crash
  at any point.
* One conversation. One dispatch coroutine and one steer command per runtime:
  the fences ensure it, except that a clear lowers them while their coroutine is
  suspended; the slots `disp` and `steerCmd` then hold the next one back.
* `Command`: two are needed for an id to leave the window and for a command to find
  the backlog full; the exclusion and liveness of one command need only that one.
* `Conn`: slots for connections that are open or still being handled. One is reused
  by each reconnection; with two, a replaced connection's receiver still works while
  its successor replays. `MaxLeases`: with two, a crashed runtime's claim is not yet
  recoverable when its successor starts.
* `RecentMax`, `MaxTasks`: the real limits are 2000 and 100; 1 puts every command at the
  limit. `MaxRuns`: one effect more than allowed, so that a second one shows.
* `MemoryJobStore`: two threads compete for one slot; two revisions supersede
  each other; three claims are enough for a stalled worker, its successor and a
  phase-2 owner. The proofs need none of these bounds.
* `MemoryGeneration`: one conversation is enough for a view, an extraction and a
  consolidation of it to be of different ages; two workers for a stalled owner and its
  successor. The proofs of the store need no bound.
* `LeaderInbox`: a message and a result are the two kinds of item; two windows compete
  for the wake claim and the guard. `MaxFaults = 1` allows one stopped turn, steer
  command, closed session, crash or late heartbeat at any point. Failing requests are not
  among the faults and happen at any time.
* `EventReplay`: `Limit` is 1000 in the code; with 2 it is reached. `MaxSteps` bounds events and
  disturbances together: with 5, four events and one lost connection overtake the window
  of a renderer that has seen the first, and three events leave room for a crash and
  an unreadable log. The safety properties also hold with `MaxSteps = 6` (5.4 million
  states), which is not part of the runs.
* `Approvals`: requests meet in the tables, in notices and in the list that is sent again, and
  differ by kind, so that a pair of every two kinds is run; two of the same kind are
  covered by the proofs only. One interrupt is all that a run takes. `MaxPolicies` bounds
  steers and changes of the permission mode, `MaxFaults` lost connections and reloads.

`CHECK_DEADLOCK FALSE`: users may stop issuing commands, budgets run out, and a
runtime may be shut down; stopping is legal.

### Fairness

`LiveSpec` assumes what asyncio gives: a synchronous call completes (`WF`), and a
coroutine that can continue is resumed although other calls come between its
steps (`SF`, the ready queue is FIFO), a run ends. Nothing is assumed of users,
faults, crashes or the operating system. The live run has no write faults: after
`ClaimFails` the dispatch fence stays up and the conversation is stuck until a
clear or a restart (a hazard of its own, `handler.py:1178`), and no clear, which
would make the obligation trivially true for what it dropped.

For `ClientCommands`: strong fairness of each receiver and each command task, weak
fairness of leases, of cancellation and of closing, and strong fairness of
`Reconnect`. The frontend reconnects by itself, but gives up after five failed attempts
or ten minutes and asks the user to reload, which connects to the same session (its id
is in `sessionStorage`): the property is about clients that do come back.
`NobodyLeft` excludes behaviours
in which no runtime is left to reconnect to. `MaxLeases = 1` in the live run: a
command whose dead holder's lease is not free yet when the client reconnects is
replayed only by the reconnection after that, and nothing forces one.

For `LeaderInbox`: weak fairness of wake tasks, of the steps of a turn, of its cleanup and
of the end of a steer command, and strong fairness of the end of a turn's last request,
answered or failed (`Answer(s, "done") \/ RequestFails(s)`), which retries and further
iterations may put off but, being limited, not for ever. That an answer comes is not assumed. A lease whose
holder is gone lapses freely; nothing is assumed of it.

For `EventReplay`: weak fairness of the handler of `session.restore`, of the writer and the
deletion waiting for it, of the arrival of what is on the wire (or the loss of the
connection), and of the reconnection. The frontend gives up after a number of attempts
and asks for a reload, so `CatchesUp` too is about clients that come back. A log is
assumed readable at the reconnections that fairness forces.

`Approvals` states no fairness. `WaitingIsShown` is the safety form of "a wait can be ended":
when nothing is on its way, what waits is shown.

## Proofs

`MemoryJobStoreProofs` proves, for every finite set of threads, every set of
natural revisions, every limit and every bound (`ThreadAssumption`,
`RevisionAssumption`, `LimitsAssumption`, `BoundsAssumption` are the only
assumptions):

* `TypeCorrect`, `ForgottenIsForgotten`, `StoredMemoryIsLastSuccess`,
  `RestIsCurrent`, `SlotsAreBounded`: invariants;
* `LostClaimsStayLost`, `LiveClaimsOnlySuperseded`: action properties.

None of the invariants but the type is inductive. `IInv` adds:

* `TokensGranted`: no claim holds a token that has not been granted, so a new
  owner is never mistaken for an old one;
* `OwnersAreCurrent`: the owner of a job claimed it in the thread's current
  epoch. Forgetting deletes the job row *with* the output, hence no claim
  survives it; the mutant that keeps the row breaks exactly this;
* `WorksAhead`: a running job's revision is later than its last success, so
  what is stored only moves forward with the job row;
* `InputIsCatalog`: the phase-2 job's input is the latest catalogue whenever
  there is a job, and an owner's input is at most that: completing an owner that
  has missed something therefore leaves the job pending.

The slot bound counts only *other* threads' live jobs, so `SlotsStep` shows that
a claim adds at most its own thread to a set of fewer than `MaxRunning`.
There is one lemma per conjunct and one proof step per action.

`ClientCommandsProofs` proves, for every set of commands, runtimes and connections,
every limit and bound (`NullsAssumption`, `LimitsAssumption`, `BoundsAssumption`):

* `TypeCorrect`, `AcknowledgedStaysKept`, `OneExecutes`: invariants;
* `ImplementsDelivery`: every step is one of `CommandDelivery` or a stutter;
* `ExecutesOnce` (`ExecutedOnce`): an invariant, with its own hypothesis `MaxLive = 1`.

Only the last assumes one runtime at a time. The invariant `IInv` adds:

* `ReceiversAreJust`: what a receiver will replay, or is about to acknowledge
  positively, is in the file or took effect. The acknowledgement is sent an await
  after the file was written, and other runtimes act in between;
* `SeenTookEffect`: ids in the log and in every memory of it are of commands that
  took effect, so dropping a replayed command that is remembered loses nothing;
* `EffectsHappened`, `ExecutorHolds`: a task past its handler had its effect, and a
  task inside it belongs to a running runtime that holds the claim, which no
  recovery can therefore take.

`KeptStep` is the core: recovery, claims and releases move a command within the
file, and the only actions that take one out know that it took effect.
`RetainedIds` (compaction of the log invents no id) needs that a set of r numbers
has an element of each rank up to r. It is proved without induction from the
least-element principle (`NatLeast`), itself an instance of `WFMin`.

`ExecutesOnce` rests on a second invariant, `OnceInv`, over the first. Nothing stores that a command has had
its effect but the log, and that is written after the effect and cut to the window, so the invariant follows
each effect that is not excused (`Done`) through the places that know of it:

* `Follows`: the memory of the runtime that runs is an end of the log, and no longer than the window. What it
  remembers is therefore what the next one reads (`FollowsLatest`), and compaction keeps each of
  those ids (`RetainedLatest`);
* `Logged`: while nobody runs, every effect is among the latest ids of the log;
* `Accounted`: a runtime that runs remembers every effect, or its task is about to mark it;
  and a command that is `Free`, in the file or coming back to it with a dead runtime's lease, and that
  is scheduled or about to be, has had none. The check of the memory and the claim are
  awaits apart, hence the receivers in it;
* `Apart`, `Blank`, `OneRuns`: a command has one place in the file, and a runtime that does not run no
  memory, tasks or receivers.

The hypothesis is about runtimes, not leases (`MaxLeases` is free): a successor may start while the lease of a
crashed runtime is still held, and recover its claims in the middle of its own work. With two live
processes the property is false (Findings). TLC checks `OnceInv` on the instance of
`ClientCommands_one` (1,151,337 states), and with `MaxLeases = 2` (2,903,822).

`LeaderInboxProofs` proves, for all disjoint sets of messages and results, every set of
sessions and every bound (`ItemAssumption`, `NoSessionAssumption`, `MaxFaultsAssumption`):

* `TypeCorrect`, `AcknowledgedByARequest` (`HandledIsSeen`), `SeenOnce`, `WakeClaimNotLeaked`: invariants.

The types are proved and not repeated in the run. `WakeClaimHeld` is inductive with the types. The other two need `Prompts`, which ties what
a prompt holds to the stores: an item has been seen exactly when it is acknowledged and not
`unread` (`SeenIsHandled`), only the run that holds the query guard is past admission, and it holds
messages by a lease that is its own. An answer therefore acknowledges what was neither seen nor
given up before, a failed request (`FailureKeepsPrompts`) makes `unread` exactly what it
acknowledges, and a retry or a cancelled run, which change neither store, cannot acknowledge at all. The
mailbox's markers are left out: they are acknowledged without their messages.

`ApprovalsProofs` proves, for all disjoint sets of requests of the three kinds and every
bound (`KindsAssumption`, `BoundsAssumption`):

* `TypeCorrect`, `NothingIsLeft`, `DecisionsStand`: invariants. The types are not repeated in
  the run.

The invariant gives each request a lane (`Lane`) along its coroutine: before it asks
nothing is stored (`Fresh`), between event and wait an early response is the decision that
counts and its payload is there (`HandOff`), while it waits a settled future holds the
decision that counts (`Awaiting`), and afterwards only the named residues are left
(`Over`). `StoppedRun` is needed because an interrupt clears the payloads of the run
once: nothing may enter them afterwards. `SameLane` disposes of every step that leaves a
request alone, and `ResolveLane` is one argument for answers, steers and permission
modes, which all settle through `_resolve_pending_approval`.

What the page shows rests on a second invariant, `PageInv`, over the first:

* `WaitingRequestsAreShown`, `ShownRequestsArePending`: invariants.

`Coming` lists how a request that nobody has decided reaches the page (it is shown, on the
wire, to be sent again, answered, or the connection is down), `Told` that a settled future was
preceded by its notice or owes one, and `Cleared` that a notice follows every event of a
settled request that is still on the wire: order in `out` matters, hence the quantifier over
its positions. `AnsweredOnce` is where `stray` comes from. Only a request of a command may
wait without a payload.

`MemoryGenerationProofs` proves, for every finite set of threads, every non-empty set of
natural revisions, any workers and any limits and bounds (the store's assumptions,
`SomeRevision`, `RolloutsAssumption`, `TasksAssumption`):

* `TasksTypeCorrect`, `ForgottenIsNotStored`, `InputsAreTheOwners`, `RestsOnWhatIsKept`:
  invariants;
* `WorkersUseTheStore`: every step of the workers is a step of `MemoryJobStore` or a
  stutter, so the store's theorems hold of the workers too.

The last needs that a worker settles only what it was granted (`ClaimsGranted`), since the
store's actions take their claims from `issued1` and `issued2`. `TokensUnique` makes the
owner of phase 2 unique. `ForgottenNotExtracted` is the heart of the first: forgetting deletes
the job's row, so an extraction past the check of its thread's mode no longer owns it.
`SelectionIsCurrent` says that as long as no input has arrived since the owner's claim, what it
selected is in the store, of the stored revision and of the current epoch: a newer extraction
counts as an input like a removal. Together with `OwnerWroteTheMemory` this
is why the job rests only on a MEMORY.md without threads that were forgotten or replaced.

`SessionQueueProofs` has two parts. The first holds for any number of messages and runtimes,
alive together or not (`NullsAssumption`, `BoundsAssumption`):

* `TypeCorrect` (`TypeOK`) and `ClaimsAreFenced` (`ClaimFenced`): invariants.

`FenceInv` extends `ClaimFenced` back to
the claim (`Dispatching` includes the await between the claim and the re-read, when the
manager does not show the claim yet) and adds that a dispatched message was captured
(`Captured`), that the two halves of a call are not interleaved with another of the same
runtime (`OneCall`) and that no coroutine outlives its runtime (`Runs`). Every action of another
runtime goes through recovery, `merge_owned_delta`, a claim or a settlement, and there is
one lemma for each of these (`RecoveryKeepsClaims`, `MergeKeepsClaims`, ...). What the queues hold is
not looked at, so nothing is needed about the merge of queues. The types do need it: that a merge of
two lists of messages is one rests on what `Only`, `Indexed`, `Reordered` and `InsertBeforeSuccessor` return
(`OnlyParts` to `MergeParts`), and that no dispatch handles the null message on `FenceInv`.

The second part states its own hypothesis, `MaxLive = 1`: one runtime holds the lease at a time, with any
crashes, shutdowns, restarts, failed writes, commands of the user and messages. That is how one MiniCode
process runs, since a retiring session is awaited before its successor is made. With several
processes on one data root only the first part is claimed.

* `NothingIsLost` (`NoMessageLost`), `OnePlace` (`SinglePlace`), `NotTakenAgain` (`TakenOnce`),
  `FollowUpsKeepTheirOrder` (`FollowUpsInOrder`): invariants;
* `GoneForGood` (`GoneStaysGone`): an action property;
* `ImplementsService` (`ServesFollowUps`): every step is one of `FollowUpService` or a stutter. The
  run checks this one and not `GoneStaysGone`, which it implies: the service lets
  a message wait only when it enters.

None is inductive, and no one of them can be proved without the others: what is lost, doubled or
taken twice depends on how the manager's copy, the store's baseline, the file, the turn's queue
and the dispatch agree between two steps of a call. `AloneInv` says how:

* `Alone`, `Owned`, `Blank`: one lease at a time; what is in progress has an owner; a runtime
  that does not run remembers nothing;
* `Synced`: the live runtime's baselines *are* the file and the parts in progress are its own. The
  three-way merge then publishes exactly the caller's snapshot (`MergeResult`: no delta, in the order
  of the snapshot), which is what every publishing action needs (`PublishedStep`);
* `Shows`: the manager's copy is the file too, except where the code re-reads after an await:
  from a claim to its re-read, and from a settlement to its own;
* `Steering`, `Consuming`, `Claiming`: the turn's queue, the steer being consumed and the claim being
  dispatched are each messages of the file or nowhere else. A clear may have removed the
  claim, hence `disk.inflight \in {cmd[o], NoMsg}`;
* `Counted`, `Recorded`, `Abandoned`: a message in the file has been taken in no more often than
  excused, unless it is the one whose taking is about to be recorded. Recovery after a crash
  relies on `Abandoned`;
* `Places`, `InOrder`, `Once`, `Kept`: the properties, over the whole file. `InOrder` compares follow-ups
  by their position in `accepted` and lets steered messages stand anywhere, which is an
  order on pairs (`Ahead`) and not a total one: the lemmas on `Sorted` take any relation.

Publishing, recovery and the settlement of a claim each have one lemma with their effect on the file; the
actions follow from these (`SubmitStep`, `SteerQueuedStep`, `EndRunStep`, ...), one lemma per action. TLC
checks `AloneInv` on the instance of `SessionQueue_one` (283,916 states).

`ImplementsService` needs exact counts where the invariants above have bounds: the service takes a
message in only when every earlier taking was excused, and records one only if exactly one is due.
`HandInv` adds, for what a runtime has in hand (`Hand`):

* `Claimed`, `Consumed`: what it dispatches is the claim of the file, and the steer it consumes a turn
  input of the file, unless the user has removed it. `AloneInv` lets both be gone from the file
  and does not say why; the service asks;
* `Accounted`, `Countable`: what it has taken in and not recorded has been taken in once more than
  excused, and nothing has been excused more often than taken in.

A runtime without the lease has nothing in hand (`OnlyOneHand`), so a step only has to keep
the hand of the runtime that moves (`HandFrom`). `ServiceSteps` states the steps of the service
in terms of `Stored` and the histories; there is one lemma for each kind of step: those that stutter
(`SameService`), take in (`ServeStep`, which gets `First` from `InOrder`), end a consumption
(`ConsumptionEnds`) or remove (`DiscardStep`), and under these one per action. TLC checks
`HandInv` on the same instance.

`SequenceLemmas` has what three of the proof modules need of sequences and no library states without an
operator parameter: induction over a segment of the naturals, that a value defined by
recursion along a sequence exists, and what `Append`, `\o`, `Tail` and an insertion do to the elements,
the distinctness and the order of a sequence.

`EventReplayProofs` proves, for every length of the window and any number of events, lost connections,
crashes, failed writes and reducers, unreadable logs, reloads and deletions (`LimitAssumption`,
`BoundAssumption`):

* `WindowReachesTheDisk` (`WindowOnDisk`) and `DeletedForGood` (`DeletedStaysDeleted`):
  invariants, and `LogIsKept`, the invariant they rest on;
* `TypeCorrect` (`TypeOK`): the types of both sides, and what is cleared with a connection or a
  runtime. `ViewInv` adds the renderer, the handler and the wire to `LogInv`; `HandledTyped`
  says what a batch can leave behind;
* `NoneSkipped` (`NothingSkipped`) and `InOrder` (`AppliedInOrder`): invariants, and `ChainIsKept`,
  the invariant they rest on.

The writer works behind the window. `Base` and `Final` say what the log will hold when
everything waiting has been written, and `EndsWithWindow` that this ends with the window unless a
failure is waiting for its repair. That is inductive only with the shape of the queue
(`QueueShape`: at most one rewrite, at its head), with `CleanAppends` (after a failure only
rewrites are started) and with two facts about compaction: lines queued since the last rewrite are
still in the window (`QueueInWindow`), and so is the event a rewrite would report as failed
(`TriggerInWindow`). A deleted event cannot come back because its number is not given out
again by the runtime that knew it (`NumbersAreOld`).

What a renderer has seen is compared with everything kept, written or on its way, by the
number of the runtime and then the number of the event (`Precedes`). Two invariants follow one another.
`LogSide` is about the session:

* `Numbered`: what one runtime gives out is linked without a gap, and goes on from everything
  written since the last log that could not be read (`Young`, `CountedOn`). Before that,
  numbers may have been given out twice;
* `Lasting`: the window, the log, a rewrite about to replace it and an append about to
  continue it are in order and hold everything kept from their first event on (`Whole`), up to
  what has yet to be written (`WholeWithin`). What a runtime loads after a crash is therefore
  an end of what is kept, since `kept` loses what the log has lost (`LogSideCrash`).

`PageSide` is about what is on its way, from the moment the window is read:

* `OneRestore`: one restore at a time, announced before it is replayed, read with the cursor the
  renderer still has;
* `Continued`: an event sent as it happened is linked to all that its runtime keeps;
* `Answered`: an answer says how far the window went when it was read (`current`), and everything the
  earlier runtimes left is before it. The handler awaits between `Look` and `SendRestored`: what is
  emitted then comes after `current` and is buffered;
* `Following`: the core. A renderer that is `Synced` (it follows, or will be replayed what it
  misses, or is behind a failed event) knows its cursor: what it has not seen lies after it,
  and each event on its way either is old or skips nothing and comes after all it has
  seen (`Knows`, `Good`). `Replayable` is there for the renderer whose runtime was made over an unreadable
  log: it knows nothing unless the window still links to its cursor.

`BatchStays` carries this through a batch: an event that links to the cursor moves it (`NextKnown`), one that
does not, or whose reducer throws, stops the batch. `SnapshotKnows` says that a snapshot replaces
whatever the renderer knew, and `PageSideCreate` that a runtime which says nothing has continued the
numbers the renderer remembers, unless `behind` says otherwise.

Sequences. The prover does not see into `SelectSeq` or the folds, so the operators that filter
(`Without` of `EventReplay`, `Only` of `DurableUserQueue`), the merge and the renderer's batch
(`Handled`) are recursive functions. What they compute is proved by induction over an initial segment of the naturals
(`SegmentInduction`), which is had from the well-foundedness of the naturals applied to a set.

Only model-checked: liveness (`TakenUnlessKickSwallowed`, `AcknowledgedIsExecuted`, `Heard`,
`CatchesUp`). What `SessionQueue` does with several live runtimes, beyond the first part above, is
not claimed. Out of the prover's reach: liveness under fairness and `ENABLED`.

## Findings

A run whose property TLC violates; the counterexample is the evidence.

* **Deaf after one failure** (`EventReplay_deaf`). An event that fails to apply enters
  `failedReplaySeqs`, and from then on every message with a higher number is ignored.
  `session.restored`, `session.replay` and acknowledgements carry numbers too, and higher
  ones, so the reconnect that was to repair the failure is itself ignored; recovery is
  nevertheless taken to be complete. Only a new page helps. A failing reducer is not even
  needed: a page without an active conversation does not ask for a restore, and the first
  event of a session that has said something before does not link to its cursor 0.

### Also seen

These were found with the same modules. Where a property holds except for one of them, the
exception is named in the property.

* **Shutdown deletes follow-ups** (`run_manager.py`, `clear_all_user_message_queues`; the
  action `Shutdown` of `SessionQueue`). An orderly shutdown saves empty queues, a crash keeps
  them. Thirty seconds without a connection are enough for one (`manager.py`, the delayed
  disconnect). `NoMessageLost` excuses what a shutdown clears.
* **Swallowed kick** (`handler.py:1173`). A steer accepted by the running
  turn holds `_queue_steering` while it sends its events. If the run ends in that
  window its kick returns at the fence, and the steer's `finally` kicks only when
  it had interrupted the run. The follow-up waits until some other event kicks
  the queue. `TakenUnlessKickSwallowed` shows this is the only such case.
* **Lost message**, with two live processes (`SessionQueue`, `MaxLive = 2`, `NoMessageLost`):
  a refused `claim_user_message` leaves the baseline behind, and `pending_user_messages` hands
  out a newer queue without moving it; the next save then diffs two versions that do
  not belong together. With one runtime at a time this cannot happen
  (`SessionQueue_one`).
* **Rejected and executed** (`command_dispatcher.py:318`). The backlog limit is tested
  before the file is asked whether it owns the command already, so a command that is
  running and is sent again over a full backlog is reported as rejected.
* **Executed twice**, with two live processes (`ClientCommands`, `MaxLive = 2`, `ExecutedOnce`).
  A dispatcher reads the deduplication log only when it is made. If another process executes
  and logs a command after that and dies before completing it, the survivor recovers the
  command and executes it again.
* **Acknowledged without an answer** (`turn_iteration_execution.py:277`). The comments of the delivery say
  that it "acknowledges only after a model request has consumed the notification"
  (`mailbox_delivery.py:857-858`), and that a delivered notification, "not yet consumed by a
  provider request", "remains replayable until ack" (`parent_notification_outbox.py:543-544`).
  The iteration acknowledges for every action but "retry"
  (`turn_iteration_execution.py:277-279`), so also for the "terminate" of a request that ended
  in an error, a timeout, at a budget boundary or without its terminal frame
  (`provider_stream_settlement.py:76-80`, `95-112`, `121-122`). What the prompt held is settled
  with the failed request and nothing wakes the leader for it again. The text may still be in the
  context the conversation saves at the end of the turn (not modelled), where the next
  prompt of the user would find it. A cancelled request acknowledges nothing.
  `RequestFails` is this step and `unread` names what it acknowledges: it is the second case of
  `HandledIsSeen`, and `Heard` speaks of acknowledgement only. TLC violates the invariant
  `unread = {}` with one window, one result and no fault: the result is stored, wakes the leader,
  is read, and the request fails.
* **Marker without its message** (`mailbox_delivery.py:807`). The comment there says that "the
  message itself was delivered through the mailbox claim above", but a message sent between
  the claim of the mailbox (line 571) and the listing of the outbox (line 777) is not claimed
  and its marker is acknowledged. If the turn ends with that answer nothing wakes the leader
  for it.
* **A request nobody rechecks** (`run_manager.py:927`). A window that is refused the wake claim
  relies on "Its run or cleanup owns the next recheck", but the cleanup rechecks the requests of
  its own session only. `missed` in `Heard`.
* **The lost end of a log is not noticed** (`event_log.py:343`: "A power loss can drop the tail of
  the log, which costs a snapshot-based reconnect"). The next runtime counts from the
  highest number on disk. If it says anything before it handles `session.restore` (a command it
  replays, say), the renderer's cursor is not ahead of the new one any more, no gap is reported,
  and the new events are skipped silently. `behind` in `NothingSkipped`.
* **A degraded log is forgotten** (`event_log.py:445`). `replay_log_degraded` is documented as
  "Whether loading the durable replay window lost evidence" (`event_outbox.py:123`), but it
  returns the status of the *last* read, and an export of the log or the deletion of a
  conversation reads it again. A later good read clears it although window and counter still
  miss what the log holds. `behind` again: without it TLC violates `NothingSkipped`.
* **Old numbers come back** (`event_log.py:413-445`, `event_outbox.py:78-85`). A log that two
  runtimes in a row could not read holds numbers given out twice. When a deletion then shortens it,
  the window that the next runtime loads reaches back to the earlier ones, and a renderer with a
  low cursor of the later counting is sent what it has already been shown. The last case of
  `Forgets`; it takes twelve steps (`MaxSteps`), more than the run allows.
* **More than one event unresolved** (`event_outbox.py:418`: "If the replacement rewrite also
  fails, only that event is unresolved: the rest of the window is either already on disk or still
  queued"). The queued lines have been cleared by then and are not marked as failed. While the
  process lives, `failed` is not empty and the next write repairs them (`WindowOnDisk`).
* **A rejection replaced** (`approval_runtime.py:254`). A steer that comes between the event of
  a request and its wait stores a rejection; an answer that was on its way replaces it, since
  the payload is still there. `DecisionStands` counts the last decision before the wait.
* **Residues in the wait state.** A turn that is out of time before the wait returns without
  calling `approval_handler` (`tool_batch_execution.py:1278`), so the payload stays: it is sent
  again at each reconnect, and an answer to it is kept for ever. `_handle_mcp_elicitation`
  does not take its response away, so a second answer during its notice stays too.
  `abandoned` and `Elicit` in `NothingLeaks`.
* **Prompts nobody waits for** (`stray` in `PromptsArePending`). `reemit_pending_state`
  (`approval_runtime.py:607`) goes through a list taken before its awaits and sends requests that
  were settled meanwhile; a prompt answered while disconnected is sent again before its answer is
  handled; and a page whose missed notices are skipped keeps their prompts, because
  `session.restored` clears none. The answers to such prompts are ignored.
* **A command that waits unseen.** An interrupt takes away every payload of the conversation, also
  those of a command. If that command had sent its request but does not wait yet, it will wait
  without a payload, hence without prompt or answer (`r \in Side \ payload` in `WaitingIsShown`).

## Limits

* `promote` and `replace_user_message_queue` are not called by any handler, and
  the volatile `enqueue_turn_steer` of extensions does not touch the file: not
  modelled. Delivery of the run's last events and `cleanup` are one action.
* Corrupt files, quarantine, path validation and the length limits of messages
  are not modelled; a failing write leaves the old file (it is replaced
  atomically).
* Leases are modelled by what a probe can find out. Probing costs and platform
  differences are not.
* Client-command records share the queue's file but no key with the messages; the two
  are modelled separately (`SessionQueue`, `ClientCommands`).
* `ClientCommands` leaves out pings, commands without an id, command types that bypass
  the backlog, the ageing of log entries, a reloaded frontend (it forgets what it had
  not sent), and tasks that outlive the deadline of their cancellation. `Close` waits
  for the receivers of its runtime.
* `MemoryGeneration` leaves out the wait for foreground turns, what prompts and outputs
  contain, the repair of a broken git workspace, and the citations turns read back. A
  `Reset` drains the tasks of its own process only, as the code does.
* `LeaderInbox` is one process: claims by another, stale epochs, messages between subagents,
  superseded pings, lifecycle claims, failed injections (`mark_failed`), archived conversations
  and the bounds of the outbox are left out. `start_agent_run` is one action, `Close` frees the
  guard at once, and a crash between an answer and its acknowledgement is not modelled.
* `EventReplay` leaves out `session.sync`, a second `conversation.switched` during recovery, events
  of unknown types, the bounds of the delivery queue (256), of a batch (256) and of the recovery
  buffer (1000), the sanitising of payloads, torn lines, the retention of old logs, dormant logs,
  and the deadline of a deletion. A snapshot is taken to contain every event up to its number that
  is kept. Events that never leave the process (`_can_send`) are staged and written all the same.
* `Approvals` leaves out OAuth prompts, the session's cache of approvals, the rules of
  `exit_plan_mode`, digests, `conversation_resources_cleanup`, the clearing of waiters at a
  session's shutdown, a second run of the conversation, and the sending again of
  requests by `conversation.switch` and `session.sync`. Whether a wait ends is not checked: with
  fairness the instance is beyond TLC's five minutes.
* Components with status `not_modelled` or `partly` say what is missing.

# Verification of codex-rs

The repository is the Codex agent: a Rust workspace (`src/codex-rs`) in which
`core` runs conversations with a model, `app-server` serves them to clients over
JSON-RPC, `tui` and `exec` are front ends, and a number of crates persist
(`rollout`, `state`, `memories`), execute (`exec-server`, sandboxes) and transport.
This directory holds TLA+ models of the parts whose correctness depends on the
order of concurrent steps: the turns of a session, the recorder of its rollout
file, the jobs of the memory pipeline, the agents a session spawns, and the app
server's handling of processes and of threads.

## Inventory

| Part | State | Operations | What is hard | What makes it correct |
|---|---|---|---|---|
| **Session turn lifecycle** (`core/src/tasks`, `core/src/session`, `core/src/state/turn.rs`) | `active_turn: Option<ActiveTurn>` (tasks, `Arc<TurnState>`), pending input, delivery phase, `idle_pending_input` | submit, steer, inject, start_task, run_turn, on_task_finished, abort_all_tasks, abort_turn_if_active | every operation is several short critical sections with awaits between; four kinds of actors | no input duplicated, none left without a reader; a turn's end never damages its successor; pending work wakes an idle session; one task, one terminal event |
| **Mailbox** (`core/src/agent/mailbox.rs`) | unbounded channel plus `pending_mails` | send, drain, has_pending, has_pending_trigger_turn | mail arriving around the end of a turn | mail after a final answer waits; triggering mail finds a turn |
| **Goal continuation** (`core/src/goals.rs`) | thread goal in the state db, continuation semaphore, reservation in `active_turn` | set, stop, continue if idle, clear reservation | reserves the turn slot across database reads | an abandoned reservation loses nothing |
| **Guardian circuit breaker** (`core/src/guardian`) | denial counts per turn | record denial, abort the turn from a spawned task | aborts concurrent with the loop's own | aborts never meet on one task |
| **Hooks** (`core/src/hook_runtime.rs`) | pending session-start source | inspect and record input | a blocked prompt among several | the others are handed back |
| **Approvals and tools** (`core/src/tools`, `TurnState`) | oneshot senders per call, shared network approvals | request, answer, clear | answer racing cancellation | every waiter is released once |
| **Rollout recorder** (`rollout/src/recorder.rs`) | pending items of the writer task, the file | record, persist, flush, shutdown | a failed write must be retried without loss or repetition | the file is a prefix of what was recorded |
| **State db jobs and memory pipeline** (`state/src/runtime`, `memories/write`) | job rows with status, owner token, lease, retries | claim, heartbeat, finish, fail, reset; the memories directory and its git baseline | several processes with clocks of their own, expired leases, a reset at any time | one live worker per job, one consolidation in the directory, nothing of before a reset comes back |
| **Unified exec** (`core/src/unified_exec`) | process store with a limit, head-tail buffers | start, write, poll, prune, terminate | exit racing the last output; the store at its limit | no output lost before the end event |
| **Agent registry** (`core/src/agent/registry.rs`) | count of live agents, names | spawn, resume, message, shut down: reserve, commit, release | concurrent calls at the limit; the thread manager and the registry change in different steps | the limit holds, slots do not leak, names and paths are exclusive |
| **App server requests and processes** (`app-server/src`) | queues per serialization key, connection gate, process sessions | enqueue, drain, close, spawn, write, kill | requests of a closing connection, a child that does not read | per-key order, nothing of a closed connection stays |
| **App server threads** (`app-server/src/thread_state.rs`, `request_processors/thread_lifecycle.rs`) | thread entries, subscribers, listener tasks, pending unloads | resume, unsubscribe, archive, unload | an unload between any two steps of a resume | only live subscribers, one registered listener, an unload always ends |
| **Remote control** (`app-server-transport/.../remote_control`) | outgoing buffer, cursors, segments | send, ack, reconnect, reassemble | lost and repeated envelopes | each message delivered once, in order |
| **Exec server** (`exec-server/src`) | sessions, detached deadline, process output sequence | attach, detach, expire, resume, read | resume racing expiry | one attachment, no gap in output |
| **Authentication** (`login/src/auth/manager.rs`) | cached and stored tokens | reload, refresh, logout | another process refreshing | no token of another account used |
| **History** (`core/src/context_manager`) | items of the conversation | record, normalize, truncate, roll back | pairing after edits | each call has one output |
| Message history file, MCP connections, TUI, sandboxes, exec policy, apply-patch, protocol types | - | - | I/O, rendering, parsing | not planned |

The parts meet in the session: the app server and the front ends submit
operations to its loop (one at a time) or steer it directly; other sessions put
mail into its mailbox; the tasks it spawns record into the rollout and the
history; guardian reviews and goal changes act on its `active_turn` from tasks of
their own. Agents are sessions too: `AgentControl` creates them through the thread
manager that the app server unloads threads from, and the memory pipeline reads
what the rollouts of all of them left. Each model takes its neighbours as an
environment that may do anything their code can do at that interface: the app
server's unload is an action of `AgentSlots`, a turn that updates its thread one of
`MemoryJobs`.

## Modules

| Module | Models | Lines of code it stands for |
|---|---|---|
| `SessionTurns` | the turn lifecycle, input buffers, mailbox, goal continuation, aborts | `core/src/session`, `core/src/tasks`, `core/src/goals.rs` |
| `InputDelivery` | what the session promises for an input item: at-most-once delivery | abstract |
| `RolloutWriter` | the recorder: command channel, writer task, recovery, crash, resume | `rollout/src/recorder.rs` |
| `DurableLog` | what the recorder promises: a log that grows, and confirmed prefixes of it | abstract |
| `MemoryJobs` | stage-1 and phase-2 jobs, their workers, the memories directory | `state/src/runtime/memories.rs`, `memories/write/src` |
| `AgentSlots` | registry and control of spawned agents | `core/src/agent/registry.rs`, `control.rs` |
| `ConnectionProcesses` | request queues, connection gate, `process/*` | `app-server/src` |
| `ThreadListeners` | subscribers, listeners and unloading of one thread | `app-server/src` |
| `MCSessionTurns`, `MCMemoryJobs`, `MCAgentSlots` | symmetry sets for TLC, and the order in which a fair run hands out sub-ids | |
| `SessionTurnsProofs`, `SessionDeliveryProofs`, `RolloutWriterProofs`, `MemoryJobsProofs`, `AgentSlotsProofs`, `ConnectionProcessesProofs`, `ThreadListenersProofs` | proofs | |

In all of them an action is one critical section, one database transaction or one
channel operation: what the code does between two awaits at which another actor can
run. A call such as `start_task` or `spawn_agent` is a chain of actions and its
local variables are state. `PROJECT.json` maps every definition to its lines.
Definitions marked as mutants or as variants with a fault are not part of the
specifications; each is a plausible mistake, and putting it in the place of the
definition after it violates the property that is about it.

### SessionTurns

One session. **State**: `active` names the `TurnState` of the installed
`ActiveTurn` (or `None`); a turn state is named by the turn and by the step whose
`ActiveTurn::default()` created it (`reserve`, `install` or `spawn`), which stands
for the `Arc` pointer the code compares with `Arc::ptr_eq`. `tasks` are the keys of
`ActiveTurn.tasks`; `pending` and `phase` the fields of each turn state;
`idleQueue` and `mailbox` the session's other buffers. For each turn, `pc` is the
place of its code, first in the caller of `start_task` and then in the spawned
task; `input`, `held` and `ts` are that code's local variables, `caller` the actor
that awaits it. `abort` holds the locals of the two possible aborters: the
submission loop and the task spawned by a guardian review. `sent`, `history`,
`dropped`, `completed` and `aborted` record what happened.

**Actions**: `start_task` is `CollectQueue`, `CollectPending`, `CollectMail`,
`Install`, `PushCollected`, `SpawnTask`; `on_task_finished` is `RemoveTask`,
`TakeLeftover`, `Complete`, `ClearActive`, `ContinueIfIdle`; an abort is
`TakeActive` (in `Interrupt`, `ReplaceTasks` or `GuardianAbort`), then `CancelTask`
and `KillTask` per task, `PauseGoal`, `ClearPending`, `AbortNext`. The grace period
of 100 ms is a race: between `CancelTask` and `KillTask` the task may do anything,
including finish; after `KillTask` it stops at its next yield (`Killed`), and what
it held is dropped. Hooks, compaction, the model and the database answer
nondeterministically.

**Abstractions**: items are distinct values and buffers are sets (the order inside
one buffer is not modelled); a prompt passes the user-prompt-submit hook, a note
does not; a sampling request is one stage in which the model's output may close
and reopen the turn to mail; compact, review and shell tasks are one step, since
they touch none of this state. A sub-id that never got a turn is reused, which only
renames it.

### RolloutWriter

One recorder and its file. **State**: `chan` is the bounded channel, `running` the
writer task's receive loop; `deferred`, `open`, `meta`, `pending` are the fields of
`RolloutWriterState`, `written` the local `written_count`; `stage`, `attempt` and
`cmd` say where the task is; `file`, `torn` and `indexed` are the disk and the state
database; `waiting`, `recorded` and `confirmed` what callers did and were told.
**Actions**: `RecordItems` and `Call` (persist, flush, shutdown); the writer's
`Receive`, `EnsureOpen`, `WriteMeta`, `WriteItem`, `ItemsDone`, `FlushFile`, each with
its failure; `Crash` at any point and `Resume` on the file that is there. Items are
numbered in the order of recording. A failing write may leave a fragment (`tear`),
and the next line continues it.

### MemoryJobs

Processes that share a database. **State**: the rows (`job` and `out` per thread,
`glob`), what each extractor has selected and holds (`scan`, `left`, `held`), where
each consolidator is in `phase2::run` (`con`), the memories directory and its git
baseline (`work`, `base`). A transaction is one step, with a time read up to `Delay`
before it. **Actions**: scan, claim, success, empty result, failure and death of
extractors, retention pruning; claim, preparation, selection, sync, agent,
heartbeat, baseline, success, failure and death of consolidators; turns that update
a thread, pollution, and the two halves of `memory/reset`. With `Suspends` FALSE a
live worker acts before its lease ends (the code's heartbeat) and a selected job is
tried within `ScanTime`; dead workers do nothing. In the code a scan is a matter of
milliseconds and lease and retry delay are both an hour
(`memories/write/src/lib.rs:83`), so the two times are constants of their own.

### AgentSlots

The agents of one root session. **State**: `count`, `tree`, `used`, `resets` are the
registry, `thr` and `nick` the thread manager and the stored nicknames; each flow (a
call into `AgentControl`) has its place and its locals. `Stored` are the threads the
state database has from an earlier process: they can be resumed, with whatever nickname
they had, while the registry starts with an empty pool. **Actions**: the load and the
compare-exchange of the counter, path and nickname reservations, creation and its
failures, commit or drop, `send_op`, the three steps of a shutdown (`RemoveThread`,
`ReleaseEntry`, `Decrement`), a session that ends by itself, and an unload by the app
server. A resume first looks for its thread (`FindResumed`): a running one, which
another resume has loaded meanwhile, is the result and is committed a second time; one
whose loop has ended is removed; otherwise the thread is started and enters the manager
in a later step (`CreateThread`), unless another one has entered it by then
(`CreateFails`). The key `thread:<id>` is written as the id itself.

### ConnectionProcesses

The loop over transport events, the request queues by key and their drain tasks, the
gate of each connection, the handlers of `process/spawn`, `write` and `kill`, and the
task and child of each process. A request is numbered as it is sent; `pc` follows it
from the wire through queue, gate and handler. A close runs in the loop: gate shut,
handlers in flight awaited, processes killed. `StdinCapacity` stands for the writer
channel and the pipe together.

### ThreadListeners

One thread. Entries of the state manager, loaded `CodexThread`s and listener tasks
come and go and are numbered in order; the handlers of requests about the thread run
one at a time (`proc["request"]`), closing connections beside them (`proc["close"]`),
listeners and the tasks that finish an unload on their own. `ensure_conversation_listener`
is `EnsureGet` (the loaded thread is looked up), `EnsureSubscribed` (the check of the
pending unloads and the subscription, under one lock), `EnsureWatch`, `EnsureListener`
and, when the listener cannot be started, `EnsureRevoke`; an unload may end between any
two of them. `clear_listener` both unregisters (`Cleared`) and cancels (`CancelOf`),
wherever it is called. `had` is the value of an
entry's watcher, which a listener may hold beyond the entry; the 30 minutes of the
unload delay are the nondeterministic `DelayPasses`.

## Properties and runs

`CHECK_DEADLOCK FALSE` is used where the system may stop because nobody asks for
anything more. Bounds named in a module (`MaxItems`, `MaxTime`, `MaxRequests`,
`MaxCalls`, `MaxMade`, `MaxTokens`, `MaxResets`, ...) appear in guards of the
environment's actions only. `ScanTime` bounds the clock: it does not pass a job that a
live extractor has selected and not yet tried.

| Run | Instance | Checks |
|---|---|---|
| `session_aborts` | 3 turns, 2 prompts, 1 mail; submissions, interrupts, guardian aborts (600k states) | `TypeOK`, `TasksAreLive`, `AbortClearsTaken`, `PromptKeepsReader`, `LateMailWaits` |
| `session_mail` | 3 turns, 2 prompts, 1 triggering mail, fair; sub-ids in order (124k) | `TriggerMailSettles`, `PromptSettles` |
| `session_delivery` | 2 turns, 1 prompt, 1 note, 1 triggering mail; every kind of task, goals, approvals, auxiliary shell (1.15M) | `NoDuplicate`, `DeliverySpec` |
| `rollout` | 2 callers, channel of 2, 3 items in batches of up to 2; failing and torn writes, crashes, fair writer (500k) | `TypeOK`, `FileIsPrefix`, `ConfirmedIsStored`, `LogSpec`, `CallersAnswered` |
| `memory_extract` | 2 threads, 2 extractors, clocks up to 1 behind, 1 reset (1.9M) | `TypeOK`, `RunningCap`, `NoDuplicateWork`, `RetriesBounded`, `ResetForgetsOutputs` |
| `memory_consolidate` | 1 thread, 1 extractor, 2 consolidators, 1 pollution | `OneRunInDirectory`, `SelectedInBaseline`, `OutputsEnqueued`, `CooldownKept` |
| `processes` | 1 connection, 1 handle, 3 requests, stdin of 1 chunk; children that read (50k) | `TypeOK`, `OneAtATime`, `RunningIsReachable`, `ClosedLeavesNothing`, `RequestsAnswered`, `ClosedTerminates` |
| `listeners` | 2 connections, 3 calls, up to 3 entries, loads and listeners; fair (470k) | `TypeOK`, `SubscribersAreLive`, `RunningIsRegistered`, `UnloadsEnd` |
| `agent_spawn` | 2 calls, 3 threads, none stored, limit 2, 1 path, 1 name; no resumes (890k) | `TypeOK`, `SlotsExact`, `OpenWithinLimit`, `OpenIsRegistered`, `PathsExclusive` |
| `agent_resume` | 2 calls, 3 threads, one of them stored, limit 2, 1 name; resumes, unloads (4.3M) | `SlotsCovered`, `NicknamesUnique` |
| `session_two_tasks` | 3 turns, 2 prompts, 1 triggering mail | `AtMostOneTask`: violated |
| `process_stuck` | as `processes`, children that need not read | `ClosedTerminates`: violated |

Why the bounds are enough. Sessions: three turns are the smallest number with a turn
being aborted, its successor and a third one started by the abort itself; two prompts
are one that runs and one that is steered. In `session_mail` the mail can start the
turn into which one prompt is steered while the other one replaces it, in any of its
stages, so that a reservation, a task with input and a task in its grace are all
replaced. In this instance no prompt is orphaned for good; that takes a third prompt or
another kind of task (below), too large for a liveness check. Its `ACTION_CONSTRAINT` takes unused
sub-ids in a fixed order: they are interchangeable, every fair action that takes one
may take the first, and the run without the constraint (420k states) passes too, in
more time. `session_delivery` has no interrupts, for
which the proofs of the same two properties stand in. Recorder: with three items in
batches of two a batch can fail after one line while another is queued, and the
second attempt can fail as well; two callers are one whose shutdown closes the
channel on the other. Memory: a lease of two and a clock of three let a lease expire
and its job be claimed again, with a late answer of the first claimant; a clock one
behind is where a check against a stale time would show; a `ScanTime` of one lets the
selection of a job grow old by a tick. Processes: three requests
spawn, write and kill one process, or spawn twice under one handle. Listeners: two
connections and three calls contain a resume, its unload and the resume of another
connection. Agents: two calls race at the counter, at the registry and at a path,
and the limit of two is reached with a third thread to spare; with one name every
second draw resets the pool. Two calls can resume the stored thread together, or one
of them can while the other spawns with its name.

**Fairness.** The tokio runtime polls every ready task and locks are held for short
sections, so the tasks of the system are weakly fair. Clients, connections, hooks and
failing devices owe nothing. In detail:
* `SessionTurns`: each turn's code, be it starting or running, and each aborter (WF);
  strong fairness, of the session as a whole, of `Sample(t, "loopCheck")` (a model that
  is asked again and again stops at some point), of `RunTurnBegins` (pre-sampling
  compaction does not fail for ever) and of `DrainPending` (a session-start source is
  taken once). The second is
  a real assumption: if compaction fails for ever while input is pending,
  `RegularTask::run` spins.
* `RolloutWriter`: the writer task as a whole (WF); failures are among its steps, so
  every caller is answered however often they happen.
* `ConnectionProcesses`: the loop, each drain task, handler and process task, and the
  exit of a child that was killed (WF). `ReadingSpec` adds that children read their
  stdin; `process_stuck` shows that `ClosedTerminates` needs it.
* `ThreadListeners`: the two processes, listeners and unload tasks (WF); the passing
  of the unload delay and the end of a session are not assumed.

## Where the code does less than the repository says

Two disagreements are runs that expect a violation. `session_two_tasks`: a finishing
task starts a turn for waiting mail; the loop, which sees no task yet, removes that
reservation but not the `start_task` under way, and starts its own turn; both insert a
task (`docs/protocol_v1.md:25`: "at most one `Task` running at a time").
`process_stuck`: a child that does not read its stdin keeps `run_process` inside a
write; the closing connection waits for that write's handler before it kills anything
(`app-server/README.md:1088`: "the server terminates the process").

The following properties are stated in the modules, each under a comment that says
so, and are violated too. Each can be reproduced with a configuration of the given
constants (the specification is `Spec` unless a line says otherwise).

| Property | Constants | What happens, and what the repository says |
|---|---|---|
| `SessionTurns!NoOrphanedPrompt` | `Turns` 2, `Prompts` 2, no note and no mail, `Ops` {"turn", "guardian", "goal"} | a cancelled task whose hook blocks one prompt hands the others back, in its grace, to the turn that is installed by then (`prepend_pending_input`): a goal reservation, which is abandoned with them (`session/mod.rs:2968`: "Inject additional user input into the currently active turn. Returns the active turn id when accepted.") |
| the same | `Turns` 3, `Prompts` 2, triggering mail m1, `Ops` {"turn", "compact"} | of two starts that overlap, the second takes the prompt steered into the task of the first (`get_pending_input`) and pushes it back into that turn state after the first task has finished and before its turn is cleared; the second task runs in another one |
| `SessionTurns!TriggerMailRecorded` | `FairSpec`, the constants of `SessionMail.cfg` | a finishing task reserves a turn for the mail and collects it; a user input replaces the reservation, which has no task and is not cleared; the first task is spawned into another turn state and the mail stays in the old one (`tasks/mod.rs:433`: "Starts a regular turn when the session is idle and pending work is waiting.") |
| `SessionTurns!InjectedNoteKept` | `Turns` 3, `Prompts` {p1}, `Notes` {n1}, no mail, `Ops` {"turn", "aux"} | an item injected between the removal of the last task and the clearing of the turn is accepted and lost (`session/mod.rs:3033`: "Returns the input if there was no task running to inject into.") |
| `SessionTurns!NoLostWakeup` | `Turns` 3, `Prompts` {p1}, triggering mail m1, `Ops` {"turn", "interrupt"} | an interrupt takes the emptied turn of a finishing task; neither looks for pending work (`tasks/mod.rs:433`: "Starts a regular turn when the session is idle and pending work is waiting.") |
| the same | `Turns` 3, no prompt, triggering mail m1, `Ops` {"goal"} | mail is turned away by a goal reservation that is then abandoned (`goals.rs:1219`) |
| `SessionTurns!OneTerminalEvent` | `Turns` 3, `Prompts` {p1}, `Ops` {"turn", "interrupt"} | a task past its cancellation check completes a turn that is also aborted (`app-server/README.md:1208`: each turn "ends with `turn/completed`") |
| `RolloutWriter!ConfirmedIsReadable` | 1 caller, `Capacity` 2, `MaxItems` 2, `MaxBatch` 1, `Faults` {"fail", "tear"} | a retry appends the whole line to the fragment of the failed write; the flush answers Ok, the reader skips the joined line (`recorder.rs:1418`: the unwritten suffix is kept "so the next barrier can reopen the file and retry") |
| `MemoryJobs!OneInDirectory` | 1 thread, 1 extractor, 2 consolidators, `Lease`, `RetryDelay`, `Cooldown` 2, `Retries` 1, `ScanTime` 1, `Delay` 0, `MaxTime` 3, `MaxTokens` 4, `MaxResets` 0 | a failed heartbeat fails the job before its agent is shut down; a stage-1 success clears the back-off and another run enters the directory (`memories/README.md:85`: "only one consolidation inspects or mutates the workspace at a time") |
| `MemoryJobs!ResetForgetsFiles` | the same with 1 consolidator, `MaxResets` 1 | a consolidation writes the inputs it selected before `memory/reset` into the cleared directory (`app-server/README.md:155`) |
| `ConnectionProcesses!ReusableAfterExit` | 1 connection, 1 handle, `MaxRequests` 3 | the exit is announced before the handle is released, and a spawn sent in answer is refused (`app-server/README.md:1083`: "the same handle can be reused after the prior process exits") |
| `ThreadListeners!ResumesAnswered` | `FairSpec`, 2 connections, `MaxCalls` 3, `MaxMade` 3, `Allowed` {"unsubscribe"} | a resume queued to a listener that has claimed the unload is dropped with its channel (`thread_lifecycle.rs:500`) |
| `ThreadListeners!ResumedIsSubscribed` | the same with `Spec` | the pending unload is looked at once; a thread loaded again behind it is reported as resumed although its listener was refused (`thread_processor.rs:2417`) |
| `ThreadListeners!ClaimedUnsubscribed` | `Spec`, the same with `Allowed` {"timeout"} | a listener started on a removed entry watches a value nobody updates and claims an unload under a subscriber (`app-server/README.md:163`: "only after it has had no subscribers") |
| `AgentSlots!AllNicknamesUnique` | 2 flows, threads t1 and t2, `Stored` {t2}, no path, 1 name, `Limit` 2, `MaxResets` 1, `Allowed` {"resume"} | a spawn draws a name from the pool of a new process, then an agent stored with that name is resumed and takes it unchecked (`state/src/model/thread_metadata.rs:74`: "Optional random unique nickname") |
| `AgentSlots!SlotsHaveAgents` | 1 flow, 1 thread, `Stored` {}, `Limit` 1, `Allowed` {"close", "unload"} | an unload by the app server does not release the slot, and `close_agent` refuses the thread afterwards (`config/mod.rs:614`: "open concurrently") |
| the same | 2 flows, 1 thread, which is stored, 1 name, `Limit` 2, `MaxResets` 1, `Allowed` {"resume"} | two calls resume one agent; the second finds it running (`thread_manager.rs:1170`) and commits its own slot for it |
| `AgentSlots!OpenWithinLimit` | 2 flows, 2 threads, `Stored` {}, `Limit` 1, `Allowed` {"close", "resume"} | a resume between the remove of one shutdown and the release of another loses the entry and the slot of an agent that is open (`config_toml.rs:639`) |

## Proofs

Every theorem holds for all values of the constants that satisfy the modules' named
assumptions, which TLC evaluates in the runs.

**Sessions** (`SessionTurnsProofs`, `SessionDeliveryProofs`).
* `TypeCorrect`: `Spec => []TypeOK` (the types, and that code about to lock a turn state
  has one), and `TasksLive`: `Spec => []TasksAreLive`.
  `TasksAreLive` alone is not inductive: that a cancelled task never reaches `clear`
  rests on what an abort has drained but not yet cancelled. `TasksInv` adds
  `Condemned` (cancelled, or still to be aborted): a condemned task is in no
  `ActiveTurn`, runs or is past `RemoveTask` with no turn state in its hands. The two
  and the types (`Types`) are proved together, because the turn state a finishing task
  reads exists only by `TasksInv`: a task that an abort drained between its check of the
  token and its `RemoveTask` does not find itself, and takes nothing.
* `AbortsClearTaken`: `Spec => []AbortClearsTaken`. `AbortInv` adds that a turn state
  that has not been created yet is neither installed nor taken, so a creation cannot
  produce one that an abort holds.
* `NeverDuplicated`: `Spec => []NoDuplicate`. `DeliveryInv` adds that items nobody sent
  are nowhere (so an accepted item is new to every buffer) and that a goal prompt is
  unsent until its turn pushes it.
* `Delivers`: `Spec => DeliverySpec`, the refinement of `InputDelivery`: no step takes
  back what was accepted, recorded or dropped, and only accepted items are dropped.
* `PromptsKeepReaders`: `Spec => PromptKeepsReader`. What an abort overwrites could be
  the memory of a turn state it has still to clear; `LoopInv` excludes it: the loop
  starts one turn at a time and none while it aborts, except the one it replaces tasks
  for. (The stronger `NoOrphanedPrompt` is false, see the table above: it speaks of
  prompts that a task has taken out and put back as well.)
* `OneTask` and `LateMail`: while only the loop starts turns (`OnlyLoopStarts`: no
  triggering mail, no goals, no items queued for the next turn), `AtMostOneTask` and
  `LateMailWaits` hold. `OneTaskInv`: from the replacement of the old tasks to the
  spawn of the new one there is none, and a task between its two locks of
  `get_pending_input` finds the delivery phase as it left it, because closing the turn
  takes a second task. `session_two_tasks` shows that the assumption is needed; the
  constants of `session_aborts` satisfy it.

**Recorder** (`RolloutWriterProofs`): `RolloutTypes`, `FileInOrder` (`FileIsPrefix`),
`BarriersHold` (`ConfirmedIsStored`) and `ImplementsLog` (the refinement of
`DurableLog`), from one invariant. That the file is in order is not inductive: a retry
is right only because the pending items continue the file, where `written` of them are
already in it. `RolloutInv` lines up the whole pipeline: pending items start after
`Base = Stored - written`, each queued command starts where the one before it ends
(`ChanInv`), and the last of them ends at `recorded` (`CountInv`). `StageInv` says what
each stage has established; it gives `cmd.upto = Stored` when the writer confirms.

**Agents** (`AgentSlotsProofs`), resumes included:
* `AgentTypes` (the unsigned counter stays in `0..Limit`) and `SlotsAreCovered`, from
  `SlotInv`. Every step of a call does one of five things to the slots (keeps, takes,
  registers, releases, gives back: `SlotShapes`), and `SlotNumbers` turns these into
  arithmetic on cardinalities. The counter cannot wrap because whoever gives a slot
  back is counted as holding one. A resume that finds its thread running registers it
  again over the same entry: the slots then exceed the entries, never the reverse.
* `PathsAreExclusive`, from `PathInv`: a call with a path is between reservation and
  commit, and the placeholder under that path is its own.
* `NicknamesAreUnique`, from `NameInv`, for the agents this registry has named (`Ours`,
  all but the stored ones): a name of theirs is with one thread, or with the calls
  that make or resume that thread; a name with the current suffix is marked as used,
  older suffixes are never drawn again. Stored agents may have any name, come back with
  it and draw a new one; that marks names as used and never frees one.

and while nothing is resumed (`NoResume`): `SlotsAreExact`, `OpenAreRegistered` and
`LimitHolds` (at most `agent_max_threads` open agents). `OnceInv` says that a thread
is created once, registered once and never returns to the manager, so a commit always
adds an entry and a release only removes that of a thread that has left; open agents
then inject into the registered ones and the calls about to register. The assumption
is needed: with resumes the limit does not hold (see the table above).

**Memory jobs** (`MemoryJobsProofs`).
* `CapHolds` (`RunningCap`), `WorkNotDuplicated` (`NoDuplicateWork`) and `ResetForgets`
  (`ResetForgetsOutputs`), from `StageInv`: no row, selection or claim is about a
  version its thread does not have yet (`RowInv`, `OutInv`, `PickInv`), and the
  ownership tokens tell which claim has a row: a claim of after the last reset whose
  lease lasts has it, and an answer of before the reset carries a token no row has
  (`ClaimInv`, `TokensUnique`).
* `RetriesHold` (`RetriesBounded`), from `FailInv`, if `ScansInTime`: nobody is
  suspended, and a selected job is tried before a back-off or a lease that began after
  its selection can end (`StaleInv`). Otherwise a selection from before the thread was
  updated could claim the job for the older version, after which the newer one counts as
  new and has all its retries again.
* `MemoryTypes`, `OutputsAreEnqueued` (`OutputsEnqueued`) and `CooldownHolds`
  (`CooldownKept`, an action property), from `GlobInv`: consolidators are told apart by
  their tokens, an absent row has nothing enqueued, and the finishing time of the row is
  the last success that happened.
* `DirectoryLocked` (`OneRunInDirectory`) and `SelectionCommitted`
  (`SelectedInBaseline`), from `DirectoryInv`, if `LeasesKept`: nobody is suspended,
  clocks differ by less than a lease, and nobody resets. The lock of the directory is
  the lease of the row; each of the three assumptions is a way to lose it.
  The constants of `memory_extract` satisfy `ScansInTime`, those of
  `memory_consolidate` satisfy `LeasesKept`.

**Processes** (`ConnectionProcessesProofs`): `ProcessTypes`, `RequestsInOrder`
(`OneAtATime`), `RunningReachable` (`RunningIsReachable`) and `ClosedIsEmpty`
(`ClosedLeavesNothing`), from `ProcessInv`. Its front half follows a request from the
wire to its handler: requests leave wire and queue in the order they were sent
(`OrderInv`), a queue holds exactly the queued requests of its key and its drain task
runs at most one of them (`QueueInv`), and a handler runs only while its connection is
known or the loop waits for it (`GateInv`). The back half is about processes: whoever a
task will answer waits for it, once (`AwaitInv`), and a spawn under way and a task until
its end hold their handle (`SessionInv`). `ClosedLeavesNothing` needs both: after the
loop has waited for the gate nobody can register a process, so the ones it kills are
all there are.

**Threads** (`ThreadListenersProofs`): `ThreadTypes`, `SubscribersLive`
(`SubscribersAreLive`) and `RunningRegistered` (`RunningIsRegistered`), from
`ThreadInv`. A listener checks the generation of its entry before it acts, which helps
only if no other listener has that generation: `GenerationInv` gives each listener a
generation of its entry to itself. `RegisteredInv` extends `RunningIsRegistered` to a
listener about to claim an unload, which may go back to its loop. That a running listener
is cancelled only with cause is `CauseInv`, proved on top of it: entries that have left
the map never come back, and everybody about to clear the state of an entry has removed
that entry, or is the listener whose generation the state has.

**Only model-checked**: liveness (`TriggerMailSettles`, `PromptSettles`,
`CallersAnswered`, `RequestsAnswered`, `ClosedTerminates`, `UnloadsEnd`), since the
prover handles neither fairness nor `ENABLED`. Every invariant and every action property
of the passing runs is a theorem.

## Not modelled

* Of the modelled parts: shutdown of a session, tool calls and approvals inside a
  sampling request, the order inside input buffers, the text of items, token
  accounting, review and compaction beyond one step; listing and searching of
  rollouts; ranking of memories and their text; agent jobs and the backfill of the
  state database; forked histories and completion watchers of agents; resize and
  close-stdin of processes, requests to the client and the other request processors.
* Planned: unified exec, remote control, exec server sessions, token refresh,
  approvals, normalisation of the history (see below).
* Not planned: the terminal interface (most of the workspace's lines: rendering and
  key handling), protocol types and schemas, sandbox system calls, policy parsing,
  patch application, MCP and model protocols. They are sequential, or their state is
  on the other side of an interface. The models therefore cover a small share of the
  repository's lines, and the concurrent core of it.

## Plan

1. *(done)* `SessionTurns`, `InputDelivery`, their runs and proofs.
2. *(done)* `RolloutWriter` implementing `DurableLog`, with proofs; `MemoryJobs`;
   `AgentSlots`, with proofs; `ConnectionProcesses`; `ThreadListeners`.
3. *(done)* Proofs of the safety properties of all runs.
4. `RemoteControl`: acknowledged, segmented delivery over reconnects, refining a FIFO
   channel; `ExecSessions`: resume against expiry of a detached session.
5. `UnifiedExec`: the process store at its limit; the head-tail buffer as operators
   checked against a reference definition.
6. `AuthRefresh`, `TurnApprovals`; `SessionTurns` composed with `RolloutWriter` (a
   flushed turn is durable before `TurnAborted` is sent).

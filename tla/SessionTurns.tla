---------------------------- MODULE SessionTurns ----------------------------
(***************************************************************************)
(* The turn lifecycle of one codex-core Session.                           *)
(*                                                                         *)
(* A Session owns one optional ActiveTurn (tasks plus an Arc<TurnState>),  *)
(* a queue of items for the next turn, and a mailbox of inter-agent mail.  *)
(* Its state is shared by the submission loop, the spawned task of every   *)
(* turn, the aborts a guardian review spawns, and callers outside the loop *)
(* (steering, injected items, external goal changes).  Every block of code *)
(* that runs under one lock is one action; everything between two locks is *)
(* a point where any other actor may run.                                  *)
(*                                                                         *)
(* Input items are distinct values, buffers are sets of them (an item's    *)
(* place is modelled, the order inside one buffer is not).  A TurnState is *)
(* named by the turn and the step whose ActiveTurn::default() created it.  *)
(***************************************************************************)
EXTENDS Naturals, FiniteSets

CONSTANTS Turns,        \* sub-ids a turn can be given
          Prompts,      \* user inputs, subject to the user-prompt-submit hook
          Notes,        \* response items injected without a hook
          Mails,        \* inter-agent communications
          TriggerMails, \* the mails with trigger_turn set
          Ops,          \* the operations the clients of this session use
          None          \* Option::None

OpNames == {"turn", "shell", "review", "compact", "interrupt", "guardian",
            "approve", "aux", "goal"}

\* The developer message of the goal continuation that was to run as turn t.
GoalPrompt(t) == <<"goal", t>>
GoalPrompts == {GoalPrompt(t) : t \in Turns}
Items == Prompts \cup Notes \cup Mails \cup GoalPrompts

TurnStates == Turns \X {"reserve", "install", "spawn"}
Loop == "loop"
Aborters == {Loop, "guardian"}

ASSUME ItemsAssumption ==
  /\ TriggerMails \subseteq Mails
  /\ Prompts \cap (Notes \cup Mails \cup GoalPrompts) = {}
  /\ Notes \cap (Mails \cup GoalPrompts) = {}
  /\ Mails \cap GoalPrompts = {}

ASSUME NamesAssumption ==
  /\ Ops \subseteq OpNames
  /\ Loop \notin Turns
  /\ None \notin Turns \cup TurnStates \cup Items \cup
                 {"loop", "guardian", "idle", "goal"}

VARIABLES
  active,     \* Session.active_turn: the TurnState of the ActiveTurn, or None
  tasks,      \* keys of ActiveTurn.tasks
  pending,    \* TurnState.pending_input
  phase,      \* TurnState.mailbox_delivery_phase
  idleQueue,  \* Session.idle_pending_input
  mailbox,    \* undelivered mail of the MailboxReceiver
  pc,         \* where the code that starts or runs a turn is
  task,       \* which SessionTask the turn runs
  caller,     \* who awaits the start of the turn
  input,      \* the `input` argument of start_task, until run_turn records it
  held,       \* items in local variables of a turn's code or of the loop
  ts,         \* a turn state Arc cloned by a turn's code
  cancelled,  \* turns whose CancellationToken is cancelled
  killed,     \* turns whose JoinHandle was aborted
  abort,      \* abort_all_tasks / abort_turn_if_active in progress
  goal,       \* status of the thread goal, as far as Active or not
  sent,       \* items the session has accepted
  history,    \* items recorded into the conversation
  dropped,    \* items given up: blocked by a hook, or lost to an abort
  completed,  \* turns for which TurnComplete was sent
  aborted     \* turns for which TurnAborted was sent

activeVars  == <<active, tasks>>
bufferVars  == <<pending, phase, idleQueue, mailbox>>
turnVars    == <<pc, task, caller, input, held, ts>>
abortVars   == <<cancelled, killed, abort>>
itemVars    == <<sent, history, dropped>>
eventVars   == <<completed, aborted>>
vars == <<activeVars, bufferVars, turnVars, abortVars, goal, itemVars, eventVars>>

(* Stages of a turn.  StartStages run in the caller of start_task,         *)
(* TaskStages in the tokio task it spawns.                                 *)
PendingWorkStages == {"checkQueue", "checkMail", "reserve"}
GoalStages  == {"candidate", "goalReserve", "recheck", "goalPush",
                "stillReserved", "clearReserved"}
CollectStages == {"collectQueue", "collectPending", "collectMail", "install",
                  "push", "spawn"}
StartStages == {"replace", "replacing"} \cup PendingWorkStages \cup GoalStages
                 \cup CollectStages
RunStages   == {"start", "entry", "drain", "drainMail", "inspect", "record",
                "sample", "loopCheck", "finish", "remove"}
FinishStages == {"take", "complete", "clear", "continue"}
TaskStages  == RunStages \cup FinishStages
Stages      == {"unused", "dead"} \cup StartStages \cup TaskStages

\* The locals of an abort: its tasks still to abort, the one being aborted,
\* and the turn state whose pending input it clears.
Aborts == [stage : {"idle", "tasks", "clear", "next"}, todo : SUBSET Turns,
           cur : Turns \cup {None}, ts : TurnStates \cup {None},
           reason : {"Interrupted", "Replaced"}]
NoAbort == [stage |-> "idle", todo |-> {}, cur |-> None, ts |-> None,
            reason |-> "Interrupted"]

Init ==
  /\ active = None /\ tasks = {}
  /\ pending = [s \in TurnStates |-> {}]
  /\ phase = [s \in TurnStates |-> "CurrentTurn"]
  /\ idleQueue = {} /\ mailbox = {}
  /\ pc = [t \in Turns |-> "unused"]
  /\ task = [t \in Turns |-> "turn"]
  /\ caller = [t \in Turns |-> None]
  /\ input = [t \in Turns |-> {}]
  /\ held = [p \in Turns \cup {Loop} |-> {}]
  /\ ts = [t \in Turns |-> None]
  /\ cancelled = {} /\ killed = {}
  /\ abort = [a \in Aborters |-> NoAbort]
  /\ goal = "Stopped"
  /\ sent = {} /\ history = {} /\ dropped = {}
  /\ completed = {} /\ aborted = {}

-----------------------------------------------------------------------------
(* Reads of the shared state.                                              *)

\* Variant with a fault: the delivery phase is ignored.
AcceptsMailboxAlways == TRUE

AcceptsMailbox == active # None => phase[active] = "CurrentTurn"

\* has_pending_input: two short reads, of the turn state and of the mailbox.
HasPendingInput ==
  IF active # None /\ pending[active] # {} THEN TRUE
  ELSE AcceptsMailbox /\ mailbox # {}

HasTriggerMail == mailbox \cap TriggerMails # {}

\* Review and Compact tasks are not steerable; a user shell task is Regular.
Steerable(t) == task[t] \in {"turn", "shell"}

GoalsEnabled == "goal" \in Ops

\* The submission loop handles one operation at a time, awaiting it.
Starting(who) == \E t \in Turns : caller[t] = who /\ pc[t] \in StartStages
AborterIdle(a) == abort[a].stage = "idle" /\ ~Starting(a)
LoopIdle == AborterIdle(Loop) /\ held[Loop] = {}

\* maybe_start_turn_for_pending_work called by `who`, under the fresh id t.
CallPendingWork(t, who) ==
  /\ pc[t] = "unused"
  /\ pc' = [pc EXCEPT ![t] = "checkQueue"]
  /\ caller' = [caller EXCEPT ![t] = who]

Goto(t, stage) == pc' = [pc EXCEPT ![t] = stage]

\* A step that only decides where the code of turn t goes on.
Jump(t, stage) ==
  /\ Goto(t, stage)
  /\ UNCHANGED <<activeVars, bufferVars, task, caller, input, held, ts,
                 abortVars, goal, itemVars, eventVars>>

-----------------------------------------------------------------------------
(* Operations of the clients.                                              *)

\* Variant with a fault: an ActiveTurn without tasks is steered too.
SteerAnyActive(p) ==
  /\ p \in Prompts \ sent
  /\ active # None
  /\ pending' = [pending EXCEPT ![active] = @ \cup {p}]
  /\ phase' = [phase EXCEPT ![active] = "CurrentTurn"]
  /\ sent' = sent \cup {p}
  /\ UNCHANGED <<activeVars, idleQueue, mailbox, turnVars, abortVars, goal,
                 history, dropped, eventVars>>

\* steer_input, from the loop's UserInput handler or from CodexThread: the
\* checks and the push happen under the active-turn lock.  A failure other
\* than NoActiveTurn in the handler only reports an error.
SteerInput(p) ==
  /\ p \in Prompts \ sent
  /\ active # None
  /\ \E t \in tasks : Steerable(t)
  /\ pending' = [pending EXCEPT ![active] = @ \cup {p}]
  /\ phase' = [phase EXCEPT ![active] = "CurrentTurn"]
  /\ sent' = sent \cup {p}
  /\ UNCHANGED <<activeVars, idleQueue, mailbox, turnVars, abortVars, goal,
                 history, dropped, eventVars>>

\* The loop hands turn t to spawn_task with the given task and input.
Submit(t, kind, items) ==
  /\ LoopIdle
  /\ pc[t] = "unused"
  /\ Goto(t, "replace")
  /\ task' = [task EXCEPT ![t] = kind]
  /\ caller' = [caller EXCEPT ![t] = Loop]
  /\ input' = [input EXCEPT ![t] = items]
  /\ sent' = sent \cup items
  /\ UNCHANGED <<activeVars, bufferVars, held, ts, abortVars, goal, history,
                 dropped, eventVars>>

\* UserInput when steer_input answers NoActiveTurn; the lock is released
\* (and the MCP servers refreshed) before spawn_task runs.
UserInput(t, p) ==
  /\ "turn" \in Ops
  /\ p \in Prompts \ sent
  /\ tasks = {}
  /\ Submit(t, "turn", {p})

\* Compact, Review, and RunUserShellCommand without a running task.
StandaloneTask(t, kind) ==
  /\ kind \in Ops
  /\ kind = "shell" => tasks = {}
  /\ Submit(t, kind, {})

\* InterAgentCommunication.  Mail that asks for a turn is enqueued, then the
\* handler looks for pending work under the submission's id.
Enqueue(m) ==
  /\ LoopIdle
  /\ m \in Mails \ sent
  /\ mailbox' = mailbox \cup {m}
  /\ sent' = sent \cup {m}
  /\ UNCHANGED <<activeVars, pending, phase, idleQueue, task, input, held, ts,
                 abortVars, goal, history, dropped, eventVars>>

SendMail(m) == m \notin TriggerMails /\ Enqueue(m) /\ UNCHANGED <<pc, caller>>

SendTriggerMail(t, m) ==
  m \in TriggerMails /\ Enqueue(m) /\ CallPendingWork(t, Loop)

\* inject_response_items into whatever ActiveTurn is installed.
InjectInto(n) ==
  /\ active # None
  /\ pending' = [pending EXCEPT ![active] = @ \cup {n}]
  /\ UNCHANGED <<held, history>>

\* approve_guardian_denied_action: inject, else keep the item for QueueNote.
ApproveDenied(n) ==
  /\ "approve" \in Ops /\ LoopIdle
  /\ n \in Notes \ sent
  /\ sent' = sent \cup {n}
  /\ \/ InjectInto(n)
     \/ /\ active = None
        /\ held' = [held EXCEPT ![Loop] = {n}]
        /\ UNCHANGED <<pending, history>>
  /\ UNCHANGED <<activeVars, phase, idleQueue, mailbox, pc, task, caller,
                 input, ts, abortVars, goal, dropped, eventVars>>

\* queue_response_items_for_next_turn, after the failed injection.
QueueNote ==
  /\ held[Loop] # {}
  /\ idleQueue' = idleQueue \cup held[Loop]
  /\ held' = [held EXCEPT ![Loop] = {}]
  /\ UNCHANGED <<activeVars, pending, phase, mailbox, pc, task, caller, input,
                 ts, abortVars, goal, itemVars, eventVars>>

\* The output of a user shell command that was started beside a task and may
\* outlive it: injected, else recorded.
AuxShellOutput(n) ==
  /\ "aux" \in Ops
  /\ \E t \in Turns : pc[t] \in TaskStages \/ t \in completed \cup cancelled
  /\ n \in Notes \ sent
  /\ sent' = sent \cup {n}
  /\ \/ InjectInto(n)
     \/ /\ active = None
        /\ history' = history \cup {n}
        /\ UNCHANGED <<pending, held>>
  /\ UNCHANGED <<activeVars, phase, idleQueue, mailbox, pc, task, caller,
                 input, ts, abortVars, goal, dropped, eventVars>>

\* An external goal set: the goal becomes Active and the session continues
\* it if idle.
SetGoal(t) ==
  /\ GoalsEnabled
  /\ goal' = "Active"
  /\ CallPendingWork(t, "idle")
  /\ UNCHANGED <<activeVars, bufferVars, task, input, held, ts, abortVars,
                 itemVars, eventVars>>

\* The goal is paused, completed or cleared.
StopGoal ==
  /\ goal = "Active"
  /\ goal' = "Stopped"
  /\ UNCHANGED <<activeVars, bufferVars, turnVars, abortVars, itemVars, eventVars>>

-----------------------------------------------------------------------------
(* What no step of starting a turn touches.                               *)
StartFrame == UNCHANGED <<phase, task, input, abortVars, goal, history,
                          dropped, eventVars>>

-----------------------------------------------------------------------------
(* maybe_start_turn_for_pending_work, run by caller[t] under the id t.     *)

\* The attempt is over: an id that was never installed is free again, and
\* maybe_continue_goal_if_idle_runtime goes on to the goal.
GiveUp(t) ==
  IF caller[t] = "idle" /\ GoalsEnabled
    THEN /\ Goto(t, "candidate")
         /\ caller' = [caller EXCEPT ![t] = "goal"]
    ELSE /\ Goto(t, "unused")
         /\ caller' = [caller EXCEPT ![t] = None]

CheckQueue(t) ==
  /\ pc[t] = "checkQueue"
  /\ Jump(t, IF idleQueue # {} THEN "reserve" ELSE "checkMail")

CheckMail(t) ==
  /\ pc[t] = "checkMail"
  /\ IF HasTriggerMail THEN Goto(t, "reserve") /\ UNCHANGED caller ELSE GiveUp(t)
  /\ UNCHANGED <<activeVars, pending, idleQueue, mailbox, held, ts, sent>>
  /\ StartFrame

\* The reservation installs an ActiveTurn without tasks.
Reserve(t) ==
  /\ pc[t] = "reserve"
  /\ IF active = None
       THEN /\ active' = <<t, "reserve">>
            /\ Goto(t, "collectQueue")
            /\ UNCHANGED caller
       ELSE GiveUp(t) /\ UNCHANGED active
  /\ UNCHANGED <<tasks, pending, idleQueue, mailbox, held, ts, sent>>
  /\ StartFrame

-----------------------------------------------------------------------------
(* maybe_start_goal_continuation_turn.                                     *)

\* GoalRuntimeState.continuation_lock: one continuation at a time.
ContinuationLockFree(t) ==
  \A u \in Turns \ {t} :
    ~(caller[u] = "goal" /\ pc[u] \in StartStages \ {"candidate"})

\* goal_continuation_candidate_if_active, judged by its last round of reads.
GoalCandidate(t) ==
  /\ pc[t] = "candidate"
  /\ ContinuationLockFree(t)
  /\ IF goal = "Active" /\ active = None /\ idleQueue = {} /\ ~HasTriggerMail
       THEN Goto(t, "goalReserve") /\ UNCHANGED caller
       ELSE GiveUp(t)
  /\ UNCHANGED <<activeVars, pending, idleQueue, mailbox, held, ts, sent>>
  /\ StartFrame

GoalReserve(t) ==
  /\ pc[t] = "goalReserve"
  /\ IF active = None
       THEN /\ active' = <<t, "reserve">>
            /\ ts' = [ts EXCEPT ![t] = <<t, "reserve">>]
            /\ Goto(t, "recheck")
            /\ UNCHANGED caller
       ELSE GiveUp(t) /\ UNCHANGED <<active, ts>>
  /\ UNCHANGED <<tasks, pending, idleQueue, mailbox, held, sent>>
  /\ StartFrame

\* The goal is read again from the state db; the read itself may fail.
GoalRecheck(t) ==
  /\ pc[t] = "recheck"
  /\ \/ goal = "Active" /\ Goto(t, "goalPush")
     \/ Goto(t, "clearReserved")
  /\ UNCHANGED <<activeVars, pending, idleQueue, mailbox, caller, held, ts,
                 sent>>
  /\ StartFrame

GoalPush(t) ==
  /\ pc[t] = "goalPush"
  /\ pending' = [pending EXCEPT ![ts[t]] = @ \cup {GoalPrompt(t)}]
  /\ sent' = sent \cup {GoalPrompt(t)}
  /\ Goto(t, "stillReserved")
  /\ UNCHANGED <<activeVars, idleQueue, mailbox, caller, held, ts>>
  /\ StartFrame

Reserved(t) == active = ts[t] /\ tasks = {}

GoalStillReserved(t) ==
  /\ pc[t] = "stillReserved"
  /\ Jump(t, IF Reserved(t) THEN "collectQueue" ELSE "clearReserved")

\* clear_reserved_goal_continuation_turn; the attempt ends here.
GoalClearReserved(t) ==
  /\ pc[t] = "clearReserved"
  /\ active' = IF Reserved(t) THEN None ELSE active
  /\ Goto(t, "dead")
  /\ caller' = [caller EXCEPT ![t] = None]
  /\ ts' = [ts EXCEPT ![t] = None]
  /\ UNCHANGED <<tasks, pending, idleQueue, mailbox, held, sent>>
  /\ StartFrame

\* maybe_continue_goal_if_idle_runtime after it has started turn u: the goal
\* is still looked at.
GoalAfterStart(u, t) ==
  /\ caller[u] = "idle" /\ pc[u] \notin StartStages
  /\ pc[t] = "unused"
  /\ Goto(t, "candidate")
  /\ caller' = [caller EXCEPT ![u] = None, ![t] = "goal"]
  /\ UNCHANGED <<activeVars, pending, idleQueue, mailbox, held, ts, sent>>
  /\ StartFrame

-----------------------------------------------------------------------------
(* start_task.                                                             *)

\* take_queued_response_items_for_next_turn.
CollectQueue(t) ==
  /\ pc[t] = "collectQueue"
  /\ held' = [held EXCEPT ![t] = @ \cup idleQueue]
  /\ idleQueue' = {}
  /\ Goto(t, "collectPending")
  /\ UNCHANGED <<activeVars, pending, mailbox, caller, ts, sent>>
  /\ StartFrame

\* Variants with a fault: the items are copied, not moved.
TakePendingCopies(t) ==
  IF active = None THEN UNCHANGED <<pending, held>>
  ELSE held' = [held EXCEPT ![t] = @ \cup pending[active]] /\ UNCHANGED pending

DrainMailboxCopies(t) ==
  held' = [held EXCEPT ![t] = @ \cup mailbox] /\ UNCHANGED mailbox

\* get_pending_input, first lock: take the installed turn state's input.
TakePending(t) ==
  IF active = None THEN UNCHANGED <<pending, held>>
  ELSE /\ held' = [held EXCEPT ![t] = @ \cup pending[active]]
       /\ pending' = [pending EXCEPT ![active] = {}]

\* get_pending_input, second lock: drain the mailbox.
DrainMailbox(t) ==
  /\ held' = [held EXCEPT ![t] = @ \cup mailbox]
  /\ mailbox' = {}

CollectPending(t) ==
  /\ pc[t] = "collectPending"
  /\ TakePending(t)
  /\ Goto(t, IF AcceptsMailbox THEN "collectMail" ELSE "install")
  /\ UNCHANGED <<activeVars, idleQueue, mailbox, caller, ts, sent>>
  /\ StartFrame

CollectMail(t) ==
  /\ pc[t] = "collectMail"
  /\ DrainMailbox(t)
  /\ Goto(t, "install")
  /\ UNCHANGED <<activeVars, pending, idleQueue, caller, ts, sent>>
  /\ StartFrame

\* First lock of the active turn: install one if there is none, keep its Arc.
Install(t) ==
  /\ pc[t] = "install"
  /\ active' = IF active = None THEN <<t, "install">> ELSE active
  /\ ts' = [ts EXCEPT ![t] = active']
  /\ Goto(t, "push")
  /\ UNCHANGED <<tasks, pending, idleQueue, mailbox, caller, held, sent>>
  /\ StartFrame

\* The collected items go to the turn state captured by Install.
PushCollected(t) ==
  /\ pc[t] = "push"
  /\ pending' = [pending EXCEPT ![ts[t]] = @ \cup held[t]]
  /\ held' = [held EXCEPT ![t] = {}]
  /\ ts' = [ts EXCEPT ![t] = None]
  /\ Goto(t, "spawn")
  /\ UNCHANGED <<activeVars, idleQueue, mailbox, caller, sent>>
  /\ StartFrame

\* Second lock: whatever ActiveTurn is installed now receives the new task.
SpawnTask(t) ==
  /\ pc[t] = "spawn"
  /\ active' = IF active = None THEN <<t, "spawn">> ELSE active
  /\ tasks' = tasks \cup {t}
  /\ Goto(t, "start")
  /\ caller' = [caller EXCEPT ![t] = IF @ = "idle" /\ GoalsEnabled THEN @ ELSE None]
  /\ UNCHANGED <<pending, idleQueue, mailbox, held, ts, sent>>
  /\ StartFrame

-----------------------------------------------------------------------------
(* The spawned task: RegularTask::run and run_turn.                        *)

\* What a task's step never touches.
TaskFrame == UNCHANGED <<active, idleQueue, task, caller, abortVars, goal,
                         sent, aborted>>

\* The wait for the startup prewarm ends with the cancellation of the task:
\* RegularTask::run returns before its first run_turn.
PrewarmCancelled(t) ==
  /\ pc[t] = "start" /\ task[t] = "turn" /\ t \in cancelled
  /\ dropped' = dropped \cup input[t]
  /\ input' = [input EXCEPT ![t] = {}]
  /\ Goto(t, "finish")
  /\ UNCHANGED <<tasks, pending, phase, mailbox, held, ts, history, completed>>
  /\ TaskFrame

\* run_turn is entered for the first time, or again with no input.
Entering(t) == pc[t] \in {"start", "entry"} /\ task[t] = "turn"

\* run_turn with nothing to do returns at once.
RunTurnNothing(t) ==
  /\ Entering(t)
  /\ input[t] = {} /\ ~HasPendingInput
  /\ Jump(t, "loopCheck")

\* run_turn gives up before its loop: pre-sampling compaction failed, or a
\* hook stopped the prompt.  The prompt is not recorded.
RunTurnRefused(t) ==
  /\ Entering(t)
  /\ input[t] = {} => HasPendingInput
  /\ dropped' = dropped \cup input[t]
  /\ input' = [input EXCEPT ![t] = {}]
  /\ Goto(t, "loopCheck")
  /\ UNCHANGED <<tasks, pending, phase, mailbox, held, ts, history, completed>>
  /\ TaskFrame

\* run_turn records the prompt and enters its loop; pending input waits until
\* the fresh prompt has been sampled.
RunTurnBegins(t) ==
  /\ Entering(t)
  /\ input[t] = {} => HasPendingInput
  /\ history' = history \cup input[t]
  /\ input' = [input EXCEPT ![t] = {}]
  /\ Goto(t, IF input[t] = {} THEN "drain" ELSE "sample")
  /\ UNCHANGED <<tasks, pending, phase, mailbox, held, ts, dropped, completed>>
  /\ TaskFrame

\* A compact, review or user shell task does its work and returns.
RunStandalone(t) ==
  /\ pc[t] = "start" /\ task[t] # "turn"
  /\ Jump(t, "finish")

\* A pending session-start hook stops the turn before it drains anything.
SessionStartStops(t) ==
  /\ pc[t] = "drain"
  /\ Jump(t, "loopCheck")

DrainPending(t) ==
  /\ pc[t] = "drain"
  /\ TakePending(t)
  /\ Goto(t, IF AcceptsMailbox THEN "drainMail" ELSE "inspect")
  /\ UNCHANGED <<tasks, phase, mailbox, input, ts, history, dropped,
                 completed>>
  /\ TaskFrame

DrainMail(t) ==
  /\ pc[t] = "drainMail"
  /\ DrainMailbox(t)
  /\ Goto(t, "inspect")
  /\ UNCHANGED <<tasks, pending, phase, input, ts, history, dropped,
                 completed>>
  /\ TaskFrame

\* Every drained item passes inspect_pending_input.
InspectAccepts(t) ==
  /\ pc[t] = "inspect"
  /\ Jump(t, "record")

\* The hook blocks prompt b after the items in ok: what is left goes back to
\* the installed turn (prepend_pending_input), or is lost if there is none.
InspectBlocks(t, b, ok) ==
  LET rest == held[t] \ (ok \cup {b}) IN
  /\ pc[t] = "inspect"
  /\ b \in held[t] \cap Prompts
  /\ ok \subseteq held[t] \ {b}
  /\ IF active = None
       THEN dropped' = dropped \cup {b} \cup rest /\ UNCHANGED pending
       ELSE /\ dropped' = dropped \cup {b}
            /\ pending' = [pending EXCEPT ![active] = @ \cup rest]
  /\ held' = [held EXCEPT ![t] = ok]
  /\ Goto(t, IF ok # {} THEN "record" ELSE IF rest # {} THEN "drain" ELSE "loopCheck")
  /\ UNCHANGED <<tasks, phase, mailbox, input, ts, history, completed>>
  /\ TaskFrame

RecordPending(t) ==
  /\ pc[t] = "record"
  /\ history' = history \cup held[t]
  /\ held' = [held EXCEPT ![t] = {}]
  /\ Goto(t, "sample")
  /\ UNCHANGED <<tasks, pending, phase, mailbox, input, ts, dropped,
                 completed>>
  /\ TaskFrame

\* While the model answers: a final message closes the turn to mail (unless
\* input is already waiting), a tool call reopens it.
DeferMailbox(t) ==
  /\ pc[t] = "sample" /\ t \in tasks
  /\ pending[active] = {}
  /\ phase' = [phase EXCEPT ![active] = "NextTurn"]
  /\ UNCHANGED <<tasks, pending, mailbox, pc, input, held, ts, history,
                 dropped, completed>>
  /\ TaskFrame

AcceptMailbox(t) ==
  /\ pc[t] = "sample" /\ t \in tasks
  /\ phase' = [phase EXCEPT ![active] = "CurrentTurn"]
  /\ UNCHANGED <<tasks, pending, mailbox, pc, input, held, ts, history,
                 dropped, completed>>
  /\ TaskFrame

\* The sampling request ends and run_turn either goes round again (the model
\* has follow-up work, input is pending, or the stop hook asks for more) or
\* leaves its loop (final answer, error, cancellation, failed compaction).
Sample(t, outcome) ==
  /\ pc[t] = "sample"
  /\ outcome \in {"drain", "loopCheck"}
  /\ Jump(t, outcome)

\* RegularTask::run repeats run_turn while input is pending.
LoopCheck(t) ==
  /\ pc[t] = "loopCheck"
  /\ Jump(t, IF HasPendingInput THEN "entry" ELSE "finish")

-----------------------------------------------------------------------------
(* The end of the spawned task, and on_task_finished.                      *)

\* A cancelled task skips on_task_finished.
FinishCheck(t) ==
  /\ pc[t] = "finish"
  /\ Jump(t, IF t \in cancelled THEN "dead" ELSE "remove")

\* Variant with a fault: on_task_finished takes for granted that its turn is
\* still installed, and unwraps the turn state even if an abort has taken it.
RemoveTaskUnchecked(t) ==
  /\ pc[t] = "remove"
  /\ tasks' = tasks \ {t}
  /\ IF tasks \subseteq {t}
       THEN Goto(t, "take") /\ ts' = [ts EXCEPT ![t] = active]
       ELSE Goto(t, "complete") /\ UNCHANGED ts
  /\ UNCHANGED <<pending, phase, mailbox, input, held, history, dropped,
                 completed>>
  /\ TaskFrame

\* remove_task; the last task out keeps the turn state to take its input.
\* A task an abort has already drained finds nothing and goes on.
RemoveTask(t) ==
  /\ pc[t] = "remove"
  /\ tasks' = tasks \ {t}
  /\ IF tasks = {t}
       THEN Goto(t, "take") /\ ts' = [ts EXCEPT ![t] = active]
       ELSE Goto(t, "complete") /\ UNCHANGED ts
  /\ UNCHANGED <<pending, phase, mailbox, input, held, history, dropped,
                 completed>>
  /\ TaskFrame

TakeLeftover(t) ==
  /\ pc[t] = "take"
  /\ held' = [held EXCEPT ![t] = pending[ts[t]]]
  /\ pending' = [pending EXCEPT ![ts[t]] = {}]
  /\ Goto(t, "complete")
  /\ UNCHANGED <<tasks, phase, mailbox, input, ts, history, dropped,
                 completed>>
  /\ TaskFrame

\* Variant with a fault: the leftover input is taken but not recorded.
CompleteOnly(t, blocked) ==
  /\ pc[t] = "complete"
  /\ blocked \subseteq held[t] \cap Prompts
  /\ completed' = completed \cup {t}
  /\ Goto(t, IF ts[t] = None THEN "dead" ELSE "clear")
  /\ UNCHANGED <<tasks, pending, phase, mailbox, input, held, ts, history, dropped>>
  /\ TaskFrame

\* The leftover input is recorded (the hook may block prompts), then
\* TurnComplete is sent.
Complete(t, blocked) ==
  /\ pc[t] = "complete"
  /\ blocked \subseteq held[t] \cap Prompts
  /\ history' = history \cup (held[t] \ blocked)
  /\ dropped' = dropped \cup blocked
  /\ held' = [held EXCEPT ![t] = {}]
  /\ completed' = completed \cup {t}
  /\ Goto(t, IF ts[t] = None THEN "dead" ELSE "clear")
  /\ UNCHANGED <<tasks, pending, phase, mailbox, input, ts>>
  /\ TaskFrame

\* The ActiveTurn is removed only if it is still this turn's and still empty.
ClearActive(t) ==
  /\ pc[t] = "clear"
  /\ IF Reserved(t)
       THEN active' = None /\ Goto(t, "continue")
       ELSE Goto(t, "dead") /\ UNCHANGED active
  /\ ts' = [ts EXCEPT ![t] = None]
  /\ UNCHANGED <<tasks, bufferVars, task, caller, input, held, abortVars, goal,
                 itemVars, eventVars>>

\* Variant with a fault: nobody looks for pending work when a turn ends.
StayIdle(t, u) ==
  /\ pc[t] = "continue" /\ pc[u] = "unused"
  /\ Jump(t, "dead")

\* GoalRuntimeEvent::MaybeContinueIfIdle: pending work first, under id u.
ContinueIfIdle(t, u) ==
  /\ pc[t] = "continue" /\ pc[u] = "unused"
  /\ pc' = [pc EXCEPT ![t] = "dead", ![u] = "checkQueue"]
  /\ caller' = [caller EXCEPT ![u] = "idle"]
  /\ UNCHANGED <<activeVars, bufferVars, task, input, held, ts, abortVars,
                 goal, itemVars, eventVars>>

\* JoinHandle::abort takes effect when the task next yields; its locals go.
Killed(t) ==
  /\ t \in killed /\ pc[t] \in TaskStages
  /\ dropped' = dropped \cup held[t] \cup input[t]
  /\ held' = [held EXCEPT ![t] = {}]
  /\ input' = [input EXCEPT ![t] = {}]
  /\ Goto(t, "dead")
  /\ UNCHANGED <<tasks, pending, phase, mailbox, ts, history, completed>>
  /\ TaskFrame

-----------------------------------------------------------------------------
(* abort_all_tasks (in the loop) and abort_turn_if_active (guardian).      *)

\* The abort of what is installed now.  Only a turn that had tasks has its
\* pending input cleared at the end.
AbortOf(reason) ==
  [stage |-> "tasks", todo |-> tasks, cur |-> None,
   ts |-> IF tasks = {} THEN None ELSE active, reason |-> reason]

\* Variants with a fault: the ActiveTurn stays installed, with or without
\* its tasks.
PeekActive(a, reason) ==
  /\ abort' = [abort EXCEPT ![a] = AbortOf(reason)]
  /\ UNCHANGED <<activeVars, bufferVars, task, caller, input, held, ts,
                 cancelled, killed, goal, itemVars, eventVars>>

DrainOnly(a, reason) ==
  /\ abort' = [abort EXCEPT ![a] = AbortOf(reason)]
  /\ tasks' = {}
  /\ UNCHANGED <<active, bufferVars, task, caller, input, held, ts, cancelled,
                 killed, goal, itemVars, eventVars>>

\* Take the ActiveTurn and drain its tasks.
TakeActive(a, reason) ==
  /\ abort' = [abort EXCEPT ![a] = AbortOf(reason)]
  /\ active' = None
  /\ tasks' = {}
  /\ UNCHANGED <<bufferVars, task, caller, input, held, ts, cancelled, killed,
                 goal, itemVars, eventVars>>

Interrupt ==
  /\ "interrupt" \in Ops /\ LoopIdle
  /\ TakeActive(Loop, "Interrupted")
  /\ UNCHANGED pc

\* spawn_task begins with abort_all_tasks(Replaced).
ReplaceTasks(t) ==
  /\ pc[t] = "replace"
  /\ TakeActive(Loop, "Replaced")
  /\ Goto(t, "replacing")

\* The circuit breaker of guardian reviews interrupts turn t, if it still runs.
GuardianAbort(t) ==
  /\ "guardian" \in Ops /\ AborterIdle("guardian")
  /\ t \in tasks
  /\ TakeActive("guardian", "Interrupted")
  /\ UNCHANGED pc

AbortFrame == UNCHANGED <<activeVars, phase, idleQueue, mailbox, task, input,
                          held, ts, sent, history, completed>>

\* handle_task_abort: cancel, then wait for the task or for 100 ms.
CancelTask(a, t) ==
  /\ abort[a].stage = "tasks" /\ abort[a].cur = None /\ t \in abort[a].todo
  /\ cancelled' = cancelled \cup {t}
  /\ abort' = [abort EXCEPT ![a].cur = t]
  /\ UNCHANGED <<pending, pc, caller, killed, goal, dropped, aborted>>
  /\ AbortFrame

\* ... then abort its handle and send TurnAborted.
KillTask(a) ==
  LET t == abort[a].cur IN
  /\ t # None
  /\ killed' = killed \cup {t}
  /\ aborted' = aborted \cup {t}
  /\ abort' = [abort EXCEPT ![a].cur = None, ![a].todo = @ \ {t}]
  /\ UNCHANGED <<pending, pc, caller, cancelled, goal, dropped>>
  /\ AbortFrame

\* GoalRuntimeEvent::TaskAborted: an interrupt pauses the goal.
PauseGoal(a) ==
  /\ abort[a].stage = "tasks" /\ abort[a].cur = None /\ abort[a].todo = {}
  /\ goal' = IF abort[a].reason = "Interrupted" THEN "Stopped" ELSE goal
  /\ abort' = [abort EXCEPT ![a].stage = "clear"]
  /\ UNCHANGED <<pending, pc, caller, cancelled, killed, dropped, aborted>>
  /\ AbortFrame

\* ActiveTurn::clear_pending of the turn that was taken.
ClearPending(a) ==
  LET s == abort[a].ts IN
  /\ abort[a].stage = "clear"
  /\ IF s = None THEN UNCHANGED <<pending, dropped>>
     ELSE /\ dropped' = dropped \cup pending[s]
          /\ pending' = [pending EXCEPT ![s] = {}]
  /\ abort' = [abort EXCEPT ![a].stage = "next"]
  /\ UNCHANGED <<pc, caller, cancelled, killed, goal, aborted>>
  /\ AbortFrame

\* An interrupt that aborted a turn looks for pending work, under id t; a
\* replacement goes on to start_task.
AbortNext(a, t) ==
  /\ abort[a].stage = "next"
  /\ abort' = [abort EXCEPT ![a] = NoAbort]
  /\ \/ /\ abort[a].reason = "Interrupted" /\ abort[a].ts # None
        /\ CallPendingWork(t, a)
     \/ /\ abort[a].reason = "Replaced" /\ pc[t] = "replacing"
        /\ Goto(t, "collectQueue")
        /\ UNCHANGED caller
  /\ UNCHANGED <<pending, cancelled, killed, goal, dropped, aborted>>
  /\ AbortFrame

\* An interrupt that found nothing to abort is over.
AbortNothing(a) ==
  /\ abort[a].stage = "next"
  /\ abort[a].reason = "Interrupted" /\ abort[a].ts = None
  /\ abort' = [abort EXCEPT ![a] = NoAbort]
  /\ UNCHANGED <<pending, pc, caller, cancelled, killed, goal, dropped, aborted>>
  /\ AbortFrame

-----------------------------------------------------------------------------
Client ==
  \/ \E p \in Prompts : SteerInput(p) \/ \E t \in Turns : UserInput(t, p)
  \/ \E t \in Turns, k \in {"shell", "review", "compact"} : StandaloneTask(t, k)
  \/ \E m \in Mails : SendMail(m) \/ \E t \in Turns : SendTriggerMail(t, m)
  \/ \E n \in Notes : ApproveDenied(n) \/ AuxShellOutput(n)
  \/ \E t \in Turns : SetGoal(t) \/ GuardianAbort(t)
  \/ StopGoal
  \/ Interrupt

StartStep(t) ==
  \/ CheckQueue(t) \/ CheckMail(t) \/ Reserve(t)
  \/ GoalCandidate(t) \/ GoalReserve(t) \/ GoalRecheck(t) \/ GoalPush(t)
  \/ GoalStillReserved(t) \/ GoalClearReserved(t)
  \/ \E u \in Turns : GoalAfterStart(u, t)
  \/ ReplaceTasks(t)
  \/ CollectQueue(t) \/ CollectPending(t) \/ CollectMail(t)
  \/ Install(t) \/ PushCollected(t) \/ SpawnTask(t)

RunStep(t) ==
  \/ PrewarmCancelled(t)
  \/ RunTurnNothing(t) \/ RunTurnRefused(t) \/ RunTurnBegins(t)
  \/ RunStandalone(t) \/ SessionStartStops(t)
  \/ DrainPending(t) \/ DrainMail(t) \/ InspectAccepts(t)
  \/ \E b \in held[t], ok \in SUBSET held[t] : InspectBlocks(t, b, ok)
  \/ RecordPending(t)
  \/ DeferMailbox(t) \/ AcceptMailbox(t)
  \/ Sample(t, "drain") \/ Sample(t, "loopCheck")
  \/ LoopCheck(t)

FinishStep(t) ==
  \/ FinishCheck(t) \/ RemoveTask(t) \/ TakeLeftover(t)
  \/ \E blocked \in SUBSET held[t] : Complete(t, blocked)
  \/ ClearActive(t)
  \/ \E u \in Turns : ContinueIfIdle(t, u)
  \/ Killed(t)

AbortStep(a) ==
  \/ \E t \in Turns : CancelTask(a, t) \/ AbortNext(a, t)
  \/ KillTask(a) \/ PauseGoal(a) \/ ClearPending(a) \/ AbortNothing(a)

Next ==
  \/ Client
  \/ QueueNote
  \/ \E t \in Turns : StartStep(t) \/ RunStep(t) \/ FinishStep(t)
  \/ \E a \in Aborters : AbortStep(a)

Spec == Init /\ [][Next]_vars

-----------------------------------------------------------------------------
Types ==
  /\ active \in TurnStates \cup {None}
  /\ tasks \subseteq Turns
  /\ pending \in [TurnStates -> SUBSET Items]
  /\ phase \in [TurnStates -> {"CurrentTurn", "NextTurn"}]
  /\ idleQueue \subseteq Items /\ mailbox \subseteq Items
  /\ pc \in [Turns -> Stages]
  /\ task \in [Turns -> {"turn", "shell", "review", "compact"}]
  /\ caller \in [Turns -> {None, "loop", "guardian", "idle", "goal"}]
  /\ input \in [Turns -> SUBSET Items]
  /\ held \in [Turns \cup {Loop} -> SUBSET Items]
  /\ ts \in [Turns -> TurnStates \cup {None}]
  /\ cancelled \subseteq Turns /\ killed \subseteq Turns
  /\ abort \in [Aborters -> Aborts]
  /\ goal \in {"Active", "Stopped"}
  /\ sent \subseteq Items /\ history \subseteq Items /\ dropped \subseteq Items
  /\ completed \subseteq Turns /\ aborted \subseteq Turns

\* The variables have their types, and code that is about to lock a turn state
\* has one: a goal continuation and a start have the Arc of the ActiveTurn they
\* found or installed, a finishing task has it only if it found itself in the
\* ActiveTurn, which an abort may have taken since the task looked at its token.
TypeOK ==
  /\ Types
  /\ \A t \in Turns : pc[t] \in {"recheck", "goalPush", "push", "take"} => ts[t] # None

-----------------------------------------------------------------------------
(* Safety.                                                                 *)

Disjoint(f) == \A x, y \in DOMAIN f : x # y => f[x] \cap f[y] = {}
Apart(S, f) == \A x \in DOMAIN f : S \cap f[x] = {}
AllApart(f, g) == \A x \in DOMAIN f, y \in DOMAIN g : f[x] \cap g[y] = {}
Buffered(S) == Apart(S, pending) /\ Apart(S, held) /\ Apart(S, input)

\* No input item is ever in two places: what get_pending_input, the mailbox
\* drain, on_task_finished or prepend_pending_input hand over is gone from
\* where it was, so no prompt or mail can be recorded twice, or recorded after
\* it was given up, however turns are started, finished and aborted.
NoDuplicate ==
  /\ idleQueue \cap mailbox = {}
  /\ (idleQueue \cup mailbox) \cap (history \cup dropped) = {}
  /\ history \cap dropped = {}
  /\ Buffered(idleQueue) /\ Buffered(mailbox) /\ Buffered(history) /\ Buffered(dropped)
  /\ Disjoint(pending) /\ Disjoint(held) /\ Disjoint(input)
  /\ AllApart(pending, held) /\ AllApart(pending, input) /\ AllApart(held, input)

\* ActiveTurn.tasks holds exactly tasks that still run and were not cancelled:
\* a task leaves it when it finishes or when an abort drains it, never both,
\* so handle_task_abort cannot meet a cancelled token and a cancelled task
\* never reaches the part of on_task_finished that clears the active turn.
TasksAreLive ==
  /\ tasks # {} => active # None
  /\ \A t \in tasks : pc[t] \in RunStages /\ t \notin cancelled
  /\ \A t \in cancelled : pc[t] \notin {"take", "clear", "continue"}

\* The turn state an abort is about to clear is never the installed one, so
\* clear_pending cannot drop input that a successor turn has accepted.
AbortClearsTaken ==
  \A a \in Aborters : abort[a].ts # None => abort[a].ts # active

\* A turn state whose input somebody is still going to read or drop.
Attended(s) ==
  \/ s = active /\ tasks # {}
  \/ \E t \in Turns : pc[t] = "take" /\ ts[t] = s
  \/ \E a \in Aborters : abort[a].ts = s /\ abort[a].stage \in {"tasks", "clear"}

\* A Session runs at most one task at a time.
AtMostOneTask == Cardinality(tasks) <= 1

-----------------------------------------------------------------------------
(* Claims of the documentation that the code does not keep in every        *)
(* interleaving; README.md gives the constants and the counterexamples.    *)

\* A prompt that steer_input accepted is never in a turn state that is neither
\* installed nor known to anybody, even if a task took it out and put it back.
NoOrphanedPrompt ==
  \A s \in TurnStates : pending[s] \cap Prompts # {} =>
    s = active \/ Attended(s) \/ \E t \in Turns : ts[t] = s

\* inject_response_items either hands the item back or puts it where a task
\* will read it: an injected item is never in a turn state that is neither
\* installed nor known to anybody.
InjectedNoteKept ==
  \A s \in TurnStates : pending[s] \cap Notes # {} =>
    s = active \/ Attended(s) \/ \E t \in Turns : ts[t] = s

\* A session with no turn, no start and no abort under way has no mail that
\* asks for a turn: every such mail finds somebody to start one.
Quiet == /\ active = None
         /\ \A t \in Turns : pc[t] \in {"unused", "dead"}
         /\ \A a \in Aborters : abort[a].stage = "idle"
NoLostWakeup == Quiet => ~HasTriggerMail

\* A turn ends with one terminal event.
OneTerminalEvent == completed \cap aborted = {}

-----------------------------------------------------------------------------
(* TypeOK, TasksAreLive, AbortClearsTaken and NoDuplicate are not inductive; *)
(* these are (with Types), and imply them.  The last two carry the action properties.     *)

\* A task an abort has drained has nothing of the active turn in its hands.
Condemned(t) == t \in cancelled \/ \E a \in Aborters : t \in abort[a].todo

TasksInv ==
  /\ tasks # {} => active # None
  /\ killed \subseteq cancelled
  /\ \A a \in Aborters : abort[a].cur # None => abort[a].cur \in cancelled
  /\ \A t \in tasks : pc[t] \in RunStages
  /\ \A t \in Turns : pc[t] \in {"spawn"} \cup RunStages => ts[t] = None
  /\ \A t \in Turns : pc[t] \in {"recheck", "goalPush", "push", "take"} => ts[t] # None
  /\ \A t \in Turns : Condemned(t) =>
       /\ t \notin tasks
       /\ pc[t] \in RunStages \cup {"complete", "dead"}
       /\ ts[t] = None

\* The stages of turn t in which its step k has not created a turn state yet.
Before(k) ==
  {"unused", "replace", "replacing", "checkQueue", "checkMail", "reserve",
   "candidate", "goalReserve"}
  \cup (IF k = "reserve" THEN {}
        ELSE {"recheck", "goalPush", "stillReserved", "clearReserved",
              "collectQueue", "collectPending", "collectMail", "install"})
  \cup (IF k = "spawn" THEN {"push", "spawn"} ELSE {})

AbortInv ==
  /\ AbortClearsTaken
  /\ \A t \in Turns, k \in {"reserve", "install", "spawn"} : pc[t] \in Before(k) =>
       active # <<t, k>> /\ \A a \in Aborters : abort[a].ts # <<t, k>>

\* Items nobody has sent are nowhere; a goal prompt is pushed only once.
OnlySent ==
  /\ idleQueue \cup mailbox \cup history \cup dropped \subseteq sent
  /\ \A s \in TurnStates : pending[s] \subseteq sent
  /\ \A p \in Turns \cup {Loop} : held[p] \subseteq sent
  /\ \A t \in Turns : input[t] \subseteq sent

DeliveryInv ==
  /\ NoDuplicate
  /\ OnlySent
  /\ \A t \in Turns : pc[t] \in Before("reserve") \cup {"recheck", "goalPush"}
                        => GoalPrompt(t) \notin sent

\* The submission loop awaits what it starts: it starts one turn at a time, and
\* none while it aborts, except the turn for which it replaces the old tasks.
StartedByLoop(t) == caller[t] = Loop /\ pc[t] \in StartStages

LoopInv ==
  /\ \A t \in Turns : pc[t] \in {"replace", "replacing"} => caller[t] = Loop
  /\ \A t, u \in Turns : StartedByLoop(t) /\ StartedByLoop(u) => t = u
  /\ \A t \in Turns : StartedByLoop(t) /\ abort[Loop].stage # "idle"
       => abort[Loop].reason = "Replaced" /\ pc[t] = "replacing"
  /\ abort["guardian"].reason = "Interrupted"

\* The sessions in which nobody but the loop starts turns: no mail asks for
\* one, there is no goal to continue, and nothing is queued for the next turn.
OnlyLoopStarts == TriggerMails = {} /\ Ops \cap {"goal", "approve"} = {}

\* What they keep, besides AtMostOneTask: from the moment the loop has replaced
\* the old tasks until it has spawned the new one there is none.
OneTaskInv ==
  /\ idleQueue = {} /\ held[Loop] = {}
  /\ \A t, u \in tasks : t = u
  /\ \A t \in Turns :
       /\ pc[t] \notin GoalStages \cup {"reserve"}
       /\ caller[t] = "idle" => pc[t] \in {"checkQueue", "checkMail"}
       /\ pc[t] \in CollectStages => caller[t] = Loop
       /\ pc[t] \in CollectStages \cup {"replacing"} => tasks = {}
       /\ t \in tasks /\ pc[t] = "drainMail" => phase[active] = "CurrentTurn"

-----------------------------------------------------------------------------
(* Action properties.                                                      *)

\* A prompt that steer_input puts into a turn state has a reader there, and
\* keeps one until it is taken out: on_task_finished removes the last task
\* before it takes the leftover input, an abort takes the ActiveTurn before it
\* clears the pending input, and in between neither the other aborter nor the
\* finishing code of another turn makes the prompt unreachable.
PromptKeepsReader ==
  [][\A s \in TurnStates, p \in Prompts :
       p \in pending'[s] /\ (p \in sent => p \in pending[s] /\ Attended(s))
         => Attended(s)']_vars

\* Mail is folded into a running turn only while the turn accepts it: after a
\* final answer it waits for the next turn.  get_pending_input reads the
\* delivery phase under one lock and drains the mailbox under another.  (A
\* task that an abort has drained is in no ActiveTurn, and may still drain the
\* mailbox under its successor.)
LateMailWaits ==
  [][\A t \in tasks, m \in Mails :
       m \in mailbox /\ m \in held'[t] => phase[active] = "CurrentTurn"]_vars

-----------------------------------------------------------------------------
(* What the session promises for an input item.                            *)

Status == [i \in Items |-> IF i \in history THEN "recorded"
                           ELSE IF i \in dropped THEN "dropped"
                           ELSE IF i \in sent THEN "accepted" ELSE "new"]
Delivery == INSTANCE InputDelivery WITH status <- Status
\* The buffers, locks and aborts implement at-most-once delivery.
DeliverySpec == Delivery!Spec

-----------------------------------------------------------------------------
(* Liveness.                                                               *)

\* The runtime polls every spawned task and every awaiting caller; a model
\* that is sampled again and again stops at some point, pre-sampling compaction
\* does not fail for ever, and a session-start hook runs only once per start.
TaskProgress(t) ==
  \/ RunTurnNothing(t) \/ RunTurnRefused(t) \/ RunTurnBegins(t)
  \/ RunStandalone(t)
  \/ DrainPending(t) \/ DrainMail(t) \/ InspectAccepts(t) \/ RecordPending(t)
  \/ LoopCheck(t)
  \/ FinishStep(t)

Fairness ==
  /\ \A t \in Turns : WF_vars(StartStep(t) \/ TaskProgress(t))
  /\ SF_vars(\E t \in Turns : RunTurnBegins(t))
  /\ SF_vars(\E t \in Turns : DrainPending(t))
  /\ SF_vars(\E t \in Turns : Sample(t, "loopCheck"))
  /\ \A a \in Aborters : WF_vars(AbortStep(a))
  /\ WF_vars(QueueNote)

FairSpec == Spec /\ Fairness

\* An item nobody will read: its turn state is neither installed nor known to
\* any code that still runs.
Orphaned(i) ==
  \E s \in TurnStates : /\ i \in pending[s]
                        /\ s # active /\ ~Attended(s)
                        /\ \A t \in Turns : ts[t] # s

Settles(i) == i \in sent ~> i \in history \cup dropped \/ Orphaned(i)

\* A prompt the session accepts is recorded in the conversation, or given up by
\* a hook or an abort, also if the turn it was steered into is finishing or is
\* being replaced.  As PromptKeepsReader says, it is not orphaned where
\* steer_input puts it; but a task that is cancelled, or a start that overlaps
\* another one, may carry it to a turn state without a reader, and there it
\* stays (NoOrphanedPrompt).  It never stays with code that has ended.
PromptSettles == \A p \in Prompts : Settles(p)

\* In a session without interrupts and goals (NoLostWakeup says why), mail that
\* asks for a turn finds one even if it arrives while a turn is finishing, after
\* its final answer, or while another start is under way: it does not wait in
\* the mailbox for ever.  It is recorded, or given up with the turn that had
\* taken it; or a user input replaced the reservation that ContinueIfIdle had
\* collected it into, and it is orphaned there (TriggerMailRecorded).
TriggerMailSettles == \A m \in TriggerMails : Settles(m)

\* Not kept by the code, like the claims above: mail that asks for a turn is
\* recorded, or given up by an abort.
TriggerMailRecorded ==
  \A m \in TriggerMails : m \in sent ~> m \in history \cup dropped

=============================================================================

----------------------------- MODULE MemoryJobs -----------------------------
(***************************************************************************)
(* The memory pipeline: processes that share one state database claim jobs *)
(* under leases.  Extractors claim one stage-1 job per stale thread and    *)
(* store its output; consolidators claim the one phase-2 job, which is the *)
(* lock of the memories directory, and run an agent there.                 *)
(*                                                                         *)
(* A database call is one transaction, so one step.  It uses the time read *)
(* before its transaction began, up to Delay ago.  -1 stands for NULL.     *)
(***************************************************************************)
EXTENDS Integers, FiniteSets, FiniteSetsExt

CONSTANTS Threads, Extractors, Consolidators,
          MaxRunning,   \* max_rollouts_per_startup
          Lease, RetryDelay, Cooldown, Retries,
          Idle,         \* min_rollout_idle_hours
          MaxUnused,    \* max_unused_days
          MaxSelected,  \* max_raw_memories_for_consolidation
          Delay,        \* bound: age of the time a transaction uses
          ScanTime,     \* bound: time in which a selected job is tried
          MaxTime,      \* bound: the clock
          MaxTokens,    \* bound: claims in a behaviour
          MaxResets,    \* bound: memory resets
          MaxPolluted,  \* bound: threads whose memory mode is polluted
          Suspends      \* a process may stop for longer than a lease

ASSUME ConstantsAssumption ==
  /\ {MaxRunning, Lease, RetryDelay, Retries, ScanTime} \subseteq Nat \ {0}
  /\ {Cooldown, Idle, MaxUnused, MaxSelected, Delay, MaxTime, MaxTokens, MaxResets, MaxPolluted}
        \subseteq Nat
  /\ Idle <= MaxTime
  /\ Suspends \in BOOLEAN
  /\ IsFiniteSet(Threads)

VARIABLES
  now,
  updated,    \* threads.updated_at
  polluted,   \* threads whose memory_mode is not 'enabled'
  job,        \* the memory_stage1 row of each thread
  out,        \* the stage1_outputs row of each thread
  glob,       \* the memory_consolidate_global row
  scan,       \* what claim_stage1_jobs_for_startup has selected and not tried
  left,       \* how many jobs an extractor may still claim
  held,       \* claims that are being worked on
  con,        \* phase2::run of each consolidator
  work,       \* memories directory: synced inputs and the agent's digest of them
  base,       \* its git baseline, or NoRepo
  resetting,  \* memory/reset has cleared the database, not yet the directory
  tokens,     \* ownership tokens given out
  resets,     \* memory resets begun
  fails,      \* failures recorded for each version of a thread
  lastDone    \* when phase 2 last succeeded (-1: not since the last reset)

stageOne == <<job, out>>
people   == <<updated, polluted>>
disk     == <<work, base>>
vars == <<now, people, stageOne, glob, scan, left, held, con, disk, resetting,
          tokens, resets, fails, lastDone>>

NoJob == [status |-> "absent", token |-> 0, lease |-> -1, retryAt |-> -1,
          retries |-> 0, input |-> -1, success |-> -1]
NoOut == [source |-> -1, selected |-> -1, reset |-> 0]
NoGlob == [status |-> "absent", token |-> 0, lease |-> -1, retryAt |-> -1, retries |-> 0,
           finished |-> -1, failed |-> FALSE, input |-> -1, success |-> -1]
Resting == [stage |-> "rest", token |-> 0, mark |-> 0, input |-> {}, until |-> 0]
NoRepo == [inputs |-> {}, digest |-> {}, repo |-> FALSE]
EmptyDir == [inputs |-> {}, digest |-> {}, repo |-> TRUE]

Init ==
  /\ now = Idle
  /\ updated = [t \in Threads |-> 0] /\ polluted = {}
  /\ job = [t \in Threads |-> NoJob] /\ out = [t \in Threads |-> NoOut]
  /\ glob = NoGlob
  /\ scan = [e \in Extractors |-> {}] /\ left = [e \in Extractors |-> 0] /\ held = {}
  /\ con = [c \in Consolidators |-> Resting]
  /\ work = EmptyDir /\ base = NoRepo
  /\ resetting = FALSE /\ tokens = 0 /\ resets = 0
  /\ fails = [t \in Threads |-> [v \in 0..MaxTime |-> 0]] /\ lastDone = -1

\* Variant with a fault: a lease counts as expired in its last second.
FreshShort(j, at) == j.status = "running" /\ j.lease > at + 1

Fresh(j, at) == j.status = "running" /\ j.lease > at
Owned(j, token) == j.status = "running" /\ j.token = token
Times == {at \in (now - Delay)..now : at >= 0}

-----------------------------------------------------------------------------
(* The global row, as other operations see it.                             *)

\* Variant with a fault: a running job becomes pending as well.
EnqueuedPending(g, mark) ==
  IF g.status = "absent"
    THEN [NoGlob EXCEPT !.status = "pending", !.retries = Retries, !.input = mark, !.success = 0]
    ELSE [g EXCEPT !.status = "pending", !.retryAt = -1,
                   !.retries = Retries, !.input = IF mark > g.input THEN mark ELSE g.input + 1]

\* Variant with a fault: a pending job forgets when the last run finished.
EnqueuedRestarts(g, mark) ==
  IF g.status = "absent"
    THEN [NoGlob EXCEPT !.status = "pending", !.retries = Retries, !.input = mark, !.success = 0]
    ELSE [g EXCEPT !.status = IF @ = "running" THEN @ ELSE "pending",
                   !.finished = -1,
                   !.input = IF mark > g.input THEN mark ELSE g.input + 1]

\* Variant with a fault: an older output does not reach the row.
EnqueuedNewer(g, mark) ==
  IF g.status = "absent"
    THEN [NoGlob EXCEPT !.status = "pending", !.retries = Retries, !.input = 0, !.success = 0]
    ELSE g

\* enqueue_global_consolidation_with_executor.
Enqueued(g, mark) ==
  IF g.status = "absent"
    THEN [NoGlob EXCEPT !.status = "pending", !.retries = Retries, !.input = mark, !.success = 0]
    ELSE [g EXCEPT !.status = IF @ = "running" THEN @ ELSE "pending",
                   !.retryAt = IF g.status = "running" THEN @ ELSE -1,
                   !.retries = IF @ > Retries THEN @ ELSE Retries,
                   !.input = IF mark > @ THEN mark ELSE @ + 1]

-----------------------------------------------------------------------------
(* Stage 1: one output per thread.                                         *)

\* The SELECT of claim_stage1_jobs_for_startup.
Eligible(t) ==
  /\ t \notin polluted
  /\ updated[t] <= now - Idle
  /\ out[t].source < updated[t] /\ job[t].success < updated[t]

Scan(e) ==
  /\ scan[e] = {} /\ \A h \in held : h.by # e
  /\ \E t \in Threads : Eligible(t)
  /\ scan' = [scan EXCEPT ![e] = {[thread |-> t, source |-> updated[t], at |-> now] :
                                     t \in {u \in Threads : Eligible(u)}}]
  /\ left' = [left EXCEPT ![e] = MaxRunning]
  /\ UNCHANGED <<now, people, stageOne, glob, held, con, disk, resetting, tokens,
                 resets, fails, lastDone>>

\* Variant with a fault: a job may be claimed once more than it may fail.
CanClaimOnceMore(t, source, at) ==
  LET j == job[t] IN
  /\ out[t].source < source /\ j.success < source
  /\ Cardinality({u \in Threads : Fresh(job[u], at)}) < MaxRunning
  /\ ~Fresh(j, at) /\ (j.retryAt <= at \/ source > j.input)

\* Variant with a fault: only other jobs that were never claimed count.
CanClaimUncapped(t, source, at) ==
  LET j == job[t] IN
  /\ out[t].source < source /\ j.success < source
  /\ ~Fresh(j, at)
  /\ j.retryAt <= at \/ source > j.input
  /\ j.retries > 0 \/ source > j.input

\* The conditions of try_claim_stage1_job.
CanClaim(t, source, at) ==
  LET j == job[t] IN
  /\ out[t].source < source /\ j.success < source
  /\ Cardinality({u \in Threads : Fresh(job[u], at)}) < MaxRunning
  /\ ~Fresh(j, at)
  /\ j.retryAt <= at \/ source > j.input
  /\ j.retries > 0 \/ source > j.input

ClaimJob(e, s) ==
  /\ s \in scan[e] /\ left[e] > 0
  /\ scan' = [scan EXCEPT ![e] = IF left[e] = 1 THEN {} ELSE @ \ {s}]
  /\ tokens < MaxTokens
  /\ \E at \in Times :
       /\ CanClaim(s.thread, s.source, at)
       /\ job' = [job EXCEPT ![s.thread] =
                    [@ EXCEPT !.status = "running", !.token = tokens + 1,
                              !.lease = at + Lease, !.retryAt = -1,
                              !.retries = IF s.source > job[s.thread].input
                                           THEN Retries ELSE job[s.thread].retries,
                              !.input = s.source]]
       /\ held' = held \cup {[by |-> e, thread |-> s.thread, source |-> s.source,
                              token |-> tokens + 1, until |-> at + Lease, reset |-> resets]}
  /\ tokens' = tokens + 1
  /\ left' = [left EXCEPT ![e] = @ - 1]
  /\ UNCHANGED <<now, people, out, glob, con, disk, resetting, resets, fails, lastDone>>

\* The skips: up to date, running, backing off, exhausted.
SkipJob(e, s) ==
  /\ s \in scan[e]
  /\ \E at \in Times : ~CanClaim(s.thread, s.source, at)
  /\ scan' = [scan EXCEPT ![e] = @ \ {s}]
  /\ UNCHANGED <<now, people, stageOne, glob, left, held, con, disk, resetting,
                 tokens, resets, fails, lastDone>>

Settled(h) ==
  /\ h \in held
  /\ held' = held \ {h}
  /\ UNCHANGED <<now, people, scan, left, con, disk, resetting, tokens, resets, lastDone>>

\* Variant with a fault: success does not ask for the ownership token.
SuccessOfUnowned(h) == h \in held

\* The row a finishing extractor may update: its own running one.
OwnsJob(h) == Owned(job[h.thread], h.token)

Finished(h) ==
  job' = [job EXCEPT ![h.thread] = [@ EXCEPT !.status = "done", !.lease = -1,
                                             !.success = job[h.thread].input]]

\* mark_stage1_job_succeeded, with the upsert of the output.
StageOneSucceeds(h) ==
  /\ Settled(h)
  /\ OwnsJob(h)
  /\ Finished(h)
  /\ out' = IF h.source >= out[h.thread].source
              THEN [out EXCEPT ![h.thread] = [@ EXCEPT !.source = h.source, !.reset = h.reset]]
              ELSE out
  /\ glob' = Enqueued(glob, h.source)
  /\ UNCHANGED fails

\* mark_stage1_job_succeeded_no_output.
StageOneEmpty(h) ==
  /\ Settled(h)
  /\ OwnsJob(h)
  /\ Finished(h)
  /\ out' = [out EXCEPT ![h.thread] = NoOut]
  /\ glob' = IF out[h.thread] # NoOut THEN Enqueued(glob, job[h.thread].input) ELSE glob
  /\ UNCHANGED fails

\* mark_stage1_job_failed.
StageOneFails(h) ==
  /\ Settled(h)
  /\ OwnsJob(h)
  /\ job' = [job EXCEPT ![h.thread] = [@ EXCEPT !.status = "error", !.lease = -1,
                                         !.retryAt = now + RetryDelay,
                                         !.retries = job[h.thread].retries - 1]]
  /\ fails' = [fails EXCEPT ![h.thread][h.source] = @ + 1]
  /\ UNCHANGED <<out, glob>>

\* The row is not ours any more, or the call fails: nothing is written.
StageOneLost(h) ==
  /\ Settled(h)
  /\ UNCHANGED <<stageOne, glob, fails>>

ExtractorDies(e) ==
  /\ scan[e] # {} \/ \E h \in held : h.by = e
  /\ scan' = [scan EXCEPT ![e] = {}]
  /\ held' = {h \in held : h.by # e}
  /\ UNCHANGED <<now, people, stageOne, glob, left, con, disk, resetting, tokens,
                 resets, fails, lastDone>>

\* prune_stage1_outputs_for_retention.
Prune(t) ==
  /\ out[t].source >= 0 /\ out[t].selected = -1
  /\ out[t].source < now - MaxUnused
  /\ out' = [out EXCEPT ![t] = NoOut]
  /\ UNCHANGED <<now, people, job, glob, scan, left, held, con, disk, resetting,
                 tokens, resets, fails, lastDone>>

-----------------------------------------------------------------------------
(* Phase 2: the one job that guards the memories directory.                *)

\* What a step of consolidator c leaves alone.
ConFrame == UNCHANGED <<now, people, job, scan, left, held, resetting, resets, fails>>

CanClaimGlobal(at) ==
  /\ glob.retryAt <= at
  /\ ~Fresh(glob, at)
  /\ glob.failed \/ glob.finished = -1 \/ glob.finished <= at - Cooldown

\* try_claim_global_phase2_job.
ClaimGlobal(c) ==
  /\ con[c].stage = "rest" /\ tokens < MaxTokens
  /\ \E at \in Times :
       /\ CanClaimGlobal(at)
       /\ glob' = [glob EXCEPT !.status = "running", !.token = tokens + 1,
                               !.lease = at + Lease, !.retryAt = -1,
                               !.finished = -1, !.failed = FALSE,
                               !.retries = IF glob.status = "absent" THEN Retries ELSE @,
                               !.input = IF @ = -1 THEN 0 ELSE @,
                               !.success = IF @ = -1 THEN 0 ELSE @]
       /\ con' = [con EXCEPT ![c] = [stage |-> "prepare", token |-> tokens + 1,
                                     mark |-> IF glob.input = -1 THEN 0 ELSE glob.input,
                                     input |-> {}, until |-> at + Lease]]
  /\ tokens' = tokens + 1
  /\ UNCHANGED <<out, disk, lastDone>>
  /\ ConFrame

GoTo(c, stage) == con' = [con EXCEPT ![c].stage = stage]

\* mark_global_phase2_job_failed; its fallback for unowned rows finds none
\* because a running row always has a token.
GlobalFailed(c) ==
  glob' = IF Owned(glob, con[c].token)
            THEN [glob EXCEPT !.status = "error", !.finished = now, !.lease = -1,
                              !.retryAt = now + RetryDelay, !.failed = TRUE,
                              !.retries = IF @ = 0 THEN 0 ELSE @ - 1]
            ELSE glob

\* prepare_memory_workspace: a directory without a baseline becomes one.
Prepare(c) ==
  /\ con[c].stage = "prepare"
  /\ base' = IF base.repo THEN base ELSE work
  /\ GoTo(c, "select")
  /\ UNCHANGED <<out, glob, work, tokens, lastDone>>
  /\ ConFrame

\* get_phase2_input_selection: the best ranked MaxSelected outputs.
Select(c) ==
  /\ con[c].stage = "select"
  /\ LET usable == {t \in Threads \ polluted :
                      out[t].source >= 0 /\ out[t].source >= now - MaxUnused}
         n == IF Cardinality(usable) < MaxSelected THEN Cardinality(usable) ELSE MaxSelected
     IN  \E chosen \in kSubset(n, usable) :
           con' = [con EXCEPT ![c].stage = "sync",
                              ![c].input = {[thread |-> t, source |-> out[t].source,
                                             reset |-> out[t].reset] : t \in chosen}]
  /\ UNCHANGED <<out, glob, disk, tokens, lastDone>>
  /\ ConFrame

Sync(c) ==
  /\ con[c].stage = "sync"
  /\ work' = [work EXCEPT !.inputs = con[c].input]
  /\ GoTo(c, "diff")
  /\ UNCHANGED <<out, glob, base, tokens, lastDone>>
  /\ ConFrame

\* get_watermark.
NewMark(c) == Max({con[c].mark} \cup {i.source : i \in con[c].input})

\* Variant with a fault: the current output of a selected thread is marked.
MarkedCurrent(input) ==
  [t \in Threads |-> [out[t] EXCEPT !.selected =
     IF \E i \in input : i.thread = t /\ out[t].source >= 0 THEN out[t].source ELSE -1]]

\* The exact snapshots that were consumed are marked, and only they.
Marked(input) ==
  [t \in Threads |-> [out[t] EXCEPT !.selected =
     IF \E i \in input : i.thread = t /\ i.source = out[t].source THEN out[t].source ELSE -1]]

\* mark_global_phase2_job_succeeded.
GlobalSucceeded(c) ==
  IF Owned(glob, con[c].token)
    THEN /\ glob' = [glob EXCEPT !.status = "done", !.finished = now, !.lease = -1,
                                 !.failed = FALSE, !.success = Max({@, NewMark(c)})]
         /\ out' = Marked(con[c].input)
         /\ lastDone' = now
    ELSE UNCHANGED <<glob, out, lastDone>>

\* memory_workspace_diff is empty: nothing to consolidate.
NoChanges(c) ==
  /\ con[c].stage = "diff" /\ base.repo /\ work = base
  /\ GlobalSucceeded(c)
  /\ con' = [con EXCEPT ![c] = Resting]
  /\ UNCHANGED <<disk, tokens>>
  /\ ConFrame

\* The diff is written and the agent spawned.
SpawnAgent(c) ==
  /\ con[c].stage = "diff" /\ base.repo /\ work # base
  /\ GoTo(c, "agent")
  /\ UNCHANGED <<out, glob, disk, tokens, lastDone>>
  /\ ConFrame

\* A step of run fails and the job is marked failed; or that call fails too.
RunFails(c) ==
  /\ con[c].stage \in {"prepare", "select", "sync", "diff", "reset"}
  /\ GlobalFailed(c) \/ UNCHANGED glob
  /\ con' = [con EXCEPT ![c] = Resting]
  /\ UNCHANGED <<out, disk, tokens, lastDone>>
  /\ ConFrame

\* The agent works on what it finds in the directory until it is shut down.
AgentWrites(c) ==
  /\ con[c].stage \in {"agent", "closing"}
  /\ work' = [work EXCEPT !.digest = work.inputs]
  /\ UNCHANGED <<out, glob, con, base, tokens, lastDone>>
  /\ ConFrame

\* heartbeat_global_phase2_job.
Extended(c) ==
  /\ glob' = [glob EXCEPT !.lease = now + Lease]
  /\ con' = [con EXCEPT ![c].until = now + Lease]

\* loop_agent: a heartbeat renews the lease, or finds the ownership lost.
Heartbeat(c) ==
  /\ con[c].stage = "agent"
  /\ IF Owned(glob, con[c].token)
       THEN Extended(c)
       ELSE GoTo(c, "closing") /\ UNCHANGED glob
  /\ UNCHANGED <<out, disk, tokens, lastDone>>
  /\ ConFrame

\* The heartbeat call fails: the job is failed while its agent still runs.
HeartbeatFails(c) ==
  /\ con[c].stage = "agent"
  /\ GlobalFailed(c) \/ UNCHANGED glob
  /\ GoTo(c, "closing")
  /\ UNCHANGED <<out, disk, tokens, lastDone>>
  /\ ConFrame

AgentFails(c) ==
  /\ con[c].stage = "agent"
  /\ GlobalFailed(c) \/ UNCHANGED glob
  /\ con' = [con EXCEPT ![c] = Resting]
  /\ UNCHANGED <<out, disk, tokens, lastDone>>
  /\ ConFrame

\* Completed: the ownership is confirmed before the baseline is reset.
AgentCompletes(c) ==
  /\ con[c].stage = "agent"
  /\ IF Owned(glob, con[c].token)
       THEN /\ glob' = [glob EXCEPT !.lease = now + Lease]
            /\ con' = [con EXCEPT ![c].until = now + Lease, ![c].stage = "reset"]
       ELSE con' = [con EXCEPT ![c] = Resting] /\ UNCHANGED glob
  /\ UNCHANGED <<out, disk, tokens, lastDone>>
  /\ ConFrame

ShutdownAgent(c) ==
  /\ con[c].stage = "closing"
  /\ con' = [con EXCEPT ![c] = Resting]
  /\ UNCHANGED <<out, glob, disk, tokens, lastDone>>
  /\ ConFrame

ResetBaseline(c) ==
  /\ con[c].stage = "reset"
  /\ base' = [work EXCEPT !.repo = TRUE]
  /\ GoTo(c, "succeed")
  /\ UNCHANGED <<out, glob, work, tokens, lastDone>>
  /\ ConFrame

Succeed(c) ==
  /\ con[c].stage = "succeed"
  /\ GlobalSucceeded(c) \/ UNCHANGED <<glob, out, lastDone>>
  /\ con' = [con EXCEPT ![c] = Resting]
  /\ UNCHANGED <<disk, tokens>>
  /\ ConFrame

ConsolidatorDies(c) ==
  /\ con[c].stage # "rest"
  /\ con' = [con EXCEPT ![c] = Resting]
  /\ UNCHANGED <<out, glob, disk, tokens, lastDone>>
  /\ ConFrame

-----------------------------------------------------------------------------
(* Users and time.                                                         *)

TouchThread(t) ==
  /\ updated[t] < now
  /\ updated' = [updated EXCEPT ![t] = now]
  /\ UNCHANGED <<now, polluted, stageOne, glob, scan, left, held, con, disk, resetting,
                 tokens, resets, fails, lastDone>>

\* mark_thread_memory_mode_polluted.
Pollute(t) ==
  /\ t \notin polluted /\ Cardinality(polluted) < MaxPolluted
  /\ polluted' = polluted \cup {t}
  /\ glob' = IF out[t].selected >= 0 THEN Enqueued(glob, now) ELSE glob
  /\ UNCHANGED <<now, updated, stageOne, scan, left, held, con, disk, resetting,
                 tokens, resets, fails, lastDone>>

\* memory/reset, first half: clear_memory_data.
ClearMemoryData ==
  /\ ~resetting /\ resets < MaxResets
  /\ out' = [t \in Threads |-> NoOut] /\ job' = [t \in Threads |-> NoJob]
  /\ glob' = NoGlob
  /\ resetting' = TRUE /\ resets' = resets + 1 /\ lastDone' = -1
  /\ fails' = [t \in Threads |-> [v \in 0..MaxTime |-> 0]]
  /\ UNCHANGED <<now, people, scan, left, held, con, disk, tokens>>

\* Second half: clear_memory_roots_contents, the git baseline included.
ClearMemoryRoots ==
  /\ resetting
  /\ work' = EmptyDir /\ base' = NoRepo /\ resetting' = FALSE
  /\ UNCHANGED <<now, people, stageOne, glob, scan, left, held, con, tokens, resets,
                 fails, lastDone>>

\* Unless processes may be suspended, a consolidator renews its lease or comes
\* to an end while it lasts, and an extractor claims soon after its scan.
InTime(at) ==
  /\ \A c \in Consolidators : con[c].stage # "rest" => con[c].until > at
  /\ \A e \in Extractors : \A s \in scan[e] : s.at + ScanTime > at

Tick ==
  /\ now < MaxTime
  /\ Suspends \/ InTime(now + 1)
  /\ now' = now + 1
  /\ UNCHANGED <<people, stageOne, glob, scan, left, held, con, disk, resetting,
                 tokens, resets, fails, lastDone>>

StageOne ==
  \/ \E e \in Extractors : Scan(e) \/ ExtractorDies(e)
  \/ \E e \in Extractors : \E s \in scan[e] : ClaimJob(e, s) \/ SkipJob(e, s)
  \/ \E h \in held : \/ StageOneSucceeds(h) \/ StageOneEmpty(h)
                     \/ StageOneFails(h) \/ StageOneLost(h)
  \/ \E t \in Threads : Prune(t)

PhaseTwo == \E c \in Consolidators :
  \/ ClaimGlobal(c) \/ Prepare(c) \/ Select(c) \/ Sync(c)
  \/ NoChanges(c) \/ SpawnAgent(c) \/ RunFails(c)
  \/ AgentWrites(c) \/ Heartbeat(c) \/ HeartbeatFails(c)
  \/ AgentFails(c) \/ AgentCompletes(c) \/ ShutdownAgent(c)
  \/ ResetBaseline(c) \/ Succeed(c) \/ ConsolidatorDies(c)

Users ==
  \/ \E t \in Threads : TouchThread(t) \/ Pollute(t)
  \/ ClearMemoryData \/ ClearMemoryRoots

Next == StageOne \/ PhaseTwo \/ Users \/ Tick

Spec == Init /\ [][Next]_vars

-----------------------------------------------------------------------------
Statuses == {"absent", "pending", "running", "done", "error"}
Stages == {"rest", "prepare", "select", "sync", "diff", "agent", "closing", "reset", "succeed"}

TypeOK ==
  /\ now \in 0..MaxTime
  /\ \A t \in Threads : /\ updated[t] \in 0..now
                        /\ job[t].status \in Statuses /\ job[t].retries \in 0..Retries
                        /\ out[t].source \in -1..now /\ out[t].selected \in -1..out[t].source
  /\ glob.status \in Statuses /\ glob.retries \in 0..Retries
  /\ \A c \in Consolidators : con[c].stage \in Stages
  /\ tokens \in 0..MaxTokens /\ resets \in 0..MaxResets

\* At no time do more than max_rollouts_per_startup stage-1 jobs have a live
\* lease, however many processes claim at once.
RunningCap == Cardinality({t \in Threads : Fresh(job[t], now)}) <= MaxRunning

\* Two extractors work on one thread only if the lease of one has run out, or a reset
\* has deleted the row of one in between (the claims of one reset are compared).
NoDuplicateWork ==
  \A h, k \in held : h # k /\ h.thread = k.thread /\ h.reset = k.reset
                       => h.until <= now \/ k.until <= now

\* No version of a thread is failed more often than its retries allow.
RetriesBounded == \A t \in Threads : \A v \in 0..MaxTime : fails[t][v] <= Retries

\* An extraction that was under way during a reset stores nothing after it.
ResetForgetsOutputs == \A t \in Threads : out[t].source >= 0 => out[t].reset = resets

\* The global row knows of every output, and no run completes past it.
OutputsEnqueued ==
  /\ \A t \in Threads : out[t].source <= glob.input
  /\ glob.success <= glob.input

\* Runs that look at or change the memories directory.
RunsInDirectory ==
  {c \in Consolidators : con[c].stage \in {"prepare", "sync", "diff", "agent", "reset"}}

\* While every process keeps its lease and nobody resets the memories, at most
\* one phase-2 run is in the memories directory: enqueued outputs, failures,
\* expired leases and crashes never let a second one in.
OneRunInDirectory == Cardinality(RunsInDirectory) <= 1

\* Not kept by the code (see README.md): "only one consolidation
\* inspects or mutates the workspace at a time", which also
\* counts the agent of a run that gave up, until that agent is shut down.
OneInDirectory ==
  Cardinality(RunsInDirectory \cup {c \in Consolidators : con[c].stage = "closing"}) <= 1

\* The snapshots marked as selected by the last successful run are the ones in
\* the baseline that run committed.
SelectedInBaseline ==
  glob.status = "done" =>
    \A t \in Threads : out[t].selected >= 0 =>
      \E i \in base.inputs : i.thread = t /\ i.source = out[t].selected

\* After a success no run is claimed before the cooldown is over, whatever
\* stage-1 outputs and pollutions ask for in between.
CooldownKept ==
  [][glob.status # "running" /\ glob'.status = "running" /\ lastDone >= 0 /\ ~glob.failed
       => now >= lastDone + Cooldown]_vars

\* Not kept by the code (see README.md): a reset leaves nothing of the memories
\* it cleared in the directory.
ResetForgetsFiles ==
  ~resetting => \A i \in work.inputs \cup work.digest : i.reset = resets
=============================================================================

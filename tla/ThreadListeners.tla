-------------------------- MODULE ThreadListeners --------------------------
(***************************************************************************)
(* One thread of the app server: connections resume it, unsubscribe from   *)
(* it, archive it or go away; a listener task forwards its events, answers *)
(* the resume requests of a running thread and, once nobody has been       *)
(* subscribed for a while, unloads it.                                     *)
(*                                                                         *)
(* The map entry of the thread (ThreadEntry), the loaded CodexThread and   *)
(* the listener tasks come and go; each is numbered in order of creation.  *)
(* The requests about the thread run one at a time (process "request", one *)
(* serialization key); the loop that sees connections close runs beside it *)
(* (process "close").  Events, goals and server requests are left out.     *)
(***************************************************************************)
EXTENDS Integers, Sequences, FiniteSets

CONSTANTS Conns,
          MaxCalls,     \* bound: requests handled in a behaviour
          Allowed,      \* what may happen beside resumes, unloads and closing connections
          MaxMade       \* bound: entries, CodexThreads and listeners made of each kind

Allowances == {"unsubscribe", "archive", "unarchive", "timeout"}

ASSUME ConstantsAssumption ==
  /\ Allowed \subseteq Allowances
  /\ MaxCalls \in Nat /\ MaxMade \in Nat /\ IsFiniteSet(Conns)

VARIABLES
  live,      \* live_connections
  entry,     \* the thread's entry in the state manager
  entries,   \* entries made
  subs,      \* connection_ids of the entry
  had,       \* value of an entry's has_connections watcher
  slot,      \* listener side of an entry's ThreadState
  mgr,       \* the CodexThread the thread manager holds
  loads,     \* CodexThreads made
  up,        \* CodexThreads whose session loop runs
  pend,      \* the thread is in pending_thread_unloads
  lis,       \* listener tasks
  made,      \* listener tasks made
  stop,      \* the task that finishes an unload, by the listener that began it
  proc,      \* the two processes that run handlers
  calls,     \* requests handled
  archived,  \* the rollout is in the archive
  asked,     \* connections whose resume request is not answered
  resumed    \* connections whose last answer says the thread is resumed

entryVars == <<entry, entries, subs, had>>
coreVars  == <<mgr, loads, up>>
lisVars   == <<slot, lis, made>>
clientVars == <<asked, resumed>>
vars == <<live, entryVars, coreVars, lisVars, pend, stop, proc, calls, archived, clientVars>>

None == 0
Ids == 1..MaxMade
Procs == {"request", "close"}

NoSlot == [lis |-> None, gen |-> 0, inst |-> None]
NoListener == [pc |-> "none", entry |-> None, gen |-> 0, inst |-> None, watch |-> None,
               chan |-> <<>>, cancelled |-> FALSE, seen |-> FALSE, elapsed |-> FALSE,
               gone |-> None]
Idle == [pc |-> "idle", op |-> "none", conn |-> None, inst |-> None, entry |-> None,
         watch |-> None, lis |-> None]

Init ==
  /\ live = Conns
  /\ entry = None /\ entries = 0 /\ subs = {} /\ had = [e \in Ids |-> FALSE]
  /\ slot = [e \in Ids |-> NoSlot]
  /\ mgr = None /\ loads = 0 /\ up = {}
  /\ pend = FALSE
  /\ lis = [l \in Ids |-> NoListener] /\ made = 0
  /\ stop = [l \in Ids |-> "none"]
  /\ proc = [p \in Procs |-> Idle]
  /\ calls = 0 /\ archived = FALSE
  /\ asked = {} /\ resumed = {}

-----------------------------------------------------------------------------
(* ThreadStateManager.                                                     *)

\* Variant with a fault: a connection that is gone can subscribe.
MaySubscribeAlways(c) == TRUE

MaySubscribe(c) == c \in live

\* Entry::or_default, then the given subscribers.
Subscribe(conns) ==
  /\ entry = None => entries < MaxMade
  /\ entries' = IF entry = None THEN entries + 1 ELSE entries
  /\ entry' = IF entry = None THEN entries' ELSE entry
  /\ subs' = subs \cup conns
  /\ had' = [had EXCEPT ![entry'] = (subs' # {})]

Unsubscribe(c) ==
  /\ subs' = subs \ {c}
  /\ had' = IF c \in subs THEN [had EXCEPT ![entry] = (subs' # {})] ELSE had
  /\ UNCHANGED <<entry, entries>>

\* remove_thread_state, first half: the entry leaves the map, and with it the
\* sender of its watcher.
RemoveEntry ==
  /\ entry' = None /\ subs' = {}
  /\ UNCHANGED <<entries, had>>

\* Variant with a fault: the state still names the CodexThread it listened to.
ClearedKeepsThread(e) == IF e = None THEN slot ELSE [slot EXCEPT ![e].lis = None]

\* ThreadState::clear_listener of entry e drops the sender and the CodexThread ...
Cleared(e) == IF e = None THEN slot ELSE [slot EXCEPT ![e].lis = None, ![e].inst = None]

\* ... and cancels the listener.
CancelOf(e) ==
  [k \in Ids |-> IF e # None /\ k = slot[e].lis THEN [lis[k] EXCEPT !.cancelled = TRUE]
                 ELSE lis[k]]

-----------------------------------------------------------------------------
(* Handlers.  Step(p, r) makes r the state of process p.                   *)

Step(p, r) == proc' = [proc EXCEPT ![p] = r]
Goto(p, pc) == Step(p, [proc[p] EXCEPT !.pc = pc])
At(p, pc) == proc[p].pc = pc
Conn(p) == proc[p].conn

Answered(c, ok) ==
  /\ asked' = asked \ {c}
  /\ resumed' = IF ok THEN resumed \cup {c} ELSE resumed \ {c}

Begin(c, op) ==
  /\ At("request", "idle") /\ calls < MaxCalls /\ c \in live
  /\ calls' = calls + 1
  /\ Step("request", [Idle EXCEPT !.pc = op, !.op = op, !.conn = c])

BeginResume(c) ==
  /\ Begin(c, "resume")
  /\ c \notin asked
  /\ asked' = asked \cup {c} /\ resumed' = resumed \ {c}
  /\ UNCHANGED <<live, entryVars, coreVars, lisVars, pend, stop, archived>>

BeginOther(c, op) ==
  /\ Begin(c, op)
  /\ UNCHANGED <<live, entryVars, coreVars, lisVars, pend, stop, archived, clientVars>>

\* thread_resume_inner: refused while an unload is pending.
ResumeStart ==
  /\ At("request", "resume")
  /\ IF pend \/ archived
       THEN Step("request", Idle) /\ Answered(Conn("request"), FALSE)
       ELSE Goto("request", "find") /\ UNCHANGED clientVars
  /\ UNCHANGED <<live, entryVars, coreVars, lisVars, pend, stop, calls, archived>>

\* resume_running_thread: is the thread loaded?
ResumeFind ==
  /\ At("request", "find")
  /\ IF mgr # None
       THEN Step("request", [proc["request"] EXCEPT !.pc = "state", !.inst = mgr])
       ELSE Goto("request", "load")
  /\ UNCHANGED <<live, entryVars, coreVars, lisVars, pend, stop, calls, archived, clientVars>>

ResumeState ==
  /\ At("request", "state")
  /\ Subscribe({})
  /\ Step("request", [proc["request"] EXCEPT !.pc = "watch", !.entry = entry'])
  /\ UNCHANGED <<live, coreVars, lisVars, pend, stop, calls, archived, clientVars>>

\* resume_thread_with_history of a thread that is not loaded.
ResumeLoad ==
  /\ At("request", "load") /\ loads < MaxMade
  /\ loads' = loads + 1 /\ mgr' = loads' /\ up' = up \cup {loads'}
  /\ Step("request", [proc["request"] EXCEPT !.pc = "ensure", !.op = "cold"])
  /\ UNCHANGED <<live, entryVars, lisVars, pend, stop, calls, archived, clientVars>>

\* ensure_conversation_listener: the loaded thread is looked up first ...
EnsureGet ==
  /\ At("request", "ensure")
  /\ IF mgr = None
       THEN Goto("request", "respond")
       ELSE Step("request", [proc["request"] EXCEPT !.pc = "subscribe", !.inst = mgr])
  /\ UNCHANGED <<live, entryVars, coreVars, lisVars, pend, stop, calls, archived, clientVars>>

\* ... then, under the lock of the pending unloads, the subscription is refused while
\* an unload is pending or when the connection went away.  Refusals are only logged.
EnsureSubscribed ==
  /\ At("request", "subscribe")
  /\ IF pend \/ ~MaySubscribe(Conn("request"))
       THEN Goto("request", "respond") /\ UNCHANGED entryVars
       ELSE /\ Subscribe({Conn("request")})
            /\ Step("request", [proc["request"] EXCEPT !.pc = "watch", !.entry = entry'])
  /\ UNCHANGED <<live, coreVars, lisVars, pend, stop, calls, archived, clientVars>>

\* ensure_listener_task_running fails, a running thread's resume with it.
EnsureFails ==
  IF proc["request"].op = "cold"
    THEN Goto("request", "revoke") /\ UNCHANGED clientVars
    ELSE Step("request", Idle) /\ Answered(Conn("request"), FALSE)

\* The subscription of a cold resume is taken back.
EnsureRevoke ==
  /\ At("request", "revoke")
  /\ Unsubscribe(Conn("request"))
  /\ Goto("request", "respond")
  /\ UNCHANGED <<live, coreVars, lisVars, pend, stop, calls, archived, clientVars>>

\* UnloadingState::new: needs the thread's entry, for its watcher.
EnsureWatch ==
  /\ At("request", "watch")
  /\ IF entry = None THEN EnsureFails
     ELSE /\ Step("request", [proc["request"] EXCEPT !.pc = "listen", !.watch = entry])
          /\ UNCHANGED clientVars
  /\ UNCHANGED <<live, entryVars, coreVars, lisVars, pend, stop, calls, archived>>

\* A new listener task l for the CodexThread inst, in the state of entry e.
SetListener(l, e, inst, watch) ==
  /\ slot' = [slot EXCEPT ![e] = [lis |-> l, gen |-> @.gen + 1, inst |-> inst]]
  /\ lis' = [k \in Ids |->
       IF k = l THEN [NoListener EXCEPT !.pc = "run", !.entry = e, !.gen = slot[e].gen + 1,
                                        !.inst = inst, !.watch = watch, !.seen = had[watch]]
       ELSE IF k = slot[e].lis THEN [lis[k] EXCEPT !.cancelled = TRUE]
       ELSE lis[k]]

\* The entry's state already has a listener of this CodexThread.
ListenerMatches(e, inst) == slot[e].inst = inst

EnsureListener ==
  /\ At("request", "listen")
  /\ LET r == proc["request"] IN
     IF ListenerMatches(r.entry, r.inst)
       THEN UNCHANGED lisVars
       ELSE /\ made < MaxMade /\ made' = made + 1
            /\ SetListener(made', r.entry, r.inst, r.watch)
  /\ Goto("request", IF proc["request"].op = "cold" THEN "respond" ELSE "sender")
  /\ UNCHANGED <<live, entryVars, coreVars, pend, stop, calls, archived, clientVars>>

\* Cold resume answers, whatever became of its subscription.
ColdRespond ==
  /\ At("request", "respond")
  /\ Step("request", Idle) /\ Answered(Conn("request"), TRUE)
  /\ UNCHANGED <<live, entryVars, coreVars, lisVars, pend, stop, calls, archived>>

\* The resume of a running thread takes the listener's sender ...
ResumeSender ==
  /\ At("request", "sender")
  /\ LET l == slot[proc["request"].entry].lis IN
     IF l = None
       THEN Step("request", Idle) /\ Answered(Conn("request"), FALSE)
       ELSE Step("request", [proc["request"] EXCEPT !.pc = "send", !.lis = l]) /\ UNCHANGED clientVars
  /\ UNCHANGED <<live, entryVars, coreVars, lisVars, pend, stop, calls, archived>>

\* ... and leaves the answer to the listener.
ResumeSend ==
  /\ At("request", "send")
  /\ Step("request", Idle)
  /\ LET l == proc["request"].lis IN
     IF lis[l].pc = "done"
       THEN Answered(Conn("request"), FALSE) /\ UNCHANGED lis
       ELSE /\ lis' = [lis EXCEPT ![l].chan = Append(@, Conn("request"))]
            /\ UNCHANGED clientVars
  /\ UNCHANGED <<live, entryVars, coreVars, slot, made, pend, stop, calls, archived>>

-----------------------------------------------------------------------------
(* thread/unsubscribe, thread/archive, thread/unarchive, and connections   *)
(* that close.                                                             *)

HandleUnsubscribe ==
  /\ At("request", "unsubscribe")
  /\ IF mgr = None
       THEN Goto("request", "final") /\ UNCHANGED <<entryVars, resumed>>
       ELSE /\ Step("request", Idle) /\ Unsubscribe(Conn("request"))
            /\ resumed' = resumed \ {Conn("request")}
  /\ UNCHANGED <<live, coreVars, lisVars, pend, stop, calls, archived, asked>>

\* prepare_thread_for_archive.
ArchiveRemove ==
  /\ At("request", "archive")
  /\ mgr' = None
  /\ Step("request", [proc["request"] EXCEPT !.pc = IF mgr = None THEN "final" ELSE "shut",
                                             !.inst = mgr])
  /\ UNCHANGED <<live, entryVars, loads, up, lisVars, pend, stop, calls, archived, clientVars>>

\* The wait for the shutdown ends: complete, failed or timed out.
ArchiveShut ==
  /\ At("request", "shut")
  /\ Goto("request", "final")
  /\ UNCHANGED <<live, entryVars, coreVars, lisVars, pend, stop, calls, archived, clientVars>>

HandleUnarchive ==
  /\ At("request", "unarchive")
  /\ archived' = FALSE /\ Step("request", Idle)
  /\ UNCHANGED <<live, entryVars, coreVars, lisVars, pend, stop, calls, clientVars>>

\* finalize_thread_teardown, in three steps.
FinalUnpend(p) ==
  /\ At(p, "final")
  /\ pend' = FALSE
  /\ Goto(p, "remove")
  /\ UNCHANGED <<live, entryVars, coreVars, lisVars, stop, calls, archived, clientVars>>

FinalRemove(p) ==
  /\ At(p, "remove")
  /\ RemoveEntry
  /\ Step(p, [proc[p] EXCEPT !.pc = "clear", !.entry = entry])
  /\ UNCHANGED <<live, coreVars, lisVars, pend, stop, calls, archived, clientVars>>

FinalClear(p) ==
  /\ At(p, "clear")
  /\ slot' = Cleared(proc[p].entry) /\ lis' = CancelOf(proc[p].entry)
  /\ archived' = (archived \/ proc[p].op = "archive")
  /\ resumed' = IF proc[p].op = "archive" THEN {} ELSE resumed
  /\ Step(p, Idle)
  /\ UNCHANGED <<live, entryVars, coreVars, made, pend, stop, calls, asked>>

\* connection_closed, after the handlers of the connection are done: the
\* thread is torn down if this was its last subscriber and it is not loaded.
CloseConnection(c) ==
  /\ At("close", "idle") /\ c \in live
  /\ ~(proc["request"].pc # "idle" /\ Conn("request") = c)
  /\ live' = live \ {c}
  /\ Unsubscribe(c)
  /\ asked' = asked \ {c} /\ resumed' = resumed \ {c}
  /\ IF c \in subs /\ subs' = {}
       THEN Step("close", [Idle EXCEPT !.pc = "gone", !.op = "close", !.conn = c])
       ELSE UNCHANGED proc
  /\ UNCHANGED <<coreVars, lisVars, pend, stop, calls, archived>>

CloseTeardown ==
  /\ At("close", "gone")
  /\ IF mgr = None THEN Goto("close", "final") ELSE Step("close", Idle)
  /\ UNCHANGED <<live, entryVars, coreVars, lisVars, pend, stop, calls, archived, clientVars>>

-----------------------------------------------------------------------------
(* The listener task: cancel, then commands, then events, then the unload  *)
(* trigger (a biased select).                                              *)

Running(l) == lis[l].pc = "run"
Leaves(l) == lis' = [lis EXCEPT ![l].pc = "exit"]
LisFrame == UNCHANGED <<live, coreVars, made, calls, archived, proc>>

ListenerCancelled(l) ==
  /\ Running(l) /\ lis[l].cancelled
  /\ Leaves(l)
  /\ LisFrame /\ UNCHANGED <<entryVars, slot, pend, stop, clientVars>>

\* handle_pending_thread_resume_request: the connection is subscribed under
\* the lock of the pending unloads, and answered.
ListenerResume(l) ==
  /\ Running(l) /\ ~lis[l].cancelled /\ lis[l].chan # <<>>
  /\ LET c == Head(lis[l].chan) IN
     IF pend THEN Answered(c, FALSE) /\ UNCHANGED entryVars
     ELSE IF ~MaySubscribe(c) THEN UNCHANGED <<entryVars, clientVars>>
     ELSE Subscribe({c}) /\ Answered(c, TRUE)
  /\ lis' = [lis EXCEPT ![l].chan = Tail(@)]
  /\ LisFrame /\ UNCHANGED <<slot, pend, stop>>

\* next_event fails once the session loop is gone.
ListenerEventsEnd(l) ==
  /\ Running(l) /\ ~lis[l].cancelled /\ lis[l].chan = <<>>
  /\ lis[l].inst \notin up
  /\ Leaves(l)
  /\ LisFrame /\ UNCHANGED <<entryVars, slot, pend, stop, clientVars>>

\* sync_receiver_values: a change of the watched value restarts the delay.
Synced(r) ==
  IF r.seen = had[r.watch] THEN r
  ELSE [r EXCEPT !.seen = had[r.watch], !.elapsed = FALSE]

DelayOver(r) == ~r.seen /\ r.elapsed

ListenerSync(l) ==
  /\ Running(l) /\ Synced(lis[l]) # lis[l]
  /\ lis' = [lis EXCEPT ![l] = Synced(@)]
  /\ LisFrame /\ UNCHANGED <<entryVars, slot, pend, stop, clientVars>>

\* The unload delay passes without a subscriber that the listener noticed.
DelayPasses(l) ==
  /\ Running(l) /\ ~lis[l].seen /\ ~lis[l].elapsed
  /\ lis' = [lis EXCEPT ![l].elapsed = TRUE]
  /\ LisFrame /\ UNCHANGED <<entryVars, slot, pend, stop, clientVars>>

\* wait_for_unloading_trigger: the delay is over, or the watcher is closed.
ListenerTrigger(l) ==
  /\ Running(l) /\ ~lis[l].cancelled /\ lis[l].chan = <<>>
  /\ LET r == Synced(lis[l]) IN
     \/ DelayOver(r) /\ lis' = [lis EXCEPT ![l] = [r EXCEPT !.pc = "unload"]]
     \/ ~DelayOver(r) /\ entry # r.watch /\ lis' = [lis EXCEPT ![l] = [r EXCEPT !.pc = "exit"]]
  /\ LisFrame /\ UNCHANGED <<entryVars, slot, pend, stop, clientVars>>

\* Under the lock of the pending unloads, check again and claim the unload;
\* a running agent, too, sends the listener back to its loop.
ListenerClaim(l) ==
  /\ lis[l].pc = "unload"
  /\ LET r == Synced(lis[l]) IN
     \/ /\ ~pend /\ DelayOver(r)
        /\ pend' = TRUE /\ lis' = [lis EXCEPT ![l] = [r EXCEPT !.pc = "remove"]]
     \/ /\ lis' = [lis EXCEPT ![l] = [r EXCEPT !.pc = "run", !.elapsed = FALSE]]
        /\ UNCHANGED pend
  /\ LisFrame /\ UNCHANGED <<entryVars, slot, stop, clientVars>>

\* unload_thread_without_subscribers.
UnloadRemove(l) ==
  /\ lis[l].pc = "remove"
  /\ RemoveEntry
  /\ lis' = [lis EXCEPT ![l].pc = "clear", ![l].gone = entry]
  /\ LisFrame /\ UNCHANGED <<slot, pend, stop, clientVars>>

UnloadClear(l) ==
  /\ lis[l].pc = "clear"
  /\ slot' = Cleared(lis[l].gone)
  /\ lis' = [CancelOf(lis[l].gone) EXCEPT ![l].pc = "exit"]
  /\ stop' = [stop EXCEPT ![l] = "wait"]
  /\ LisFrame /\ UNCHANGED <<entryVars, pend, clientVars>>

\* Variant with a fault: a listener that ends clears whatever is registered.
RegisteredAlways(l) == TRUE

\* The state of the listener's entry still has the listener's generation.
Registered(l) == slot[lis[l].entry].gen = lis[l].gen

\* The task ends: it clears its own registration, and what is left in its
\* channel is dropped without an answer.
ListenerExit(l) ==
  /\ lis[l].pc = "exit"
  /\ LET e == IF Registered(l) THEN lis[l].entry ELSE None IN
     /\ slot' = Cleared(e)
     /\ lis' = [CancelOf(e) EXCEPT ![l].pc = "done", ![l].chan = <<>>]
  /\ LisFrame /\ UNCHANGED <<entryVars, pend, stop, clientVars>>

-----------------------------------------------------------------------------
(* The end of an unload, and of a CodexThread.                             *)

StopFrame == UNCHANGED <<live, entryVars, loads, up, lisVars, calls, archived, proc, asked>>

\* The shutdown is complete: the thread is removed from the manager, and
\* every client is told that it is closed.
StopComplete(l) ==
  /\ stop[l] = "wait" /\ lis[l].inst \notin up
  /\ mgr' = None
  /\ resumed' = IF mgr # None THEN {} ELSE resumed
  /\ stop' = [stop EXCEPT ![l] = "unpend"]
  /\ StopFrame /\ UNCHANGED pend

\* Variant with a fault: the pending unload is not taken back.
ReleaseForgotten == UNCHANGED pend

ReleaseUnload == pend' = FALSE

StopUnpend(l) ==
  /\ stop[l] = "unpend"
  /\ ReleaseUnload /\ stop' = [stop EXCEPT ![l] = "done"]
  /\ StopFrame /\ UNCHANGED <<mgr, resumed>>

\* The shutdown fails or takes longer than its timeout: the thread stays.
StopGivesUp(l) ==
  /\ "timeout" \in Allowed /\ stop[l] = "wait"
  /\ pend' = FALSE /\ stop' = [stop EXCEPT ![l] = "done"]
  /\ StopFrame /\ UNCHANGED <<mgr, resumed>>

ShutdownAsked(i) ==
  \/ At("request", "shut") /\ proc["request"].inst = i
  \/ \E l \in Ids : stop[l] # "none" /\ lis[l].inst = i

SessionEnds(i) ==
  /\ i \in up /\ ShutdownAsked(i)
  /\ up' = up \ {i}
  /\ UNCHANGED <<live, entryVars, mgr, loads, lisVars, pend, stop, proc, calls, archived, clientVars>>

Handle ==
  \/ ResumeStart \/ ResumeFind \/ ResumeState \/ ResumeLoad
  \/ EnsureGet \/ EnsureSubscribed \/ EnsureWatch \/ EnsureRevoke \/ EnsureListener
  \/ ColdRespond \/ ResumeSender \/ ResumeSend
  \/ HandleUnsubscribe \/ ArchiveRemove \/ ArchiveShut \/ HandleUnarchive
Teardown(p) == FinalUnpend(p) \/ FinalRemove(p) \/ FinalClear(p)
Listener(l) ==
  \/ ListenerCancelled(l) \/ ListenerResume(l) \/ ListenerEventsEnd(l)
  \/ ListenerSync(l) \/ ListenerTrigger(l) \/ ListenerClaim(l)
  \/ UnloadRemove(l) \/ UnloadClear(l) \/ ListenerExit(l)
Stop(l) == StopComplete(l) \/ StopUnpend(l) \/ StopGivesUp(l)

Next ==
  \/ \E c \in Conns : BeginResume(c) \/ CloseConnection(c)
  \/ \E c \in Conns, op \in Allowed \ {"timeout"} : BeginOther(c, op)
  \/ Handle \/ CloseTeardown
  \/ \E p \in Procs : Teardown(p)
  \/ \E l \in Ids : Listener(l) \/ DelayPasses(l) \/ Stop(l)
  \/ \E i \in Ids : SessionEnds(i)

Spec == Init /\ [][Next]_vars
FairSpec ==
  /\ Spec
  /\ WF_vars(Handle) /\ WF_vars(CloseTeardown)
  /\ \A p \in Procs : WF_vars(Teardown(p))
  /\ \A l \in Ids : WF_vars(Listener(l)) /\ WF_vars(Stop(l))

-----------------------------------------------------------------------------
(* Properties.                                                             *)

\* Every variable has its type; no entry, no subscribers; and a ThreadState has a
\* listener exactly when it names the CodexThread listened to, as listener_matches needs.
TypeOK ==
  /\ live \subseteq Conns /\ subs \subseteq Conns /\ entries \in 0..MaxMade
  /\ entry \in 0..entries /\ (entry = None => subs = {})
  /\ had \in [Ids -> BOOLEAN]
  /\ slot \in [Ids -> [lis : 0..MaxMade, gen : 0..MaxMade, inst : 0..MaxMade]]
  /\ \A e \in Ids : slot[e].lis = None <=> slot[e].inst = None
  /\ mgr \in 0..loads /\ loads \in 0..MaxMade /\ up \subseteq 1..loads
  /\ pend \in BOOLEAN /\ made \in 0..MaxMade
  /\ lis \in [Ids -> [pc : {"none", "run", "unload", "remove", "clear", "exit", "done"},
       entry : 0..MaxMade, gen : 0..MaxMade, inst : 0..MaxMade, watch : 0..MaxMade,
       chan : Seq(Conns), cancelled : BOOLEAN, seen : BOOLEAN, elapsed : BOOLEAN,
       gone : 0..MaxMade]]
  /\ stop \in [Ids -> {"none", "wait", "unpend", "done"}]
  /\ DOMAIN proc = Procs /\ calls \in 0..MaxCalls /\ archived \in BOOLEAN
  /\ asked \subseteq Conns /\ resumed \subseteq Conns

\* A connection that closed is never left among the subscribers, also when its
\* resume request was still on its way to the listener.
SubscribersAreLive == subs \subseteq live

\* A running listener is the one registered in the state it was started from, so that
\* commands go to it and a teardown finds it; or it is cancelled, because a newer one
\* replaced it there or the entry has left the map.  Nothing else stops a listener: an
\* older one that ends late neither unregisters nor cancels its successor.
RunningIsRegistered ==
  \A l \in Ids : Running(l) =>
    LET e == lis[l].entry IN
    IF lis[l].cancelled THEN slot[e].gen > lis[l].gen \/ entry # e ELSE slot[e].lis = l

\* A pending unload ends: completed, failed, timed out or overtaken by an
\* archive, it does not lock the thread for good.
UnloadsEnd == pend ~> ~pend

\* No handler, listener or unload is at work.
Quiet ==
  /\ \A p \in Procs : At(p, "idle")
  /\ \A l \in Ids : /\ lis[l].pc \in {"none", "run", "done"} /\ lis[l].chan = <<>>
                    /\ ~(Running(l) /\ lis[l].cancelled)
                    /\ stop[l] \in {"none", "done"}

\* Not kept by the code (see README.md): the server "unloads it only after it has
\* had no subscribers".
ClaimedUnsubscribed == [][~pend /\ pend' => subs = {}]_vars

\* Not kept by the code (see README.md): a connection whose resume was answered
\* with the thread receives its events.
ResumedIsSubscribed == Quiet => resumed \subseteq subs

\* Not kept by the code (see README.md): every resume request is answered, unless
\* its connection goes.
ResumesAnswered == \A c \in Conns : c \in asked ~> c \notin asked
=============================================================================

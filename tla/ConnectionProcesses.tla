------------------------ MODULE ConnectionProcesses ------------------------
(***************************************************************************)
(* How the app server runs the process/* requests of its connections: one  *)
(* loop takes transport events in order and queues requests by connection  *)
(* and process handle; a drain task per key runs them one at a time,       *)
(* through the gate of their connection; a process has a task that takes   *)
(* controls, and a session entry through which they are sent.  When a      *)
(* connection closes, the loop closes its gate, waits for the handlers in  *)
(* flight and kills the connection's processes.                            *)
(*                                                                         *)
(* Requests are numbered in the order they are sent; a process is named by *)
(* the request that spawned it.  Every process has a streamed stdin.       *)
(* process/resizePty and closeStdin go through the same path as a write    *)
(* that never blocks, and are left out; so are requests without a key.     *)
(***************************************************************************)
EXTENDS Integers, Sequences, FiniteSets

CONSTANTS Connections, Handles,
          MaxRequests,   \* bound: requests sent in a behaviour
          StdinCapacity  \* chunks the writer channel and the pipe hold (128 + the pipe)

None == 0

ASSUME ConstantsAssumption ==
  /\ None \notin Connections
  /\ MaxRequests \in Nat /\ StdinCapacity \in Nat
  /\ IsFiniteSet(Connections) /\ IsFiniteSet(Handles)

VARIABLES
  connected,  \* connections whose client has not left
  sent,       \* number of requests sent
  req,        \* what each request asks
  inbox,      \* transport events the loop has not taken
  loop,       \* the loop: idle, or closing a connection
  known,      \* the loop's connections map
  accepting,  \* gates that let handlers start
  queue,      \* request_serialization_queues; Absent: the key is not in the map
  idle,       \* drain tasks of a key that are about to take a request
  pc,         \* where each request is
  result,     \* what it is answered
  target,     \* the process a control goes to
  sessions,   \* ProcessExecManager.sessions
  proc        \* processes and their tasks

clientVars  == <<connected, sent, req>>
loopVars    == <<inbox, loop, known, accepting>>
queueVars   == <<queue, idle>>
handlerVars == <<pc, result, target>>
procVars    == <<sessions, proc>>
vars == <<clientVars, loopVars, queueVars, handlerVars, procVars>>

Requests == 1..MaxRequests
Keys == Connections \X Handles
Ops == {"spawn", "write", "kill"}
Absent == <<None>>

\* RequestSerializationQueueKey::Process of a request.
Key(r) == <<req[r].conn, req[r].handle>>

\* Steps of a request; in the ones of InFlight its handler holds a gate token.
InFlight == {"start", "spawning", "send", "await", "reply"}
Steps == InFlight \cup {"unsent", "wire", "queued", "popped", "done", "skipped"}
Results == {"none", "ok", "error", "duplicate"}
TaskSteps == {"none", "select", "writing", "draining", "ended", "gone"}

NoRequest == [conn |-> None, handle |-> None, op |-> "spawn", fresh |-> FALSE]
NoProc == [child |-> "none", killed |-> FALSE, stdin |-> 0, task |-> "none",
           chan |-> <<>>, asker |-> None]

Init ==
  /\ connected = Connections /\ sent = 0
  /\ req = [r \in Requests |-> NoRequest]
  /\ inbox = <<>> /\ loop = [step |-> "idle", conn |-> None]
  /\ known = Connections /\ accepting = Connections
  /\ queue = [k \in Keys |-> Absent] /\ idle = [k \in Keys |-> 0]
  /\ pc = [r \in Requests |-> "unsent"]
  /\ result = [r \in Requests |-> "none"]
  /\ target = [r \in Requests |-> None]
  /\ sessions = [k \in Keys |-> None]
  /\ proc = [r \in Requests |-> NoProc]

-----------------------------------------------------------------------------
(* Clients.                                                                *)

\* The client has been told the end of everything it spawned on key k.
SeenEnd(k) ==
  \A r \in 1..sent :
    Key(r) = k /\ req[r].op = "spawn" =>
      /\ pc[r] = "done"
      /\ result[r] = "ok" => proc[r].task \in {"ended", "gone"}

Send(c, h, op) ==
  /\ c \in connected /\ sent < MaxRequests
  /\ sent' = sent + 1
  /\ req' = [req EXCEPT ![sent'] =
               [conn |-> c, handle |-> h, op |-> op, fresh |-> SeenEnd(<<c, h>>)]]
  /\ pc' = [pc EXCEPT ![sent'] = "wire"]
  /\ inbox' = Append(inbox, [kind |-> "request", request |-> sent', conn |-> c])
  /\ UNCHANGED <<connected, loop, known, accepting, queueVars, result, target, procVars>>

\* The transport reports the end of a connection, after its messages.
Disconnect(c) ==
  /\ c \in connected
  /\ connected' = connected \ {c}
  /\ inbox' = Append(inbox, [kind |-> "closed", request |-> None, conn |-> c])
  /\ UNCHANGED <<sent, req, loop, known, accepting, queueVars, handlerVars, procVars>>

-----------------------------------------------------------------------------
(* The loop over transport events.                                         *)

\* RequestSerializationQueues::enqueue: the first request of a key spawns its
\* drain task.
Enqueue(k, r) ==
  IF queue[k] = Absent
    THEN queue' = [queue EXCEPT ![k] = <<r>>] /\ idle' = [idle EXCEPT ![k] = @ + 1]
    ELSE queue' = [queue EXCEPT ![k] = Append(@, r)] /\ UNCHANGED idle

LoopRequest ==
  /\ loop.step = "idle" /\ inbox # <<>> /\ Head(inbox).kind = "request"
  /\ LET r == Head(inbox).request IN
     /\ Enqueue(Key(r), r)
     /\ pc' = [pc EXCEPT ![r] = "queued"]
  /\ inbox' = Tail(inbox)
  /\ UNCHANGED <<clientVars, loop, known, accepting, result, target, procVars>>

\* ConnectionClosed, first half: the connection leaves the map, its gate stops
\* accepting.
LoopClose ==
  /\ loop.step = "idle" /\ inbox # <<>> /\ Head(inbox).kind = "closed"
  /\ LET c == Head(inbox).conn IN
     /\ known' = known \ {c} /\ accepting' = accepting \ {c}
     /\ loop' = [step |-> "wait", conn |-> c]
  /\ inbox' = Tail(inbox)
  /\ UNCHANGED <<clientVars, queueVars, handlerVars, procVars>>

Tokens(c) == {r \in Requests : req[r].conn = c /\ pc[r] \in InFlight}

\* Variant with a fault: handlers in flight are not waited for.
NoWait(c) == {}

WaitedFor(c) == Tokens(c)

LoopWaited ==
  /\ loop.step = "wait" /\ WaitedFor(loop.conn) = {}
  /\ loop' = [loop EXCEPT !.step = "kill"]
  /\ UNCHANGED <<clientVars, inbox, known, accepting, queueVars, handlerVars, procVars>>

\* The task of p receives controls until run_process returns.
Receives(p) == proc[p].task \notin {"ended", "gone"}

Control(op, r) == [op |-> op, from |-> r]

\* ProcessExecManager::connection_closed: the sessions of the connection are
\* removed and their processes sent a Kill nobody awaits.
LoopKill ==
  /\ loop.step = "kill"
  /\ LET mine == {k \in Keys : k[1] = loop.conn /\ sessions[k] # None} IN
     /\ sessions' = [k \in Keys |-> IF k \in mine THEN None ELSE sessions[k]]
     /\ proc' = [p \in Requests |->
          IF (\E k \in mine : sessions[k] = p) /\ Receives(p)
            THEN [proc[p] EXCEPT !.chan = Append(@, Control("kill", None))]
            ELSE proc[p]]
  /\ loop' = [step |-> "idle", conn |-> None]
  /\ UNCHANGED <<clientVars, inbox, known, accepting, queueVars, handlerVars>>

-----------------------------------------------------------------------------
(* Drain tasks and the gate.                                               *)

\* Variant with a fault: the key goes with its last request, not after it.
AfterPopEarly(q) == IF Len(q) = 1 THEN Absent ELSE Tail(q)

AfterPop(q) == Tail(q)

DrainPop(k) ==
  /\ idle[k] > 0 /\ queue[k] \notin {Absent, <<>>}
  /\ idle' = [idle EXCEPT ![k] = @ - 1]
  /\ queue' = [queue EXCEPT ![k] = AfterPop(queue[k])]
  /\ pc' = [pc EXCEPT ![Head(queue[k])] = "popped"]
  /\ UNCHANGED <<clientVars, loopVars, result, target, procVars>>

DrainEnd(k) ==
  /\ idle[k] > 0 /\ queue[k] \in {Absent, <<>>}
  /\ idle' = [idle EXCEPT ![k] = @ - 1]
  /\ queue' = [queue EXCEPT ![k] = Absent]
  /\ UNCHANGED <<clientVars, loopVars, handlerVars, procVars>>

\* Variant with a fault: the drain task ends with the request it ran.
ResumesNever(r) == UNCHANGED queueVars

\* The drain task goes on after the request it ran.
Resumes(r) == idle' = [idle EXCEPT ![Key(r)] = @ + 1] /\ UNCHANGED queue

\* Variant with a fault: the gate lets every queued handler start.
EnterAlways(c) == TRUE

Enter(c) == c \in accepting

\* ConnectionRpcGate::run: take a token, or return without running.
GateRun(r) ==
  /\ pc[r] = "popped"
  /\ IF Enter(req[r].conn)
       THEN pc' = [pc EXCEPT ![r] = "start"] /\ UNCHANGED queueVars
       ELSE pc' = [pc EXCEPT ![r] = "skipped"] /\ Resumes(r)
  /\ UNCHANGED <<clientVars, loopVars, result, target, procVars>>

\* The handler answers and drops its token.
Finish(r, res) ==
  /\ pc' = [pc EXCEPT ![r] = "done"]
  /\ result' = [result EXCEPT ![r] = res]
  /\ Resumes(r)
  /\ UNCHANGED target

-----------------------------------------------------------------------------
(* Handlers.                                                               *)

\* Variant with a fault: a handle in use is taken over.
FreeAlways(k) == TRUE

Free(k) == sessions[k] = None

\* process/spawn registers the handle before it spawns.
SpawnRegister(r) ==
  /\ pc[r] = "start" /\ req[r].op = "spawn"
  /\ IF Free(Key(r))
       THEN /\ sessions' = [sessions EXCEPT ![Key(r)] = r]
            /\ pc' = [pc EXCEPT ![r] = "spawning"]
            /\ UNCHANGED <<queueVars, result, target>>
       ELSE Finish(r, "duplicate") /\ UNCHANGED sessions
  /\ UNCHANGED <<clientVars, loopVars, proc>>

\* The process runs: answer, and hand it to its task.
SpawnSucceeds(r) ==
  /\ pc[r] = "spawning"
  /\ proc' = [proc EXCEPT ![r].child = "running", ![r].task = "select"]
  /\ Finish(r, "ok")
  /\ UNCHANGED <<clientVars, loopVars, sessions>>

SpawnFails(r) ==
  /\ pc[r] = "spawning"
  /\ sessions' = [sessions EXCEPT ![Key(r)] = None]
  /\ Finish(r, "error")
  /\ UNCHANGED <<clientVars, loopVars, proc>>

\* send_control looks the session up ...
ControlLookup(r) ==
  /\ pc[r] = "start" /\ req[r].op # "spawn"
  /\ IF sessions[Key(r)] = None
       THEN Finish(r, "error")
       ELSE /\ target' = [target EXCEPT ![r] = sessions[Key(r)]]
            /\ pc' = [pc EXCEPT ![r] = "send"]
            /\ UNCHANGED <<queueVars, result>>
  /\ UNCHANGED <<clientVars, loopVars, procVars>>

\* ... sends, and awaits the answer of the process's task.
ControlSend(r) ==
  /\ pc[r] = "send"
  /\ LET p == target[r] IN
     IF Receives(p)
       THEN /\ proc' = [proc EXCEPT ![p].chan = Append(@, Control(req[r].op, r))]
            /\ pc' = [pc EXCEPT ![r] = "await"]
            /\ UNCHANGED <<queueVars, result, target>>
       ELSE Finish(r, "error") /\ UNCHANGED proc
  /\ UNCHANGED <<clientVars, loopVars, sessions>>

ControlReply(r) ==
  /\ pc[r] = "reply"
  /\ Finish(r, result[r])
  /\ UNCHANGED <<clientVars, loopVars, procVars>>

-----------------------------------------------------------------------------
(* The task of a process: run_process.                                     *)

\* The requests in rs get result res from the task.
Reply(rs, res) ==
  /\ pc' = [r \in Requests |-> IF r \in rs THEN "reply" ELSE pc[r]]
  /\ result' = [r \in Requests |-> IF r \in rs THEN res ELSE result[r]]
  /\ UNCHANGED target

TaskFrame == UNCHANGED <<clientVars, loopVars, queueVars>>

TaskKill(p) ==
  /\ proc[p].task = "select" /\ proc[p].chan # <<>> /\ Head(proc[p].chan).op = "kill"
  /\ proc' = [proc EXCEPT ![p].chan = Tail(@), ![p].killed = TRUE]
  /\ Reply({Head(proc[p].chan).from} \ {None}, "ok")
  /\ TaskFrame /\ UNCHANGED sessions

TaskWrite(p) ==
  /\ proc[p].task = "select" /\ proc[p].chan # <<>> /\ Head(proc[p].chan).op = "write"
  /\ proc' = [proc EXCEPT ![p].chan = Tail(@), ![p].task = "writing",
                          ![p].asker = Head(proc[p].chan).from]
  /\ TaskFrame /\ UNCHANGED <<sessions, handlerVars>>

\* Variant with a fault: the writer channel is unbounded.
RoomAlways(p) == TRUE

Room(p) == proc[p].stdin < StdinCapacity

\* handle_process_write: inside the select arm the task waits for room in the
\* writer channel.  The writer of an exited process discards what it gets.
TaskWritten(p) ==
  /\ proc[p].task = "writing"
  /\ Room(p)
  /\ proc' = [proc EXCEPT ![p].task = "select", ![p].asker = None,
                          ![p].stdin = IF proc[p].child = "exited" THEN 0 ELSE @ + 1]
  /\ Reply({proc[p].asker}, "ok")
  /\ TaskFrame /\ UNCHANGED sessions

\* The timeout, where the process has one.
TaskExpires(p) ==
  /\ proc[p].task = "select" /\ ~proc[p].killed
  /\ proc' = [proc EXCEPT ![p].killed = TRUE]
  /\ TaskFrame /\ UNCHANGED <<sessions, handlerVars>>

TaskExit(p) ==
  /\ proc[p].task = "select" /\ proc[p].child = "exited"
  /\ proc' = [proc EXCEPT ![p].task = "draining"]
  /\ TaskFrame /\ UNCHANGED <<sessions, handlerVars>>

\* Output is collected, process/exited is sent and written to the connection;
\* run_process returns and drops the controls it did not take.
TaskNotify(p) ==
  /\ proc[p].task = "draining"
  /\ proc' = [proc EXCEPT ![p].task = "ended", ![p].chan = <<>>]
  /\ Reply({proc[p].chan[i].from : i \in DOMAIN proc[p].chan} \ {None}, "error")
  /\ TaskFrame /\ UNCHANGED sessions

\* Only then does the handle leave the sessions.
TaskRemove(p) ==
  /\ proc[p].task = "ended"
  /\ proc' = [proc EXCEPT ![p].task = "gone"]
  /\ sessions' = [sessions EXCEPT ![Key(p)] = None]
  /\ TaskFrame /\ UNCHANGED handlerVars

-----------------------------------------------------------------------------
(* The child process.                                                      *)

ChildReads(p) ==
  /\ proc[p].child = "running" /\ proc[p].stdin > 0
  /\ proc' = [proc EXCEPT ![p].stdin = @ - 1]
  /\ UNCHANGED <<clientVars, loopVars, queueVars, handlerVars, sessions>>

ChildExits(p) ==
  /\ proc[p].child = "running"
  /\ proc' = [proc EXCEPT ![p].child = "exited", ![p].stdin = 0]
  /\ UNCHANGED <<clientVars, loopVars, queueVars, handlerVars, sessions>>

ChildKilled(p) == proc[p].killed /\ ChildExits(p)

Loop == LoopRequest \/ LoopClose \/ LoopWaited \/ LoopKill
Drain(k) == DrainPop(k) \/ DrainEnd(k)
Handler(r) ==
  \/ GateRun(r)
  \/ SpawnRegister(r) \/ SpawnSucceeds(r) \/ SpawnFails(r)
  \/ ControlLookup(r) \/ ControlSend(r) \/ ControlReply(r)
Task(p) ==
  \/ TaskKill(p) \/ TaskWrite(p) \/ TaskWritten(p)
  \/ TaskExit(p) \/ TaskNotify(p) \/ TaskRemove(p)

Next ==
  \/ \E c \in Connections, h \in Handles, op \in Ops : Send(c, h, op)
  \/ \E c \in Connections : Disconnect(c)
  \/ Loop
  \/ \E k \in Keys : Drain(k)
  \/ \E r \in Requests : Handler(r) \/ Task(r) \/ TaskExpires(r)
  \/ \E p \in Requests : ChildReads(p) \/ ChildExits(p)

Spec == Init /\ [][Next]_vars

\* The runtime runs every task that can go on, a killed process exits.
Fairness ==
  /\ WF_vars(Loop)
  /\ \A k \in Keys : WF_vars(Drain(k))
  /\ \A r \in Requests : WF_vars(Handler(r)) /\ WF_vars(Task(r)) /\ WF_vars(ChildKilled(r))
FairSpec == Spec /\ Fairness

\* ... and every process reads its stdin.
ReadingSpec == FairSpec /\ \A p \in Requests : WF_vars(ChildReads(p))

-----------------------------------------------------------------------------
TypeOK ==
  /\ connected \subseteq Connections /\ known \subseteq Connections
  /\ accepting \subseteq Connections /\ sent \in 0..MaxRequests
  /\ req \in [Requests -> [conn : Connections \cup {None}, handle : Handles \cup {None},
                       op : Ops, fresh : BOOLEAN]]
  /\ inbox \in Seq([kind : {"request", "closed"}, request : Requests \cup {None}, conn : Connections])
  /\ loop \in [step : {"idle", "wait", "kill"}, conn : Connections \cup {None}]
  /\ queue \in [Keys -> {Absent} \cup Seq(Requests)] /\ idle \in [Keys -> 0..1]
  /\ pc \in [Requests -> Steps] /\ result \in [Requests -> Results]
  /\ target \in [Requests -> Requests \cup {None}]
  /\ sessions \in [Keys -> Requests \cup {None}]
  /\ proc \in [Requests ->
       [child : {"none", "running", "exited"}, killed : BOOLEAN, stdin : 0..StdinCapacity,
        task : TaskSteps, chan : Seq([op : Ops, from : Requests \cup {None}]),
        asker : Requests \cup {None}]]

Closed(c) == c \notin known /\ loop.conn # c

\* The requests of one key run one at a time, in the order they were sent:
\* while one is in flight, every later one still waits behind it.
OneAtATime ==
  \A r \in Requests : pc[r] \in InFlight \cup {"popped"} =>
    \A s \in (r + 1)..sent :
      Key(s) = Key(r) => pc[s] \in {"wire", "queued"}

\* As long as its connection is there, a running process can be reached: the
\* handle it was spawned with leads to it, however often the handle is reused.
RunningIsReachable ==
  \A p \in Requests :
    proc[p].child = "running" /\ ~Closed(req[p].conn) => sessions[Key(p)] = p

\* Once a connection is closed none of its handlers runs or will run, and each
\* of its processes has exited, is being killed or has a Kill in its queue.
ClosedLeavesNothing ==
  \A r \in Requests : Closed(req[r].conn) /\ r <= sent =>
    /\ pc[r] \notin InFlight
    /\ proc[r].child = "running" =>
         \/ proc[r].killed
         \/ \E i \in DOMAIN proc[r].chan : proc[r].chan[i].op = "kill"

\* Not kept by the code (see README.md): "the same handle can be reused after the prior process exits".
ReusableAfterExit ==
  \A r \in Requests : req[r].fresh => result[r] # "duplicate"

\* Every request is answered, unless its connection goes.
RequestsAnswered ==
  \A r \in Requests :
    pc[r] = "wire" ~> (pc[r] = "done" \/ req[r].conn \notin connected)

\* README: "If the originating connection closes, the server terminates the
\* process."
ClosedTerminates ==
  \A p \in Requests :
    (proc[p].child = "running" /\ req[p].conn \notin connected)
      ~> proc[p].child = "exited"
=============================================================================

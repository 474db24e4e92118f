--------------------------- MODULE RolloutWriter ---------------------------
(***************************************************************************)
(* The recorder of one thread's rollout file: callers queue commands on a  *)
(* bounded channel, one writer task takes them in order, writes its        *)
(* pending items line by line and, after a failed write, reopens the file  *)
(* and tries once more.                                                    *)
(*                                                                         *)
(* An item is named by its position in the order of recording, the session *)
(* meta line is 0.  A line is one write; a write that fails may leave a    *)
(* fragment without a newline, and the next line then continues it.        *)
(***************************************************************************)
EXTENDS Integers, Sequences

CONSTANTS Callers,    \* concurrent users of persist, flush and shutdown
          Capacity,   \* of the command channel (256 in the code)
          MaxItems,   \* bound: items recorded in a behaviour
          MaxBatch,   \* bound: items of one record_items call
          Faults,     \* what may go wrong
          None

FaultNames == {"fail", "tear", "crash"}

ASSUME BoundsAssumption ==
  /\ Capacity \in Nat \ {0} /\ MaxItems \in Nat /\ MaxBatch \in Nat
  /\ Faults \subseteq FaultNames
  /\ None \notin Callers

VARIABLES
  chan,       \* commands queued for the writer task
  running,    \* the writer task receives commands
  deferred,   \* deferred_log_file_info is Some: the file was never opened
  open,       \* RolloutWriterState.writer is Some
  meta,       \* RolloutWriterState.meta is Some: the meta line is not written
  pending,    \* RolloutWriterState.pending_items
  written,    \* written_count of write_pending_items_once
  stage,      \* where the writer task is
  attempt,    \* first or second write_pending_once
  cmd,        \* the command being processed
  file,       \* lines of the rollout file
  torn,       \* the file ends in a fragment
  indexed,    \* items the state database has been told about
  waiting,    \* callers that await their ack
  recorded,   \* number of items recorded
  confirmed   \* largest number of items covered by a successful ack

writerVars == <<deferred, open, meta, pending, written, stage, attempt, cmd>>
diskVars   == <<file, torn, indexed>>
callVars   == <<waiting, recorded, confirmed>>
vars == <<chan, running, writerVars, diskVars, callVars>>

MetaLine == 0
Stages == {"recv", "open", "meta", "items", "flush"}
Ops == {"add", "persist", "flush", "shutdown"}

\* A command; `upto` is how many items were recorded when it was queued.
Command(op, items, upto, who) ==
  [op |-> op, items |-> items, upto |-> upto, who |-> who]
Commands == [op : Ops, items : Seq(Nat), upto : Nat, who : Callers \cup {None}]
NoCmd == Command("add", <<>>, 0, None)

\* A recorder of a new thread: nothing is on disk, the file is not created.
Init ==
  /\ chan = <<>> /\ running = TRUE
  /\ deferred = TRUE /\ open = FALSE /\ meta = TRUE
  /\ pending = <<>> /\ written = 0
  /\ stage = "recv" /\ attempt = 1 /\ cmd = NoCmd
  /\ file = <<>> /\ torn = FALSE /\ indexed = 0
  /\ waiting = {} /\ recorded = 0 /\ confirmed = 0

Stored == IF file = <<>> THEN 0 ELSE Len(file) - 1

-----------------------------------------------------------------------------
(* Callers.                                                                *)

\* record_items: k items that survive the persistence filter are queued.
RecordItems(k) ==
  /\ running /\ Len(chan) < Capacity
  /\ recorded + k <= MaxItems
  /\ recorded' = recorded + k
  /\ chan' = Append(chan, Command("add", [i \in 1..k |-> recorded + i],
                                  recorded + k, None))
  /\ UNCHANGED <<running, writerVars, diskVars, waiting, confirmed>>

\* persist, flush and shutdown queue a command and await its ack.
Call(c, op) ==
  /\ running /\ Len(chan) < Capacity
  /\ c \notin waiting
  /\ chan' = Append(chan, Command(op, <<>>, recorded, c))
  /\ waiting' = waiting \cup {c}
  /\ UNCHANGED <<running, writerVars, diskVars, recorded, confirmed>>

-----------------------------------------------------------------------------
(* The writer task.                                                        *)

IsDeferred == ~open /\ deferred

\* Variant with a fault: the callers behind a shutdown are not released.
AnswerOnlyOwn(c, ok) ==
  /\ confirmed' = IF ok /\ c.op # "add" /\ c.upto > confirmed THEN c.upto ELSE confirmed
  /\ waiting' = waiting \ {c.who}
  /\ running' = (running /\ ~(ok /\ c.op = "shutdown"))

\* The ack of command c; the commands queued behind a successful shutdown are
\* dropped with the channel, and their callers get an error.
Answer(c, ok) ==
  /\ confirmed' = IF ok /\ c.op # "add" /\ c.upto > confirmed THEN c.upto ELSE confirmed
  /\ IF ok /\ c.op = "shutdown"
       THEN running' = FALSE /\ waiting' = {}
       ELSE waiting' = waiting \ {c.who} /\ UNCHANGED running

\* Variant with a fault: a deferred recorder acknowledges every flush.
NeedsNoWriteDeferred(c) == c.op # "persist" /\ IsDeferred

\* A command that needs no write: items for a file that is still deferred, or
\* a flush or shutdown of a deferred recorder without pending items.
NeedsNoWrite(c) ==
  \/ c.op = "add" /\ IsDeferred
  \/ c.op \in {"flush", "shutdown"} /\ IsDeferred /\ pending = <<>>

Receive ==
  /\ running /\ stage = "recv" /\ chan # <<>>
  /\ LET c == Head(chan) IN
     /\ cmd' = c
     /\ pending' = pending \o c.items
     /\ attempt' = 1
     /\ IF NeedsNoWrite(c)
          THEN /\ Answer(c, TRUE)
               /\ chan' = IF running' THEN Tail(chan) ELSE <<>>
               /\ UNCHANGED stage
          ELSE /\ stage' = "open" /\ chan' = Tail(chan)
               /\ UNCHANGED <<running, waiting, confirmed>>
  /\ UNCHANGED <<deferred, open, meta, written, diskVars, recorded>>

\* What a step of write_pending_once leaves alone.
WriteFrame == UNCHANGED <<cmd, recorded>>
StayInCall == UNCHANGED <<attempt, chan, running, waiting, confirmed>>

\* write_pending_once failed: drop the handle, keep what is unwritten; retry
\* once, then report the error and stay alive.
AttemptFails ==
  /\ "fail" \in Faults
  /\ open' = FALSE
  /\ IF attempt = 1
       THEN /\ attempt' = 2 /\ stage' = "open"
            /\ UNCHANGED <<chan, running, waiting, confirmed>>
       ELSE /\ stage' = "recv"
            /\ Answer(cmd, FALSE)
            /\ UNCHANGED <<attempt, chan>>
  /\ WriteFrame

\* ensure_writer_open: opens for appending, creating the file.
EnsureOpen ==
  /\ stage = "open"
  /\ open' = TRUE /\ deferred' = FALSE /\ stage' = "meta"
  /\ UNCHANGED <<meta, pending, written, diskVars>>
  /\ WriteFrame /\ StayInCall

OpenFails ==
  /\ stage = "open" /\ ~open
  /\ AttemptFails
  /\ UNCHANGED <<deferred, meta, pending, written, diskVars>>

\* One line appended to the file: it continues a fragment, if there is one.
AppendLine(l) ==
  /\ file' = Append(file, [line |-> l, intact |-> ~torn])
  /\ torn' = FALSE

\* A failed write leaves nothing, or a fragment.
LineFails ==
  /\ torn' \in (IF "tear" \in Faults THEN {torn, TRUE} ELSE {torn})
  /\ UNCHANGED file

\* write_session_meta_if_needed.
WriteMeta ==
  /\ stage = "meta"
  /\ IF meta THEN AppendLine(MetaLine) ELSE UNCHANGED <<file, torn>>
  /\ meta' = FALSE /\ stage' = "items"
  /\ UNCHANGED <<deferred, open, pending, written, indexed>>
  /\ WriteFrame /\ StayInCall

MetaFails ==
  /\ stage = "meta" /\ meta
  /\ LineFails
  /\ AttemptFails
  /\ UNCHANGED <<deferred, meta, pending, written, indexed>>

\* write_pending_items_once, its loop.
WriteItem ==
  /\ stage = "items" /\ written < Len(pending)
  /\ AppendLine(pending[written + 1])
  /\ written' = written + 1
  /\ UNCHANGED <<deferred, open, meta, pending, stage, indexed>>
  /\ WriteFrame /\ StayInCall

\* Variant with a fault: an error keeps the whole batch for the retry.
KeepAll ==
  /\ written' = 0
  /\ pending' = IF written = Len(pending) THEN <<>> ELSE pending
  /\ UNCHANGED indexed

\* Variant with a fault: an error drops the whole batch.
DropAll == pending' = <<>> /\ written' = 0 /\ UNCHANGED indexed

\* Variant with a fault: the count of written items is not reset.
KeepCount ==
  /\ pending' = SubSeq(pending, written + 1, Len(pending))
  /\ UNCHANGED <<written, indexed>>

\* The end of write_pending_items_once: what was written leaves the pending
\* items and is applied to the state database (whose failure is only logged).
DropWritten ==
  /\ pending' = SubSeq(pending, written + 1, Len(pending))
  /\ written' = 0
  /\ indexed' \in (IF written > 0 THEN {indexed, Stored} ELSE {indexed})

ItemFails ==
  /\ stage = "items" /\ written < Len(pending)
  /\ LineFails
  /\ DropWritten
  /\ AttemptFails
  /\ UNCHANGED <<deferred, meta>>

ItemsDone ==
  /\ stage = "items" /\ written = Len(pending)
  /\ DropWritten
  /\ stage' = "flush"
  /\ UNCHANGED <<deferred, open, meta, file, torn>>
  /\ WriteFrame /\ StayInCall

\* The final flush of the file; the command is done.
FlushFile ==
  /\ stage = "flush"
  /\ stage' = "recv"
  /\ Answer(cmd, TRUE)
  /\ chan' = IF running' THEN chan ELSE <<>>
  /\ UNCHANGED <<deferred, open, meta, pending, written, attempt, diskVars>>
  /\ WriteFrame

FlushFails ==
  /\ stage = "flush"
  /\ AttemptFails
  /\ UNCHANGED <<deferred, meta, pending, written, diskVars>>

-----------------------------------------------------------------------------
(* The process dies and the thread is resumed from the file.               *)

\* Everything in memory goes; a write under way may leave a fragment.
Crash ==
  /\ "crash" \in Faults
  /\ running' = FALSE /\ chan' = <<>> /\ waiting' = {}
  /\ pending' = <<>> /\ written' = 0 /\ stage' = "recv"
  /\ open' = FALSE /\ cmd' = NoCmd /\ attempt' = 1
  /\ IF \/ stage = "meta" /\ meta
        \/ stage = "items" /\ written < Len(pending)
       THEN LineFails ELSE UNCHANGED <<file, torn>>
  /\ recorded' = Stored
  /\ UNCHANGED <<deferred, meta, indexed, confirmed>>

\* RolloutRecorderParams::Resume: the history is read (it needs a readable
\* meta line), the file is opened for appending, no meta line is due.
Resume ==
  /\ ~running
  /\ \E i \in DOMAIN file : file[i] = [line |-> MetaLine, intact |-> TRUE]
  /\ running' = TRUE /\ open' = TRUE /\ deferred' = FALSE /\ meta' = FALSE
  /\ pending' = <<>> /\ written' = 0 /\ stage' = "recv"
  /\ cmd' = NoCmd /\ attempt' = 1
  /\ recorded' = Stored
  /\ UNCHANGED <<chan, diskVars, waiting, confirmed>>

Client ==
  \/ \E k \in 1..MaxBatch : RecordItems(k)
  \/ \E c \in Callers, op \in Ops \ {"add"} : Call(c, op)

Writer ==
  \/ Receive
  \/ EnsureOpen \/ OpenFails
  \/ WriteMeta \/ MetaFails
  \/ WriteItem \/ ItemFails \/ ItemsDone
  \/ FlushFile \/ FlushFails

Next == Client \/ Writer \/ Crash \/ Resume

Spec == Init /\ [][Next]_vars
FairSpec == Spec /\ WF_vars(Writer)

-----------------------------------------------------------------------------
Lines == [line : Nat, intact : BOOLEAN]

TypeOK ==
  /\ chan \in Seq(Commands) /\ running \in BOOLEAN
  /\ deferred \in BOOLEAN /\ open \in BOOLEAN /\ meta \in BOOLEAN
  /\ pending \in Seq(Nat) /\ written \in 0..Len(pending)
  /\ stage \in Stages /\ attempt \in {1, 2} /\ cmd \in Commands
  /\ file \in Seq(Lines) /\ torn \in BOOLEAN /\ indexed \in Nat
  /\ waiting \subseteq Callers /\ recorded \in Nat /\ confirmed \in Nat

\* Whatever fails, is retried, crashes or is resumed, the file holds the meta
\* line and then the recorded items, each once and in the order of recording; the
\* state database is never told of an item that is not in the file.
FileIsPrefix ==
  /\ \A i \in DOMAIN file : file[i].line = i - 1
  /\ Stored <= recorded
  /\ indexed <= Stored

\* A persist, flush or shutdown that answered Ok covers every item that was
\* queued before it: all of them are in the file.
ConfirmedIsStored == confirmed <= Stored

\* The recorder implements the durable log.
Log == INSTANCE DurableLog WITH stored <- Stored
LogSpec == Log!Spec

\* Every caller of persist, flush or shutdown is answered, also by a writer
\* whose disk keeps failing or that shuts down with commands behind it.
CallersAnswered == \A c \in Callers : c \in waiting ~> c \notin waiting

\* Not kept by the code (see README.md): what a barrier confirmed can be read back,
\* as load_rollout_items skips lines it cannot parse.
ConfirmedIsReadable ==
  \A k \in 1..confirmed :
    \E i \in DOMAIN file : file[i].line = k /\ file[i].intact
=============================================================================

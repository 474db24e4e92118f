------------------------ MODULE RolloutWriterProofs ------------------------
(***************************************************************************)
(* The recorder's file holds what was recorded, once and in order, what a  *)
(* barrier confirmed is in it, and the recorder implements DurableLog: for *)
(* any number of callers, items and commands and any pattern of failures.  *)
(***************************************************************************)
EXTENDS RolloutWriter, SequenceTheorems, TLAPS

-----------------------------------------------------------------------------
(* The inductive invariant.                                                *)

\* Items stored before the pending ones, and items the writer has received.
Base  == Stored - written
Taken == Base + Len(pending)

\* Items received or queued before the j-th command of the channel.
Before(j) == IF j = 1 THEN Taken ELSE chan[j - 1].upto

\* The lines are numbered, and the meta line is due exactly while there are none.
FileInv ==
  /\ \A i \in 1..Len(file) : file[i].line = i - 1
  /\ meta <=> file = <<>>

\* The pending items continue the file.
PendingInv ==
  /\ written <= Stored
  /\ \A i \in 1..Len(pending) : pending[i] = Base + i

\* The queued commands continue the pending items.
ChanInv ==
  \A j \in 1..Len(chan) :
    /\ chan[j].upto = Before(j) + Len(chan[j].items)
    /\ \A i \in 1..Len(chan[j].items) : chan[j].items[i] = Before(j) + i
    /\ chan[j].op # "add" => chan[j].items = <<>>
    /\ chan[j].upto <= recorded

\* Nothing recorded is missing from them while the writer runs.
CountInv ==
  /\ running => recorded = IF chan = <<>> THEN Taken ELSE chan[Len(chan)].upto
  /\ Taken <= recorded

\* What each stage of the writer has established.
StageInv ==
  /\ written > 0 => stage = "items"
  /\ stage \in {"items", "flush"} => ~meta
  /\ stage = "flush" => pending = <<>>
  /\ stage # "recv" => running /\ cmd.upto = Taken
  /\ ~running => chan = <<>>

RolloutInv ==
  /\ TypeOK /\ FileInv /\ PendingInv /\ ChanInv /\ CountInv /\ StageInv
  /\ ConfirmedIsStored
  /\ indexed <= Stored

-----------------------------------------------------------------------------
(* Every step of the recorder.                                             *)

\* A recorder just opened satisfies the invariant.
LEMMA InitInv == Init => RolloutInv
<1> SUFFICES ASSUME Init PROVE RolloutInv
  OBVIOUS
<1>1. Stored = 0 /\ Len(file) = 0 /\ Len(pending) = 0 /\ Len(chan) = 0
  BY DEF Init, Stored
<1>2. NoCmd \in Commands
  BY BoundsAssumption DEF NoCmd, Command, Commands, Ops
<1>3. <<>> \in Seq(Commands) /\ <<>> \in Seq(Nat) /\ <<>> \in Seq(Lines)
  BY EmptySeq
<1>4. TypeOK
  <2>1. /\ chan \in Seq(Commands) /\ pending \in Seq(Nat) /\ file \in Seq(Lines)
        /\ written \in 0..Len(pending)
    BY <1>1, <1>3 DEF Init
  <2>2. cmd \in Commands
    BY <1>2 DEF Init
  <2> QED BY <2>1, <2>2, Zenon DEF Init, TypeOK, Stages
<1> QED
  BY <1>1, <1>4 DEF Init, RolloutInv, FileInv, PendingInv, ChanInv, CountInv,
     StageInv, ConfirmedIsStored, Taken, Base, Stored

\* A line appended to a file that has its meta line is one more stored item.
LEMMA AppendStores ==
  ASSUME TypeOK, FileInv, NEW l \in Nat, AppendLine(l)
  PROVE  /\ file' \in Seq(Lines) /\ torn' \in BOOLEAN
         /\ Len(file') = Len(file) + 1 /\ file' # <<>>
         /\ file'[Len(file) + 1].line = l
         /\ \A i \in 1..Len(file) : file'[i] = file[i]
         /\ Stored' = IF file = <<>> THEN 0 ELSE Stored + 1
<1> DEFINE e == [line |-> l, intact |-> ~torn]
<1>1. e \in Lines
  BY DEF TypeOK, Lines
<1>2. file \in Seq(Lines) /\ file' = Append(file, e)
  BY DEF TypeOK, AppendLine
<1> HIDE DEF e
<1>3. /\ Append(file, e) \in Seq(Lines) /\ Append(file, e) # <<>>
      /\ Len(Append(file, e)) = Len(file) + 1
      /\ \A i \in 1..Len(file) : Append(file, e)[i] = file[i]
      /\ Append(file, e)[Len(file) + 1] = e
  BY <1>1, <1>2, AppendProperties
<1>4. Len(file) \in Nat /\ (file = <<>> => Len(file) = 0)
  BY <1>2, LenProperties
<1>5. Stored' = IF file = <<>> THEN 0 ELSE Stored + 1
  BY <1>2, <1>3, <1>4 DEF Stored
<1>6. file'[Len(file) + 1].line = l
  BY <1>2, <1>3 DEF e
<1> QED BY <1>2, <1>3, <1>5, <1>6 DEF AppendLine

\* Stored is a natural number, and so are the sums built from it.
LEMMA Counts ==
  ASSUME TypeOK, PendingInv
  PROVE  /\ Stored \in Nat /\ Len(file) \in Nat /\ Len(pending) \in Nat
         /\ Base \in Nat /\ Taken \in Nat /\ Len(chan) \in Nat
         /\ file = <<>> => Stored = 0
         /\ file # <<>> => Len(file) > 0
         /\ \A j \in 1..Len(chan) : chan[j] \in Commands /\ Len(chan[j].items) \in Nat
<1>1. Len(file) \in Nat /\ (file # <<>> => Len(file) \in Nat \ {0})
  BY LenProperties, EmptySeq DEF TypeOK
<1>2. Len(pending) \in Nat /\ Len(chan) \in Nat
  BY LenProperties DEF TypeOK
<1>3. Stored \in Nat
  BY <1>1 DEF Stored
<1>4. ASSUME NEW j \in 1..Len(chan)
      PROVE  chan[j] \in Commands /\ Len(chan[j].items) \in Nat
  <2>1. chan[j] \in Commands
    BY <1>4, ElementOfSeq DEF TypeOK
  <2>2. chan[j].items \in Seq(Nat)
    BY <2>1 DEF Commands
  <2> QED BY <2>1, <2>2, LenProperties
<1>5. Base \in Nat
  BY <1>2, <1>3 DEF Base, PendingInv, TypeOK
<1> QED BY <1>1, <1>2, <1>3, <1>4, <1>5 DEF Taken, Stored

-----------------------------------------------------------------------------
(* The steps that touch neither the queue nor the items.                   *)

\* A step of the durable log, or none.
LogStep == [Log!Next]_(Log!vars)

\* A step that moves the writer on without touching the file, the queue or the items.
LEMMA StageOnly ==
  ASSUME RolloutInv, TypeOK', StageInv',
         UNCHANGED <<file, pending, written, chan, recorded, confirmed, meta, running,
                     indexed>>
  PROVE  RolloutInv' /\ LogStep
<1>1. Stored' = Stored
  BY DEF Stored
<1>2. Base' = Base /\ Taken' = Taken
  BY <1>1 DEF Base, Taken
<1>3. \A j : Before(j)' = Before(j)
  BY <1>2 DEF Before
<1>4. FileInv' /\ PendingInv' /\ CountInv' /\ ConfirmedIsStored' /\ indexed' <= Stored'
  BY <1>1, <1>2 DEF RolloutInv, FileInv, PendingInv, CountInv, ConfirmedIsStored
<1>5. ChanInv'
  BY <1>3 DEF RolloutInv, ChanInv
<1>6. LogStep
  BY <1>1 DEF LogStep, Log!vars
<1> QED BY <1>4, <1>5, <1>6 DEF RolloutInv

\* A failed attempt is retried, or reported to the caller.
LEMMA FailedAttempt ==
  ASSUME RolloutInv, AttemptFails
  PROVE  /\ UNCHANGED <<chan, running, confirmed, cmd, recorded>>
         /\ open' \in BOOLEAN /\ attempt' \in {1, 2} /\ waiting' \subseteq Callers
         /\ stage' \in {"open", "recv"}
<1>1. CASE attempt = 1
  BY <1>1 DEF RolloutInv, TypeOK, AttemptFails, WriteFrame
<1>2. CASE attempt # 1
  BY <1>2 DEF RolloutInv, TypeOK, AttemptFails, WriteFrame, Answer
<1> QED BY <1>1, <1>2

\* The file is opened or not, the meta line fails, the flush fails: no item moves.
LEMMA OpenSteps ==
  ASSUME RolloutInv, EnsureOpen \/ OpenFails \/ MetaFails \/ FlushFails
  PROVE  RolloutInv' /\ LogStep
<1>1. /\ UNCHANGED <<file, pending, written, chan, recorded, confirmed, meta, running,
                     indexed, cmd>>
      /\ stage # "recv" /\ stage # "items" /\ stage' \in {"open", "meta", "recv"}
      /\ open' \in BOOLEAN /\ deferred' \in BOOLEAN /\ torn' \in BOOLEAN
      /\ attempt' \in {1, 2} /\ waiting' \subseteq Callers
  <2>1. CASE EnsureOpen
    BY <2>1 DEF EnsureOpen, WriteFrame, StayInCall, diskVars, RolloutInv, TypeOK
  <2>2. CASE OpenFails
    BY <2>2, FailedAttempt DEF OpenFails, diskVars, RolloutInv, TypeOK
  <2>3. CASE MetaFails
    <3>1. torn' \in BOOLEAN /\ file' = file
      BY <2>3 DEF MetaFails, LineFails, RolloutInv, TypeOK
    <3> QED BY <2>3, <3>1, FailedAttempt DEF MetaFails, RolloutInv, TypeOK
  <2>4. CASE FlushFails
    BY <2>4, FailedAttempt DEF FlushFails, diskVars, RolloutInv, TypeOK
  <2> QED BY <2>1, <2>2, <2>3, <2>4
<1>2. TypeOK'
  BY <1>1 DEF RolloutInv, TypeOK, Stages
<1>3. written = 0
  BY <1>1 DEF RolloutInv, TypeOK, StageInv
<1>4. Taken' = Taken
  BY <1>1 DEF Taken, Base, Stored
<1>5. StageInv'
  BY <1>1, <1>3, <1>4 DEF RolloutInv, StageInv
<1> QED BY <1>1, <1>2, <1>5, StageOnly

-----------------------------------------------------------------------------
(* The steps that write.                                                   *)

\* The session meta line is the first line of a new file.
LEMMA WriteMetaStep ==
  ASSUME RolloutInv, WriteMeta
  PROVE  RolloutInv' /\ LogStep
<1> USE DEF RolloutInv
<1>1. /\ UNCHANGED <<chan, running, deferred, open, pending, written, attempt, cmd,
                     indexed, waiting, recorded, confirmed>>
      /\ stage = "meta" /\ stage' = "items" /\ meta' = FALSE
  BY DEF WriteMeta, WriteFrame, StayInCall
<1>2. written = 0 /\ running /\ cmd.upto = Taken
  BY <1>1 DEF TypeOK, StageInv
<1>3. CASE ~meta
  <2>1. UNCHANGED <<file, torn, meta>>
    BY <1>1, <1>3 DEF WriteMeta, TypeOK
  <2>2. TypeOK'
    BY <1>1, <2>1 DEF TypeOK, Stages
  <2>3. Taken' = Taken
    BY <1>1, <2>1 DEF Taken, Base, Stored
  <2>4. StageInv'
    BY <1>1, <1>2, <2>1, <2>3 DEF StageInv
  <2> QED BY <1>1, <2>1, <2>2, <2>4, StageOnly
<1>4. CASE meta
  <2>1. file = <<>> /\ AppendLine(MetaLine) /\ MetaLine \in Nat
    BY <1>4 DEF WriteMeta, FileInv, MetaLine
  <2>2. /\ file' \in Seq(Lines) /\ torn' \in BOOLEAN
        /\ Len(file') = 1 /\ file' # <<>> /\ file'[1].line = 0 /\ Stored' = 0
    BY <2>1, AppendStores DEF MetaLine
  <2>3. Stored = 0
    BY <2>1 DEF Stored
  <2>4. Base' = Base /\ Taken' = Taken
    BY <1>1, <2>2, <2>3 DEF Base, Taken
  <2>5. \A j : Before(j)' = Before(j)
    BY <1>1, <2>4 DEF Before
  <2>6. TypeOK'
    BY <1>1, <2>2 DEF TypeOK, Stages
  <2>7. FileInv'
    BY <1>1, <2>2 DEF FileInv
  <2>8. PendingInv' /\ CountInv' /\ ConfirmedIsStored' /\ indexed' <= Stored'
    BY <1>1, <2>2, <2>3, <2>4 DEF PendingInv, CountInv, ConfirmedIsStored
  <2>9. ChanInv'
    BY <1>1, <2>5 DEF ChanInv
  <2>10. StageInv'
    BY <1>1, <1>2, <2>4 DEF StageInv
  <2>11. LogStep
    BY <1>1, <2>2, <2>3 DEF LogStep, Log!vars
  <2> QED BY <2>6, <2>7, <2>8, <2>9, <2>10, <2>11
<1> QED BY <1>3, <1>4 DEF TypeOK

\* The next pending item becomes the last line of the file.
LEMMA WriteItemStep ==
  ASSUME RolloutInv, WriteItem
  PROVE  RolloutInv' /\ LogStep
<1> USE DEF RolloutInv
<1>1. /\ UNCHANGED <<chan, running, deferred, open, meta, pending, stage, attempt, cmd,
                     indexed, waiting, recorded, confirmed>>
      /\ stage = "items" /\ written < Len(pending) /\ written' = written + 1
      /\ AppendLine(pending[written + 1])
  BY DEF WriteItem, WriteFrame, StayInCall
<1>2. /\ Stored \in Nat /\ Len(file) \in Nat /\ Len(pending) \in Nat
      /\ Base \in Nat /\ Taken \in Nat /\ written \in 0..Len(pending)
  BY Counts DEF TypeOK
<1>3. file # <<>> /\ Len(file) = Stored + 1
  BY <1>1, <1>2 DEF StageInv, FileInv, Stored
<1>4. written + 1 \in 1..Len(pending)
  BY <1>1, <1>2
<1>5. pending[written + 1] = Stored + 1
  BY <1>2, <1>4 DEF PendingInv, Base
<1>6. /\ file' \in Seq(Lines) /\ torn' \in BOOLEAN
      /\ Len(file') = Len(file) + 1 /\ file' # <<>>
      /\ file'[Len(file) + 1].line = Stored + 1
      /\ \A i \in 1..Len(file) : file'[i] = file[i]
      /\ Stored' = Stored + 1
  BY <1>1, <1>2, <1>3, <1>5, AppendStores
<1>7. Base' = Base /\ Taken' = Taken
  BY <1>1, <1>2, <1>6 DEF Base, Taken
<1>8. \A j : Before(j)' = Before(j)
  BY <1>1, <1>7 DEF Before
<1>9. TypeOK'
  BY <1>1, <1>2, <1>4, <1>6 DEF TypeOK, Stages
<1>10. FileInv'
  <2>1. ASSUME NEW i \in 1..Len(file') PROVE file'[i].line = i - 1
    <3>1. i \in 1..Len(file) \/ i = Len(file) + 1
      BY <1>2, <1>6, <2>1
    <3> QED BY <1>2, <1>3, <1>6, <3>1 DEF FileInv
  <2> QED BY <1>1, <1>3, <1>6, <2>1 DEF FileInv
<1>11. /\ PendingInv' /\ CountInv' /\ ConfirmedIsStored' /\ indexed' <= Stored'
  BY <1>1, <1>2, <1>6, <1>7 DEF PendingInv, CountInv, ConfirmedIsStored, TypeOK
<1>12. ChanInv'
  BY <1>1, <1>8 DEF ChanInv
<1>13. StageInv'
  BY <1>1, <1>7 DEF StageInv
<1>14. Stored + 1 <= recorded
  BY <1>1, <1>2 DEF CountInv, Taken, Base, TypeOK
<1>15. LogStep
  BY <1>1, <1>2, <1>6, <1>14 DEF LogStep, Log!vars, Log!Next, Log!Store, TypeOK
<1> QED BY <1>9, <1>10, <1>11, <1>12, <1>13, <1>15

\* What was written leaves the pending items; nothing else moves.
LEMMA DropsWritten ==
  ASSUME RolloutInv, stage = "items", DropWritten,
         UNCHANGED <<file, chan, recorded, confirmed, running, cmd, meta>>,
         open' \in BOOLEAN, deferred' \in BOOLEAN, torn' \in BOOLEAN,
         attempt' \in {1, 2}, waiting' \subseteq Callers,
         \/ stage' \in {"open", "recv"}
         \/ stage' = "flush" /\ written = Len(pending)
  PROVE  RolloutInv' /\ LogStep
<1> USE DEF RolloutInv
<1>1. /\ Stored \in Nat /\ Len(pending) \in Nat /\ Base \in Nat /\ Taken \in Nat
      /\ written \in 0..Len(pending) /\ indexed \in Nat /\ indexed <= Stored
      /\ pending \in Seq(Nat)
  BY Counts DEF TypeOK
<1>2. \A i \in (written + 1)..Len(pending) : pending[i] \in Nat
  BY <1>1, ElementOfSeq
<1>3. /\ pending' \in Seq(Nat)
      /\ Len(pending') = Len(pending) - written
      /\ \A i \in 1..Len(pending') : pending'[i] = pending[written + i]
  <2> DEFINE q == SubSeq(pending, written + 1, Len(pending))
  <2>1. /\ q \in Seq(Nat)
        /\ Len(q) = IF written + 1 <= Len(pending) THEN Len(pending) - (written + 1) + 1 ELSE 0
        /\ \A i \in 1..(Len(pending) - (written + 1) + 1) : q[i] = pending[(written + 1) + i - 1]
    <3> HIDE DEF q
    <3> QED BY <1>1, <1>2, SubSeqProperties DEF q
  <2>2. pending' = q
    BY DEF DropWritten
  <2> HIDE DEF q
  <2> QED BY <1>1, <2>1, <2>2
<1>4. Stored' = Stored
  BY DEF Stored
<1>5. written' = 0 /\ indexed' \in {indexed, Stored}
  BY DEF DropWritten
<1>6. Base' = Stored /\ Taken' = Taken
  BY <1>1, <1>3, <1>4, <1>5 DEF Base, Taken
<1>7. \A j : Before(j)' = Before(j)
  BY <1>6 DEF Before
<1>8. TypeOK'
  BY <1>1, <1>3, <1>5 DEF TypeOK, Stages
<1>9. PendingInv'
  <2>1. ASSUME NEW i \in 1..Len(pending') PROVE pending'[i] = Base' + i
    <3>1. written + i \in 1..Len(pending)
      BY <1>1, <1>3, <2>1
    <3>2. pending[written + i] = Base + (written + i)
      BY <3>1 DEF PendingInv
    <3> QED BY <1>1, <1>3, <1>6, <3>2 DEF Base
  <2> QED BY <1>1, <1>4, <1>5, <2>1 DEF PendingInv
<1>10. FileInv' /\ CountInv' /\ ConfirmedIsStored' /\ indexed' <= Stored'
  BY <1>1, <1>4, <1>5, <1>6 DEF FileInv, CountInv, ConfirmedIsStored
<1>11. ChanInv'
  BY <1>7 DEF ChanInv
<1>12. stage' = "flush" => pending' = <<>>
  BY <1>1, <1>3, EmptySeq
<1>13. StageInv'
  BY <1>5, <1>6, <1>12 DEF StageInv
<1>14. LogStep
  BY <1>4 DEF LogStep, Log!vars
<1> QED BY <1>8, <1>9, <1>10, <1>11, <1>13, <1>14

\* The end of a write_pending_once: what was written is drained, whether all of it was or not.
LEMMA ItemSteps ==
  ASSUME RolloutInv, ItemFails \/ ItemsDone
  PROVE  RolloutInv' /\ LogStep
<1>1. CASE ItemFails
  <2>1. torn' \in BOOLEAN /\ file' = file
    BY <1>1 DEF ItemFails, LineFails, RolloutInv, TypeOK
  <2>2. deferred' \in BOOLEAN /\ UNCHANGED meta /\ stage = "items" /\ DropWritten
    BY <1>1 DEF ItemFails, RolloutInv, TypeOK
  <2>3. AttemptFails
    BY <1>1 DEF ItemFails
  <2> QED BY <2>1, <2>2, <2>3, FailedAttempt, DropsWritten
<1>2. CASE ItemsDone
  BY <1>2, DropsWritten DEF ItemsDone, WriteFrame, StayInCall, RolloutInv, TypeOK
<1> QED BY <1>1, <1>2

-----------------------------------------------------------------------------
(* The steps that answer a command or take one from the queue.             *)

\* A successful answer confirms what the command covers, or nothing.
LEMMA Answered ==
  ASSUME TypeOK, NEW c, c.upto \in Nat, Answer(c, TRUE)
  PROVE  /\ confirmed' \in {confirmed, c.upto} /\ confirmed' \in Nat
         /\ confirmed' >= confirmed
         /\ confirmed' # confirmed => c.op # "add"
         /\ waiting' \subseteq Callers /\ running' \in BOOLEAN
<1>1. confirmed' = IF c.op # "add" /\ c.upto > confirmed THEN c.upto ELSE confirmed
  BY DEF Answer
<1>2. /\ confirmed' \in {confirmed, c.upto} /\ confirmed' \in Nat
      /\ confirmed' >= confirmed
      /\ confirmed' # confirmed => c.op # "add"
  BY <1>1 DEF TypeOK
<1>3. waiting' \subseteq Callers /\ running' \in BOOLEAN
  <2>1. CASE c.op = "shutdown"
    <3>1. running' = FALSE /\ waiting' = {}
      BY <2>1 DEF Answer
    <3> QED BY <3>1, Zenon
  <2>2. CASE c.op # "shutdown"
    <3>1. running' = running /\ waiting' = waiting \ {c.who}
      BY <2>2 DEF Answer
    <3> QED BY <3>1, Zenon DEF TypeOK
  <2> QED BY <2>1, <2>2
<1> QED BY <1>2, <1>3

\* The file is flushed and the caller told so.
LEMMA FlushFileStep ==
  ASSUME RolloutInv, FlushFile
  PROVE  RolloutInv' /\ LogStep
<1> USE DEF RolloutInv
<1>1. /\ UNCHANGED <<deferred, open, meta, pending, written, attempt, file, torn,
                     indexed, cmd, recorded>>
      /\ stage = "flush" /\ stage' = "recv" /\ Answer(cmd, TRUE)
      /\ chan' = IF running' THEN chan ELSE <<>>
  BY DEF FlushFile, WriteFrame, diskVars
<1>2. /\ Stored \in Nat /\ Base \in Nat /\ Taken \in Nat /\ confirmed \in Nat
      /\ running /\ pending = <<>> /\ cmd.upto = Taken
  BY <1>1, Counts DEF TypeOK, StageInv
<1>3. written = 0 /\ Taken = Stored
  BY <1>2 DEF TypeOK, Taken, Base
<1>4. Stored' = Stored
  BY <1>1 DEF Stored
<1>5. Base' = Base /\ Taken' = Taken
  BY <1>1, <1>4 DEF Base, Taken
<1>6. /\ confirmed' \in {confirmed, Stored} /\ confirmed' <= Stored /\ confirmed' >= confirmed
      /\ waiting' \subseteq Callers /\ running' \in BOOLEAN
  <2>1. TypeOK /\ cmd.upto \in Nat /\ cmd.upto = Stored /\ Answer(cmd, TRUE)
    BY <1>1, <1>2, <1>3
  <2>2. /\ confirmed' \in {confirmed, cmd.upto} /\ confirmed' \in Nat
        /\ confirmed' >= confirmed
        /\ waiting' \subseteq Callers /\ running' \in BOOLEAN
    BY <2>1, Answered
  <2> QED BY <1>2, <2>1, <2>2 DEF ConfirmedIsStored
<1>7. TypeOK'
  <2>1. chan' \in Seq(Commands)
    BY <1>1, EmptySeq DEF TypeOK
  <2> QED BY <1>1, <1>2, <1>6, <2>1 DEF TypeOK, Stages
<1>8. FileInv' /\ PendingInv' /\ ConfirmedIsStored' /\ indexed' <= Stored'
  BY <1>1, <1>4, <1>5, <1>6 DEF FileInv, PendingInv, ConfirmedIsStored
<1>9. ChanInv' /\ CountInv'
  <2>1. CASE running'
    <3>1. chan' = chan
      BY <1>1, <2>1
    <3>2. \A j : Before(j)' = Before(j)
      BY <1>5, <3>1 DEF Before
    <3> QED BY <1>1, <1>2, <1>5, <3>1, <3>2 DEF ChanInv, CountInv
  <2>2. CASE ~running'
    BY <1>1, <1>5, <2>2 DEF ChanInv, CountInv
  <2> QED BY <2>1, <2>2
<1>10. StageInv'
  BY <1>1, <1>3 DEF StageInv
<1>11. LogStep
  BY <1>1, <1>2, <1>4, <1>6 DEF LogStep, Log!vars, Log!Next, Log!Confirm
<1> QED BY <1>7, <1>8, <1>9, <1>10, <1>11

\* Sums may be regrouped.
LEMMA SumsAssociate ==
  ASSUME NEW a \in Nat, NEW b \in Nat, NEW d \in Nat
  PROVE  a + (b + d) = (a + b) + d
OBVIOUS

\* The writer takes the next command.
LEMMA ReceiveStep ==
  ASSUME RolloutInv, Receive
  PROVE  RolloutInv' /\ LogStep
<1> DEFINE c == Head(chan)
<1> USE DEF RolloutInv
<1>1. /\ UNCHANGED <<deferred, open, meta, written, file, torn, indexed, recorded>>
      /\ running /\ stage = "recv" /\ chan # <<>>
      /\ cmd' = c /\ pending' = pending \o c.items /\ attempt' = 1
  BY DEF Receive, diskVars
<1>2. /\ NeedsNoWrite(c) => /\ Answer(c, TRUE) /\ stage' = "recv"
                            /\ chan' = IF running' THEN Tail(chan) ELSE <<>>
      /\ ~NeedsNoWrite(c) => /\ stage' = "open" /\ chan' = Tail(chan)
                             /\ UNCHANGED <<running, waiting, confirmed>>
  BY <1>1 DEF Receive
<1>3. /\ Stored \in Nat /\ Len(pending) \in Nat /\ Base \in Nat /\ Taken \in Nat
      /\ Len(chan) \in Nat \ {0} /\ pending \in Seq(Nat) /\ confirmed \in Nat
      /\ written = 0
  BY <1>1, Counts, EmptySeq DEF TypeOK, StageInv
<1>4. c = chan[1] /\ 1 \in 1..Len(chan)
  BY <1>1, <1>3
<1>5. c \in Commands /\ c.items \in Seq(Nat) /\ Len(c.items) \in Nat /\ c.upto \in Nat
      /\ c.who \in Callers \cup {None}
  BY <1>4, Counts DEF Commands
<1>6. /\ c.upto = Taken + Len(c.items)
      /\ \A i \in 1..Len(c.items) : c.items[i] = Taken + i
      /\ c.op # "add" => c.items = <<>>
      /\ c.upto <= recorded
  <2>1. Before(1) = Taken
    BY DEF Before
  <2> QED BY <1>4, <2>1 DEF ChanInv
<1>7. /\ Tail(chan) \in Seq(Commands) /\ Len(Tail(chan)) = Len(chan) - 1
      /\ \A j \in 1..Len(Tail(chan)) : Tail(chan)[j] = chan[j + 1]
  BY <1>1, HeadTailProperties DEF TypeOK
<1> HIDE DEF c
<1>8. /\ pending' \in Seq(Nat) /\ Len(pending') = Len(pending) + Len(c.items)
      /\ \A i \in 1..(Len(pending) + Len(c.items)) :
           pending'[i] = IF i <= Len(pending) THEN pending[i] ELSE c.items[i - Len(pending)]
  BY <1>1, <1>3, <1>5, ConcatProperties
<1>9. Stored' = Stored /\ Base' = Base /\ Taken' = c.upto
  <2>1. Stored' = Stored
    BY <1>1 DEF Stored
  <2>2. Base' = Base
    BY <1>1, <2>1 DEF Base
  <2>3. Taken' = Base + Len(pending') /\ Taken = Base + Len(pending)
    BY <2>2 DEF Taken
  <2>4. Len(pending') = Len(pending) + Len(c.items)
    BY <1>8
  <2>5. c.upto = Taken + Len(c.items)
    BY <1>6
  <2>6. Len(c.items) \in Nat
    BY <1>5
  <2>7. Base + (Len(pending) + Len(c.items)) = (Base + Len(pending)) + Len(c.items)
    <3>1. Base \in Nat /\ Len(pending) \in Nat
      BY <1>3
    <3> QED BY <2>6, <3>1, SumsAssociate, Zenon
  <2>8. Taken' = c.upto
    BY <2>3, <2>4, <2>5, <2>7
  <2> QED BY <2>1, <2>2, <2>8
<1>10. PendingInv'
  <2>1. ASSUME NEW i \in 1..Len(pending') PROVE pending'[i] = Base' + i
    <3>1. CASE i <= Len(pending)
      BY <1>3, <1>5, <1>8, <1>9, <3>1 DEF PendingInv
    <3>2. CASE ~(i <= Len(pending))
      <4>1. i - Len(pending) \in 1..Len(c.items)
        BY <1>3, <1>5, <1>8, <3>2
      <4>2. c.items[i - Len(pending)] = Taken + (i - Len(pending))
        BY <1>6, <4>1
      <4>3. Taken = Base + Len(pending)
        BY DEF Taken
      <4>4. pending'[i] = c.items[i - Len(pending)]
        BY <1>3, <1>5, <1>8, <3>2
      <4> QED BY <1>3, <1>9, <4>2, <4>3, <4>4
    <3> QED BY <3>1, <3>2
  <2> QED BY <1>1, <1>9, <2>1 DEF PendingInv
<1>11. /\ running' \in BOOLEAN /\ waiting' \subseteq Callers
       /\ chan' = IF running' THEN Tail(chan) ELSE <<>>
       /\ stage' \in {"recv", "open"}
       /\ stage' # "recv" => running'
       /\ confirmed' \in {confirmed, c.upto} /\ confirmed' >= confirmed
       /\ confirmed' # confirmed => NeedsNoWrite(c) /\ c.op # "add"
  <2>1. CASE NeedsNoWrite(c)
    <3>1. Answer(c, TRUE)
      BY <1>2, <2>1
    <3> QED BY <1>1, <1>2, <1>5, <2>1, <3>1, Answered
  <2>2. CASE ~NeedsNoWrite(c)
    BY <1>1, <1>2, <1>3, <2>2 DEF TypeOK
  <2> QED BY <2>1, <2>2
<1>12. confirmed' <= Stored
  <2>1. CASE confirmed' = confirmed
    BY <2>1 DEF ConfirmedIsStored
  <2>2. CASE confirmed' # confirmed
    <3>1. pending = <<>> /\ c.items = <<>>
      BY <1>6, <1>11, <2>2 DEF NeedsNoWrite
    <3>2. c.upto = Stored
      BY <1>3, <1>6, <3>1 DEF Taken, Base
    <3> QED BY <1>3, <1>11, <2>2, <3>2
  <2> QED BY <2>1, <2>2
<1>13. TypeOK'
  <2>1. chan' \in Seq(Commands)
    BY <1>7, <1>11, EmptySeq
  <2>2. /\ cmd' \in Commands /\ pending' \in Seq(Nat) /\ written' \in 0..Len(pending')
        /\ confirmed' \in Nat /\ stage' \in Stages /\ attempt' \in {1, 2}
    BY <1>1, <1>3, <1>5, <1>8, <1>11 DEF Stages
  <2> QED BY <1>1, <1>11, <2>1, <2>2 DEF TypeOK
<1>14. FileInv' /\ ConfirmedIsStored' /\ indexed' <= Stored'
  BY <1>1, <1>9, <1>12 DEF FileInv, ConfirmedIsStored
<1>15. ASSUME running' PROVE ChanInv'
  <2>1. chan' = Tail(chan)
    BY <1>11, <1>15
  <2>2. ASSUME NEW j \in 1..Len(chan')
        PROVE  chan'[j] = chan[j + 1] /\ j + 1 \in 1..Len(chan) /\ Before(j)' = Before(j + 1)
    <3>1. chan'[j] = chan[j + 1] /\ j + 1 \in 1..Len(chan)
      BY <1>3, <1>7, <2>1, <2>2
    <3>2. CASE j = 1
      <4>1. Before(1)' = c.upto /\ Before(2) = chan[1].upto
        BY <1>9 DEF Before
      <4> QED BY <1>4, <3>1, <3>2, <4>1
    <3>3. CASE j # 1
      <4>1. j - 1 \in 1..Len(chan') /\ j + 1 # 1 /\ (j - 1) + 1 = j /\ (j + 1) - 1 = j
        BY <1>3, <1>7, <2>1, <2>2, <3>3
      <4>2. chan'[j - 1] = chan[j]
        BY <1>7, <2>1, <4>1
      <4> QED BY <3>1, <3>3, <4>1, <4>2 DEF Before
    <3> QED BY <3>1, <3>2, <3>3
  <2> QED BY <1>1, <2>2 DEF ChanInv
<1>16. ChanInv'
  <2>1. CASE ~running'
    BY <1>11, <2>1 DEF ChanInv
  <2> QED BY <1>11, <1>15, <2>1
<1>17. CountInv'
  <2>1. Taken' <= recorded'
    BY <1>1, <1>6, <1>9
  <2>2. ASSUME running'
        PROVE  recorded' = IF chan' = <<>> THEN Taken' ELSE chan'[Len(chan')].upto
    <3>1. chan' = Tail(chan) /\ recorded' = chan[Len(chan)].upto
      BY <1>1, <1>11, <2>2 DEF CountInv
    <3>2. CASE Len(chan) = 1
      <4>1. chan' = <<>>
        BY <1>7, <3>1, <3>2, EmptySeq
      <4> QED BY <1>4, <1>9, <3>1, <3>2, <4>1
    <3>3. CASE Len(chan) # 1
      <4>1. Len(chan') \in 1..Len(chan') /\ Len(chan') + 1 = Len(chan) 
        BY <1>3, <1>7, <3>1, <3>3
      <4>2. chan'[Len(chan')] = chan[Len(chan)]
        BY <1>7, <3>1, <4>1
      <4>3. chan' # <<>>
        BY <1>3, <3>3, <4>1, EmptySeq
      <4> QED BY <3>1, <4>2, <4>3
    <3> QED BY <3>2, <3>3
  <2> QED BY <2>1, <2>2 DEF CountInv
<1>18. StageInv'
  BY <1>1, <1>3, <1>9, <1>11 DEF StageInv
<1>19. LogStep
  BY <1>1, <1>3, <1>5, <1>9, <1>11, <1>12 DEF LogStep, Log!vars, Log!Next, Log!Confirm
<1> QED BY <1>10, <1>13, <1>14, <1>16, <1>17, <1>18, <1>19

-----------------------------------------------------------------------------
(* The callers.                                                            *)

\* A command that carries on from what was recorded may be queued.
LEMMA Queued ==
  ASSUME RolloutInv, NEW c \in Commands, running, chan' = Append(chan, c),
         recorded' \in Nat, recorded' = c.upto, recorded' = recorded + Len(c.items),
         \A i \in 1..Len(c.items) : c.items[i] = recorded + i,
         c.op # "add" => c.items = <<>>,
         waiting' \subseteq Callers,
         UNCHANGED <<running, deferred, open, meta, pending, written, stage, attempt, cmd,
                     file, torn, indexed, confirmed>>
  PROVE  RolloutInv'
<1> USE DEF RolloutInv
<1>1. /\ Taken \in Nat /\ Len(chan) \in Nat /\ recorded \in Nat /\ Len(c.items) \in Nat
      /\ chan \in Seq(Commands) /\ c.items \in Seq(Nat)
  <2>1. c.items \in Seq(Nat)
    BY DEF Commands
  <2> QED BY <2>1, Counts, LenProperties DEF TypeOK
<1>2. /\ chan' \in Seq(Commands) /\ Len(chan') = Len(chan) + 1 /\ chan' # <<>>
      /\ \A j \in 1..Len(chan) : chan'[j] = chan[j]
      /\ chan'[Len(chan) + 1] = c
  BY <1>1, AppendProperties
<1>3. Stored' = Stored
  BY DEF Stored
<1>4. Base' = Base
  BY <1>3 DEF Base
<1>5. Taken' = Taken
  BY <1>4 DEF Taken
<1>0. \A j : Before(j)' = IF j = 1 THEN Taken' ELSE chan'[j - 1].upto
  BY DEF Before
<1>6. ASSUME NEW j, j = Len(chan) + 1 PROVE Before(j)' = recorded
  <2>1. CASE chan = <<>>
    <3>1. j = 1 /\ recorded = Taken
      BY <1>6, <2>1 DEF CountInv
    <3> QED BY <1>0, <1>5, <3>1
  <2>2. CASE chan # <<>>
    <3>1. Len(chan) \in 1..Len(chan) /\ j # 1 /\ j - 1 = Len(chan)
      BY <1>1, <1>6, <2>2, EmptySeq
    <3>2. recorded = chan'[Len(chan)].upto
      BY <1>2, <2>2, <3>1 DEF CountInv
    <3> QED BY <1>0, <3>1, <3>2
  <2> QED BY <2>1, <2>2
<1>7. ASSUME NEW j \in 1..Len(chan) PROVE Before(j)' = Before(j)
  <2>1. CASE j = 1
    BY <1>5, <2>1 DEF Before
  <2>2. CASE j # 1
    <3>1. j - 1 \in 1..Len(chan)
      BY <1>1, <1>7, <2>2
    <3>2. chan'[j - 1] = chan[j - 1]
      BY <1>2, <3>1
    <3> QED BY <2>2, <3>2 DEF Before
  <2> QED BY <2>1, <2>2
<1>8. ChanInv'
  <2>1. ASSUME NEW j \in 1..Len(chan')
        PROVE  /\ chan'[j].upto = Before(j)' + Len(chan'[j].items)
               /\ \A i \in 1..Len(chan'[j].items) : chan'[j].items[i] = Before(j)' + i
               /\ chan'[j].op # "add" => chan'[j].items = <<>>
               /\ chan'[j].upto <= recorded'
    <3>1. CASE j \in 1..Len(chan)
      <4>1. /\ chan'[j] = chan[j] /\ Before(j)' = Before(j)
            /\ chan[j] \in Commands
        BY <1>2, <1>7, <3>1, Counts
      <4>2. recorded <= recorded' /\ chan[j].upto \in Nat
        BY <1>1, <4>1 DEF Commands
      <4> QED BY <1>1, <3>1, <4>1, <4>2 DEF ChanInv
    <3>2. CASE j = Len(chan) + 1
      <4>1. Before(j)' = recorded
        BY <1>6, <3>2
      <4>2. chan'[j] = c
        BY <1>2, <3>2
      <4>3. c.upto = recorded + Len(c.items) /\ c.upto = recorded' /\ c.upto <= recorded'
        OBVIOUS
      <4> QED BY <4>1, <4>2, <4>3
    <3> QED BY <1>1, <1>2, <2>1, <3>1, <3>2
  <2> QED BY <2>1 DEF ChanInv
<1>9. CountInv'
  <2>1. Taken' <= recorded'
    BY <1>1, <1>5 DEF CountInv
  <2>2. recorded' = chan'[Len(chan')].upto
    BY <1>2
  <2> QED BY <1>2, <2>1, <2>2 DEF CountInv
<1>10. TypeOK'
  BY <1>1, <1>2 DEF TypeOK
<1>11. FileInv' /\ PendingInv' /\ ConfirmedIsStored' /\ indexed' <= Stored'
  BY <1>3, <1>4 DEF FileInv, PendingInv, ConfirmedIsStored
<1>12. StageInv'
  BY <1>5 DEF StageInv
<1> QED BY <1>8, <1>9, <1>10, <1>11, <1>12

\* record_items queues the next items.
LEMMA RecordStep ==
  ASSUME RolloutInv, NEW k \in 1..MaxBatch, RecordItems(k)
  PROVE  RolloutInv' /\ LogStep
<1> DEFINE items == [i \in 1..k |-> recorded + i]
           c == Command("add", items, recorded + k, None)
<1>1. recorded \in Nat /\ k \in Nat /\ k > 0
  BY BoundsAssumption DEF RolloutInv, TypeOK
<1>2. /\ items \in Seq(Nat) /\ Len(items) = k
      /\ \A i \in 1..k : items[i] = recorded + i
  <2>1. \A i \in 1..k : recorded + i \in Nat
    BY <1>1
  <2>2. items \in [1..k -> Nat]
    BY <2>1
  <2> QED BY <1>1, <2>2
<1> HIDE DEF items
<1>3. c \in Commands
  BY <1>1, <1>2 DEF Command, Commands, Ops
<1>4. c.items = items /\ c.upto = recorded + k /\ c.op = "add"
  BY DEF Command
<1>5. chan' = Append(chan, c) /\ recorded' = recorded + k /\ running
  BY DEF RecordItems, items
<1>6. UNCHANGED <<running, deferred, open, meta, pending, written, stage, attempt, cmd,
                  file, torn, indexed, waiting, confirmed>>
  BY DEF RecordItems, writerVars, diskVars
<1> HIDE DEF c
<1>7. waiting' \subseteq Callers
  BY <1>6 DEF RolloutInv, TypeOK
<1>8. RolloutInv'
  <2>0. Len(c.items) = k
    BY <1>1, <1>2, <1>4
  <2>1. recorded' \in Nat /\ recorded' = c.upto /\ recorded' = recorded + Len(c.items)
    BY <1>1, <1>4, <1>5, <2>0
  <2>2. /\ \A i \in 1..Len(c.items) : c.items[i] = recorded + i
        /\ c.op # "add" => c.items = <<>>
    BY <1>2, <1>4
  <2>3. UNCHANGED <<running, deferred, open, meta, pending, written, stage, attempt, cmd,
                    file, torn, indexed, confirmed>>
    BY <1>6
  <2>4. RolloutInv /\ running /\ chan' = Append(chan, c)
    BY <1>5
  <2> QED BY <1>3, <1>7, <2>1, <2>2, <2>3, <2>4, Queued
<1>9. Stored' = Stored
  BY <1>6 DEF Stored
<1>10. LogStep
  BY <1>1, <1>5, <1>6, <1>9 DEF LogStep, Log!vars, Log!Next, Log!Record
<1> QED BY <1>8, <1>10

\* A persist, flush or shutdown is queued.
LEMMA CallStep ==
  ASSUME RolloutInv, NEW w \in Callers, NEW op \in Ops \ {"add"}, Call(w, op)
  PROVE  RolloutInv' /\ LogStep
<1> DEFINE c == Command(op, <<>>, recorded, w)
<1>1. recorded \in Nat
  BY DEF RolloutInv, TypeOK
<1>2. c \in Commands
  BY <1>1, EmptySeq DEF Command, Commands
<1>3. c.items = <<>> /\ c.upto = recorded /\ Len(c.items) = 0
  BY DEF Command
<1>4. chan' = Append(chan, c) /\ running /\ waiting' = waiting \cup {w}
  BY DEF Call
<1>5. UNCHANGED <<running, deferred, open, meta, pending, written, stage, attempt, cmd,
                  file, torn, indexed, recorded, confirmed>>
  BY DEF Call, writerVars, diskVars
<1> HIDE DEF c
<1>6. waiting' \subseteq Callers
  BY <1>4 DEF RolloutInv, TypeOK
<1>7. recorded' = recorded + Len(c.items)
  BY <1>1, <1>3, <1>5
<1>8. RolloutInv'
  BY <1>1, <1>2, <1>3, <1>4, <1>5, <1>6, <1>7, Queued
<1>9. Stored' = Stored
  BY <1>5 DEF Stored
<1>10. LogStep
  BY <1>5, <1>9 DEF LogStep, Log!vars
<1> QED BY <1>8, <1>10

-----------------------------------------------------------------------------
(* Crash and resume.                                                       *)

\* After a crash, or when a recorder is opened on the file, only the file is left.
LEMMA RestartSteps ==
  ASSUME RolloutInv, Crash \/ Resume
  PROVE  RolloutInv' /\ LogStep
<1> USE DEF RolloutInv
<1>1. /\ chan' = <<>> /\ pending' = <<>> /\ written' = 0 /\ stage' = "recv"
      /\ cmd' = NoCmd /\ attempt' = 1 /\ recorded' = Stored
      /\ UNCHANGED <<file, indexed, confirmed>>
      /\ running' \in BOOLEAN /\ open' \in BOOLEAN /\ deferred' \in BOOLEAN
      /\ torn' \in BOOLEAN /\ waiting' \subseteq Callers
      /\ meta' \in BOOLEAN /\ (meta' <=> file = <<>>)
  <2>1. CASE Crash
    <3>1. torn' \in BOOLEAN /\ file' = file
      <4>1. CASE LineFails
        BY <4>1 DEF LineFails, TypeOK
      <4>2. CASE UNCHANGED <<file, torn>>
        BY <4>2 DEF TypeOK
      <4> QED BY <2>1, <4>1, <4>2 DEF Crash
    <3> QED BY <2>1, <3>1, Zenon DEF Crash, TypeOK, FileInv
  <2>2. CASE Resume
    <3>1. file # <<>>
      <4>1. PICK i \in DOMAIN file : file[i] = [line |-> MetaLine, intact |-> TRUE]
        BY <2>2 DEF Resume
      <4> QED BY <4>1
    <3>2. chan' = <<>>
      BY <2>2 DEF Resume, StageInv
    <3>3. /\ pending' = <<>> /\ written' = 0 /\ stage' = "recv"
          /\ cmd' = NoCmd /\ attempt' = 1 /\ recorded' = Stored
          /\ UNCHANGED <<file, torn, indexed, confirmed, waiting>>
          /\ running' = TRUE /\ open' = TRUE /\ deferred' = FALSE /\ meta' = FALSE
      BY <2>2 DEF Resume, diskVars
    <3> QED BY <3>1, <3>2, <3>3, Zenon DEF TypeOK
  <2> QED BY <2>1, <2>2
<1>2. Stored \in Nat
  BY Counts
<1>3. Stored' = Stored /\ Len(pending') = 0 /\ Len(chan') = 0
  BY <1>1 DEF Stored
<1>4. Base' = Stored /\ Taken' = Stored
  BY <1>1, <1>2, <1>3 DEF Base, Taken
<1>5. NoCmd \in Commands
  BY BoundsAssumption, EmptySeq DEF NoCmd, Command, Commands, Ops
<1>6. TypeOK'
  <2>1. /\ chan' \in Seq(Commands) /\ pending' \in Seq(Nat) /\ written' \in 0..Len(pending')
        /\ recorded' \in Nat /\ cmd' \in Commands /\ stage' \in Stages /\ attempt' \in {1, 2}
    BY <1>1, <1>2, <1>3, <1>5, EmptySeq DEF Stages
  <2> QED BY <1>1, <2>1, Zenon DEF TypeOK
<1>7. FileInv' /\ PendingInv' /\ ChanInv' /\ CountInv'
  BY <1>1, <1>2, <1>3, <1>4 DEF FileInv, PendingInv, ChanInv, CountInv
<1>8. StageInv' /\ ConfirmedIsStored' /\ indexed' <= Stored'
  BY <1>1, <1>3 DEF StageInv, ConfirmedIsStored
<1>9. LogStep
  BY <1>1, <1>3 DEF LogStep, Log!vars, Log!Next, Log!Crash
<1> QED BY <1>6, <1>7, <1>8, <1>9

-----------------------------------------------------------------------------
(* The theorems.                                                           *)

\* Every step keeps the invariant and is a step of the durable log, or none.
LEMMA Step == RolloutInv /\ [Next]_vars => RolloutInv' /\ LogStep
<1> SUFFICES ASSUME RolloutInv, [Next]_vars PROVE RolloutInv' /\ LogStep
  OBVIOUS
<1>1. CASE Client
  BY <1>1, RecordStep, CallStep DEF Client
<1>2. CASE Writer
  BY <1>2, ReceiveStep, OpenSteps, WriteMetaStep, WriteItemStep, ItemSteps, FlushFileStep
     DEF Writer
<1>3. CASE Crash \/ Resume
  BY <1>3, RestartSteps
<1>4. CASE UNCHANGED vars
  <2>1. UNCHANGED <<chan, running, deferred, open, meta, pending, written, stage, attempt,
                    cmd, file, torn, indexed, waiting, recorded, confirmed>>
    BY <1>4 DEF vars, writerVars, diskVars, callVars
  <2>2. TypeOK'
    BY <2>1 DEF RolloutInv, TypeOK
  <2>3. Taken' = Taken
    BY <2>1 DEF Taken, Base, Stored
  <2>4. StageInv'
    BY <2>1, <2>3 DEF RolloutInv, StageInv
  <2> QED BY <2>1, <2>2, <2>4, StageOnly
<1> QED BY <1>1, <1>2, <1>3, <1>4 DEF Next

\* The inductive invariant of the recorder: file, pending items and queued commands
\* continue one another, so that a retry after a partial write starts at the right item.
THEOREM Invariance == Spec => []RolloutInv
<1>1. RolloutInv /\ [Next]_vars => RolloutInv'
  BY Step
<1> QED BY InitInv, <1>1, PTL DEF Spec

\* Every variable of the recorder keeps its type, for any number of callers,
\* items and queued commands.
THEOREM RolloutTypes == Spec => []TypeOK
<1>1. RolloutInv => TypeOK
  BY DEF RolloutInv
<1> QED BY <1>1, Invariance, PTL

\* Whatever fails, is retried or crashes, the file is the meta line and then the
\* recorded items, once and in order, and the database is never ahead of it.
THEOREM FileInOrder == Spec => []FileIsPrefix
<1>1. RolloutInv => FileIsPrefix
  <2> SUFFICES ASSUME RolloutInv PROVE FileIsPrefix
    OBVIOUS
  <2>1. DOMAIN file = 1..Len(file)
    BY LenProperties DEF RolloutInv, TypeOK
  <2>2. Stored \in Nat /\ Len(pending) \in Nat /\ written \in 0..Len(pending)
    BY Counts DEF RolloutInv, TypeOK
  <2>3. Stored <= recorded
    BY <2>2 DEF RolloutInv, CountInv, Taken, Base, TypeOK
  <2> QED BY <2>1, <2>3 DEF RolloutInv, FileInv, FileIsPrefix
<1> QED BY <1>1, Invariance, PTL

\* What a persist, flush or shutdown that answered Ok covers is in the file.
THEOREM BarriersHold == Spec => []ConfirmedIsStored
<1>1. RolloutInv => ConfirmedIsStored
  BY DEF RolloutInv
<1> QED BY <1>1, Invariance, PTL

\* The recorder implements DurableLog.
THEOREM ImplementsLog == Spec => LogSpec
<1>1. Init => Log!Init
  BY DEF Init, Log!Init, Stored
<1>2. RolloutInv /\ [Next]_vars => [Log!Next]_(Log!vars)
  BY Step DEF LogStep
<1> QED BY <1>1, <1>2, Invariance, PTL DEF Spec, LogSpec, Log!Spec
=============================================================================

---------------------- MODULE ConnectionProcessesProofs ----------------------
(***************************************************************************)
(* What ConnectionProcesses promises for any number of connections, handles *)
(* and requests.                                                           *)
(***************************************************************************)
EXTENDS ConnectionProcesses, SequenceTheorems, TLAPS

\* A request that its drain task has taken and not finished.
Active == InFlight \cup {"popped"}

Reqs == [conn : Connections \cup {None}, handle : Handles \cup {None},
         op : Ops, fresh : BOOLEAN]
Events == [kind : {"request", "closed"}, request : Requests \cup {None}, conn : Connections]
Controls == [op : Ops, from : Requests \cup {None}]
Procs == [child : {"none", "running", "exited"}, killed : BOOLEAN, stdin : 0..StdinCapacity,
          task : TaskSteps, chan : Seq(Controls), asker : Requests \cup {None}]

-----------------------------------------------------------------------------
(* The inductive invariant.                                                 *)

\* Requests are sent in the order of their numbers.
SentInv ==
  \A r \in Requests : /\ r <= sent => Key(r) \in Keys /\ pc[r] # "unsent"
                      /\ r > sent => pc[r] = "unsent"

\* The loop closes connections that have left its map; a gate accepts for the ones in it.
LoopInv ==
  /\ accepting = known /\ connected \subseteq known
  /\ loop.step = "idle" => loop.conn = None
  /\ loop.step # "idle" => loop.conn \in Connections \ known

\* The inbox holds the requests on the wire in order, and the end of a connection once.
IsRequest(e) == e.kind = "request"
InboxInv ==
  /\ \A i \in DOMAIN inbox :
       IF IsRequest(inbox[i])
         THEN inbox[i].request \in 1..sent /\ pc[inbox[i].request] = "wire"
         ELSE inbox[i].conn \in known \ connected
  /\ \A i, j \in DOMAIN inbox : i < j =>
       /\ IsRequest(inbox[i]) /\ IsRequest(inbox[j]) => inbox[i].request < inbox[j].request
       /\ ~IsRequest(inbox[i]) /\ ~IsRequest(inbox[j]) => inbox[i].conn # inbox[j].conn
  /\ \A r \in Requests : pc[r] = "wire" =>
       \E i \in DOMAIN inbox : IsRequest(inbox[i]) /\ inbox[i].request = r

\* Requests leave the wire in order, and those of a key leave its queue in order.
OrderInv ==
  \A r, s \in Requests : r < s /\ s <= sent =>
    /\ pc[r] = "wire" => pc[s] = "wire"
    /\ Key(s) = Key(r) /\ pc[r] \in Active \cup {"queued"} => pc[s] \in {"wire", "queued"}

\* A queue holds the queued requests of its key in order.  Its drain task is idle or runs
\* a request of the key, never both, and the key stays in the map as long as it exists.
Holds(k, r) == queue[k] # Absent /\ \E i \in DOMAIN queue[k] : queue[k][i] = r
InOrder(k) ==
  queue[k] # Absent =>
    \A i, j \in DOMAIN queue[k] : i < j => queue[k][i] < queue[k][j]
QueueInv ==
  /\ \A k \in Keys : InOrder(k) /\ (queue[k] = Absent => idle[k] = 0)
  /\ \A k \in Keys, r \in Requests : Holds(k, r) => pc[r] = "queued" /\ Key(r) = k
  /\ \A r \in Requests :
       /\ pc[r] = "queued" => Holds(Key(r), r)
       /\ pc[r] \in Active => queue[Key(r)] # Absent /\ idle[Key(r)] = 0

\* A handler that runs has its connection, or the loop waits for it.
GateInv ==
  \A r \in Requests : pc[r] \in InFlight =>
    \/ req[r].conn \in known
    \/ loop.step = "wait" /\ loop.conn = req[r].conn

\* Whoever a task will answer waits for it, and is answered once.
Waits(r, p) == r \in Requests /\ pc[r] = "await" /\ target[r] = p
AwaitInv ==
  /\ \A r \in Requests : pc[r] = "send" => target[r] \in Requests
  /\ \A p \in Requests :
       /\ \A i \in DOMAIN proc[p].chan : proc[p].chan[i].from # None =>
            /\ Waits(proc[p].chan[i].from, p)
            /\ proc[p].chan[i].from # proc[p].asker
            /\ \A j \in DOMAIN proc[p].chan :
                 i # j => proc[p].chan[i].from # proc[p].chan[j].from
       /\ proc[p].asker # None => Waits(proc[p].asker, p)

\* A process runs as long as its task looks after it, from the end of its spawn on.
TaskInv ==
  \A p \in Requests :
    /\ proc[p].child = "running" => proc[p].task \in {"select", "writing"}
    /\ proc[p].task # "none" => pc[p] = "done"

\* A spawn that is under way, and a task until its end, hold their handle.
HoldsHandle(p) ==
  \/ pc[p] = "spawning"
  \/ proc[p].task \notin {"none", "gone"} /\ ~Closed(req[p].conn)
SessionInv == \A p \in Requests : HoldsHandle(p) => sessions[Key(p)] = p

\* What is left of a closed connection is dying.
Dying(p) == proc[p].killed \/ \E i \in DOMAIN proc[p].chan : proc[p].chan[i].op = "kill"
KillInv == \A p \in Requests : Closed(req[p].conn) /\ proc[p].child = "running" => Dying(p)

\* The loop, the queues and the gate; and the processes with those who wait for them.
FrontTypes ==
  /\ connected \subseteq Connections /\ known \subseteq Connections
  /\ accepting \subseteq Connections /\ sent \in 0..MaxRequests
  /\ req \in [Requests -> Reqs] /\ inbox \in Seq(Events)
  /\ loop \in [step : {"idle", "wait", "kill"}, conn : Connections \cup {None}]
  /\ queue \in [Keys -> {Absent} \cup Seq(Requests)] /\ idle \in [Keys -> 0..1]
  /\ pc \in [Requests -> Steps]
BackTypes ==
  /\ result \in [Requests -> Results] /\ target \in [Requests -> Requests \cup {None}]
  /\ sessions \in [Keys -> Requests \cup {None}] /\ proc \in [Requests -> Procs]

FrontInv ==
  FrontTypes /\ SentInv /\ LoopInv /\ InboxInv /\ OrderInv /\ QueueInv /\ GateInv
BackInv == BackTypes /\ AwaitInv /\ TaskInv /\ SessionInv /\ KillInv
ProcessInv == FrontInv /\ BackInv

-----------------------------------------------------------------------------
(* Facts about sequences and numbers.                                       *)

LEMMA Numbers ==
  /\ MaxRequests \in Nat /\ StdinCapacity \in Nat /\ None \notin Connections
  /\ None \notin Requests /\ \A r \in Requests : r \in Nat /\ r >= 1 /\ r <= MaxRequests
BY ConstantsAssumption DEF Requests, None

LEMMA Appended ==
  ASSUME NEW S, NEW s \in Seq(S), NEW e \in S
  PROVE  /\ Append(s, e) \in Seq(S) /\ Len(s) \in Nat /\ DOMAIN s = 1..Len(s)
         /\ DOMAIN Append(s, e) = 1..(Len(s) + 1)
         /\ \A i \in 1..Len(s) : Append(s, e)[i] = s[i]
         /\ Append(s, e)[Len(s) + 1] = e
<1>1. /\ Append(s, e) \in Seq(S) /\ Len(Append(s, e)) = Len(s) + 1
      /\ \A i \in 1..Len(s) : Append(s, e)[i] = s[i]
      /\ Append(s, e)[Len(s) + 1] = e
  BY AppendProperties
<1>2. Len(s) \in Nat /\ DOMAIN s = 1..Len(s)
  BY LenProperties
<1>3. DOMAIN Append(s, e) = 1..Len(Append(s, e))
  BY <1>1, LenProperties
<1> QED BY <1>1, <1>2, <1>3

LEMMA Shortened ==
  ASSUME NEW S, NEW s \in Seq(S), s # <<>>
  PROVE  /\ Len(s) \in Nat \ {0} /\ DOMAIN s = 1..Len(s) /\ 1 \in DOMAIN s
         /\ Head(s) = s[1] /\ Head(s) \in S
         /\ Tail(s) \in Seq(S) /\ DOMAIN Tail(s) = 1..(Len(s) - 1)
         /\ \A i \in 1..(Len(s) - 1) : Tail(s)[i] = s[i + 1]
<1>1. Len(s) \in Nat \ {0}
  BY EmptySeq
<1>2. DOMAIN s = 1..Len(s)
  BY LenProperties
<1>3. /\ Head(s) \in S /\ Tail(s) \in Seq(S) /\ Len(Tail(s)) = Len(s) - 1
      /\ \A i \in 1..Len(Tail(s)) : Tail(s)[i] = s[i + 1]
  BY HeadTailProperties
<1>4. DOMAIN Tail(s) = 1..Len(Tail(s))
  BY <1>3, LenProperties
<1>5. Head(s) = s[1]
  OBVIOUS
<1> QED BY <1>1, <1>2, <1>3, <1>4, <1>5

\* An element of a sequence with one more, or one less, is one of the sequence.
LEMMA OldOrNew ==
  ASSUME NEW S, NEW s \in Seq(S), NEW e \in S, NEW i \in DOMAIN Append(s, e)
  PROVE  \/ i \in DOMAIN s /\ i <= Len(s) /\ Append(s, e)[i] = s[i]
         \/ i = Len(s) + 1 /\ Append(s, e)[i] = e
<1>1. i \in 1..(Len(s) + 1) /\ Len(s) \in Nat /\ DOMAIN s = 1..Len(s)
  BY Appended
<1>2. i \in 1..Len(s) \/ i = Len(s) + 1
  BY <1>1
<1> QED BY <1>1, <1>2, Appended

LEMMA AbsentIsNoQueue == Absent \notin Seq(Requests)
<1> SUFFICES ASSUME Absent \in Seq(Requests) PROVE FALSE
  OBVIOUS
<1>1. Absent[1] = None /\ Len(Absent) = 1
  BY DEF Absent
<1>2. Absent[1] \in Requests
  BY <1>1, ElementOfSeq
<1> QED BY <1>1, <1>2, Numbers

\* What TypeOK says in these terms.
LEMMA TypesAre == FrontTypes /\ BackTypes => TypeOK
BY DEF FrontTypes, BackTypes, TypeOK, Reqs, Events, Controls, Procs

LEMMA FrontFields ==
  ASSUME FrontTypes
  PROVE  /\ sent \in Nat /\ sent <= MaxRequests
         /\ \A r \in Requests : pc[r] \in Steps /\ req[r] \in Reqs
                                /\ req[r].conn \in Connections \cup {None}
         /\ \A i \in DOMAIN inbox : inbox[i] \in Events /\ inbox[i].conn \in Connections
                                    /\ inbox[i].kind \in {"request", "closed"}
<1>1. sent \in Nat /\ sent <= MaxRequests
  BY Numbers DEF FrontTypes
<1>2. \A r \in Requests : pc[r] \in Steps /\ req[r] \in Reqs
                          /\ req[r].conn \in Connections \cup {None}
  BY DEF FrontTypes, Reqs
<1>3. \A i \in DOMAIN inbox : inbox[i] \in Events
  BY LenProperties, ElementOfSeq DEF FrontTypes
<1>4. \A i \in DOMAIN inbox : inbox[i].conn \in Connections
                              /\ inbox[i].kind \in {"request", "closed"}
  BY <1>3 DEF Events
<1> QED BY <1>1, <1>2, <1>3, <1>4

\* A request that has been sent has a key.
LEMMA SentHasKey ==
  ASSUME FrontInv, NEW r \in Requests, pc[r] # "unsent"
  PROVE  r <= sent /\ Key(r) \in Keys /\ req[r].conn \in Connections /\ req[r].handle \in Handles
<1>1. r <= sent /\ Key(r) \in Keys
  BY FrontFields, Numbers DEF FrontInv, SentInv
<1> QED BY <1>1 DEF Key, Keys

LEMMA OnWire ==
  ASSUME FrontInv, NEW i \in DOMAIN inbox, IsRequest(inbox[i])
  PROVE  /\ inbox[i].request \in Requests /\ inbox[i].request <= sent
         /\ pc[inbox[i].request] = "wire"
<1>1. inbox[i].request \in 1..sent /\ pc[inbox[i].request] = "wire"
  BY DEF FrontInv, InboxInv
<1>2. sent \in Nat /\ sent <= MaxRequests /\ MaxRequests \in Nat
  BY FrontFields, Numbers DEF FrontInv
<1> QED BY <1>1, <1>2 DEF Requests

\* One request of a key is active at a time.
LEMMA OneActive ==
  ASSUME FrontInv, NEW r \in Requests, NEW s \in Requests, r # s, Key(r) = Key(s),
         pc[r] \in Active
  PROVE  pc[s] \notin Active
<1>1. pc[r] # "unsent" /\ (pc[s] \in Active => pc[s] # "unsent")
  BY DEF Active, InFlight
<1>2. r <= sent /\ (pc[s] \in Active => s <= sent) /\ r \in Nat /\ s \in Nat /\ sent \in Nat
  BY <1>1, SentHasKey, FrontFields, Numbers DEF FrontInv
<1>3. CASE r < s
  BY <1>2, <1>3 DEF FrontInv, OrderInv, Active, InFlight
<1>4. CASE s < r
  BY <1>2, <1>4 DEF FrontInv, OrderInv, Active, InFlight
<1> QED BY <1>2, <1>3, <1>4

-----------------------------------------------------------------------------
(* The loop, the queues and the gate.                                       *)

\* Handlers that go on, and a handler that its gate lets in.
LEMMA FrontMoves ==
  ASSUME FrontInv, UNCHANGED <<connected, sent, req, inbox, known, accepting, loop, queue, idle>>,
         pc' \in [Requests -> Steps],
         \A r \in Requests :
           \/ pc'[r] = pc[r]
           \/ /\ pc[r] \in Active /\ pc'[r] \in InFlight
              /\ pc[r] \in InFlight \/ req[r].conn \in known
  PROVE  FrontInv'
<1> USE DEF FrontInv
<1>1. FrontTypes'
  BY DEF FrontTypes
<1>2. \A r \in Requests : /\ pc'[r] = "unsent" <=> pc[r] = "unsent"
                          /\ pc'[r] = "wire" <=> pc[r] = "wire"
                          /\ pc'[r] = "queued" <=> pc[r] = "queued"
                          /\ pc'[r] \in Active <=> pc[r] \in Active
  BY DEF Active, InFlight
<1>3. SentInv' /\ LoopInv'
  BY <1>2 DEF SentInv, LoopInv, Key
<1>4. InboxInv'
  <2>1. \A i \in DOMAIN inbox : IsRequest(inbox[i]) => inbox[i].request \in Requests
    BY OnWire
  <2> QED BY <1>2, <2>1 DEF InboxInv
<1>5. OrderInv'
  BY <1>2 DEF OrderInv, Key
<1>6. QueueInv'
  BY <1>2 DEF QueueInv, Holds, InOrder, Key
<1>7. GateInv'
  BY DEF GateInv
<1> QED BY <1>1, <1>3, <1>4, <1>5, <1>6, <1>7

\* The end of a request: its drain task goes on.
LEMMA FrontFinish ==
  ASSUME FrontInv, UNCHANGED <<connected, sent, req, inbox, known, accepting, loop>>,
         NEW r \in Requests, pc[r] \in Active, NEW st \in {"done", "skipped"},
         pc' = [pc EXCEPT ![r] = st], Resumes(r)
  PROVE  FrontInv'
<1> USE DEF FrontInv
<1>1. pc[r] # "unsent" /\ pc[r] # "wire" /\ pc[r] # "queued"
  BY DEF Active, InFlight
<1>2. Key(r) \in Keys /\ idle[Key(r)] = 0 /\ queue[Key(r)] # Absent
  BY <1>1, SentHasKey DEF QueueInv
<1>3. queue' = queue /\ idle' = [idle EXCEPT ![Key(r)] = 1]
  BY <1>2 DEF Resumes, FrontTypes
<1>4. pc'[r] = st /\ \A s \in Requests : s # r => pc'[s] = pc[s]
  BY DEF FrontTypes
<1>5. st \in Steps
  BY DEF Steps
<1>6. FrontTypes'
  <2>1. pc' \in [Requests -> Steps]
    BY <1>5 DEF FrontTypes
  <2>2. idle' \in [Keys -> 0..1]
    <3>1. idle \in [Keys -> 0..1] /\ 1 \in 0..1
      BY DEF FrontTypes
    <3> QED BY <3>1, <1>3, Zenon
  <2> QED BY <1>3, <2>1, <2>2 DEF FrontTypes
<1>7. \A s \in Requests : /\ pc'[s] = "unsent" <=> pc[s] = "unsent"
                          /\ pc'[s] = "wire" <=> pc[s] = "wire"
                          /\ pc'[s] = "queued" <=> pc[s] = "queued"
                          /\ pc'[s] \in Active => pc[s] \in Active /\ s # r
                          /\ pc'[s] \in InFlight => pc[s] \in InFlight
  BY <1>1, <1>4 DEF Active, InFlight
<1>8. SentInv' /\ LoopInv'
  BY <1>7 DEF SentInv, LoopInv, Key
<1>9. InboxInv'
  <2>1. \A i \in DOMAIN inbox : IsRequest(inbox[i]) => inbox[i].request \in Requests
    BY OnWire
  <2> QED BY <1>7, <2>1 DEF InboxInv
<1>10. OrderInv'
  BY <1>7 DEF OrderInv, Key
<1>11. QueueInv'
  <2>2. \A k \in Keys : k # Key(r) => idle'[k] = idle[k]
    BY <1>3 DEF FrontTypes
  <2>3. \A s \in Requests : pc'[s] \in Active => Key(s) # Key(r) /\ Key(s) \in Keys
    <3>1. \A s \in Requests : pc'[s] \in Active => pc[s] \in Active /\ pc[s] # "unsent" /\ s # r
      BY <1>7 DEF Active, InFlight
    <3> QED BY <3>1, OneActive, SentHasKey
  <2>4. \A s \in Requests : pc'[s] \in Active => queue'[Key(s)] # Absent /\ idle'[Key(s)] = 0
    BY <1>3, <1>7, <2>2, <2>3 DEF QueueInv
  <2>5. \A k \in Keys : queue'[k] = Absent => idle'[k] = 0
    BY <1>2, <1>3, <2>2 DEF QueueInv
  <2> QED BY <1>3, <1>7, <2>4, <2>5 DEF QueueInv, Holds, InOrder, Key
<1>12. GateInv'
  BY <1>7 DEF GateInv
<1> QED BY <1>6, <1>8, <1>9, <1>10, <1>11, <1>12

\* A client sends a request.
LEMMA FrontSend ==
  ASSUME FrontInv, NEW c \in Connections, NEW h \in Handles, NEW op \in Ops, Send(c, h, op)
  PROVE  FrontInv'
<1> USE DEF FrontInv
<1>0. PICK n : n = sent + 1
  OBVIOUS
<1> DEFINE e == [kind |-> "request", request |-> n, conn |-> c]
           q == [conn |-> c, handle |-> h, op |-> op, fresh |-> SeenEnd(<<c, h>>)]
<1>1. /\ UNCHANGED <<connected, known, accepting, loop, queue, idle>> /\ c \in connected
      /\ sent < MaxRequests /\ sent' = n /\ req' = [req EXCEPT ![n] = q]
      /\ pc' = [pc EXCEPT ![n] = "wire"] /\ inbox' = Append(inbox, e)
  BY <1>0, Zenon DEF Send, queueVars
<1>2. sent \in Nat /\ n \in Requests /\ n \in Nat /\ MaxRequests \in Nat /\ n = sent + 1
  BY <1>0, <1>1, FrontFields, Numbers DEF Requests
<1>3. q \in Reqs
  <2>1. SeenEnd(<<c, h>>) \in BOOLEAN
    BY DEF SeenEnd
  <2> QED BY <2>1 DEF Reqs
<1>4. e \in Events /\ e.kind = "request" /\ e.request = n
  BY <1>2 DEF Events
<1>5. q.conn = c /\ q.handle = h
  OBVIOUS
<1>6. pc'[n] = "wire" /\ \A r \in Requests : r # n => pc'[r] = pc[r]
  BY <1>1, <1>2 DEF FrontTypes
<1>7. req'[n] = q /\ \A r \in Requests : r # n => req'[r] = req[r]
  BY <1>1, <1>2 DEF FrontTypes
<1> HIDE DEF q, e
<1>8. FrontTypes'
  <2>1. inbox' \in Seq(Events)
    BY <1>1, <1>4, Appended DEF FrontTypes
  <2>2. req' \in [Requests -> Reqs] /\ pc' \in [Requests -> Steps]
    BY <1>1, <1>3 DEF FrontTypes, Steps
  <2>3. sent' \in 0..MaxRequests
    BY <1>1, <1>2
  <2> QED BY <1>1, <2>1, <2>2, <2>3 DEF FrontTypes
<1>9. \A r \in Requests : r # n => Key(r)' = Key(r)
  BY <1>7 DEF Key
<1>10. Key(n)' \in Keys
  BY <1>5, <1>7 DEF Key, Keys
<1>11. pc[n] = "unsent"
  BY <1>2 DEF SentInv
<1>12. SentInv'
  <2> SUFFICES ASSUME NEW r \in Requests
               PROVE  /\ r <= n => Key(r)' \in Keys /\ pc'[r] # "unsent"
                      /\ r > n => pc'[r] = "unsent"
    BY <1>1 DEF SentInv
  <2>1. CASE r = n
    BY <2>1, <1>2, <1>6, <1>10
  <2>2. CASE r # n
    BY <2>2, <1>2, <1>6, <1>9, Numbers DEF SentInv
  <2> QED BY <2>1, <2>2
<1>13. LoopInv'
  BY <1>1 DEF LoopInv
<1>14. InboxInv'
  <2> DEFINE L == Len(inbox)
  <2>1. inbox \in Seq(Events) /\ L \in Nat /\ DOMAIN inbox = 1..L
    BY LenProperties DEF FrontTypes
  <2>2. /\ DOMAIN inbox' = 1..(L + 1) /\ inbox'[L + 1] = e
        /\ \A i \in DOMAIN inbox : inbox'[i] = inbox[i]
    BY <1>1, <1>4, <2>1, Appended
  <2>3. \A i \in DOMAIN inbox : IsRequest(inbox[i]) =>
          inbox[i].request \in 1..sent /\ pc[inbox[i].request] = "wire"
          /\ inbox[i].request \in Requests /\ inbox[i].request < n /\ inbox[i].request # n
    BY <1>2 DEF InboxInv, Requests
  <2> HIDE DEF L
  <2>4. ASSUME NEW i \in DOMAIN inbox'
        PROVE  IF IsRequest(inbox'[i])
                 THEN inbox'[i].request \in 1..sent' /\ pc'[inbox'[i].request] = "wire"
                 ELSE inbox'[i].conn \in known' \ connected'
    <3>1. CASE i = L + 1
      BY <3>1, <2>2, <1>1, <1>2, <1>4, <1>6 DEF IsRequest
    <3>2. CASE i \in DOMAIN inbox
      BY <3>2, <2>2, <2>3, <1>1, <1>2, <1>6 DEF InboxInv
    <3> QED BY <2>1, <2>2, <3>1, <3>2
  <2>5. ASSUME NEW i \in DOMAIN inbox', NEW j \in DOMAIN inbox', i < j
        PROVE  /\ IsRequest(inbox'[i]) /\ IsRequest(inbox'[j]) =>
                    inbox'[i].request < inbox'[j].request
               /\ ~IsRequest(inbox'[i]) /\ ~IsRequest(inbox'[j]) =>
                    inbox'[i].conn # inbox'[j].conn
    <3>1. i \in DOMAIN inbox
      BY <2>1, <2>2, <2>5
    <3>2. CASE j = L + 1
      BY <3>1, <3>2, <2>2, <2>3, <1>4 DEF IsRequest
    <3>3. CASE j \in DOMAIN inbox
      BY <3>1, <3>3, <2>2, <2>5 DEF InboxInv
    <3> QED BY <2>1, <2>2, <3>2, <3>3
  <2>6. ASSUME NEW r \in Requests, pc'[r] = "wire"
        PROVE  \E i \in DOMAIN inbox' : IsRequest(inbox'[i]) /\ inbox'[i].request = r
    <3>1. CASE r = n
      BY <3>1, <2>1, <2>2, <1>4 DEF IsRequest
    <3>2. CASE r # n
      <4>1. PICK i \in DOMAIN inbox : IsRequest(inbox[i]) /\ inbox[i].request = r
        BY <3>2, <2>6, <1>6 DEF InboxInv
      <4>2. i \in DOMAIN inbox'
        BY <2>1, <2>2
      <4> QED BY <4>1, <4>2, <2>2
    <3> QED BY <3>1, <3>2
  <2> QED BY <2>4, <2>5, <2>6 DEF InboxInv
<1>15. OrderInv'
  <2> SUFFICES ASSUME NEW r \in Requests, NEW s \in Requests, r < s, s <= n
               PROVE  /\ pc'[r] = "wire" => pc'[s] = "wire"
                      /\ Key(s)' = Key(r)' /\ pc'[r] \in Active \cup {"queued"} =>
                           pc'[s] \in {"wire", "queued"}
    BY <1>1 DEF OrderInv
  <2>1. CASE s = n
    BY <2>1, <1>6
  <2>2. CASE s # n
    <3>1. s <= sent /\ r # n
      BY <2>2, <1>2, Numbers
    <3> QED BY <2>2, <3>1, <1>6, <1>9 DEF OrderInv
  <2> QED BY <2>1, <2>2
<1>16. QueueInv'
  <2>1. \A r \in Requests : pc'[r] = "queued" \/ pc'[r] \in Active =>
          r # n /\ pc'[r] = pc[r] /\ Key(r)' = Key(r)
    BY <1>6, <1>9 DEF Active, InFlight
  <2>2. \A k \in Keys, r \in Requests : Holds(k, r) =>
          r # n /\ pc'[r] = "queued" /\ Key(r)' = k
    BY <1>6, <1>9, <1>11 DEF QueueInv
  <2>3. \A k \in Keys : /\ InOrder(k)' <=> InOrder(k)
                        /\ \A r \in Requests : Holds(k, r)' <=> Holds(k, r)
    BY <1>1 DEF InOrder, Holds
  <2>4. \A r \in Requests : /\ pc'[r] = "queued" => Key(r) \in Keys /\ Holds(Key(r), r)
                            /\ pc'[r] \in Active => Key(r) \in Keys
    <3>1. \A r \in Requests : pc'[r] = "queued" \/ pc'[r] \in Active => pc[r] # "unsent"
      BY <2>1 DEF Active, InFlight
    <3> QED BY <2>1, <3>1, SentHasKey DEF QueueInv
  <2>5. ASSUME NEW r \in Requests
        PROVE  /\ pc'[r] = "queued" => Holds(Key(r), r)'
               /\ pc'[r] \in Active => queue'[Key(r)'] # Absent /\ idle'[Key(r)'] = 0
    <3>1. ASSUME pc'[r] = "queued" PROVE Holds(Key(r), r)'
      <4>1. PICK k \in Keys : k = Key(r) /\ Holds(k, r)
        BY <3>1, <2>4
      <4>2. Key(r)' = k /\ queue' = queue
        BY <3>1, <4>1, <2>1, <1>1
      <4> QED BY <4>1, <4>2 DEF Holds
    <3>2. pc'[r] \in Active => queue'[Key(r)'] # Absent /\ idle'[Key(r)'] = 0
      BY <2>1, <1>1 DEF QueueInv
    <3> QED BY <3>1, <3>2
  <2> QED BY <2>2, <2>3, <2>5, <1>1 DEF QueueInv
<1>17. GateInv'
  <2>1. \A r \in Requests : pc'[r] \in InFlight => r # n
    BY <1>6 DEF InFlight
  <2> QED BY <2>1, <1>1, <1>6, <1>7 DEF GateInv
<1> QED BY <1>8, <1>12, <1>13, <1>14, <1>15, <1>16, <1>17

\* A client leaves.
LEMMA FrontDisconnect ==
  ASSUME FrontInv, NEW c \in Connections, Disconnect(c)
  PROVE  FrontInv'
<1> USE DEF FrontInv
<1> DEFINE e == [kind |-> "closed", request |-> None, conn |-> c]
<1>1. /\ UNCHANGED <<sent, req, known, accepting, loop, queue, idle, pc>> /\ c \in connected
      /\ connected' = connected \ {c} /\ inbox' = Append(inbox, e)
  BY Zenon DEF Disconnect, queueVars, handlerVars
<1>2. e \in Events /\ e.kind # "request" /\ e.conn = c
  BY DEF Events
<1> HIDE DEF e
<1>3. FrontTypes'
  <2>1. inbox' \in Seq(Events)
    BY <1>1, <1>2, Appended DEF FrontTypes
  <2> QED BY <1>1, <2>1 DEF FrontTypes
<1>4. SentInv' /\ LoopInv' /\ OrderInv' /\ GateInv'
  BY <1>1 DEF SentInv, LoopInv, OrderInv, GateInv, Key
<1>5. QueueInv'
  BY <1>1 DEF QueueInv, Holds, InOrder, Key
<1>6. c \in known
  BY <1>1 DEF LoopInv
<1>7. InboxInv'
  <2> DEFINE L == Len(inbox)
  <2>1. inbox \in Seq(Events) /\ L \in Nat /\ DOMAIN inbox = 1..L
    BY LenProperties DEF FrontTypes
  <2>2. /\ DOMAIN inbox' = 1..(L + 1) /\ inbox'[L + 1] = e
        /\ \A i \in DOMAIN inbox : inbox'[i] = inbox[i]
    BY <1>1, <1>2, <2>1, Appended
  <2>3. \A i \in DOMAIN inbox : ~IsRequest(inbox[i]) => inbox[i].conn # c
    BY <1>1 DEF InboxInv
  <2> HIDE DEF L
  <2>4. ASSUME NEW i \in DOMAIN inbox'
        PROVE  IF IsRequest(inbox'[i])
                 THEN inbox'[i].request \in 1..sent' /\ pc'[inbox'[i].request] = "wire"
                 ELSE inbox'[i].conn \in known' \ connected'
    <3>1. CASE i = L + 1
      BY <3>1, <2>2, <1>1, <1>2, <1>6 DEF IsRequest
    <3>2. CASE i \in DOMAIN inbox
      BY <3>2, <2>2, <1>1 DEF InboxInv
    <3> QED BY <2>1, <2>2, <3>1, <3>2
  <2>5. ASSUME NEW i \in DOMAIN inbox', NEW j \in DOMAIN inbox', i < j
        PROVE  /\ IsRequest(inbox'[i]) /\ IsRequest(inbox'[j]) =>
                    inbox'[i].request < inbox'[j].request
               /\ ~IsRequest(inbox'[i]) /\ ~IsRequest(inbox'[j]) =>
                    inbox'[i].conn # inbox'[j].conn
    <3>1. i \in DOMAIN inbox
      BY <2>1, <2>2, <2>5
    <3>2. CASE j = L + 1
      BY <3>1, <3>2, <2>2, <2>3, <1>2 DEF IsRequest
    <3>3. CASE j \in DOMAIN inbox
      BY <3>1, <3>3, <2>2, <2>5 DEF InboxInv
    <3> QED BY <2>1, <2>2, <3>2, <3>3
  <2>6. ASSUME NEW r \in Requests, pc'[r] = "wire"
        PROVE  \E i \in DOMAIN inbox' : IsRequest(inbox'[i]) /\ inbox'[i].request = r
    <3>1. PICK i \in DOMAIN inbox : IsRequest(inbox[i]) /\ inbox[i].request = r
      BY <2>6, <1>1 DEF InboxInv
    <3>2. i \in DOMAIN inbox'
      BY <2>1, <2>2
    <3> QED BY <3>1, <3>2, <2>2
  <2> QED BY <2>4, <2>5, <2>6 DEF InboxInv
<1> QED BY <1>3, <1>4, <1>5, <1>7

\* The loop takes the next event: what remains is as it was, without its head.
LEMMA InboxTail ==
  ASSUME FrontInv, inbox # <<>>, inbox' = Tail(inbox), sent' = sent,
         \A i \in DOMAIN inbox : i # 1 =>
           IF IsRequest(inbox[i]) THEN pc'[inbox[i].request] = "wire"
                                  ELSE inbox[i].conn \in known' \ connected',
         \A r \in Requests : pc'[r] = "wire" =>
           pc[r] = "wire" /\ ~(IsRequest(inbox[1]) /\ inbox[1].request = r)
  PROVE  InboxInv' /\ inbox' \in Seq(Events)
<1> USE DEF FrontInv
<1> DEFINE L == Len(inbox)
<1>1. inbox \in Seq(Events)
  BY DEF FrontTypes
<1>2. /\ L \in Nat \ {0} /\ DOMAIN inbox = 1..L /\ inbox' \in Seq(Events)
      /\ DOMAIN inbox' = 1..(L - 1) /\ \A i \in 1..(L - 1) : inbox'[i] = inbox[i + 1]
  BY <1>1, Shortened
<1> HIDE DEF L
<1>3. ASSUME NEW i \in DOMAIN inbox'
      PROVE  i + 1 \in DOMAIN inbox /\ i + 1 # 1 /\ inbox'[i] = inbox[i + 1] /\ i \in Nat
  <2>1. i \in 1..(L - 1)
    BY <1>2
  <2>2. i + 1 \in 1..L /\ i + 1 # 1 /\ i \in Nat
    BY <2>1, <1>2
  <2> QED BY <2>1, <2>2, <1>2
<1>4. ASSUME NEW i \in DOMAIN inbox'
      PROVE  IF IsRequest(inbox'[i])
               THEN inbox'[i].request \in 1..sent' /\ pc'[inbox'[i].request] = "wire"
               ELSE inbox'[i].conn \in known' \ connected'
  BY <1>3 DEF InboxInv
<1>5. ASSUME NEW i \in DOMAIN inbox', NEW j \in DOMAIN inbox', i < j
      PROVE  /\ IsRequest(inbox'[i]) /\ IsRequest(inbox'[j]) =>
                  inbox'[i].request < inbox'[j].request
             /\ ~IsRequest(inbox'[i]) /\ ~IsRequest(inbox'[j]) =>
                  inbox'[i].conn # inbox'[j].conn
  <2>1. i + 1 < j + 1
    BY <1>3, <1>5
  <2> QED BY <2>1, <1>3 DEF InboxInv
<1>6. ASSUME NEW r \in Requests, pc'[r] = "wire"
      PROVE  \E i \in DOMAIN inbox' : IsRequest(inbox'[i]) /\ inbox'[i].request = r
  <2>1. PICK i \in DOMAIN inbox : IsRequest(inbox[i]) /\ inbox[i].request = r
    BY <1>6 DEF InboxInv
  <2>2. i # 1 /\ i \in 1..L
    BY <2>1, <1>2, <1>6
  <2>3. i - 1 \in 1..(L - 1) /\ (i - 1) + 1 = i
    BY <2>2, <1>2
  <2>4. inbox'[i - 1] = inbox[i]
    BY <2>3, <1>2
  <2> QED BY <2>1, <2>3, <2>4, <1>2
<1> QED BY <1>2, <1>4, <1>5, <1>6 DEF InboxInv

\* The loop queues a request: it comes after everything that is in the queue of its key.
LEMMA FrontRequest ==
  ASSUME FrontInv, LoopRequest
  PROVE  FrontInv'
<1> USE DEF FrontInv
<1>1. /\ inbox # <<>> /\ Head(inbox).kind = "request" /\ inbox' = Tail(inbox)
      /\ UNCHANGED <<connected, sent, req, known, accepting, loop>>
      /\ pc' = [pc EXCEPT ![Head(inbox).request] = "queued"]
      /\ Enqueue(Key(Head(inbox).request), Head(inbox).request)
  BY DEF LoopRequest, clientVars
<1>2. inbox \in Seq(Events) /\ 1 \in DOMAIN inbox /\ Head(inbox) = inbox[1]
  BY <1>1, Shortened DEF FrontTypes
<1>3. PICK r \in Requests : r = inbox[1].request
  BY <1>1, <1>2, OnWire DEF IsRequest
<1>4. IsRequest(inbox[1]) /\ r <= sent /\ pc[r] = "wire"
  BY <1>1, <1>2, <1>3, OnWire DEF IsRequest
<1>5. PICK k \in Keys : k = Key(r)
  BY <1>4, SentHasKey
<1>6. pc' = [pc EXCEPT ![r] = "queued"] /\ Enqueue(k, r)
  BY <1>1, <1>2, <1>3, <1>5
<1>7. pc'[r] = "queued" /\ \A s \in Requests : s # r => pc'[s] = pc[s]
  BY <1>6 DEF FrontTypes
<1>8. \A s \in Requests : Key(s)' = Key(s)
  BY <1>1 DEF Key
<1>9. queue \in [Keys -> {Absent} \cup Seq(Requests)] /\ idle \in [Keys -> 0..1]
  BY DEF FrontTypes
<1>10. \A s \in Requests : s <= sent /\ pc[s] # "wire" => s < r
  BY <1>4, Numbers DEF OrderInv
<1>11. InboxInv' /\ inbox' \in Seq(Events)
  <2>1. \A i \in DOMAIN inbox : i # 1 =>
           IF IsRequest(inbox[i]) THEN pc'[inbox[i].request] = "wire"
                                  ELSE inbox[i].conn \in known' \ connected'
    <3> SUFFICES ASSUME NEW i \in DOMAIN inbox, i # 1
                 PROVE  IF IsRequest(inbox[i]) THEN pc'[inbox[i].request] = "wire"
                                               ELSE inbox[i].conn \in known' \ connected'
      OBVIOUS
    <3>1. CASE IsRequest(inbox[i])
      <4>1. i > 1
        BY <1>2, LenProperties
      <4>2. r < inbox[i].request /\ inbox[i].request \in Requests /\ pc[inbox[i].request] = "wire"
        BY <3>1, <4>1, <1>2, <1>3, <1>4, OnWire DEF InboxInv
      <4>3. inbox[i].request # r
        BY <4>2, Numbers
      <4> QED BY <3>1, <4>2, <4>3, <1>7
    <3>2. CASE ~IsRequest(inbox[i])
      BY <3>2, <1>1 DEF InboxInv
    <3> QED BY <3>1, <3>2
  <2>2. \A s \in Requests : pc'[s] = "wire" =>
           pc[s] = "wire" /\ ~(IsRequest(inbox[1]) /\ inbox[1].request = s)
    BY <1>3, <1>7
  <2> QED BY <1>1, <2>1, <2>2, InboxTail
<1>12. SentInv' /\ LoopInv'
  BY <1>1, <1>4, <1>7, <1>8, Numbers DEF SentInv, LoopInv
<1>13. GateInv'
  BY <1>1, <1>7 DEF GateInv, InFlight
<1>14. OrderInv'
  <2> SUFFICES ASSUME NEW q \in Requests, NEW s \in Requests, q < s, s <= sent
               PROVE  /\ pc'[q] = "wire" => pc'[s] = "wire"
                      /\ Key(s) = Key(q) /\ pc'[q] \in Active \cup {"queued"} =>
                           pc'[s] \in {"wire", "queued"}
    BY <1>1, <1>8 DEF OrderInv
  <2>1. CASE q = r
    <3>1. s # r /\ pc[s] = "wire"
      BY <2>1, <1>4, Numbers DEF OrderInv
    <3> QED BY <2>1, <3>1, <1>7
  <2>2. CASE s = r
    <3>1. q # r /\ pc'[q] = pc[q] /\ pc[q] # "wire"
      <4>1. q # r /\ q <= sent
        BY <2>2, Numbers, FrontFields
      <4>2. pc[q] = "wire" => inbox[1].request <= q
        <5> SUFFICES ASSUME pc[q] = "wire" PROVE inbox[1].request <= q
          OBVIOUS
        <5>1. PICK i \in DOMAIN inbox : IsRequest(inbox[i]) /\ inbox[i].request = q
          BY DEF InboxInv
        <5>2. CASE i = 1
          BY <5>1, <5>2, Numbers
        <5>3. CASE i # 1
          <6>1. i > 1
            BY <5>3, <1>2, LenProperties
          <6>2. inbox[1].request < inbox[i].request
            BY <6>1, <5>1, <1>2, <1>4 DEF InboxInv
          <6> QED BY <6>2, <5>1, <1>3, Numbers
        <5> QED BY <5>2, <5>3
      <4> QED BY <2>2, <4>1, <4>2, <1>3, <1>7, Numbers
    <3> QED BY <2>2, <3>1, <1>7
  <2>3. CASE q # r /\ s # r
    BY <2>3, <1>7 DEF OrderInv
  <2> QED BY <2>1, <2>2, <2>3
<1>15. \A s \in Requests : pc'[s] \in Active => pc[s] \in Active /\ s # r /\ Key(s) \in Keys
  <2>1. \A s \in Requests : pc'[s] \in Active => pc[s] \in Active /\ s # r /\ pc[s] # "unsent"
    BY <1>7 DEF Active, InFlight
  <2> QED BY <2>1, SentHasKey
<1>16. \A s \in Requests : Holds(k, s) => s < r /\ s # r
  <2>1. \A s \in Requests : Holds(k, s) => pc[s] = "queued"
    BY DEF QueueInv
  <2>2. \A s \in Requests : Holds(k, s) => s <= sent /\ pc[s] # "wire"
    BY <2>1, SentHasKey
  <2> QED BY <2>2, <1>10, Numbers
<1>17. /\ queue' \in [Keys -> {Absent} \cup Seq(Requests)] /\ idle' \in [Keys -> 0..1]
       /\ \A l \in Keys : l # k => queue'[l] = queue[l] /\ idle'[l] = idle[l]
       /\ queue'[k] # Absent /\ InOrder(k)'
       /\ \A s \in Requests : Holds(k, s)' <=> s = r \/ Holds(k, s)
       /\ queue[k] # Absent => idle'[k] = idle[k]
  <2>1. CASE queue[k] = Absent
    <3>1. queue' = [queue EXCEPT ![k] = <<r>>] /\ idle' = [idle EXCEPT ![k] = idle[k] + 1]
      BY <2>1, <1>6 DEF Enqueue
    <3>2. idle[k] = 0
      BY <2>1 DEF QueueInv
    <3>3. idle' = [idle EXCEPT ![k] = 1] /\ 1 \in 0..1
      BY <3>1, <3>2
    <3>4. idle' \in [Keys -> 0..1] /\ \A l \in Keys : l # k => idle'[l] = idle[l]
      BY <3>3, <1>9, Zenon
    <3>5. <<r>> \in Seq(Requests) /\ DOMAIN <<r>> = {1} /\ <<r>>[1] = r
      OBVIOUS
    <3>6. queue' \in [Keys -> {Absent} \cup Seq(Requests)] /\ queue'[k] = <<r>>
          /\ \A l \in Keys : l # k => queue'[l] = queue[l]
      BY <3>1, <3>5, <1>9
    <3>7. <<r>> # Absent
      BY <3>5, AbsentIsNoQueue
    <3>8. InOrder(k)'
      BY <3>5, <3>6 DEF InOrder
    <3>9. \A s \in Requests : Holds(k, s)' <=> s = r
      BY <3>5, <3>6, <3>7 DEF Holds
    <3>10. \A s \in Requests : ~Holds(k, s)
      BY <2>1 DEF Holds
    <3> QED BY <2>1, <3>4, <3>6, <3>7, <3>8, <3>9, <3>10
  <2>2. CASE queue[k] # Absent
    <3>1. queue' = [queue EXCEPT ![k] = Append(queue[k], r)] /\ idle' = idle
      BY <2>2, <1>6 DEF Enqueue
    <3>2. queue[k] \in Seq(Requests)
      BY <2>2, <1>9
    <3> DEFINE L == Len(queue[k])
    <3>3. /\ Append(queue[k], r) \in Seq(Requests) /\ L \in Nat /\ DOMAIN queue[k] = 1..L
          /\ DOMAIN Append(queue[k], r) = 1..(L + 1)
          /\ \A i \in 1..L : Append(queue[k], r)[i] = queue[k][i]
          /\ Append(queue[k], r)[L + 1] = r
      BY <3>2, Appended
    <3>4. queue' \in [Keys -> {Absent} \cup Seq(Requests)] /\ queue'[k] = Append(queue[k], r)
          /\ \A l \in Keys : l # k => queue'[l] = queue[l]
      BY <3>1, <3>3, <1>9
    <3>5. queue'[k] # Absent
      BY <3>3, <3>4, AbsentIsNoQueue
    <3>6. \A i \in DOMAIN queue[k] : queue[k][i] \in Requests /\ Holds(k, queue[k][i])
      BY <2>2, <3>2, ElementOfSeq, LenProperties DEF Holds
    <3>7. \A i \in DOMAIN queue[k] : queue[k][i] < r
      BY <3>6, <1>16
    <3>8. /\ DOMAIN queue'[k] = 1..(L + 1) /\ queue'[k][L + 1] = r
          /\ \A i \in 1..L : queue'[k][i] = queue[k][i]
      BY <3>3, <3>4
    <3> HIDE DEF L
    <3>9. InOrder(k)'
      <4> SUFFICES ASSUME NEW i \in DOMAIN queue'[k], NEW j \in DOMAIN queue'[k], i < j
                   PROVE  queue'[k][i] < queue'[k][j]
        BY DEF InOrder
      <4>1. i \in 1..L /\ (j = L + 1 \/ j \in 1..L)
        BY <3>3, <3>8
      <4>2. CASE j = L + 1
        BY <4>1, <4>2, <3>3, <3>7, <3>8
      <4>3. CASE j \in 1..L
        <5>1. queue[k][i] < queue[k][j]
          BY <4>1, <4>3, <2>2, <3>3 DEF QueueInv, InOrder
        <5> QED BY <5>1, <4>1, <4>3, <3>8
      <4> QED BY <4>1, <4>2, <4>3
    <3>10. ASSUME NEW s \in Requests PROVE Holds(k, s)' <=> s = r \/ Holds(k, s)
      <4>1. ASSUME Holds(k, s)' PROVE s = r \/ Holds(k, s)
        <5>1. PICK i \in 1..(L + 1) : queue'[k][i] = s
          BY <4>1, <3>8 DEF Holds
        <5>2. i = L + 1 \/ i \in 1..L
          BY <5>1, <3>3
        <5> QED BY <5>1, <5>2, <3>3, <3>8, <2>2 DEF Holds
      <4>2. ASSUME Holds(k, s) PROVE Holds(k, s)'
        <5>1. PICK i \in 1..L : queue[k][i] = s
          BY <4>2, <3>3 DEF Holds
        <5>2. i \in 1..(L + 1)
          BY <5>1, <3>3
        <5> QED BY <5>1, <5>2, <3>5, <3>8 DEF Holds
      <4>3. s = r => Holds(k, s)'
        <5>1. L + 1 \in 1..(L + 1)
          BY <3>3
        <5> QED BY <5>1, <3>5, <3>8 DEF Holds
      <4> QED BY <4>1, <4>2, <4>3
    <3> QED BY <3>1, <3>4, <3>5, <3>9, <3>10, <1>9
  <2> QED BY <2>1, <2>2
<1>18. FrontTypes'
  <2>1. pc' \in [Requests -> Steps]
    BY <1>6 DEF FrontTypes, Steps
  <2> QED BY <1>1, <1>11, <1>17, <2>1 DEF FrontTypes
<1>19. QueueInv'
  <2>1. ASSUME NEW l \in Keys PROVE InOrder(l)' /\ (queue'[l] = Absent => idle'[l] = 0)
    <3>1. CASE l = k
      BY <3>1, <1>17
    <3>2. CASE l # k
      BY <3>2, <1>17 DEF QueueInv, InOrder
    <3> QED BY <3>1, <3>2
  <2>2. \A l \in Keys, s \in Requests : l # k => (Holds(l, s)' <=> Holds(l, s))
    BY <1>17 DEF Holds
  <2>3. ASSUME NEW l \in Keys, NEW s \in Requests, Holds(l, s)'
        PROVE  pc'[s] = "queued" /\ Key(s) = l
    <3>1. CASE l = k /\ s = r
      BY <3>1, <1>5, <1>7
    <3>2. CASE ~(l = k /\ s = r)
      <4>1. Holds(l, s)
        BY <2>2, <2>3, <3>2, <1>17
      <4>2. pc[s] = "queued" /\ Key(s) = l
        BY <4>1 DEF QueueInv
      <4> QED BY <4>2, <1>7
    <3> QED BY <3>1, <3>2
  <2>4. ASSUME NEW s \in Requests
        PROVE  /\ pc'[s] = "queued" => Holds(Key(s), s)'
               /\ pc'[s] \in Active => queue'[Key(s)] # Absent /\ idle'[Key(s)] = 0
    <3>1. ASSUME pc'[s] = "queued" PROVE Holds(Key(s), s)'
      <4>1. PICK l \in Keys : l = Key(s)
        <5>1. pc[s] # "unsent"
          BY <3>1, <1>4, <1>7
        <5> QED BY <5>1, SentHasKey
      <4>2. Holds(l, s)'
        <5>1. CASE s = r
          BY <5>1, <4>1, <1>5, <1>17
        <5>2. CASE s # r
          <6>1. Holds(l, s)
            BY <5>2, <3>1, <4>1, <1>7 DEF QueueInv
          <6> QED BY <6>1, <2>2, <1>17
        <5> QED BY <5>1, <5>2
      <4>3. Key(s)' = l
        BY <4>1, <1>8
      <4> QED BY <4>2, <4>3 DEF Holds
    <3>2. ASSUME pc'[s] \in Active PROVE queue'[Key(s)] # Absent /\ idle'[Key(s)] = 0
      <4>1. Key(s) \in Keys /\ queue[Key(s)] # Absent /\ idle[Key(s)] = 0
        BY <3>2, <1>15 DEF QueueInv
      <4> QED BY <4>1, <1>17
    <3> QED BY <3>1, <3>2
  <2> QED BY <2>1, <2>3, <2>4, <1>8 DEF QueueInv
<1> QED BY <1>11, <1>12, <1>13, <1>14, <1>18, <1>19

\* The loop closes a connection: it leaves the map, and its gate stops accepting.
LEMMA FrontClose ==
  ASSUME FrontInv, LoopClose
  PROVE  FrontInv'
<1> USE DEF FrontInv
<1>1. /\ inbox # <<>> /\ Head(inbox).kind = "closed" /\ inbox' = Tail(inbox)
      /\ UNCHANGED <<connected, sent, req, queue, idle, pc>> /\ loop.step = "idle"
      /\ known' = known \ {Head(inbox).conn} /\ accepting' = accepting \ {Head(inbox).conn}
      /\ loop' = [step |-> "wait", conn |-> Head(inbox).conn]
  BY DEF LoopClose, clientVars, queueVars, handlerVars
<1>2. inbox \in Seq(Events) /\ 1 \in DOMAIN inbox /\ Head(inbox) = inbox[1]
  BY <1>1, Shortened DEF FrontTypes
<1>3. PICK c \in Connections : c = inbox[1].conn
  BY <1>2, FrontFields
<1>4. /\ known' = known \ {c} /\ accepting' = accepting \ {c}
      /\ loop' = [step |-> "wait", conn |-> c] /\ ~IsRequest(inbox[1])
  BY <1>1, <1>2, <1>3 DEF IsRequest
<1>5. c \notin connected
  BY <1>2, <1>3, <1>4 DEF InboxInv
<1>6. InboxInv' /\ inbox' \in Seq(Events)
  <2>1. \A i \in DOMAIN inbox : i # 1 =>
           IF IsRequest(inbox[i]) THEN pc'[inbox[i].request] = "wire"
                                  ELSE inbox[i].conn \in known' \ connected'
    <3> SUFFICES ASSUME NEW i \in DOMAIN inbox, i # 1
                 PROVE  IF IsRequest(inbox[i]) THEN pc'[inbox[i].request] = "wire"
                                               ELSE inbox[i].conn \in known' \ connected'
      OBVIOUS
    <3>1. CASE IsRequest(inbox[i])
      BY <3>1, <1>1, OnWire
    <3>2. CASE ~IsRequest(inbox[i])
      <4>1. i > 1
        BY <1>2, LenProperties
      <4>2. inbox[1].conn # inbox[i].conn /\ inbox[i].conn \in known \ connected
        BY <3>2, <4>1, <1>2, <1>4 DEF InboxInv
      <4> QED BY <3>2, <4>2, <1>1, <1>3, <1>4
    <3> QED BY <3>1, <3>2
  <2>2. \A s \in Requests : pc'[s] = "wire" =>
           pc[s] = "wire" /\ ~(IsRequest(inbox[1]) /\ inbox[1].request = s)
    BY <1>1, <1>4
  <2> QED BY <1>1, <2>1, <2>2, InboxTail
<1>7. FrontTypes'
  BY <1>1, <1>4, <1>6 DEF FrontTypes
<1>8. SentInv' /\ OrderInv' /\ QueueInv'
  BY <1>1 DEF SentInv, OrderInv, QueueInv, Holds, InOrder, Key
<1>9. LoopInv'
  BY <1>1, <1>4, <1>5 DEF LoopInv
<1>10. GateInv'
  BY <1>1, <1>4, <1>3 DEF GateInv
<1> QED BY <1>6, <1>7, <1>8, <1>9, <1>10

\* No handler of the connection is left, and the loop goes on.
LEMMA FrontWaited ==
  ASSUME FrontInv, LoopWaited
  PROVE  FrontInv'
<1> USE DEF FrontInv
<1>1. /\ UNCHANGED <<connected, sent, req, inbox, known, accepting, queue, idle, pc>>
      /\ loop.step = "wait" /\ Tokens(loop.conn) = {} /\ loop' = [loop EXCEPT !.step = "kill"]
  BY DEF LoopWaited, WaitedFor, clientVars, queueVars, handlerVars
<1>2. loop'.step = "kill" /\ loop'.conn = loop.conn
      /\ loop' \in [step : {"idle", "wait", "kill"}, conn : Connections \cup {None}]
  BY <1>1 DEF FrontTypes
<1>3. FrontTypes'
  BY <1>1, <1>2 DEF FrontTypes
<1>4. SentInv' /\ OrderInv' /\ QueueInv' /\ InboxInv'
  BY <1>1 DEF SentInv, OrderInv, QueueInv, InboxInv, Holds, InOrder, Key
<1>5. LoopInv'
  BY <1>1, <1>2 DEF LoopInv
<1>6. GateInv'
  <2>1. \A r \in Requests : pc[r] \in InFlight => req[r].conn # loop.conn
    BY <1>1 DEF Tokens
  <2> QED BY <1>1, <1>2, <2>1 DEF GateInv
<1> QED BY <1>3, <1>4, <1>5, <1>6

\* The processes of the connection have been killed, and the loop is idle again.
LEMMA FrontKill ==
  ASSUME FrontInv, LoopKill
  PROVE  FrontInv'
<1> USE DEF FrontInv
<1>1. /\ UNCHANGED <<connected, sent, req, inbox, known, accepting, queue, idle, pc>>
      /\ loop.step = "kill" /\ loop' = [step |-> "idle", conn |-> None]
  BY DEF LoopKill, clientVars, queueVars, handlerVars
<1>2. FrontTypes'
  BY <1>1 DEF FrontTypes
<1>3. SentInv' /\ OrderInv' /\ QueueInv' /\ InboxInv'
  BY <1>1 DEF SentInv, OrderInv, QueueInv, InboxInv, Holds, InOrder, Key
<1>4. LoopInv' /\ GateInv'
  BY <1>1 DEF LoopInv, GateInv
<1> QED BY <1>2, <1>3, <1>4

\* A drain task takes the first of its queue, and nothing else of the key is under way.
LEMMA FrontPop ==
  ASSUME FrontInv, NEW k \in Keys, DrainPop(k)
  PROVE  FrontInv'
<1> USE DEF FrontInv
<1>1. /\ UNCHANGED <<connected, sent, req, inbox, known, accepting, loop>>
      /\ idle[k] > 0 /\ queue[k] # Absent /\ queue[k] # <<>>
      /\ idle' = [idle EXCEPT ![k] = idle[k] - 1] /\ queue' = [queue EXCEPT ![k] = Tail(queue[k])]
      /\ pc' = [pc EXCEPT ![Head(queue[k])] = "popped"]
  BY DEF DrainPop, AfterPop, clientVars, loopVars
<1>2. /\ queue \in [Keys -> {Absent} \cup Seq(Requests)] /\ idle \in [Keys -> 0..1]
      /\ queue[k] \in Seq(Requests)
  BY <1>1 DEF FrontTypes
<1> DEFINE L == Len(queue[k])
<1>3. /\ L \in Nat \ {0} /\ DOMAIN queue[k] = 1..L /\ 1 \in DOMAIN queue[k]
      /\ Head(queue[k]) = queue[k][1] /\ Head(queue[k]) \in Requests
      /\ Tail(queue[k]) \in Seq(Requests) /\ DOMAIN Tail(queue[k]) = 1..(L - 1)
      /\ \A i \in 1..(L - 1) : Tail(queue[k])[i] = queue[k][i + 1]
  BY <1>1, <1>2, Shortened
<1> HIDE DEF L
<1>4. PICK r \in Requests : r = queue[k][1]
  BY <1>3
<1>5. pc' = [pc EXCEPT ![r] = "popped"] /\ Holds(k, r)
  BY <1>1, <1>3, <1>4 DEF Holds
<1>6. pc[r] = "queued" /\ Key(r) = k
  BY <1>5 DEF QueueInv
<1>7. pc'[r] = "popped" /\ \A s \in Requests : s # r => pc'[s] = pc[s]
  BY <1>5 DEF FrontTypes
<1>8. idle[k] = 1
  BY <1>1, <1>2
<1>9. /\ idle' \in [Keys -> 0..1] /\ idle'[k] = 0
      /\ \A l \in Keys : l # k => idle'[l] = idle[l]
  <2>1. idle' = [idle EXCEPT ![k] = 0] /\ 0 \in 0..1
    BY <1>1, <1>8
  <2> QED BY <2>1, <1>2, Zenon
<1>10. /\ queue' \in [Keys -> {Absent} \cup Seq(Requests)] /\ queue'[k] = Tail(queue[k])
       /\ \A l \in Keys : l # k => queue'[l] = queue[l]
  BY <1>1, <1>2, <1>3
<1>11. queue'[k] # Absent
  BY <1>3, <1>10, AbsentIsNoQueue
<1>12. /\ DOMAIN queue'[k] = 1..(L - 1)
       /\ \A i \in 1..(L - 1) : queue'[k][i] = queue[k][i + 1]
  BY <1>3, <1>10
<1>13. \A s \in Requests : Key(s)' = Key(s)
  BY <1>1 DEF Key
<1>14. FrontTypes'
  <2>1. pc' \in [Requests -> Steps]
    BY <1>5 DEF FrontTypes, Steps
  <2> QED BY <1>1, <1>9, <1>10, <2>1 DEF FrontTypes
<1>15. SentInv' /\ LoopInv'
  BY <1>1, <1>6, <1>7, <1>13 DEF SentInv, LoopInv
<1>16. InboxInv'
  <2>1. \A i \in DOMAIN inbox : IsRequest(inbox[i]) =>
          inbox[i].request \in Requests /\ inbox[i].request # r
    BY OnWire, <1>6
  <2>2. \A s \in Requests : pc'[s] = "wire" => pc[s] = "wire"
    BY <1>7
  <2> QED BY <1>1, <1>7, <2>1, <2>2 DEF InboxInv
<1>17. GateInv'
  BY <1>1, <1>7 DEF GateInv, InFlight
<1>18. \A s \in Requests : Holds(k, s) /\ s # r => r < s
  <2> SUFFICES ASSUME NEW s \in Requests, Holds(k, s), s # r PROVE r < s
    OBVIOUS
  <2>1. PICK i \in 1..L : queue[k][i] = s
    BY <1>3 DEF Holds
  <2>2. 1 < i
    BY <2>1, <1>3, <1>4
  <2> QED BY <2>1, <2>2, <1>1, <1>3, <1>4 DEF QueueInv, InOrder
<1>19. OrderInv'
  <2> SUFFICES ASSUME NEW q \in Requests, NEW s \in Requests, q < s, s <= sent
               PROVE  /\ pc'[q] = "wire" => pc'[s] = "wire"
                      /\ Key(s) = Key(q) /\ pc'[q] \in Active \cup {"queued"} =>
                           pc'[s] \in {"wire", "queued"}
    BY <1>1, <1>13 DEF OrderInv
  <2>1. CASE q = r
    <3>1. s # r /\ pc'[s] = pc[s]
      BY <2>1, <1>7, Numbers
    <3> QED BY <2>1, <3>1, <1>6, <1>7 DEF OrderInv
  <2>2. CASE s = r
    <3>1. q # r /\ pc'[q] = pc[q] /\ ~(r < q)
      BY <2>2, <1>7, Numbers
    <3>2. pc[q] # "wire"
      BY <2>2, <1>6 DEF OrderInv
    <3>3. Key(q) = k => pc[q] # "queued" /\ pc[q] \notin Active
      BY <3>1, <1>8, <1>18 DEF QueueInv
    <3> QED BY <2>2, <3>1, <3>2, <3>3, <1>6
  <2>3. CASE q # r /\ s # r
    BY <2>3, <1>7 DEF OrderInv
  <2> QED BY <2>1, <2>2, <2>3
<1>20. InOrder(k)'
  <2> SUFFICES ASSUME NEW i \in DOMAIN queue'[k], NEW j \in DOMAIN queue'[k], i < j
               PROVE  queue'[k][i] < queue'[k][j]
    BY DEF InOrder
  <2>1. i \in 1..(L - 1) /\ j \in 1..(L - 1)
    BY <1>12
  <2>2. i + 1 \in 1..L /\ j + 1 \in 1..L /\ i + 1 < j + 1
    BY <2>1, <1>3
  <2>3. queue[k][i + 1] < queue[k][j + 1]
    BY <2>2, <1>1, <1>3 DEF QueueInv, InOrder
  <2> QED BY <2>1, <2>3, <1>12
<1>21. ASSUME NEW s \in Requests PROVE Holds(k, s)' <=> s # r /\ Holds(k, s)
  <2>1. ASSUME Holds(k, s)' PROVE s # r /\ Holds(k, s)
    <3>1. PICK i \in 1..(L - 1) : queue'[k][i] = s
      BY <2>1, <1>12 DEF Holds
    <3>2. i + 1 \in 1..L /\ 1 < i + 1
      BY <3>1, <1>3
    <3>3. queue[k][i + 1] = s
      BY <3>1, <1>12
    <3>4. r < s
      BY <3>2, <3>3, <1>1, <1>3, <1>4 DEF QueueInv, InOrder
    <3>5. r # s
      BY <3>4, Numbers
    <3> QED BY <3>2, <3>3, <3>5, <1>1, <1>3 DEF Holds
  <2>2. ASSUME s # r, Holds(k, s) PROVE Holds(k, s)'
    <3>1. PICK i \in 1..L : queue[k][i] = s
      BY <2>2, <1>3 DEF Holds
    <3>2. i - 1 \in 1..(L - 1) /\ (i - 1) + 1 = i
      BY <3>1, <2>2, <1>3, <1>4
    <3>3. queue'[k][i - 1] = s
      BY <3>1, <3>2, <1>12
    <3> QED BY <3>2, <3>3, <1>11, <1>12 DEF Holds
  <2> QED BY <2>1, <2>2
<1>22. QueueInv'
  <2>1. ASSUME NEW l \in Keys PROVE InOrder(l)' /\ (queue'[l] = Absent => idle'[l] = 0)
    <3>1. CASE l = k
      BY <3>1, <1>9, <1>20
    <3>2. CASE l # k
      BY <3>2, <1>9, <1>10 DEF QueueInv, InOrder
    <3> QED BY <3>1, <3>2
  <2>2. \A l \in Keys, s \in Requests : l # k => (Holds(l, s)' <=> Holds(l, s))
    BY <1>10 DEF Holds
  <2>3. ASSUME NEW l \in Keys, NEW s \in Requests, Holds(l, s)'
        PROVE  pc'[s] = "queued" /\ Key(s) = l
    <3>1. Holds(l, s) /\ (l = k => s # r)
      BY <2>2, <2>3, <1>21
    <3>2. pc[s] = "queued" /\ Key(s) = l
      BY <3>1 DEF QueueInv
    <3>3. s # r
      BY <3>1, <3>2, <1>6
    <3> QED BY <3>2, <3>3, <1>7
  <2>4. ASSUME NEW s \in Requests
        PROVE  /\ pc'[s] = "queued" => Holds(Key(s), s)'
               /\ pc'[s] \in Active => queue'[Key(s)] # Absent /\ idle'[Key(s)] = 0
    <3>1. ASSUME pc'[s] = "queued" PROVE Holds(Key(s), s)'
      <4>1. s # r /\ pc[s] = "queued"
        BY <3>1, <1>7
      <4>2. PICK l \in Keys : l = Key(s)
        BY <4>1, SentHasKey
      <4>3. Holds(l, s)
        BY <4>1, <4>2 DEF QueueInv
      <4>4. Holds(l, s)'
        BY <4>1, <4>3, <2>2, <1>21
      <4>5. Key(s)' = l
        BY <4>2, <1>13
      <4> QED BY <4>4, <4>5 DEF Holds
    <3>2. ASSUME pc'[s] \in Active PROVE queue'[Key(s)] # Absent /\ idle'[Key(s)] = 0
      <4>1. CASE s = r
        BY <4>1, <1>6, <1>9, <1>11
      <4>2. CASE s # r
        <5>1. pc[s] \in Active /\ pc[s] # "unsent"
          BY <4>2, <3>2, <1>7 DEF Active, InFlight
        <5>2. Key(s) \in Keys /\ queue[Key(s)] # Absent /\ idle[Key(s)] = 0
          BY <5>1, SentHasKey DEF QueueInv
        <5>3. Key(s) # k
          BY <5>2, <1>8
        <5> QED BY <5>2, <5>3, <1>9, <1>10
      <4> QED BY <4>1, <4>2
    <3> QED BY <3>1, <3>2
  <2> QED BY <2>1, <2>3, <2>4, <1>13 DEF QueueInv
<1> QED BY <1>14, <1>15, <1>16, <1>17, <1>19, <1>22

\* A drain task that finds its queue empty takes the key out of the map.
LEMMA FrontEnd ==
  ASSUME FrontInv, NEW k \in Keys, DrainEnd(k)
  PROVE  FrontInv'
<1> USE DEF FrontInv
<1>1. /\ UNCHANGED <<connected, sent, req, inbox, known, accepting, loop, pc>>
      /\ idle[k] > 0 /\ queue[k] \in {Absent, <<>>}
      /\ idle' = [idle EXCEPT ![k] = idle[k] - 1] /\ queue' = [queue EXCEPT ![k] = Absent]
  BY DEF DrainEnd, clientVars, loopVars, handlerVars
<1>2. /\ queue \in [Keys -> {Absent} \cup Seq(Requests)] /\ idle \in [Keys -> 0..1]
  BY DEF FrontTypes
<1>3. idle[k] = 1
  BY <1>1, <1>2
<1>4. /\ idle' \in [Keys -> 0..1] /\ idle'[k] = 0
      /\ \A l \in Keys : l # k => idle'[l] = idle[l]
  <2>1. idle' = [idle EXCEPT ![k] = 0] /\ 0 \in 0..1
    BY <1>1, <1>3
  <2> QED BY <2>1, <1>2, Zenon
<1>5. /\ queue' \in [Keys -> {Absent} \cup Seq(Requests)] /\ queue'[k] = Absent
      /\ \A l \in Keys : l # k => queue'[l] = queue[l]
  BY <1>1, <1>2
<1>6. FrontTypes'
  BY <1>1, <1>4, <1>5 DEF FrontTypes
<1>7. SentInv' /\ OrderInv' /\ InboxInv' /\ LoopInv' /\ GateInv'
  BY <1>1 DEF SentInv, OrderInv, InboxInv, LoopInv, GateInv, Key
<1>8. \A l \in Keys, s \in Requests : Holds(l, s)' <=> Holds(l, s)
  <2> SUFFICES ASSUME NEW l \in Keys, NEW s \in Requests PROVE Holds(l, s)' <=> Holds(l, s)
    OBVIOUS
  <2>1. CASE l = k
    BY <2>1, <1>1, <1>5 DEF Holds
  <2>2. CASE l # k
    BY <2>2, <1>5 DEF Holds
  <2> QED BY <2>1, <2>2
<1>9. \A s \in Requests : Key(s)' = Key(s) /\ pc'[s] = pc[s]
  BY <1>1 DEF Key
<1>10. QueueInv'
  <2>1. ASSUME NEW l \in Keys PROVE InOrder(l)' /\ (queue'[l] = Absent => idle'[l] = 0)
    <3>1. CASE l = k
      BY <3>1, <1>4, <1>5 DEF InOrder
    <3>2. CASE l # k
      BY <3>2, <1>4, <1>5 DEF QueueInv, InOrder
    <3> QED BY <3>1, <3>2
  <2>2. ASSUME NEW s \in Requests
        PROVE  /\ pc'[s] = "queued" => Holds(Key(s), s)'
               /\ pc'[s] \in Active => queue'[Key(s)] # Absent /\ idle'[Key(s)] = 0
    <3>1. ASSUME pc'[s] = "queued" PROVE Holds(Key(s), s)'
      <4>1. pc[s] = "queued"
        BY <3>1, <1>9
      <4>2. PICK l \in Keys : l = Key(s)
        BY <4>1, SentHasKey
      <4>3. Holds(l, s)'
        BY <4>1, <4>2, <1>8 DEF QueueInv
      <4>4. Key(s)' = l
        BY <4>2, <1>9
      <4> QED BY <4>3, <4>4 DEF Holds
    <3>2. ASSUME pc'[s] \in Active PROVE queue'[Key(s)] # Absent /\ idle'[Key(s)] = 0
      <4>1. pc[s] \in Active /\ pc[s] # "unsent"
        BY <3>2, <1>9 DEF Active, InFlight
      <4>2. Key(s) \in Keys /\ queue[Key(s)] # Absent /\ idle[Key(s)] = 0
        BY <4>1, SentHasKey DEF QueueInv
      <4>3. Key(s) # k
        BY <4>2, <1>3
      <4> QED BY <4>2, <4>3, <1>4, <1>5
    <3> QED BY <3>1, <3>2
  <2> QED BY <2>1, <2>2, <1>8, <1>9 DEF QueueInv
<1> QED BY <1>6, <1>7, <1>10

-----------------------------------------------------------------------------
(* The processes and those who wait for them.                               *)

LEMMA ProcFields ==
  ASSUME BackTypes, NEW p \in Requests
  PROVE  /\ proc[p] \in Procs /\ proc[p].child \in {"none", "running", "exited"}
         /\ proc[p].killed \in BOOLEAN /\ proc[p].stdin \in 0..StdinCapacity
         /\ proc[p].task \in TaskSteps /\ proc[p].chan \in Seq(Controls)
         /\ proc[p].asker \in Requests \cup {None}
         /\ \A i \in DOMAIN proc[p].chan : proc[p].chan[i].from \in Requests \cup {None}
<1>1. proc[p] \in Procs
  BY DEF BackTypes
<1>2. /\ proc[p].child \in {"none", "running", "exited"}
      /\ proc[p].killed \in BOOLEAN /\ proc[p].stdin \in 0..StdinCapacity
      /\ proc[p].task \in TaskSteps /\ proc[p].chan \in Seq(Controls)
      /\ proc[p].asker \in Requests \cup {None}
  BY <1>1 DEF Procs
<1>3. \A i \in DOMAIN proc[p].chan : proc[p].chan[i] \in Controls
  BY <1>2, LenProperties, ElementOfSeq
<1>4. \A i \in DOMAIN proc[p].chan : proc[p].chan[i].from \in Requests \cup {None}
  BY <1>3 DEF Controls
<1> QED BY <1>1, <1>2, <1>4

\* A process with a task was spawned by a request that is done.
LEMMA TaskIsSent ==
  ASSUME ProcessInv, NEW p \in Requests,
         proc[p].task # "none" \/ proc[p].child = "running" \/ pc[p] = "spawning"
  PROVE  pc[p] # "unsent" /\ p <= sent /\ Key(p) \in Keys /\ req[p].conn \in Connections
<1>1. pc[p] # "unsent"
  BY DEF ProcessInv, BackInv, TaskInv
<1> QED BY <1>1, SentHasKey DEF ProcessInv

\* The connection of a handler that runs is not closed.
LEMMA RunsOpen ==
  ASSUME FrontInv, NEW r \in Requests, pc[r] \in InFlight
  PROVE  ~Closed(req[r].conn)
BY DEF FrontInv, GateInv, Closed

LEMMA AwaitKept ==
  ASSUME AwaitInv,
         \A q \in Requests : proc'[q].chan = proc[q].chan /\ proc'[q].asker = proc[q].asker,
         \A r \in Requests : pc[r] = "await" => pc'[r] = "await" /\ target'[r] = target[r],
         \A r \in Requests : pc'[r] = "send" => target'[r] \in Requests
  PROVE  AwaitInv'
<1>1. \A r, p : Waits(r, p) => Waits(r, p)'
  BY DEF Waits
<1>2. ASSUME NEW p \in Requests
      PROVE  /\ \A i \in DOMAIN proc'[p].chan : proc'[p].chan[i].from # None =>
                  /\ Waits(proc[p].chan[i].from, p)'
                  /\ proc'[p].chan[i].from # proc'[p].asker
                  /\ \A j \in DOMAIN proc'[p].chan :
                       i # j => proc'[p].chan[i].from # proc'[p].chan[j].from
             /\ proc'[p].asker # None => Waits(proc[p].asker, p)'
  <2>1. proc'[p].chan = proc[p].chan /\ proc'[p].asker = proc[p].asker
    OBVIOUS
  <2>2. ASSUME NEW i \in DOMAIN proc'[p].chan, proc'[p].chan[i].from # None
        PROVE  /\ Waits(proc[p].chan[i].from, p)'
               /\ proc'[p].chan[i].from # proc'[p].asker
               /\ \A j \in DOMAIN proc'[p].chan :
                    i # j => proc'[p].chan[i].from # proc'[p].chan[j].from
    <3>1. PICK f : f = proc[p].chan[i].from
      OBVIOUS
    <3>2. Waits(f, p) /\ f # proc[p].asker
          /\ \A j \in DOMAIN proc[p].chan : i # j => f # proc[p].chan[j].from
      BY <2>1, <2>2, <3>1 DEF AwaitInv
    <3>3. Waits(f, p)' /\ proc'[p].chan[i].from = f
      BY <3>1, <3>2, <1>1, <2>1
    <3> QED BY <2>1, <3>2, <3>3 DEF Waits
  <2>3. ASSUME proc'[p].asker # None PROVE Waits(proc[p].asker, p)'
    <3>1. PICK f : f = proc[p].asker
      OBVIOUS
    <3>2. Waits(f, p)' /\ proc'[p].asker = f
      BY <2>1, <2>3, <3>1, <1>1 DEF AwaitInv
    <3> QED BY <3>2 DEF Waits
  <2> QED BY <2>2, <2>3
<1> QED BY <1>2 DEF AwaitInv

\* Steps of the loop, the queues and handlers that leave every process alone.
LEMMA BackQuiet ==
  ASSUME ProcessInv, UNCHANGED <<target, sessions, proc>>, result' \in [Requests -> Results],
         \A r \in Requests : /\ pc[r] = "await" => pc'[r] = "await"
                             /\ pc'[r] = "send" => pc[r] = "send"
                             /\ pc'[r] = "spawning" => pc[r] = "spawning"
                             /\ pc[r] = "done" => pc'[r] = "done"
                             /\ pc[r] = "unsent" \/ req'[r] = req[r],
         \A c \in Connections : Closed(c)' <=> Closed(c)
  PROVE  BackInv'
<1> USE DEF ProcessInv, BackInv
<1>1. BackTypes'
  BY DEF BackTypes
<1>2. AwaitInv'
  BY AwaitKept DEF AwaitInv
<1>3. TaskInv'
  BY DEF TaskInv
<1>4. \A p \in Requests :
        proc[p].task # "none" \/ proc[p].child = "running" \/ pc[p] = "spawning" =>
          /\ req'[p] = req[p] /\ Key(p)' = Key(p)
          /\ Closed(req[p].conn)' <=> Closed(req[p].conn)
  <2> SUFFICES ASSUME NEW p \in Requests,
                      proc[p].task # "none" \/ proc[p].child = "running" \/ pc[p] = "spawning"
               PROVE  /\ req'[p] = req[p] /\ Key(p)' = Key(p)
                      /\ Closed(req[p].conn)' <=> Closed(req[p].conn)
    OBVIOUS
  <2>1. pc[p] # "unsent" /\ req[p].conn \in Connections
    BY TaskIsSent
  <2>2. req'[p] = req[p]
    BY <2>1
  <2>3. PICK c \in Connections : c = req[p].conn
    BY <2>1
  <2>4. Closed(c)' <=> Closed(c)
    OBVIOUS
  <2> QED BY <2>2, <2>3, <2>4 DEF Key, Closed
<1>5. SessionInv'
  <2> SUFFICES ASSUME NEW p \in Requests, HoldsHandle(p)' PROVE sessions'[Key(p)'] = p
    BY DEF SessionInv
  <2>1. proc[p].task # "none" \/ pc[p] = "spawning"
    BY DEF HoldsHandle
  <2>2. HoldsHandle(p)
    BY <2>1, <1>4 DEF HoldsHandle
  <2> QED BY <2>1, <2>2, <1>4 DEF SessionInv
<1>6. KillInv'
  <2> SUFFICES ASSUME NEW p \in Requests, Closed(req[p].conn)', proc'[p].child = "running"
               PROVE  Dying(p)'
    BY DEF KillInv
  <2>1. proc[p].child = "running" /\ Closed(req[p].conn)
    BY <1>4
  <2> QED BY <2>1 DEF KillInv, Dying
<1> QED BY <1>1, <1>2, <1>3, <1>5, <1>6

\* Steps of a process and its task, which may answer those who wait for it.
LEMMA TaskStep ==
  ASSUME ProcessInv, NEW p \in Requests, NEW v \in Procs, NEW rs, NEW res \in Results,
         NEW d \in {0, 1},
         proc' = [proc EXCEPT ![p] = v], Reply(rs, res), TaskFrame, UNCHANGED sessions,
         proc[p].task \notin {"none", "gone"}, v.task # "none",
         v.child = "running" => proc[p].child = "running" /\ v.task \in {"select", "writing"},
         v.child = "running" /\ Dying(p) =>
           v.killed \/ \E i \in DOMAIN v.chan : v.chan[i].op = "kill",
         \A r \in Requests : r \in rs => Waits(r, p),
         \A i \in DOMAIN v.chan :
           /\ i + d \in DOMAIN proc[p].chan /\ v.chan[i] = proc[p].chan[i + d]
           /\ v.chan[i].from # None => v.chan[i].from \notin rs /\ v.chan[i].from # v.asker,
         v.asker # None => v.asker \notin rs /\ Waits(v.asker, p)
  PROVE  ProcessInv'
<1> USE DEF ProcessInv, BackInv
<1>1. /\ UNCHANGED <<connected, sent, req, inbox, known, accepting, loop, queue, idle, target>>
      /\ pc' = [r \in Requests |-> IF r \in rs THEN "reply" ELSE pc[r]]
      /\ result' = [r \in Requests |-> IF r \in rs THEN res ELSE result[r]]
  BY DEF TaskFrame, Reply, clientVars, loopVars, queueVars
<1>2. \A r \in Requests : /\ r \in rs => pc[r] = "await" /\ target[r] = p /\ pc'[r] = "reply"
                          /\ r \notin rs => pc'[r] = pc[r]
  BY <1>1 DEF Waits
<1>3. /\ proc'[p] = v /\ \A q \in Requests : q # p => proc'[q] = proc[q]
      /\ proc' \in [Requests -> Procs]
  BY DEF BackTypes
<1>4. BackTypes'
  <2>1. result' \in [Requests -> Results]
    BY <1>1 DEF BackTypes
  <2> QED BY <2>1, <1>1, <1>3 DEF BackTypes
<1>5. FrontInv'
  <2>1. pc' \in [Requests -> Steps]
    BY <1>1 DEF FrontInv, FrontTypes, Steps, InFlight
  <2>2. \A r \in Requests : pc'[r] = pc[r] \/ (pc[r] \in InFlight /\ pc'[r] \in InFlight)
    BY <1>2 DEF InFlight
  <2> QED BY <1>1, <2>1, <2>2, FrontMoves DEF Active
<1>6. AwaitInv'
  <2>1. \A r, q : Waits(r, q) /\ r \notin rs => Waits(r, q)'
    BY <1>1, <1>2 DEF Waits
  <2>2. \A r, q : Waits(r, q) /\ q # p => r \notin rs
    BY DEF Waits
  <2>3. \A r \in Requests : pc'[r] = "send" => target'[r] \in Requests
    BY <1>1, <1>2 DEF AwaitInv
  <2>4. ASSUME NEW q \in Requests, q # p
        PROVE  /\ \A i \in DOMAIN proc[q].chan : proc[q].chan[i].from # None =>
                    /\ Waits(proc[q].chan[i].from, q)'
                    /\ proc[q].chan[i].from # proc[q].asker
                    /\ \A j \in DOMAIN proc[q].chan :
                         i # j => proc[q].chan[i].from # proc[q].chan[j].from
               /\ proc[q].asker # None => Waits(proc[q].asker, q)'
    <3>1. proc'[q] = proc[q]
      BY <2>4, <1>3
    <3>2. ASSUME NEW i \in DOMAIN proc[q].chan, proc[q].chan[i].from # None
          PROVE  Waits(proc[q].chan[i].from, q)'
      <4>1. PICK f : f = proc[q].chan[i].from
        OBVIOUS
      <4>2. Waits(f, q)'
        BY <4>1, <3>2, <2>1, <2>2, <2>4 DEF AwaitInv
      <4> QED BY <4>1, <4>2, <3>1
    <3>3. ASSUME proc[q].asker # None PROVE Waits(proc[q].asker, q)'
      <4>1. PICK f : f = proc[q].asker
        OBVIOUS
      <4>2. Waits(f, q)'
        BY <4>1, <3>3, <2>1, <2>2, <2>4 DEF AwaitInv
      <4> QED BY <4>1, <4>2, <3>1
    <3> QED BY <3>2, <3>3 DEF AwaitInv
  <2>5. ASSUME NEW i \in DOMAIN v.chan, v.chan[i].from # None
        PROVE  /\ Waits(v.chan[i].from, p)' /\ v.chan[i].from # v.asker
               /\ \A j \in DOMAIN v.chan : i # j => v.chan[i].from # v.chan[j].from
    <3>1. PICK f : f = v.chan[i].from
      OBVIOUS
    <3>2. i + d \in DOMAIN proc[p].chan /\ f = proc[p].chan[i + d].from /\ f \notin rs
          /\ f # v.asker
      BY <2>5, <3>1
    <3>3. Waits(f, p)'
      BY <3>1, <3>2, <2>1, <2>5 DEF AwaitInv
    <3>4. ASSUME NEW j \in DOMAIN v.chan, i # j PROVE f # v.chan[j].from
      <4>1. j + d \in DOMAIN proc[p].chan /\ v.chan[j] = proc[p].chan[j + d]
        OBVIOUS
      <4>2. v.chan \in Seq(Controls)
        BY DEF Procs
      <4>3. i \in Nat /\ j \in Nat
        BY <4>2, LenProperties
      <4>4. i + d # j + d
        BY <3>4, <4>3
      <4> QED BY <4>1, <4>4, <3>1, <3>2, <2>5 DEF AwaitInv
    <3> QED BY <3>1, <3>2, <3>3, <3>4
  <2>6. v.asker # None => Waits(v.asker, p)'
    BY <2>1
  <2>7. ASSUME NEW q \in Requests
        PROVE  /\ \A i \in DOMAIN proc'[q].chan : proc'[q].chan[i].from # None =>
                    /\ Waits(proc[q].chan[i].from, q)'
                    /\ proc'[q].chan[i].from # proc'[q].asker
                    /\ \A j \in DOMAIN proc'[q].chan :
                         i # j => proc'[q].chan[i].from # proc'[q].chan[j].from
               /\ proc'[q].asker # None => Waits(proc[q].asker, q)'
    <3>1. CASE q = p
      <4>1. \A i \in DOMAIN v.chan : v.chan[i].from # None =>
              Waits(proc[q].chan[i].from, q)'
        <5> SUFFICES ASSUME NEW i \in DOMAIN v.chan, v.chan[i].from # None
                     PROVE  Waits(proc[q].chan[i].from, q)'
          OBVIOUS
        <5>1. Waits(v.chan[i].from, p)'
          BY <2>5
        <5> QED BY <5>1, <3>1, <1>3 DEF Waits
      <4>2. v.asker # None => Waits(proc[q].asker, q)'
        BY <2>6, <3>1, <1>3 DEF Waits
      <4> QED BY <4>1, <4>2, <2>5, <3>1, <1>3
    <3>2. CASE q # p
      BY <3>2, <2>4, <1>3
    <3> QED BY <3>1, <3>2
  <2> QED BY <2>3, <2>7 DEF AwaitInv
<1>7. TaskInv'
  <2> SUFFICES ASSUME NEW q \in Requests
               PROVE  /\ proc'[q].child = "running" => proc'[q].task \in {"select", "writing"}
                      /\ proc'[q].task # "none" => pc'[q] = "done"
    BY DEF TaskInv
  <2>1. pc[q] = "done" => pc'[q] = "done"
    BY <1>2
  <2>2. CASE q = p
    BY <2>1, <2>2, <1>3 DEF TaskInv
  <2>3. CASE q # p
    BY <2>1, <2>3, <1>3 DEF TaskInv
  <2> QED BY <2>2, <2>3
<1>8. \A q \in Requests : Key(q)' = Key(q) /\ (Closed(req[q].conn)' <=> Closed(req[q].conn))
  BY <1>1 DEF Key, Closed
<1>9. SessionInv'
  <2> SUFFICES ASSUME NEW q \in Requests, HoldsHandle(q)' PROVE sessions'[Key(q)'] = q
    BY DEF SessionInv
  <2>1. CASE q = p
    <3>1. pc[p] = "done" /\ pc'[p] = "done"
      BY <1>2 DEF TaskInv
    <3>2. HoldsHandle(p)
      BY <2>1, <3>1, <1>8 DEF HoldsHandle
    <3> QED BY <2>1, <3>2, <1>8 DEF SessionInv
  <2>2. CASE q # p
    <3>1. HoldsHandle(q)
      BY <2>2, <1>2, <1>3, <1>8 DEF HoldsHandle
    <3> QED BY <3>1, <1>8 DEF SessionInv
  <2> QED BY <2>1, <2>2
<1>10. KillInv'
  <2> SUFFICES ASSUME NEW q \in Requests, Closed(req[q].conn)', proc'[q].child = "running"
               PROVE  Dying(q)'
    BY DEF KillInv
  <2>1. CASE q = p
    BY <2>1, <1>3, <1>8 DEF KillInv, Dying
  <2>2. CASE q # p
    BY <2>2, <1>3, <1>8 DEF KillInv, Dying
  <2> QED BY <2>1, <2>2
<1> QED BY <1>4, <1>5, <1>6, <1>7, <1>9, <1>10

\* No reply, in the terms of Reply.
LEMMA NoReply ==
  ASSUME ProcessInv, UNCHANGED handlerVars
  PROVE  Reply({}, "ok")
<1>1. pc' = pc /\ result' = result /\ target' = target
  BY DEF handlerVars
<1>2. pc \in [Requests -> Steps] /\ result \in [Requests -> Results]
  BY DEF ProcessInv, FrontInv, FrontTypes, BackInv, BackTypes
<1> QED BY <1>1, <1>2 DEF Reply

\* The task takes a Kill.
LEMMA StepTaskKill ==
  ASSUME ProcessInv, NEW p \in Requests, TaskKill(p)
  PROVE  ProcessInv'
<1> USE DEF ProcessInv, BackInv
<1> DEFINE v == [proc[p] EXCEPT !.chan = Tail(proc[p].chan), !.killed = TRUE]
           rs == {Head(proc[p].chan).from} \ {None}
           L == Len(proc[p].chan)
<1>1. /\ proc[p].task = "select" /\ proc[p].chan # <<>>
      /\ Reply(rs, "ok") /\ TaskFrame /\ UNCHANGED sessions
      /\ proc' = [proc EXCEPT ![p].chan = Tail(proc[p].chan), ![p].killed = TRUE]
  BY DEF TaskKill
<1>2. proc' = [proc EXCEPT ![p] = v]
  BY <1>1, Zenon DEF BackTypes
<1>3. proc[p] \in Procs /\ proc[p].chan \in Seq(Controls)
  BY ProcFields
<1>4. /\ L \in Nat \ {0} /\ DOMAIN proc[p].chan = 1..L /\ 1 \in DOMAIN proc[p].chan
      /\ Head(proc[p].chan) = proc[p].chan[1] /\ Tail(proc[p].chan) \in Seq(Controls)
      /\ DOMAIN Tail(proc[p].chan) = 1..(L - 1)
      /\ \A i \in 1..(L - 1) : Tail(proc[p].chan)[i] = proc[p].chan[i + 1]
  BY <1>1, <1>3, Shortened
<1>5. v \in Procs
  BY <1>3, <1>4, Zenon DEF Procs
<1>6. /\ v.chan = Tail(proc[p].chan) /\ v.killed = TRUE /\ v.task = proc[p].task
      /\ v.child = proc[p].child /\ v.asker = proc[p].asker
  BY <1>3 DEF Procs
<1>7. \A r \in Requests : r \in rs => Waits(r, p)
  BY <1>4 DEF AwaitInv
<1>8. ASSUME NEW i \in DOMAIN v.chan
      PROVE  /\ i + 1 \in DOMAIN proc[p].chan /\ v.chan[i] = proc[p].chan[i + 1]
             /\ v.chan[i].from # None => v.chan[i].from \notin rs /\ v.chan[i].from # v.asker
  <2>1. i \in 1..(L - 1)
    BY <1>4, <1>6
  <2>2. i + 1 \in 1..L /\ i + 1 # 1
    BY <2>1, <1>4
  <2>3. v.chan[i] = proc[p].chan[i + 1]
    BY <2>1, <1>4, <1>6
  <2> QED BY <2>2, <2>3, <1>4, <1>6 DEF AwaitInv
<1>9. v.asker # None => v.asker \notin rs /\ Waits(v.asker, p)
  BY <1>4, <1>6 DEF AwaitInv
<1>10. v.child = "running" => proc[p].child = "running" /\ v.task \in {"select", "writing"}
  BY <1>1, <1>6
<1>11. 1 \in {0, 1} /\ "ok" \in Results /\ proc[p].task \notin {"none", "gone"} /\ v.task # "none"
  BY <1>1, <1>6 DEF Results
<1>12. v.killed
  BY <1>6
<1> HIDE DEF v, rs, L
<1> QED BY <1>1, <1>2, <1>5, <1>7, <1>8, <1>9, <1>10, <1>11, <1>12, TaskStep

\* The task takes a write, and waits for room.
LEMMA StepTaskWrite ==
  ASSUME ProcessInv, NEW p \in Requests, TaskWrite(p)
  PROVE  ProcessInv'
<1> USE DEF ProcessInv, BackInv
<1> DEFINE v == [proc[p] EXCEPT !.chan = Tail(proc[p].chan), !.task = "writing",
                                !.asker = Head(proc[p].chan).from]
           L == Len(proc[p].chan)
           rs == {}
<1>1. /\ proc[p].task = "select" /\ proc[p].chan # <<>> /\ Head(proc[p].chan).op = "write"
      /\ TaskFrame /\ UNCHANGED sessions /\ UNCHANGED handlerVars
      /\ proc' = [proc EXCEPT ![p].chan = Tail(proc[p].chan), ![p].task = "writing",
                              ![p].asker = Head(proc[p].chan).from]
  BY DEF TaskWrite
<1>2. proc' = [proc EXCEPT ![p] = v]
  BY <1>1, Zenon DEF BackTypes
<1>3. proc[p] \in Procs /\ proc[p].chan \in Seq(Controls)
  BY ProcFields
<1>4. /\ L \in Nat \ {0} /\ DOMAIN proc[p].chan = 1..L /\ 1 \in DOMAIN proc[p].chan
      /\ Head(proc[p].chan) = proc[p].chan[1] /\ Tail(proc[p].chan) \in Seq(Controls)
      /\ DOMAIN Tail(proc[p].chan) = 1..(L - 1)
      /\ \A i \in 1..(L - 1) : Tail(proc[p].chan)[i] = proc[p].chan[i + 1]
  BY <1>1, <1>3, Shortened
<1>5. v \in Procs
  <2>1. Head(proc[p].chan).from \in Requests \cup {None} /\ "writing" \in TaskSteps
    BY <1>4, ProcFields DEF TaskSteps
  <2> QED BY <1>3, <1>4, <2>1, Zenon DEF Procs
<1>6. /\ v.chan = Tail(proc[p].chan) /\ v.killed = proc[p].killed /\ v.task = "writing"
      /\ v.child = proc[p].child /\ v.asker = proc[p].chan[1].from
  BY <1>3, <1>4 DEF Procs
<1>7. ASSUME NEW i \in DOMAIN v.chan
      PROVE  /\ i + 1 \in DOMAIN proc[p].chan /\ v.chan[i] = proc[p].chan[i + 1]
             /\ v.chan[i].from # None => v.chan[i].from \notin rs /\ v.chan[i].from # v.asker
  <2>1. i \in 1..(L - 1)
    BY <1>4, <1>6
  <2>2. i + 1 \in 1..L /\ i + 1 # 1
    BY <2>1, <1>4
  <2>3. v.chan[i] = proc[p].chan[i + 1]
    BY <2>1, <1>4, <1>6
  <2> QED BY <2>2, <2>3, <1>4, <1>6 DEF AwaitInv
<1>8. v.asker # None => v.asker \notin rs /\ Waits(v.asker, p)
  BY <1>4, <1>6 DEF AwaitInv
<1>9. v.child = "running" => proc[p].child = "running" /\ v.task \in {"select", "writing"}
  BY <1>1, <1>6
<1>10. 1 \in {0, 1} /\ "ok" \in Results /\ proc[p].task \notin {"none", "gone"} /\ v.task # "none"
  BY <1>1, <1>6 DEF Results
<1>11. Dying(p) => v.killed \/ \E i \in DOMAIN v.chan : v.chan[i].op = "kill"
  <2> SUFFICES ASSUME NEW j \in DOMAIN proc[p].chan, proc[p].chan[j].op = "kill"
               PROVE  \E i \in DOMAIN v.chan : v.chan[i].op = "kill"
    BY <1>6 DEF Dying
  <2>1. j # 1 /\ j \in 1..L
    BY <1>1, <1>4
  <2>2. j - 1 \in 1..(L - 1) /\ (j - 1) + 1 = j
    BY <2>1, <1>4
  <2>3. v.chan[j - 1] = proc[p].chan[j]
    BY <2>2, <1>4, <1>6
  <2> QED BY <2>2, <2>3, <1>4, <1>6
<1>12. Reply(rs, "ok") /\ \A r \in Requests : r \in rs => Waits(r, p)
  BY <1>1, NoReply
<1> HIDE DEF v, L, rs
<1> QED BY <1>1, <1>2, <1>5, <1>7, <1>8, <1>9, <1>10, <1>11, <1>12, TaskStep

\* The write is done.
LEMMA StepTaskWritten ==
  ASSUME ProcessInv, NEW p \in Requests, TaskWritten(p)
  PROVE  ProcessInv'
<1> USE DEF ProcessInv, BackInv
<1> DEFINE n == IF proc[p].child = "exited" THEN 0 ELSE proc[p].stdin + 1
           v == [proc[p] EXCEPT !.task = "select", !.asker = None, !.stdin = n]
           rs == {proc[p].asker}
<1>1. /\ proc[p].task = "writing" /\ Room(p) /\ Reply(rs, "ok") /\ TaskFrame
      /\ UNCHANGED sessions
      /\ proc' = [proc EXCEPT ![p].task = "select", ![p].asker = None, ![p].stdin = n]
  BY DEF TaskWritten
<1>2. proc' = [proc EXCEPT ![p] = v]
  BY <1>1, Zenon DEF BackTypes
<1>3. proc[p] \in Procs /\ proc[p].chan \in Seq(Controls) /\ proc[p].stdin \in 0..StdinCapacity
  BY ProcFields
<1>4. n \in 0..StdinCapacity
  BY <1>1, <1>3, Numbers DEF Room
<1>5. v \in Procs
  <2>1. "select" \in TaskSteps /\ None \in Requests \cup {None}
    BY DEF TaskSteps
  <2> HIDE DEF n
  <2> QED BY <1>3, <1>4, <2>1, Zenon DEF Procs
<1>6. /\ v.chan = proc[p].chan /\ v.killed = proc[p].killed /\ v.task = "select"
      /\ v.child = proc[p].child /\ v.asker = None
  BY <1>3 DEF Procs
<1>7. \A r \in Requests : r \in rs => Waits(r, p)
  BY Numbers DEF AwaitInv
<1>8. ASSUME NEW i \in DOMAIN v.chan
      PROVE  /\ i + 0 \in DOMAIN proc[p].chan /\ v.chan[i] = proc[p].chan[i + 0]
             /\ v.chan[i].from # None => v.chan[i].from \notin rs /\ v.chan[i].from # v.asker
  <2>1. i + 0 = i
    BY <1>3, <1>6, LenProperties
  <2> QED BY <2>1, <1>6 DEF AwaitInv
<1>9. v.child = "running" => proc[p].child = "running" /\ v.task \in {"select", "writing"}
  BY <1>6
<1>10. 0 \in {0, 1} /\ "ok" \in Results /\ proc[p].task \notin {"none", "gone"} /\ v.task # "none"
  BY <1>1, <1>6 DEF Results
<1>11. Dying(p) => v.killed \/ \E i \in DOMAIN v.chan : v.chan[i].op = "kill"
  BY <1>6 DEF Dying
<1>12. v.asker # None => v.asker \notin rs /\ Waits(v.asker, p)
  BY <1>6
<1> HIDE DEF v, rs, n
<1> QED BY <1>1, <1>2, <1>5, <1>7, <1>8, <1>9, <1>10, <1>11, <1>12, TaskStep

\* Steps that change a process and not its controls: the timeout, the end of the child, its
\* reads, and the task that sees the end.
LEMMA StepAlone ==
  ASSUME ProcessInv, NEW p \in Requests, NEW v \in Procs, proc' = [proc EXCEPT ![p] = v],
         UNCHANGED handlerVars, TaskFrame, UNCHANGED sessions,
         proc[p].task \notin {"none", "gone"}, v.task # "none",
         v.child = "running" => proc[p].child = "running" /\ v.task \in {"select", "writing"},
         v.chan = proc[p].chan, v.asker = proc[p].asker, proc[p].killed => v.killed
  PROVE  ProcessInv'
<1> USE DEF ProcessInv, BackInv
<1> DEFINE rs == {}
<1>1. /\ Reply(rs, "ok") /\ "ok" \in Results /\ 0 \in {0, 1}
      /\ \A r \in Requests : r \in rs => Waits(r, p)
  BY NoReply DEF Results
<1>2. proc[p].chan \in Seq(Controls)
  BY ProcFields
<1>3. ASSUME NEW i \in DOMAIN v.chan
      PROVE  /\ i + 0 \in DOMAIN proc[p].chan /\ v.chan[i] = proc[p].chan[i + 0]
             /\ v.chan[i].from # None => v.chan[i].from \notin rs /\ v.chan[i].from # v.asker
  <2>1. i + 0 = i
    BY <1>2, LenProperties
  <2> QED BY <2>1 DEF AwaitInv
<1>4. v.asker # None => v.asker \notin rs /\ Waits(v.asker, p)
  BY DEF AwaitInv
<1>5. Dying(p) => v.killed \/ \E i \in DOMAIN v.chan : v.chan[i].op = "kill"
  BY DEF Dying
<1> HIDE DEF rs
<1> QED BY <1>1, <1>3, <1>4, <1>5, TaskStep

LEMMA StepTaskExpires ==
  ASSUME ProcessInv, NEW p \in Requests, TaskExpires(p)
  PROVE  ProcessInv'
<1> DEFINE v == [proc[p] EXCEPT !.killed = TRUE]
<1>1. proc[p].task = "select" /\ TaskFrame /\ UNCHANGED sessions /\ UNCHANGED handlerVars
  BY DEF TaskExpires
<1>2. proc \in [Requests -> Procs] /\ proc[p] \in Procs
  BY DEF ProcessInv, BackInv, BackTypes
<1>3. proc' = [proc EXCEPT ![p] = v]
  BY <1>2, Zenon DEF TaskExpires
<1>4. v \in Procs /\ v.killed /\ v.task = proc[p].task /\ v.child = proc[p].child
      /\ v.chan = proc[p].chan /\ v.asker = proc[p].asker
  BY <1>2 DEF Procs
<1> HIDE DEF v
<1> QED BY <1>1, <1>3, <1>4, StepAlone

LEMMA StepTaskExit ==
  ASSUME ProcessInv, NEW p \in Requests, TaskExit(p)
  PROVE  ProcessInv'
<1> DEFINE v == [proc[p] EXCEPT !.task = "draining"]
<1>1. /\ proc[p].task = "select" /\ proc[p].child = "exited"
      /\ TaskFrame /\ UNCHANGED sessions /\ UNCHANGED handlerVars
  BY DEF TaskExit
<1>2. proc \in [Requests -> Procs] /\ proc[p] \in Procs
  BY DEF ProcessInv, BackInv, BackTypes
<1>3. proc' = [proc EXCEPT ![p] = v]
  BY <1>2, Zenon DEF TaskExit
<1>4. v \in Procs /\ v.killed = proc[p].killed /\ v.task = "draining" /\ v.child = proc[p].child
      /\ v.chan = proc[p].chan /\ v.asker = proc[p].asker
  BY <1>2 DEF Procs, TaskSteps
<1> HIDE DEF v
<1> QED BY <1>1, <1>3, <1>4, StepAlone

LEMMA StepChildReads ==
  ASSUME ProcessInv, NEW p \in Requests, ChildReads(p)
  PROVE  ProcessInv'
<1> DEFINE v == [proc[p] EXCEPT !.stdin = proc[p].stdin - 1]
<1>1. proc[p].child = "running" /\ proc[p].stdin > 0
      /\ TaskFrame /\ UNCHANGED sessions /\ UNCHANGED handlerVars
  BY DEF ChildReads, TaskFrame
<1>2. proc \in [Requests -> Procs] /\ proc[p] \in Procs /\ proc[p].stdin \in 0..StdinCapacity
  BY ProcFields DEF ProcessInv, BackInv, BackTypes
<1>3. proc' = [proc EXCEPT ![p] = v]
  BY <1>2, Zenon DEF ChildReads
<1>4. proc[p].stdin - 1 \in 0..StdinCapacity
  BY <1>1, <1>2, Numbers
<1>5. v \in Procs
  BY <1>2, <1>4, Zenon DEF Procs
<1>6. v.killed = proc[p].killed /\ v.task = proc[p].task /\ v.child = proc[p].child
      /\ v.chan = proc[p].chan /\ v.asker = proc[p].asker
  BY <1>2 DEF Procs
<1>7. proc[p].task \in {"select", "writing"}
  BY <1>1 DEF ProcessInv, BackInv, TaskInv
<1> HIDE DEF v
<1> QED BY <1>1, <1>3, <1>5, <1>6, <1>7, StepAlone

LEMMA StepChildExits ==
  ASSUME ProcessInv, NEW p \in Requests, ChildExits(p)
  PROVE  ProcessInv'
<1> DEFINE v == [proc[p] EXCEPT !.child = "exited", !.stdin = 0]
<1>1. proc[p].child = "running" /\ TaskFrame /\ UNCHANGED sessions /\ UNCHANGED handlerVars
  BY DEF ChildExits, TaskFrame
<1>2. proc \in [Requests -> Procs] /\ proc[p] \in Procs
  BY DEF ProcessInv, BackInv, BackTypes
<1>3. proc' = [proc EXCEPT ![p] = v]
  BY <1>2, Zenon DEF ChildExits
<1>4. 0 \in 0..StdinCapacity /\ "exited" \in {"none", "running", "exited"}
  BY Numbers
<1>5. v \in Procs
  BY <1>2, <1>4, Zenon DEF Procs
<1>6. v.killed = proc[p].killed /\ v.task = proc[p].task /\ v.child = "exited"
      /\ v.chan = proc[p].chan /\ v.asker = proc[p].asker
  BY <1>2 DEF Procs
<1>7. proc[p].task \in {"select", "writing"}
  BY <1>1 DEF ProcessInv, BackInv, TaskInv
<1> HIDE DEF v
<1> QED BY <1>1, <1>3, <1>5, <1>6, <1>7, StepAlone

\* run_process returns, and drops the controls it did not take.
LEMMA StepTaskNotify ==
  ASSUME ProcessInv, NEW p \in Requests, TaskNotify(p)
  PROVE  ProcessInv'
<1> USE DEF ProcessInv, BackInv
<1> DEFINE v == [proc[p] EXCEPT !.task = "ended", !.chan = <<>>]
           rs == {proc[p].chan[i].from : i \in DOMAIN proc[p].chan} \ {None}
<1>1. /\ proc[p].task = "draining" /\ Reply(rs, "error") /\ TaskFrame /\ UNCHANGED sessions
      /\ proc' = [proc EXCEPT ![p].task = "ended", ![p].chan = <<>>]
  BY DEF TaskNotify
<1>2. proc \in [Requests -> Procs] /\ proc[p] \in Procs
  BY DEF BackTypes
<1>3. proc' = [proc EXCEPT ![p] = v]
  BY <1>1, <1>2, Zenon
<1>4. v \in Procs
  <2>1. "ended" \in TaskSteps /\ <<>> \in Seq(Controls)
    BY DEF TaskSteps
  <2> QED BY <1>2, <2>1, Zenon DEF Procs
<1>5. v.task = "ended" /\ v.child = proc[p].child /\ v.chan = <<>> /\ v.asker = proc[p].asker
  BY <1>2 DEF Procs
<1>6. v.child # "running"
  BY <1>1, <1>5 DEF TaskInv
<1>7. \A r \in Requests : r \in rs => Waits(r, p)
  BY DEF AwaitInv
<1>8. v.asker # None => v.asker \notin rs /\ Waits(v.asker, p)
  <2>1. proc[p].asker # None => proc[p].asker \notin rs /\ Waits(proc[p].asker, p)
    BY DEF AwaitInv
  <2> QED BY <2>1, <1>5
<1>9. DOMAIN v.chan = {}
  BY <1>5
<1>10. 0 \in {0, 1} /\ "error" \in Results /\ proc[p].task \notin {"none", "gone"}
       /\ v.task # "none"
  BY <1>1, <1>5 DEF Results
<1> HIDE DEF v, rs
<1> QED BY <1>1, <1>3, <1>4, <1>6, <1>7, <1>8, <1>9, <1>10, TaskStep

\* The task is gone, and its handle with it; whoever else holds the handle keeps it.
LEMMA StepTaskRemove ==
  ASSUME ProcessInv, NEW p \in Requests, TaskRemove(p)
  PROVE  ProcessInv'
<1> USE DEF ProcessInv, BackInv
<1> DEFINE v == [proc[p] EXCEPT !.task = "gone"]
<1>1. /\ UNCHANGED <<connected, sent, req, inbox, known, accepting, loop, queue, idle>>
      /\ UNCHANGED <<pc, result, target>> /\ proc[p].task = "ended"
      /\ sessions' = [sessions EXCEPT ![Key(p)] = None] /\ proc' = [proc EXCEPT ![p].task = "gone"]
  BY DEF TaskRemove, TaskFrame, clientVars, loopVars, queueVars, handlerVars
<1>2. proc \in [Requests -> Procs] /\ proc[p] \in Procs
  BY DEF BackTypes
<1>3. proc' = [proc EXCEPT ![p] = v]
  BY <1>1, <1>2, Zenon
<1>4. v \in Procs /\ v.killed = proc[p].killed /\ v.task = "gone" /\ v.child = proc[p].child
      /\ v.chan = proc[p].chan /\ v.asker = proc[p].asker
  BY <1>2 DEF Procs, TaskSteps
<1> HIDE DEF v
<1>5. proc' \in [Requests -> Procs] /\ proc'[p] = v /\ \A q \in Requests : q # p => proc'[q] = proc[q]
  BY <1>2, <1>3, <1>4
<1>6. \A q \in Requests :
        /\ proc'[q].chan = proc[q].chan /\ proc'[q].asker = proc[q].asker
        /\ proc'[q].child = proc[q].child /\ proc'[q].killed = proc[q].killed
        /\ proc'[q].task = IF q = p THEN "gone" ELSE proc[q].task
  BY <1>4, <1>5
<1>7. FrontInv'
  <2>1. pc' \in [Requests -> Steps]
    BY <1>1 DEF FrontInv, FrontTypes
  <2> QED BY <1>1, <2>1, FrontMoves
<1>8. Key(p) \in Keys
  BY <1>1, TaskIsSent
<1>9. BackTypes'
  BY <1>1, <1>5, <1>8 DEF BackTypes
<1>10. AwaitInv'
  BY <1>1, <1>6, AwaitKept DEF AwaitInv
<1>11. TaskInv'
  BY <1>1, <1>6 DEF TaskInv
<1>12. \A q \in Requests : Key(q)' = Key(q) /\ (Closed(req[q].conn)' <=> Closed(req[q].conn))
  BY <1>1 DEF Key, Closed
<1>13. SessionInv'
  <2> SUFFICES ASSUME NEW q \in Requests, HoldsHandle(q)' PROVE sessions'[Key(q)] = q
    BY <1>12 DEF SessionInv
  <2>1. pc[p] = "done"
    BY <1>1 DEF TaskInv
  <2>2. q # p
    BY <2>1, <1>1, <1>6 DEF HoldsHandle
  <2>3. HoldsHandle(q)
    BY <2>2, <1>1, <1>6, <1>12 DEF HoldsHandle
  <2>4. Key(q) \in Keys /\ sessions[Key(q)] = q
    <3>1. proc[q].task # "none" \/ pc[q] = "spawning"
      BY <2>3 DEF HoldsHandle
    <3> QED BY <2>3, <3>1, TaskIsSent DEF SessionInv
  <2>5. Key(q) # Key(p)
    <3> SUFFICES ASSUME Key(q) = Key(p) PROVE FALSE
      OBVIOUS
    <3>1. req[q].conn = req[p].conn
      BY DEF Key
    <3>2. ~Closed(req[q].conn)
      BY <2>3, RunsOpen DEF HoldsHandle, InFlight
    <3>3. HoldsHandle(p)
      BY <3>1, <3>2, <1>1 DEF HoldsHandle
    <3>4. sessions[Key(p)] = p
      BY <3>3 DEF SessionInv
    <3> QED BY <3>4, <2>2, <2>4
  <2> QED BY <2>4, <2>5, <1>1, <1>8 DEF BackTypes
<1>14. KillInv'
  BY <1>6, <1>12 DEF KillInv, Dying
<1> QED BY <1>7, <1>9, <1>10, <1>11, <1>13, <1>14

\* The loop kills the processes of the connection it closes: each of them is in the sessions.
LEMMA StepLoopKill ==
  ASSUME ProcessInv, LoopKill
  PROVE  ProcessInv'
<1> USE DEF ProcessInv, BackInv
<1>0. PICK c : c = loop.conn
  OBVIOUS
<1> DEFINE mine == {k \in Keys : k[1] = c /\ sessions[k] # None}
           Hit(p) == (\E k \in mine : sessions[k] = p) /\ Receives(p)
           kill == Control("kill", None)
<1>1. /\ loop.step = "kill" /\ loop' = [step |-> "idle", conn |-> None]
      /\ UNCHANGED <<connected, sent, req, inbox, known, accepting, queue, idle>>
      /\ UNCHANGED <<pc, result, target>>
      /\ sessions' = [k \in Keys |-> IF k \in mine THEN None ELSE sessions[k]]
      /\ proc' = [p \in Requests |->
           IF Hit(p) THEN [proc[p] EXCEPT !.chan = Append(proc[p].chan, kill)] ELSE proc[p]]
  BY <1>0 DEF LoopKill, clientVars, queueVars, handlerVars
<1>2. c \in Connections \ known /\ c # None
  BY <1>0, <1>1, Numbers DEF FrontInv, LoopInv
<1>3. FrontInv'
  BY FrontKill
<1>4. kill \in Controls /\ kill.op = "kill" /\ kill.from = None
  BY DEF Controls, Control, Ops
<1> HIDE DEF kill
<1>5. ASSUME NEW p \in Requests
      PROVE  /\ proc'[p] \in Procs /\ proc'[p].task = proc[p].task
             /\ proc'[p].child = proc[p].child /\ proc'[p].killed = proc[p].killed
             /\ proc'[p].asker = proc[p].asker
             /\ proc'[p].chan = IF Hit(p) THEN Append(proc[p].chan, kill) ELSE proc[p].chan
  <2>1. proc[p] \in Procs /\ proc[p].chan \in Seq(Controls)
    BY ProcFields
  <2>2. Append(proc[p].chan, kill) \in Seq(Controls)
    BY <2>1, <1>4, Appended
  <2> HIDE DEF Hit
  <2>3. CASE Hit(p)
    <3>1. proc'[p] = [proc[p] EXCEPT !.chan = Append(proc[p].chan, kill)]
      BY <2>3, <1>1
    <3> QED BY <2>1, <2>2, <2>3, <3>1 DEF Procs
  <2>4. CASE ~Hit(p)
    BY <2>1, <2>4, <1>1
  <2> QED BY <2>3, <2>4
<1> HIDE DEF Hit
<1>6. ASSUME NEW p \in Requests, NEW i \in DOMAIN proc'[p].chan
      PROVE  \/ i \in DOMAIN proc[p].chan /\ proc'[p].chan[i] = proc[p].chan[i]
             \/ proc'[p].chan[i].from = None
  <2>1. proc[p].chan \in Seq(Controls)
    BY ProcFields
  <2>2. CASE Hit(p)
    <3>1. proc'[p].chan = Append(proc[p].chan, kill)
      BY <2>2, <1>5
    <3>2. i \in DOMAIN Append(proc[p].chan, kill)
      BY <3>1
    <3>3. \/ i \in DOMAIN proc[p].chan /\ Append(proc[p].chan, kill)[i] = proc[p].chan[i]
          \/ Append(proc[p].chan, kill)[i] = kill
      BY <2>1, <3>2, <1>4, OldOrNew
    <3> QED BY <3>1, <3>3, <1>4
  <2>3. CASE ~Hit(p)
    BY <2>3, <1>5
  <2> QED BY <2>2, <2>3
<1>7. ASSUME NEW p \in Requests, Dying(p) PROVE Dying(p)'
  <2>1. proc[p].chan \in Seq(Controls)
    BY ProcFields
  <2>2. CASE proc[p].killed
    BY <2>2, <1>5 DEF Dying
  <2>3. CASE \E i \in DOMAIN proc[p].chan : proc[p].chan[i].op = "kill"
    <3>1. PICK i \in DOMAIN proc[p].chan : proc[p].chan[i].op = "kill"
      BY <2>3
    <3>2. i \in DOMAIN proc'[p].chan /\ proc'[p].chan[i] = proc[p].chan[i]
      <4>1. CASE Hit(p)
        <5>1. i \in 1..Len(proc[p].chan) /\ Len(proc[p].chan) \in Nat
          BY <2>1, Appended, <1>4
        <5>2. i \in 1..(Len(proc[p].chan) + 1)
          BY <5>1
        <5>3. i \in DOMAIN Append(proc[p].chan, kill)
              /\ Append(proc[p].chan, kill)[i] = proc[p].chan[i]
          BY <5>1, <5>2, <2>1, <1>4, Appended
        <5> QED BY <5>3, <4>1, <1>5
      <4>2. CASE ~Hit(p)
        BY <4>2, <1>5
      <4> QED BY <4>1, <4>2
    <3> QED BY <3>1, <3>2 DEF Dying
  <2> QED BY <1>7, <2>2, <2>3 DEF Dying
<1>8. ASSUME NEW p \in Requests, Hit(p) PROVE Dying(p)'
  <2>1. proc[p].chan \in Seq(Controls)
    BY ProcFields
  <2>2. /\ DOMAIN Append(proc[p].chan, kill) = 1..(Len(proc[p].chan) + 1)
        /\ Append(proc[p].chan, kill)[Len(proc[p].chan) + 1] = kill /\ Len(proc[p].chan) \in Nat
    BY <2>1, <1>4, Appended
  <2>3. Len(proc[p].chan) + 1 \in 1..(Len(proc[p].chan) + 1)
    BY <2>2
  <2> QED BY <2>2, <2>3, <1>4, <1>5, <1>8 DEF Dying
<1>9. BackTypes'
  <2>1. proc' \in [Requests -> Procs]
    <3>1. DOMAIN proc' = Requests /\ \A p \in Requests : proc'[p] \in Procs
      BY <1>1, <1>5
    <3>2. proc' = [p \in Requests |-> proc'[p]]
      BY <1>1, Zenon
    <3> QED BY <3>1, <3>2
  <2>2. sessions' \in [Keys -> Requests \cup {None}]
    BY <1>1 DEF BackTypes
  <2> QED BY <1>1, <2>1, <2>2 DEF BackTypes
<1>10. AwaitInv'
  <2>1. \A r, p : Waits(r, p)' <=> Waits(r, p)
    BY <1>1 DEF Waits
  <2>2. \A r \in Requests : pc'[r] = "send" => target'[r] \in Requests
    BY <1>1 DEF AwaitInv
  <2>3. ASSUME NEW p \in Requests, NEW i \in DOMAIN proc'[p].chan, proc'[p].chan[i].from # None
        PROVE  /\ Waits(proc[p].chan[i].from, p)'
               /\ proc'[p].chan[i].from # proc'[p].asker
               /\ \A j \in DOMAIN proc'[p].chan :
                    i # j => proc'[p].chan[i].from # proc'[p].chan[j].from
    <3>1. i \in DOMAIN proc[p].chan /\ proc'[p].chan[i] = proc[p].chan[i]
      BY <2>3, <1>6
    <3>2. PICK f : f = proc[p].chan[i].from
      OBVIOUS
    <3>3. Waits(f, p)' /\ f # proc[p].asker
          /\ \A j \in DOMAIN proc[p].chan : i # j => f # proc[p].chan[j].from
      BY <2>1, <2>3, <3>1, <3>2 DEF AwaitInv
    <3>4. \A j \in DOMAIN proc'[p].chan : i # j => f # proc'[p].chan[j].from
      BY <2>3, <3>1, <3>2, <3>3, <1>6
    <3>5. proc'[p].chan[i].from = f
      BY <3>1, <3>2
    <3> QED BY <3>3, <3>4, <3>5, <1>5 DEF Waits
  <2>4. ASSUME NEW p \in Requests, proc'[p].asker # None PROVE Waits(proc[p].asker, p)'
    <3>1. PICK f : f = proc[p].asker
      OBVIOUS
    <3>2. Waits(f, p)' /\ proc'[p].asker = f
      BY <3>1, <2>1, <2>4, <1>5 DEF AwaitInv
    <3> QED BY <3>2 DEF Waits
  <2> QED BY <2>2, <2>3, <2>4 DEF AwaitInv
<1>11. TaskInv'
  BY <1>1, <1>5 DEF TaskInv
<1>12. \A q \in Requests : Key(q)' = Key(q)
  BY <1>1 DEF Key
<1>13. \A q \in Requests : req[q].conn \in Connections =>
         (Closed(req[q].conn)' <=> Closed(req[q].conn) \/ req[q].conn = c)
  BY <1>0, <1>1, <1>2, Numbers DEF Closed
<1>14. SessionInv'
  <2> SUFFICES ASSUME NEW q \in Requests, HoldsHandle(q)' PROVE sessions'[Key(q)] = q
    BY <1>12 DEF SessionInv
  <2>1. proc[q].task # "none" \/ pc[q] = "spawning"
    BY <1>1, <1>5 DEF HoldsHandle
  <2>2. Key(q) \in Keys /\ req[q].conn \in Connections
    BY <2>1, TaskIsSent
  <2>3. HoldsHandle(q) /\ req[q].conn # c
    <3>1. CASE pc[q] = "spawning"
      <4>1. req[q].conn \in known
        BY <3>1, <1>1 DEF FrontInv, GateInv, InFlight
      <4> QED BY <3>1, <4>1, <1>2 DEF HoldsHandle
    <3>2. CASE pc[q] # "spawning"
      BY <3>2, <2>2, <1>1, <1>5, <1>13 DEF HoldsHandle
    <3> QED BY <3>1, <3>2
  <2>4. sessions[Key(q)] = q
    BY <2>3 DEF SessionInv
  <2>5. Key(q)[1] = req[q].conn
    BY DEF Key
  <2> QED BY <2>2, <2>3, <2>4, <2>5, <1>1
<1>15. KillInv'
  <2> SUFFICES ASSUME NEW q \in Requests, Closed(req[q].conn)', proc'[q].child = "running"
               PROVE  Dying(q)'
    BY DEF KillInv
  <2>1. proc[q].child = "running"
    BY <1>5
  <2>2. Key(q) \in Keys /\ req[q].conn \in Connections
    BY <2>1, TaskIsSent
  <2>3. CASE Closed(req[q].conn)
    BY <2>1, <2>3, <1>7 DEF KillInv
  <2>4. CASE ~Closed(req[q].conn)
    <3>1. req[q].conn = c /\ proc[q].task \in {"select", "writing"}
      BY <2>1, <2>2, <2>4, <1>13 DEF TaskInv
    <3>2. sessions[Key(q)] = q
      BY <2>4, <3>1 DEF HoldsHandle, SessionInv
    <3>3. Key(q)[1] = c
      BY <3>1 DEF Key
    <3>4. Key(q) \in mine
      BY <2>2, <3>2, <3>3, Numbers
    <3>5. Hit(q)
      BY <3>1, <3>2, <3>4 DEF Receives, Hit
    <3> QED BY <3>5, <1>8
  <2> QED BY <2>3, <2>4
<1> QED BY <1>3, <1>9, <1>10, <1>11, <1>14, <1>15

\* What a handler that ends leaves of the rest.
LEMMA FinishFront ==
  ASSUME ProcessInv, NEW r \in Requests, pc[r] \in InFlight, NEW res \in Results, Finish(r, res),
         UNCHANGED clientVars, UNCHANGED loopVars
  PROVE  /\ FrontInv' /\ result' \in [Requests -> Results] /\ target' = target
         /\ pc'[r] = "done" /\ \A s \in Requests : s # r => pc'[s] = pc[s]
         /\ \A s \in Requests : Key(s)' = Key(s) /\ (Closed(req[s].conn)' <=> Closed(req[s].conn))
<1> USE DEF ProcessInv, BackInv
<1>1. UNCHANGED <<connected, sent, req, inbox, known, accepting, loop>>
  BY DEF clientVars, loopVars
<1>2. /\ pc' = [pc EXCEPT ![r] = "done"] /\ result' = [result EXCEPT ![r] = res]
      /\ Resumes(r) /\ target' = target
  BY DEF Finish
<1>3. pc[r] \in Active /\ "done" \in {"done", "skipped"}
  BY DEF Active
<1>4. FrontInv'
  BY <1>1, <1>2, <1>3, FrontFinish
<1>5. result' \in [Requests -> Results] /\ pc \in [Requests -> Steps]
  BY <1>2 DEF BackTypes, FrontInv, FrontTypes
<1> QED BY <1>1, <1>2, <1>4, <1>5 DEF Key, Closed

\* A handler answers, and no process is concerned.
LEMMA StepFinish ==
  ASSUME ProcessInv, NEW r \in Requests, pc[r] \in InFlight \ {"await"}, NEW res \in Results,
         Finish(r, res), UNCHANGED clientVars, UNCHANGED loopVars, UNCHANGED procVars
  PROVE  ProcessInv'
<1>1. pc[r] \in InFlight /\ pc[r] # "await"
  OBVIOUS
<1>2. /\ FrontInv' /\ result' \in [Requests -> Results] /\ target' = target
      /\ pc'[r] = "done" /\ \A s \in Requests : s # r => pc'[s] = pc[s]
  BY <1>1, FinishFront
<1>3. sessions' = sessions /\ proc' = proc /\ req' = req /\ known' = known /\ loop' = loop
  BY DEF procVars, clientVars, loopVars
<1>4. \A c \in Connections : Closed(c)' <=> Closed(c)
  BY <1>3 DEF Closed
<1>5. \A s \in Requests : /\ pc[s] = "await" => pc'[s] = "await"
                          /\ pc'[s] = "send" => pc[s] = "send"
                          /\ pc'[s] = "spawning" => pc[s] = "spawning"
                          /\ pc[s] = "done" => pc'[s] = "done"
                          /\ pc[s] = "unsent" \/ req'[s] = req[s]
  BY <1>1, <1>2, <1>3
<1>6. UNCHANGED <<target, sessions, proc>>
  BY <1>2, <1>3
<1>7. BackInv'
  BY <1>2, <1>4, <1>5, <1>6, BackQuiet
<1> QED BY <1>2, <1>7 DEF ProcessInv

\* The gate lets a handler start, or drops it.
LEMMA StepGateRun ==
  ASSUME ProcessInv, NEW r \in Requests, GateRun(r)
  PROVE  ProcessInv'
<1> USE DEF ProcessInv
<1>1. /\ UNCHANGED <<connected, sent, req, inbox, known, accepting, loop>>
      /\ UNCHANGED <<result, target, sessions, proc>> /\ pc[r] = "popped"
  BY DEF GateRun, clientVars, loopVars, procVars
<1>2. pc \in [Requests -> Steps] /\ pc[r] \in Active
  BY <1>1 DEF FrontInv, FrontTypes, Active
<1>3. /\ FrontInv' /\ pc'[r] \in {"start", "skipped"}
      /\ \A s \in Requests : s # r => pc'[s] = pc[s]
  <2>1. CASE Enter(req[r].conn)
    <3>1. pc' = [pc EXCEPT ![r] = "start"] /\ queue' = queue /\ idle' = idle
      BY <2>1 DEF GateRun, queueVars
    <3>2. "start" \in Steps /\ "start" \in InFlight
      BY DEF Steps, InFlight
    <3>3. pc' \in [Requests -> Steps] /\ pc'[r] = "start" /\ \A s \in Requests : s # r => pc'[s] = pc[s]
      BY <3>1, <3>2, <1>2
    <3>4. req[r].conn \in known
      BY <2>1 DEF Enter, FrontInv, LoopInv
    <3>5. \A s \in Requests :
            \/ pc'[s] = pc[s]
            \/ /\ pc[s] \in Active /\ pc'[s] \in InFlight
               /\ pc[s] \in InFlight \/ req[s].conn \in known
      BY <3>2, <3>3, <3>4, <1>2
    <3>6. UNCHANGED <<connected, sent, req, inbox, known, accepting, loop, queue, idle>>
      BY <1>1, <3>1
    <3> QED BY <3>3, <3>5, <3>6, FrontMoves
  <2>2. CASE ~Enter(req[r].conn)
    <3>1. pc' = [pc EXCEPT ![r] = "skipped"] /\ Resumes(r)
      BY <2>2 DEF GateRun
    <3>2. FrontInv'
      BY <3>1, <1>1, <1>2, FrontFinish
    <3> QED BY <3>1, <3>2, <1>2
  <2> QED BY <2>1, <2>2
<1>4. \A c \in Connections : Closed(c)' <=> Closed(c)
  BY <1>1 DEF Closed
<1>5. \A s \in Requests : /\ pc[s] = "await" => pc'[s] = "await"
                          /\ pc'[s] = "send" => pc[s] = "send"
                          /\ pc'[s] = "spawning" => pc[s] = "spawning"
                          /\ pc[s] = "done" => pc'[s] = "done"
                          /\ pc[s] = "unsent" \/ req'[s] = req[s]
  BY <1>1, <1>3
<1>6. result' \in [Requests -> Results]
  BY <1>1 DEF BackInv, BackTypes
<1>7. BackInv'
  BY <1>1, <1>4, <1>5, <1>6, BackQuiet
<1> QED BY <1>3, <1>7

\* process/spawn takes a handle that is free.
LEMMA StepSpawnRegister ==
  ASSUME ProcessInv, NEW r \in Requests, SpawnRegister(r)
  PROVE  ProcessInv'
<1> USE DEF ProcessInv, BackInv
<1>1. /\ pc[r] = "start" /\ proc' = proc /\ UNCHANGED clientVars /\ UNCHANGED loopVars
  BY DEF SpawnRegister
<1>2. pc[r] \in InFlight \ {"await"} /\ "duplicate" \in Results
  BY <1>1 DEF InFlight, Results
<1>3. CASE ~Free(Key(r))
  <2>1. Finish(r, "duplicate") /\ UNCHANGED procVars
    BY <1>1, <1>3 DEF SpawnRegister, procVars
  <2> QED BY <2>1, <1>1, <1>2, StepFinish
<1>4. CASE Free(Key(r))
  <2>1. /\ UNCHANGED <<connected, sent, req, inbox, known, accepting, loop, queue, idle>>
        /\ UNCHANGED <<result, target>> /\ sessions[Key(r)] = None
        /\ sessions' = [sessions EXCEPT ![Key(r)] = r] /\ pc' = [pc EXCEPT ![r] = "spawning"]
    BY <1>1, <1>4 DEF SpawnRegister, Free, clientVars, loopVars, queueVars
  <2>2. "spawning" \in Steps /\ "spawning" \in InFlight /\ pc[r] \in Active
    BY <1>2 DEF Steps, InFlight, Active
  <2>3. pc' \in [Requests -> Steps] /\ pc'[r] = "spawning"
        /\ \A s \in Requests : s # r => pc'[s] = pc[s]
    BY <2>1, <2>2 DEF FrontInv, FrontTypes
  <2>4. FrontInv'
    <3>1. \A s \in Requests :
            \/ pc'[s] = pc[s]
            \/ /\ pc[s] \in Active /\ pc'[s] \in InFlight
               /\ pc[s] \in InFlight \/ req[s].conn \in known
      BY <2>2, <2>3, <1>2
    <3> QED BY <2>1, <2>3, <3>1, FrontMoves
  <2>5. Key(r) \in Keys
    BY <1>1, SentHasKey
  <2>6. BackTypes'
    BY <1>1, <2>1, <2>5 DEF BackTypes
  <2>7. AwaitInv'
    BY <1>1, <2>1, <2>3, AwaitKept DEF AwaitInv
  <2>8. TaskInv'
    BY <1>1, <2>1, <2>3 DEF TaskInv
  <2>9. \A q \in Requests : Key(q)' = Key(q) /\ (Closed(req[q].conn)' <=> Closed(req[q].conn))
    BY <2>1 DEF Key, Closed
  <2>10. SessionInv'
    <3> SUFFICES ASSUME NEW q \in Requests, HoldsHandle(q)' PROVE sessions'[Key(q)] = q
      BY <2>9 DEF SessionInv
    <3>1. CASE q = r
      BY <3>1, <2>1, <2>5 DEF BackTypes
    <3>2. CASE q # r
      <4>1. HoldsHandle(q)
        BY <3>2, <1>1, <2>3, <2>9 DEF HoldsHandle
      <4>2. proc[q].task # "none" \/ pc[q] = "spawning"
        BY <4>1 DEF HoldsHandle
      <4>3. Key(q) \in Keys /\ sessions[Key(q)] = q /\ q # None
        BY <4>1, <4>2, TaskIsSent, Numbers DEF SessionInv
      <4> QED BY <4>3, <2>1, <2>5 DEF BackTypes
    <3> QED BY <3>1, <3>2
  <2>11. KillInv'
    BY <1>1, <2>9 DEF KillInv, Dying
  <2> QED BY <2>4, <2>6, <2>7, <2>8, <2>10, <2>11
<1> QED BY <1>3, <1>4

\* The process runs; its handle is the one it registered, and its connection is open.
LEMMA StepSpawnSucceeds ==
  ASSUME ProcessInv, NEW r \in Requests, SpawnSucceeds(r)
  PROVE  ProcessInv'
<1> USE DEF ProcessInv, BackInv
<1> DEFINE v == [proc[r] EXCEPT !.child = "running", !.task = "select"]
<1>1. /\ pc[r] = "spawning" /\ Finish(r, "ok") /\ sessions' = sessions
      /\ UNCHANGED clientVars /\ UNCHANGED loopVars
      /\ proc' = [proc EXCEPT ![r].child = "running", ![r].task = "select"]
  BY DEF SpawnSucceeds
<1>2. pc[r] \in InFlight /\ "ok" \in Results
  BY <1>1 DEF InFlight, Results
<1>3. /\ FrontInv' /\ result' \in [Requests -> Results] /\ target' = target
      /\ pc'[r] = "done" /\ \A s \in Requests : s # r => pc'[s] = pc[s]
      /\ \A s \in Requests : Key(s)' = Key(s) /\ (Closed(req[s].conn)' <=> Closed(req[s].conn))
  BY <1>1, <1>2, FinishFront
<1>4. proc \in [Requests -> Procs] /\ proc[r] \in Procs
  BY DEF BackTypes
<1>5. proc' = [proc EXCEPT ![r] = v]
  BY <1>1, <1>4, Zenon
<1>6. v \in Procs
  <2>1. "select" \in TaskSteps /\ "running" \in {"none", "running", "exited"}
    BY DEF TaskSteps
  <2> QED BY <1>4, <2>1, Zenon DEF Procs
<1>7. v.task = "select" /\ v.child = "running" /\ v.chan = proc[r].chan /\ v.asker = proc[r].asker
  BY <1>4 DEF Procs
<1> HIDE DEF v
<1>8. proc' \in [Requests -> Procs] /\ proc'[r] = v /\ \A q \in Requests : q # r => proc'[q] = proc[q]
  BY <1>4, <1>5, <1>6
<1>9. \A q \in Requests : proc'[q].chan = proc[q].chan /\ proc'[q].asker = proc[q].asker
  BY <1>7, <1>8
<1>10. BackTypes'
  BY <1>1, <1>3, <1>8 DEF BackTypes
<1>11. AwaitInv'
  BY <1>1, <1>3, <1>9, AwaitKept DEF AwaitInv
<1>12. TaskInv'
  BY <1>1, <1>3, <1>7, <1>8 DEF TaskInv
<1>13. SessionInv'
  <2> SUFFICES ASSUME NEW q \in Requests, HoldsHandle(q)' PROVE sessions[Key(q)] = q
    BY <1>1, <1>3 DEF SessionInv
  <2>1. HoldsHandle(q)
    BY <1>1, <1>3, <1>8 DEF HoldsHandle
  <2> QED BY <2>1 DEF SessionInv
<1>14. KillInv'
  <2> SUFFICES ASSUME NEW q \in Requests, Closed(req[q].conn)', proc'[q].child = "running"
               PROVE  Dying(q)'
    BY DEF KillInv
  <2>1. q # r
    BY <1>2, <1>3, RunsOpen
  <2> QED BY <2>1, <1>3, <1>8 DEF KillInv, Dying
<1> QED BY <1>3, <1>10, <1>11, <1>12, <1>13, <1>14

\* A spawn that fails gives its handle back.
LEMMA StepSpawnFails ==
  ASSUME ProcessInv, NEW r \in Requests, SpawnFails(r)
  PROVE  ProcessInv'
<1> USE DEF ProcessInv, BackInv
<1>1. /\ pc[r] = "spawning" /\ Finish(r, "error") /\ proc' = proc
      /\ sessions' = [sessions EXCEPT ![Key(r)] = None]
      /\ UNCHANGED clientVars /\ UNCHANGED loopVars
  BY DEF SpawnFails
<1>2. pc[r] \in InFlight /\ "error" \in Results
  BY <1>1 DEF InFlight, Results
<1>3. /\ FrontInv' /\ result' \in [Requests -> Results] /\ target' = target
      /\ pc'[r] = "done" /\ \A s \in Requests : s # r => pc'[s] = pc[s]
      /\ \A s \in Requests : Key(s)' = Key(s) /\ (Closed(req[s].conn)' <=> Closed(req[s].conn))
  BY <1>1, <1>2, FinishFront
<1>4. Key(r) \in Keys
  BY <1>1, SentHasKey
<1>5. BackTypes'
  BY <1>1, <1>3, <1>4 DEF BackTypes
<1>6. AwaitInv'
  BY <1>1, <1>3, AwaitKept DEF AwaitInv
<1>7. TaskInv'
  BY <1>1, <1>3 DEF TaskInv
<1>8. SessionInv'
  <2> SUFFICES ASSUME NEW q \in Requests, HoldsHandle(q)' PROVE sessions'[Key(q)] = q
    BY <1>3 DEF SessionInv
  <2>1. HoldsHandle(q)
    BY <1>1, <1>3 DEF HoldsHandle
  <2>2. q # r
    BY <1>1, <1>3 DEF HoldsHandle, TaskInv
  <2>3. sessions[Key(r)] = r /\ sessions[Key(q)] = q
    BY <1>1, <2>1 DEF SessionInv, HoldsHandle
  <2>4. Key(q) \in Keys
    <3>1. proc[q].task # "none" \/ pc[q] = "spawning"
      BY <2>1 DEF HoldsHandle
    <3> QED BY <3>1, TaskIsSent
  <2> QED BY <2>2, <2>3, <2>4, <1>1, <1>4 DEF BackTypes
<1>9. KillInv'
  BY <1>1, <1>3 DEF KillInv, Dying
<1> QED BY <1>3, <1>5, <1>6, <1>7, <1>8, <1>9

\* A handler that goes on inside its gate.
LEMMA FrontGoes ==
  ASSUME FrontInv, NEW r \in Requests, pc[r] \in InFlight, NEW st \in InFlight,
         pc' = [pc EXCEPT ![r] = st],
         UNCHANGED <<connected, sent, req, inbox, known, accepting, loop, queue, idle>>
  PROVE  FrontInv' /\ pc'[r] = st /\ \A s \in Requests : s # r => pc'[s] = pc[s]
<1>1. pc \in [Requests -> Steps] /\ st \in Steps
  BY DEF FrontInv, FrontTypes, Steps
<1>2. pc' \in [Requests -> Steps] /\ pc'[r] = st /\ \A s \in Requests : s # r => pc'[s] = pc[s]
  BY <1>1
<1>3. \A s \in Requests : \/ pc'[s] = pc[s]
                          \/ /\ pc[s] \in Active /\ pc'[s] \in InFlight
                             /\ pc[s] \in InFlight \/ req[s].conn \in known
  BY <1>2 DEF Active
<1> QED BY <1>2, <1>3, FrontMoves

\* send_control finds the session of its handle.
LEMMA StepControlLookup ==
  ASSUME ProcessInv, NEW r \in Requests, ControlLookup(r)
  PROVE  ProcessInv'
<1> USE DEF ProcessInv, BackInv
<1>1. pc[r] = "start" /\ UNCHANGED clientVars /\ UNCHANGED loopVars /\ UNCHANGED procVars
  BY DEF ControlLookup
<1>2. pc[r] \in InFlight \ {"await"} /\ "error" \in Results /\ "send" \in InFlight
  BY <1>1 DEF InFlight, Results
<1>3. CASE sessions[Key(r)] = None
  <2>1. Finish(r, "error")
    BY <1>3 DEF ControlLookup
  <2> QED BY <2>1, <1>1, <1>2, StepFinish
<1>4. CASE sessions[Key(r)] # None
  <2>1. /\ UNCHANGED <<connected, sent, req, inbox, known, accepting, loop, queue, idle>>
        /\ UNCHANGED <<result, sessions, proc>> /\ pc' = [pc EXCEPT ![r] = "send"]
        /\ target' = [target EXCEPT ![r] = sessions[Key(r)]]
    BY <1>1, <1>4 DEF ControlLookup, clientVars, loopVars, queueVars, procVars
  <2>2. FrontInv' /\ pc'[r] = "send" /\ \A s \in Requests : s # r => pc'[s] = pc[s]
    BY <1>2, <2>1, FrontGoes
  <2>3. Key(r) \in Keys
    BY <1>1, SentHasKey
  <2>4. sessions[Key(r)] \in Requests
    BY <1>4, <2>3 DEF BackTypes
  <2>5. target'[r] \in Requests /\ \A s \in Requests : s # r => target'[s] = target[s]
    BY <2>1, <2>4 DEF BackTypes
  <2>6. BackTypes'
    BY <2>1, <2>4 DEF BackTypes
  <2>7. AwaitInv'
    BY <1>1, <2>1, <2>2, <2>5, AwaitKept DEF AwaitInv
  <2>8. TaskInv'
    BY <1>1, <2>1, <2>2 DEF TaskInv
  <2>9. \A q \in Requests : Key(q)' = Key(q) /\ (Closed(req[q].conn)' <=> Closed(req[q].conn))
    BY <2>1 DEF Key, Closed
  <2>10. SessionInv'
    BY <2>1, <2>2, <2>9 DEF SessionInv, HoldsHandle
  <2>11. KillInv'
    BY <2>1, <2>9 DEF KillInv, Dying
  <2> QED BY <2>2, <2>6, <2>7, <2>8, <2>10, <2>11
<1> QED BY <1>3, <1>4

\* The control is in the channel of a task that still receives, and the handler awaits.
LEMMA StepControlSend ==
  ASSUME ProcessInv, NEW r \in Requests, ControlSend(r)
  PROVE  ProcessInv'
<1> USE DEF ProcessInv, BackInv
<1>1. pc[r] = "send" /\ UNCHANGED clientVars /\ UNCHANGED loopVars /\ sessions' = sessions
  BY DEF ControlSend
<1>2. pc[r] \in InFlight \ {"await"} /\ "error" \in Results /\ "await" \in InFlight
  BY <1>1 DEF InFlight, Results
<1>3. PICK p \in Requests : p = target[r]
  BY <1>1 DEF AwaitInv
<1>4. CASE ~Receives(p)
  <2>1. Finish(r, "error") /\ UNCHANGED procVars
    BY <1>1, <1>3, <1>4 DEF ControlSend, procVars
  <2> QED BY <2>1, <1>1, <1>2, StepFinish
<1>5. CASE Receives(p)
  <2> DEFINE e == Control(req[r].op, r)
             w == Append(proc[p].chan, e)
             v == [proc[p] EXCEPT !.chan = w]
             L == Len(proc[p].chan)
  <2>1. /\ UNCHANGED <<connected, sent, req, inbox, known, accepting, loop, queue, idle>>
        /\ UNCHANGED <<result, target>> /\ pc' = [pc EXCEPT ![r] = "await"]
        /\ proc' = [proc EXCEPT ![p].chan = w]
    BY <1>1, <1>3, <1>5 DEF ControlSend, clientVars, loopVars, queueVars
  <2>2. FrontInv' /\ pc'[r] = "await" /\ \A s \in Requests : s # r => pc'[s] = pc[s]
    BY <1>2, <2>1, FrontGoes
  <2>3. e \in Controls /\ e.from = r
    <3>1. req[r].op \in Ops
      BY DEF FrontInv, FrontTypes, Reqs
    <3> QED BY <3>1 DEF Controls, Control
  <2>4. proc[p] \in Procs /\ proc[p].chan \in Seq(Controls) /\ proc \in [Requests -> Procs]
    BY ProcFields DEF BackTypes
  <2> HIDE DEF e
  <2>5. /\ w \in Seq(Controls) /\ L \in Nat /\ DOMAIN proc[p].chan = 1..L
        /\ DOMAIN w = 1..(L + 1) /\ \A i \in 1..L : w[i] = proc[p].chan[i]
        /\ w[L + 1] = e
    BY <2>3, <2>4, Appended
  <2> HIDE DEF w, L
  <2>6. proc' = [proc EXCEPT ![p] = v]
    BY <2>1, <2>4, Zenon
  <2>7. v \in Procs /\ v.chan = w /\ v.task = proc[p].task /\ v.child = proc[p].child
        /\ v.killed = proc[p].killed /\ v.asker = proc[p].asker
    BY <2>4, <2>5 DEF Procs
  <2> HIDE DEF v
  <2>8. proc' \in [Requests -> Procs] /\ proc'[p] = v
        /\ \A q \in Requests : q # p => proc'[q] = proc[q]
    BY <2>4, <2>6, <2>7
  <2>9. \A q \in Requests :
          /\ proc'[q].task = proc[q].task /\ proc'[q].child = proc[q].child
          /\ proc'[q].killed = proc[q].killed /\ proc'[q].asker = proc[q].asker
    BY <2>7, <2>8
  <2>10. BackTypes'
    BY <1>1, <2>1, <2>8 DEF BackTypes
  <2>11. \A f, q : Waits(f, q) => Waits(f, q)' /\ f # r
    BY <1>1, <2>1, <2>2 DEF Waits
  <2>12. Waits(r, p)'
    BY <1>3, <2>1, <2>2 DEF Waits
  <2>13. AwaitInv'
    <3>1. \A s \in Requests : pc'[s] = "send" => target'[s] \in Requests
      BY <2>1, <2>2 DEF AwaitInv
    <3>2. ASSUME NEW q \in Requests, NEW i \in DOMAIN proc[q].chan, proc[q].chan[i].from # None,
                 NEW f, f = proc[q].chan[i].from
          PROVE  /\ Waits(f, q)' /\ f # r /\ f # proc[q].asker
                 /\ \A j \in DOMAIN proc[q].chan : i # j => f # proc[q].chan[j].from
      BY <3>2, <2>11 DEF AwaitInv
    <3>3. ASSUME NEW q \in Requests, proc'[q].asker # None PROVE Waits(proc[q].asker, q)'
      <4>1. PICK f : f = proc[q].asker
        OBVIOUS
      <4>2. Waits(f, q)' /\ proc'[q].asker = f
        BY <4>1, <3>3, <2>9, <2>11 DEF AwaitInv
      <4> QED BY <4>2
    <3>4. \A q \in Requests : proc[q].asker # r
      BY <2>11, Numbers DEF AwaitInv
    <3>5. ASSUME NEW q \in Requests, NEW i \in DOMAIN proc'[q].chan, proc'[q].chan[i].from # None
          PROVE  /\ Waits(proc[q].chan[i].from, q)'
                 /\ proc'[q].chan[i].from # proc'[q].asker
                 /\ \A j \in DOMAIN proc'[q].chan :
                      i # j => proc'[q].chan[i].from # proc'[q].chan[j].from
      <4>1. PICK f : f = proc'[q].chan[i].from
        OBVIOUS
      <4>2. CASE q # p
        <5>1. proc'[q] = proc[q]
          BY <4>2, <2>8
        <5>2. /\ Waits(f, q)' /\ f # proc[q].asker
              /\ \A j \in DOMAIN proc[q].chan : i # j => f # proc[q].chan[j].from
          BY <5>1, <4>1, <3>2, <3>5
        <5> QED BY <5>1, <5>2, <4>1
      <4>3. CASE q = p /\ i = L + 1
        <5>1. f = r /\ proc'[q].chan = w
          BY <4>1, <4>3, <2>3, <2>5, <2>7, <2>8
        <5>2. Waits(f, q)' /\ f # proc'[q].asker
          BY <5>1, <4>3, <2>9, <2>12, <3>4
        <5>3. ASSUME NEW j \in DOMAIN proc'[q].chan, i # j PROVE f # proc'[q].chan[j].from
          <6>1. j \in 1..L
            BY <5>1, <5>3, <4>3, <2>5
          <6>2. proc'[q].chan[j] = proc[p].chan[j] /\ j \in DOMAIN proc[p].chan
            BY <6>1, <5>1, <2>5
          <6>3. proc[p].chan[j].from # r
            BY <6>2, <2>11, Numbers DEF AwaitInv
          <6> QED BY <6>2, <6>3, <5>1
        <5> QED BY <5>2, <5>3, <4>1
      <4>4. CASE q = p /\ i # L + 1
        <5>1. i \in 1..L /\ proc'[q].chan = w
          BY <4>4, <2>5, <2>7, <2>8
        <5>2. f = proc[p].chan[i].from /\ i \in DOMAIN proc[p].chan
          BY <5>1, <4>1, <2>5
        <5>3. /\ Waits(f, p)' /\ f # r /\ f # proc[p].asker
              /\ \A j \in DOMAIN proc[p].chan : i # j => f # proc[p].chan[j].from
          BY <5>2, <4>1, <3>2, <3>5
        <5>4. ASSUME NEW j \in DOMAIN proc'[q].chan, i # j PROVE f # proc'[q].chan[j].from
          <6>1. j \in 1..L \/ j = L + 1
            BY <5>1, <2>5
          <6> QED BY <6>1, <5>1, <5>3, <5>4, <2>3, <2>5
        <5> QED BY <5>3, <5>4, <4>1, <4>4, <2>9
      <4> QED BY <4>2, <4>3, <4>4
    <3> QED BY <3>1, <3>3, <3>5 DEF AwaitInv
  <2>14. TaskInv'
    BY <1>1, <2>2, <2>9 DEF TaskInv
  <2>15. \A q \in Requests : Key(q)' = Key(q) /\ (Closed(req[q].conn)' <=> Closed(req[q].conn))
    BY <2>1 DEF Key, Closed
  <2>16. SessionInv'
    BY <1>1, <2>2, <2>9, <2>15 DEF SessionInv, HoldsHandle
  <2>17. KillInv'
    <3> SUFFICES ASSUME NEW q \in Requests, Closed(req[q].conn)', proc'[q].child = "running"
                 PROVE  Dying(q)'
      BY DEF KillInv
    <3>1. Dying(q)
      BY <2>9, <2>15 DEF KillInv
    <3>2. CASE q # p
      BY <3>1, <3>2, <2>8 DEF Dying
    <3>3. CASE q = p
      <4>1. \A i \in DOMAIN proc[p].chan : i \in DOMAIN w /\ w[i] = proc[p].chan[i]
        BY <2>5
      <4> QED BY <3>1, <3>3, <4>1, <2>7, <2>8 DEF Dying
    <3> QED BY <3>2, <3>3
  <2> QED BY <2>2, <2>10, <2>13, <2>14, <2>16, <2>17
<1> QED BY <1>4, <1>5

LEMMA StepControlReply ==
  ASSUME ProcessInv, NEW r \in Requests, ControlReply(r)
  PROVE  ProcessInv'
<1>1. pc[r] \in InFlight \ {"await"} /\ Finish(r, result[r])
      /\ UNCHANGED clientVars /\ UNCHANGED loopVars /\ UNCHANGED procVars
  BY DEF ControlReply, InFlight
<1>2. result[r] \in Results
  BY DEF ProcessInv, BackInv, BackTypes
<1> QED BY <1>1, <1>2, StepFinish

\* Steps of clients, of the loop and of drain tasks leave the processes alone.
LEMMA StepSend ==
  ASSUME ProcessInv, NEW c \in Connections, NEW h \in Handles, NEW op \in Ops, Send(c, h, op)
  PROVE  ProcessInv'
<1> USE DEF ProcessInv
<1>1. FrontInv'
  BY FrontSend
<1>2. PICK n : n = sent + 1
  OBVIOUS
<1>3. /\ UNCHANGED <<result, target, sessions, proc>> /\ known' = known /\ loop' = loop
      /\ pc' = [pc EXCEPT ![n] = "wire"] /\ sent < MaxRequests
  BY <1>2 DEF Send, procVars
<1>4. n \in Requests /\ sent < n
  BY <1>2, <1>3, FrontFields, Numbers DEF FrontInv, Requests
<1>5. pc[n] = "unsent" /\ pc'[n] = "wire" /\ \A s \in Requests : s # n => pc'[s] = pc[s]
  BY <1>3, <1>4 DEF FrontInv, SentInv, FrontTypes
<1>6. \A s \in Requests : s # n => req'[s] = req[s]
  <2>1. \E q : req' = [req EXCEPT ![n] = q]
    BY <1>2, Zenon DEF Send
  <2> QED BY <2>1, <1>4 DEF FrontInv, FrontTypes
<1>7. \A s \in Requests : /\ pc[s] = "await" => pc'[s] = "await"
                          /\ pc'[s] = "send" => pc[s] = "send"
                          /\ pc'[s] = "spawning" => pc[s] = "spawning"
                          /\ pc[s] = "done" => pc'[s] = "done"
                          /\ pc[s] = "unsent" \/ req'[s] = req[s]
  BY <1>5, <1>6
<1>8. result' \in [Requests -> Results] /\ \A d \in Connections : Closed(d)' <=> Closed(d)
  BY <1>3 DEF BackInv, BackTypes, Closed
<1>9. UNCHANGED <<target, sessions, proc>>
  BY <1>3
<1>10. BackInv'
  BY <1>7, <1>8, <1>9, BackQuiet
<1> QED BY <1>1, <1>10

\* The other steps of the kind change where requests are before they are handled.
LEMMA BackAlone ==
  ASSUME ProcessInv, UNCHANGED <<req, result, target, sessions, proc>>,
         \A r \in Requests : \/ pc'[r] = pc[r]
                             \/ pc[r] \in {"wire", "queued"} /\ pc'[r] \in {"queued", "popped"},
         \A c \in Connections : Closed(c)' <=> Closed(c)
  PROVE  BackInv'
<1>1. \A s \in Requests : /\ pc[s] = "await" => pc'[s] = "await"
                          /\ pc'[s] = "send" => pc[s] = "send"
                          /\ pc'[s] = "spawning" => pc[s] = "spawning"
                          /\ pc[s] = "done" => pc'[s] = "done"
                          /\ pc[s] = "unsent" \/ req'[s] = req[s]
  OBVIOUS
<1>2. result' \in [Requests -> Results]
  BY DEF ProcessInv, BackInv, BackTypes
<1>3. UNCHANGED <<target, sessions, proc>>
  OBVIOUS
<1> QED BY <1>1, <1>2, <1>3, BackQuiet

LEMMA StepDisconnect ==
  ASSUME ProcessInv, NEW c \in Connections, Disconnect(c)
  PROVE  ProcessInv'
<1>1. FrontInv'
  BY FrontDisconnect DEF ProcessInv
<1>2. UNCHANGED <<req, result, target, sessions, proc>> /\ pc' = pc /\ known' = known /\ loop' = loop
  BY DEF Disconnect, handlerVars, procVars
<1>3. BackInv'
  BY <1>2, BackAlone DEF Closed
<1> QED BY <1>1, <1>3 DEF ProcessInv

LEMMA StepLoopRequest ==
  ASSUME ProcessInv, LoopRequest
  PROVE  ProcessInv'
<1> USE DEF ProcessInv
<1>1. FrontInv'
  BY FrontRequest
<1>2. /\ UNCHANGED <<req, result, target, sessions, proc>> /\ known' = known /\ loop' = loop
      /\ inbox # <<>> /\ Head(inbox).kind = "request"
      /\ pc' = [pc EXCEPT ![Head(inbox).request] = "queued"]
  BY DEF LoopRequest, clientVars, procVars
<1>3. 1 \in DOMAIN inbox /\ Head(inbox) = inbox[1]
  BY <1>2, Shortened DEF FrontInv, FrontTypes
<1>4. PICK r \in Requests : r = inbox[1].request
  BY <1>2, <1>3, OnWire DEF IsRequest
<1>5. pc[r] = "wire" /\ pc' = [pc EXCEPT ![r] = "queued"]
  BY <1>2, <1>3, <1>4, OnWire DEF IsRequest
<1>6. pc'[r] = "queued" /\ \A s \in Requests : s # r => pc'[s] = pc[s]
  BY <1>5 DEF FrontInv, FrontTypes
<1>7. \A c \in Connections : Closed(c)' <=> Closed(c)
  BY <1>2 DEF Closed
<1>8. BackInv'
  BY <1>2, <1>5, <1>6, <1>7, BackAlone
<1> QED BY <1>1, <1>8

\* A connection that the loop closes is not closed before its processes are killed.
LEMMA StepLoopClose ==
  ASSUME ProcessInv, LoopClose
  PROVE  ProcessInv'
<1> USE DEF ProcessInv
<1>1. FrontInv'
  BY FrontClose
<1>2. PICK c : c = Head(inbox).conn
  OBVIOUS
<1>3. /\ UNCHANGED <<req, result, target, sessions, proc>> /\ pc' = pc /\ loop.step = "idle"
      /\ known' = known \ {c} /\ loop' = [step |-> "wait", conn |-> c]
      /\ inbox # <<>> /\ Head(inbox).kind = "closed"
  BY <1>2 DEF LoopClose, clientVars, handlerVars, procVars
<1>4. 1 \in DOMAIN inbox /\ Head(inbox) = inbox[1]
  BY <1>3, Shortened DEF FrontInv, FrontTypes
<1>5. c \in known
  BY <1>2, <1>3, <1>4 DEF FrontInv, InboxInv, IsRequest
<1>6. \A d \in Connections : Closed(d)' <=> Closed(d)
  <2>1. loop.conn = None
    BY <1>3 DEF FrontInv, LoopInv
  <2> QED BY <2>1, <1>3, <1>5, Numbers DEF Closed
<1>7. BackInv'
  BY <1>3, <1>6, BackAlone
<1> QED BY <1>1, <1>7

LEMMA StepLoopWaited ==
  ASSUME ProcessInv, LoopWaited
  PROVE  ProcessInv'
<1>1. FrontInv'
  BY FrontWaited DEF ProcessInv
<1>2. UNCHANGED <<req, result, target, sessions, proc>> /\ pc' = pc /\ known' = known
      /\ loop' = [loop EXCEPT !.step = "kill"]
  BY DEF LoopWaited, clientVars, handlerVars, procVars
<1>3. loop'.conn = loop.conn
  BY <1>2 DEF ProcessInv, FrontInv, FrontTypes
<1>4. BackInv'
  BY <1>2, <1>3, BackAlone DEF Closed
<1> QED BY <1>1, <1>4 DEF ProcessInv

LEMMA StepDrain ==
  ASSUME ProcessInv, NEW k \in Keys, Drain(k)
  PROVE  ProcessInv'
<1> USE DEF ProcessInv
<1>1. CASE DrainEnd(k)
  <2>1. FrontInv'
    BY <1>1, FrontEnd
  <2>2. UNCHANGED <<req, result, target, sessions, proc>> /\ pc' = pc /\ known' = known
        /\ loop' = loop
    BY <1>1 DEF DrainEnd, clientVars, loopVars, handlerVars, procVars
  <2>3. BackInv'
    BY <2>2, BackAlone DEF Closed
  <2> QED BY <2>1, <2>3
<1>2. CASE DrainPop(k)
  <2>1. FrontInv'
    BY <1>2, FrontPop
  <2>2. /\ UNCHANGED <<req, result, target, sessions, proc>> /\ known' = known /\ loop' = loop
        /\ pc' = [pc EXCEPT ![Head(queue[k])] = "popped"] /\ queue[k] # Absent /\ queue[k] # <<>>
    BY <1>2 DEF DrainPop, clientVars, loopVars, procVars
  <2>3. queue[k] \in Seq(Requests)
    BY <2>2 DEF FrontInv, FrontTypes
  <2>4. Head(queue[k]) = queue[k][1] /\ Head(queue[k]) \in Requests /\ 1 \in DOMAIN queue[k]
    BY <2>2, <2>3, Shortened
  <2>5. PICK r \in Requests : r = Head(queue[k])
    BY <2>4
  <2>6. pc[r] = "queued"
    BY <2>2, <2>4, <2>5 DEF FrontInv, QueueInv, Holds
  <2>7. pc'[r] = "popped" /\ \A s \in Requests : s # r => pc'[s] = pc[s]
    BY <2>2, <2>5 DEF FrontInv, FrontTypes
  <2>8. \A c \in Connections : Closed(c)' <=> Closed(c)
    BY <2>2 DEF Closed
  <2>9. BackInv'
    BY <2>2, <2>6, <2>7, <2>8, BackAlone
  <2> QED BY <2>1, <2>9
<1> QED BY <1>1, <1>2 DEF Drain

-----------------------------------------------------------------------------
(* The theorems.                                                            *)

LEMMA InitProcess == Init => ProcessInv
<1> SUFFICES ASSUME Init PROVE ProcessInv
  OBVIOUS
<1>1. /\ connected = Connections /\ known = Connections /\ accepting = Connections
      /\ sent = 0 /\ inbox = <<>> /\ loop = [step |-> "idle", conn |-> None]
      /\ req = [r \in Requests |-> NoRequest] /\ queue = [k \in Keys |-> Absent]
      /\ idle = [k \in Keys |-> 0] /\ pc = [r \in Requests |-> "unsent"]
      /\ result = [r \in Requests |-> "none"] /\ target = [r \in Requests |-> None]
      /\ sessions = [k \in Keys |-> None] /\ proc = [r \in Requests |-> NoProc]
  BY DEF Init
<1>2. FrontTypes
  <2>1. NoRequest \in Reqs
    BY DEF NoRequest, Reqs, Ops
  <2>2. inbox \in Seq(Events) /\ sent \in 0..MaxRequests
    BY <1>1, Numbers
  <2>3. idle \in [Keys -> 0..1]
    BY <1>1
  <2> QED BY <1>1, <2>1, <2>2, <2>3 DEF FrontTypes, Steps
<1>3. NoProc \in Procs /\ NoProc.child = "none" /\ NoProc.task = "none" /\ NoProc.chan = <<>>
      /\ NoProc.asker = None
  <2>1. 0 \in 0..StdinCapacity /\ <<>> \in Seq(Controls)
    BY Numbers
  <2> QED BY <2>1 DEF NoProc, Procs, TaskSteps
<1>4. \A r \in Requests : proc[r] = NoProc /\ pc[r] = "unsent"
  BY <1>1
<1>5. BackTypes
  BY <1>1, <1>3 DEF BackTypes, Results
<1>6. SentInv /\ LoopInv
  BY <1>1, <1>4, Numbers DEF SentInv, LoopInv
<1>7. InboxInv
  <2>1. DOMAIN inbox = {}
    BY <1>1
  <2> QED BY <2>1, <1>4 DEF InboxInv
<1>8. OrderInv
  <2>1. \A s \in Requests : ~(s <= sent)
    BY <1>1, Numbers
  <2> QED BY <2>1 DEF OrderInv
<1>9. QueueInv
  <2>1. \A k \in Keys : queue[k] = Absent /\ idle[k] = 0
    BY <1>1
  <2> QED BY <2>1, <1>4 DEF QueueInv, Holds, InOrder, Active, InFlight
<1>10. GateInv
  BY <1>4 DEF GateInv, InFlight
<1>11. AwaitInv
  <2>1. \A p \in Requests : DOMAIN proc[p].chan = {} /\ proc[p].asker = None
    BY <1>3, <1>4
  <2> QED BY <2>1, <1>4 DEF AwaitInv
<1>12. TaskInv /\ SessionInv /\ KillInv
  BY <1>3, <1>4 DEF TaskInv, SessionInv, KillInv, HoldsHandle
<1> QED BY <1>2, <1>5, <1>6, <1>7, <1>8, <1>9, <1>10, <1>11, <1>12
       DEF ProcessInv, FrontInv, BackInv

LEMMA NextProcess == ProcessInv /\ [Next]_vars => ProcessInv'
<1> SUFFICES ASSUME ProcessInv, [Next]_vars PROVE ProcessInv'
  OBVIOUS
<1>1. ASSUME NEW c \in Connections, NEW h \in Handles, NEW op \in Ops, Send(c, h, op)
      PROVE  ProcessInv'
  BY <1>1, StepSend
<1>2. ASSUME NEW c \in Connections, Disconnect(c) PROVE ProcessInv'
  BY <1>2, StepDisconnect
<1>3. CASE Loop
  BY <1>3, StepLoopRequest, StepLoopClose, StepLoopWaited, StepLoopKill DEF Loop
<1>4. ASSUME NEW k \in Keys, Drain(k) PROVE ProcessInv'
  BY <1>4, StepDrain
<1>5. ASSUME NEW r \in Requests, Handler(r) PROVE ProcessInv'
  BY <1>5, StepGateRun, StepSpawnRegister, StepSpawnSucceeds, StepSpawnFails,
     StepControlLookup, StepControlSend, StepControlReply DEF Handler
<1>6. ASSUME NEW r \in Requests, Task(r) PROVE ProcessInv'
  BY <1>6, StepTaskKill, StepTaskWrite, StepTaskWritten, StepTaskExit, StepTaskNotify,
     StepTaskRemove DEF Task
<1>7. ASSUME NEW r \in Requests, TaskExpires(r) PROVE ProcessInv'
  BY <1>7, StepTaskExpires
<1>8. ASSUME NEW p \in Requests, ChildReads(p) \/ ChildExits(p) PROVE ProcessInv'
  BY <1>8, StepChildReads, StepChildExits
<1>9. CASE UNCHANGED vars
  <2>1. /\ UNCHANGED <<connected, sent, req, inbox, loop, known, accepting, queue, idle>>
        /\ UNCHANGED <<pc, result, target>> /\ sessions' = sessions /\ proc' = proc
    BY <1>9 DEF vars, clientVars, loopVars, queueVars, handlerVars, procVars
  <2>2. FrontInv'
    <3>1. pc' \in [Requests -> Steps]
      BY <2>1 DEF ProcessInv, FrontInv, FrontTypes
    <3> QED BY <2>1, <3>1, FrontMoves DEF ProcessInv
  <2>3. \A c \in Connections : Closed(c)' <=> Closed(c)
    BY <2>1 DEF Closed
  <2>4. BackInv'
    BY <2>1, <2>3, BackAlone
  <2> QED BY <2>2, <2>4 DEF ProcessInv
<1>10. CASE Next
  BY <1>10, <1>1, <1>2, <1>3, <1>4, <1>5, <1>6, <1>7, <1>8 DEF Next
<1> QED BY <1>9, <1>10

\* The inductive invariant: numbers and the wire give every queue its order, the drain task of a
\* key is one, and handles, tasks and connections agree on who looks after a process.
THEOREM ProcessInvariance == Spec => []ProcessInv
BY InitProcess, NextProcess, PTL DEF Spec

\* Every variable stays in its type; in particular a key never has two idle drain tasks, and the
\* writer channel of a process never holds more than its capacity.
THEOREM ProcessTypes == Spec => []TypeOK
<1>1. ProcessInv => TypeOK
  BY TypesAre DEF ProcessInv, FrontInv, BackInv
<1> QED BY <1>1, ProcessInvariance, PTL

\* RequestSerializationQueues: of the requests of a key one is handled at a time, in the order
\* they were sent, also across a drain task that ends while the next request is queued.
THEOREM RequestsInOrder == Spec => []OneAtATime
<1>1. ProcessInv => OneAtATime
  <2> SUFFICES ASSUME ProcessInv, NEW r \in Requests, pc[r] \in InFlight \cup {"popped"},
                      NEW s \in (r + 1)..sent, Key(s) = Key(r)
               PROVE  pc[s] \in {"wire", "queued"}
    BY DEF OneAtATime
  <2>1. sent \in Nat /\ sent <= MaxRequests /\ r \in Nat /\ MaxRequests \in Nat /\ r >= 1
    BY FrontFields, Numbers DEF ProcessInv, FrontInv
  <2>2. s \in Requests /\ r < s /\ s <= sent
    BY <2>1 DEF Requests
  <2>3. pc[r] \in Active \cup {"queued"}
    BY DEF Active
  <2> QED BY <2>2, <2>3 DEF ProcessInv, FrontInv, OrderInv
<1> QED BY <1>1, ProcessInvariance, PTL

\* ProcessExecManager: the handle of a process that runs leads to it as long as its connection
\* is open, however handles are reused and spawns fail.
THEOREM RunningReachable == Spec => []RunningIsReachable
<1>1. ProcessInv => RunningIsReachable
  BY DEF ProcessInv, BackInv, RunningIsReachable, TaskInv, SessionInv, HoldsHandle
<1> QED BY <1>1, ProcessInvariance, PTL

\* connection_closed, after the gate was shut and its handlers waited for, leaves no handler of
\* the connection and no process that is not on its way to be killed.
THEOREM ClosedIsEmpty == Spec => []ClosedLeavesNothing
<1>1. ProcessInv => ClosedLeavesNothing
  <2> SUFFICES ASSUME ProcessInv, NEW r \in Requests, Closed(req[r].conn)
               PROVE  /\ pc[r] \notin InFlight
                      /\ proc[r].child = "running" => Dying(r)
    BY DEF ClosedLeavesNothing, Dying
  <2> QED BY RunsOpen DEF ProcessInv, BackInv, KillInv
<1> QED BY <1>1, ProcessInvariance, PTL

=============================================================================

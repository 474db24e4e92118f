----------------------- MODULE ThreadListenersProofs -----------------------
(***************************************************************************)
(* What ThreadListeners promises for any number of connections, requests,  *)
(* entries and listeners.                                                  *)
(***************************************************************************)
EXTENDS ThreadListeners, TLAPS

Places == {"idle", "resume", "find", "state", "load", "ensure", "subscribe", "watch",
           "listen", "revoke", "respond", "sender", "send", "unsubscribe", "archive", "shut", "unarchive",
           "final", "remove", "clear", "gone"}
Operations == {"none", "resume", "cold", "unsubscribe", "archive", "unarchive", "close"}

\* What a handler keeps between its steps.
Handlers == [pc : Places, op : Operations, conn : Conns \cup {None}, inst : 0..MaxMade,
             entry : 0..MaxMade, watch : 0..MaxMade, lis : 0..MaxMade]

\* What the steps of a request have found before they use it.
Ready(r) ==
  /\ r.pc # "idle" => r.conn \in Conns
  /\ r.pc \in {"watch", "listen", "sender", "send"} => r.entry \in Ids
  /\ r.pc \in {"state", "subscribe", "watch", "listen"} => r.inst # None
  /\ r.pc = "listen" => r.watch \in Ids
  /\ r.pc = "send" => r.lis \in Ids

HandlerInv == proc \in [Procs -> Handlers] /\ Ready(proc["request"])

\* The types, by the part of the state they are about.
EntryInv ==
  /\ live \subseteq Conns /\ subs \subseteq Conns /\ entries \in 0..MaxMade
  /\ entry \in 0..entries /\ (entry = None => subs = {})
  /\ had \in [Ids -> BOOLEAN]
  /\ SubscribersAreLive
CoreTypes == mgr \in 0..loads /\ loads \in 0..MaxMade /\ up \subseteq 1..loads
UnloadTypes == pend \in BOOLEAN /\ stop \in [Ids -> {"none", "wait", "unpend", "done"}]
ClientTypes ==
  /\ calls \in 0..MaxCalls /\ archived \in BOOLEAN
  /\ asked \subseteq Conns /\ resumed \subseteq Conns

Slots == [lis : 0..MaxMade, gen : 0..MaxMade, inst : 0..MaxMade]
Listeners == [pc : {"none", "run", "unload", "remove", "clear", "exit", "done"},
       entry : 0..MaxMade, gen : 0..MaxMade, inst : 0..MaxMade, watch : 0..MaxMade,
       chan : Seq(Conns), cancelled : BOOLEAN, seen : BOOLEAN, elapsed : BOOLEAN,
       gone : 0..MaxMade]
ListenerTypes ==
  made \in 0..MaxMade /\ slot \in [Ids -> Slots] /\ lis \in [Ids -> Listeners]

\* A state names a CodexThread exactly when it has a listener.
SlotInv == \A e \in Ids : slot[e].lis = None <=> slot[e].inst = None

\* A listener, its entry, and the generation that entry gave it.
Made(l) == lis[l].pc # "none"
GenerationInv ==
  /\ \A l \in Ids : Made(l) <=> l <= made
  /\ \A l \in Ids : Made(l) => /\ lis[l].entry \in Ids /\ lis[l].watch \in Ids
                               /\ lis[l].gen <= slot[lis[l].entry].gen
  /\ \A k, l \in Ids : /\ Made(k) /\ Made(l)
                       /\ lis[k].entry = lis[l].entry /\ lis[k].gen = lis[l].gen
                       => k = l
  /\ \A e \in Ids : slot[e].gen <= made
  /\ \A e \in Ids : slot[e].lis # None =>
       /\ slot[e].lis <= made
       /\ lis[slot[e].lis].entry = e /\ lis[slot[e].lis].gen = slot[e].gen

\* A listener in its loop, or about to claim an unload: it may go back to the loop.
InLoop(l) == lis[l].pc \in {"run", "unload"} /\ ~lis[l].cancelled

\* It is the registered one.
RegisteredInv == \A l \in Ids : InLoop(l) => slot[lis[l].entry].lis = l

ListenerInv == ListenerTypes /\ SlotInv /\ GenerationInv /\ RegisteredInv

\* The inductive invariant.
ThreadInv == EntryInv /\ CoreTypes /\ UnloadTypes /\ ClientTypes /\ HandlerInv /\ ListenerInv

\* The parts of the invariant that a step leaves alone.
LEMMA Frames ==
  /\ EntryInv /\ UNCHANGED <<live, entryVars>> => EntryInv'
  /\ CoreTypes /\ UNCHANGED coreVars => CoreTypes'
  /\ UnloadTypes /\ UNCHANGED <<pend, stop>> => UnloadTypes'
  /\ ClientTypes /\ UNCHANGED <<calls, archived, clientVars>> => ClientTypes'
  /\ HandlerInv /\ UNCHANGED proc => HandlerInv'
  /\ ListenerInv /\ UNCHANGED lisVars => ListenerInv'
<1>1. EntryInv /\ UNCHANGED <<live, entryVars>> => EntryInv'
  BY DEF EntryInv, entryVars, SubscribersAreLive
<1>2. CoreTypes /\ UNCHANGED coreVars => CoreTypes'
  BY DEF CoreTypes, coreVars
<1>3. UnloadTypes /\ UNCHANGED <<pend, stop>> => UnloadTypes'
  BY DEF UnloadTypes
<1>4. ClientTypes /\ UNCHANGED <<calls, archived, clientVars>> => ClientTypes'
  BY DEF ClientTypes, clientVars
<1>5. HandlerInv /\ UNCHANGED proc => HandlerInv'
  BY DEF HandlerInv
<1>6. ListenerInv /\ UNCHANGED lisVars => ListenerInv'
  BY DEF ListenerInv, ListenerTypes, SlotInv, GenerationInv, RegisteredInv, lisVars, Made, InLoop
<1> QED BY <1>1, <1>2, <1>3, <1>4, <1>5, <1>6

\* Nothing is a number of an entry, a CodexThread or a listener as well.
LEMMA NoneIsTyped == None \in 0..MaxMade
BY ConstantsAssumption DEF None

-----------------------------------------------------------------------------
(* The building blocks of the actions.                                      *)

\* A step of a handler.
LEMMA StepHandler ==
  ASSUME HandlerInv, NEW p \in Procs, NEW r \in Handlers, Step(p, r), p = "request" => Ready(r)
  PROVE  HandlerInv'
BY DEF HandlerInv, Step, Procs

\* A handler that is done.
LEMMA IdleHandler == Idle \in Handlers /\ Ready(Idle)
<1> USE ConstantsAssumption DEF None
<1>1. Idle \in Handlers
  BY DEF Idle, Handlers, Places, Operations
<1> QED BY <1>1 DEF Idle, Ready

\* Answers and subscriptions.
LEMMA AnsweredTypes ==
  ASSUME ClientTypes, UNCHANGED <<calls, archived>>, NEW c \in Conns, NEW ok \in BOOLEAN,
         Answered(c, ok)
  PROVE  ClientTypes'
BY DEF ClientTypes, Answered

LEMMA SubscribeTypes ==
  ASSUME EntryInv, UNCHANGED live, NEW cs \in SUBSET live, Subscribe(cs)
  PROVE  EntryInv' /\ entry' \in Ids
<1> USE ConstantsAssumption DEF None
<1>1. entries' \in 0..MaxMade /\ entry' \in 1..entries' /\ entry' \in Ids
  BY DEF EntryInv, Subscribe, Ids
<1>2. had' \in [Ids -> BOOLEAN]
  BY <1>1 DEF EntryInv, Subscribe
<1>3. subs' \subseteq Conns /\ subs' \subseteq live'
  BY DEF EntryInv, Subscribe, SubscribersAreLive
<1> QED BY <1>1, <1>2, <1>3 DEF EntryInv, SubscribersAreLive

LEMMA UnsubscribeTypes ==
  ASSUME EntryInv, NEW c \in Conns, live' \in {live, live \ {c}}, Unsubscribe(c)
  PROVE  EntryInv'
<1>1. had' \in [Ids -> BOOLEAN]
  BY DEF EntryInv, Unsubscribe
<1>2. subs' \subseteq Conns /\ live' \subseteq Conns /\ subs' \subseteq live'
  BY DEF EntryInv, Unsubscribe, SubscribersAreLive
<1> QED BY <1>1, <1>2 DEF EntryInv, Unsubscribe, SubscribersAreLive

LEMMA RemoveTypes ==
  ASSUME EntryInv, UNCHANGED live, RemoveEntry
  PROVE  EntryInv'
BY ConstantsAssumption DEF EntryInv, RemoveEntry, SubscribersAreLive, None

\* A step that moves listeners, cancels them or clears slots, but registers none.
LEMMA ListenersKept ==
  ASSUME ListenerInv, made' = made, slot' \in [Ids -> Slots], lis' \in [Ids -> Listeners],
         SlotInv',
         \A l \in Ids : /\ lis'[l].entry = lis[l].entry /\ lis'[l].gen = lis[l].gen
                        /\ lis'[l].watch = lis[l].watch
                        /\ lis'[l].pc = "none" <=> lis[l].pc = "none",
         \A e \in Ids : slot'[e].gen = slot[e].gen /\ slot'[e].lis \in {None, slot[e].lis},
         \A l \in Ids : InLoop(l)' =>
           InLoop(l) /\ slot'[lis[l].entry].lis = slot[lis[l].entry].lis
  PROVE  ListenerInv'
<1> USE DEF ListenerInv, Made
<1>1. ListenerTypes'
  BY DEF ListenerTypes
<1>2. \A l \in Ids : Made(l)' <=> Made(l)
  OBVIOUS
<1>3. \A e \in Ids : slot[e].lis \in 0..MaxMade /\ (slot[e].lis # None => slot[e].lis \in Ids)
  BY DEF ListenerTypes, Slots, Ids, None
<1>4. \A e \in Ids : slot'[e].lis # None => slot'[e].lis = slot[e].lis /\ slot[e].lis \in Ids
  BY <1>3
<1>5. \A e \in Ids : slot'[e].lis # None =>
       /\ slot'[e].lis <= made'
       /\ lis'[slot'[e].lis].entry = e /\ lis'[slot'[e].lis].gen = slot'[e].gen
  BY <1>4 DEF GenerationInv
<1>6. GenerationInv'
  BY <1>2, <1>5 DEF GenerationInv
<1>7. RegisteredInv'
  BY DEF RegisteredInv
<1> QED BY <1>1, <1>6, <1>7

\* A step of one listener: it keeps its entry, generation and watcher, and enters the loop
\* only from the loop.
LEMMA ListenerMoves ==
  ASSUME ListenerInv, UNCHANGED <<slot, made>>, NEW l \in Ids, NEW r \in Listeners,
         lis' = [lis EXCEPT ![l] = r], r.pc = "none" <=> lis[l].pc = "none",
         r.entry = lis[l].entry, r.gen = lis[l].gen, r.watch = lis[l].watch,
         r.pc \in {"run", "unload"} /\ ~r.cancelled => InLoop(l)
  PROVE  ListenerInv'
<1> USE DEF ListenerInv, ListenerTypes
<1>1. lis' \in [Ids -> Listeners] /\ slot' \in [Ids -> Slots]
  OBVIOUS
<1>2. lis'[l] = r /\ \A k \in Ids : k # l => lis'[k] = lis[k]
  OBVIOUS
<1>3. \A k \in Ids : InLoop(k)' => InLoop(k)
  BY <1>2 DEF InLoop
<1>4. SlotInv'
  BY DEF SlotInv
<1> QED BY <1>1, <1>2, <1>3, <1>4, ListenersKept

\* clear_listener cancels the listener it unregisters and leaves all else of it alone ...
LEMMA CancelTypes ==
  ASSUME ListenerInv, NEW e \in 0..MaxMade
  PROVE  /\ CancelOf(e) \in [Ids -> Listeners]
         /\ \A k \in Ids : /\ CancelOf(e)[k].entry = lis[k].entry
                           /\ CancelOf(e)[k].gen = lis[k].gen
                           /\ CancelOf(e)[k].watch = lis[k].watch
                           /\ CancelOf(e)[k].pc = lis[k].pc
                           /\ CancelOf(e)[k].gone = lis[k].gone
                           /\ CancelOf(e)[k].cancelled <=>
                                lis[k].cancelled \/ (e # None /\ k = slot[e].lis)
<1> DEFINE hit(k) == e # None /\ k = slot[e].lis
           c(k) == IF hit(k) THEN [lis[k] EXCEPT !.cancelled = TRUE] ELSE lis[k]
<1>1. CancelOf(e) = [k \in Ids |-> c(k)]
  BY DEF CancelOf
<1>2. ASSUME NEW k \in Ids
      PROVE  /\ c(k) \in Listeners /\ c(k).entry = lis[k].entry /\ c(k).gen = lis[k].gen
             /\ c(k).watch = lis[k].watch /\ c(k).pc = lis[k].pc /\ c(k).gone = lis[k].gone
             /\ c(k).cancelled <=> lis[k].cancelled \/ hit(k)
  <2>1. lis[k] \in Listeners
    BY DEF ListenerInv, ListenerTypes
  <2>2. [lis[k] EXCEPT !.cancelled = TRUE] \in Listeners
    BY <2>1, Zenon DEF Listeners
  <2>3. c(k) \in Listeners
    BY <2>1, <2>2
  <2>4. CASE hit(k)
    <3>1. c(k) = [lis[k] EXCEPT !.cancelled = TRUE]
      BY <2>4
    <3> HIDE DEF c
    <3>2. c(k).cancelled = TRUE
      BY <2>1, <3>1 DEF Listeners
    <3>3. /\ c(k).entry = lis[k].entry /\ c(k).gen = lis[k].gen
          /\ c(k).watch = lis[k].watch /\ c(k).pc = lis[k].pc /\ c(k).gone = lis[k].gone
      BY <2>1, <3>1 DEF Listeners
    <3> QED BY <2>3, <2>4, <3>2, <3>3
  <2>5. CASE ~hit(k)
    BY <2>1, <2>5
  <2> QED BY <2>4, <2>5
<1> HIDE DEF c
<1>3. CancelOf(e) \in [Ids -> Listeners]
  BY <1>1, <1>2
<1> QED BY <1>1, <1>2, <1>3

\* ... and empties the slot.
LEMMA SlotCleared ==
  ASSUME ListenerInv, NEW e \in 0..MaxMade, slot' = Cleared(e)
  PROVE  /\ slot' \in [Ids -> Slots] /\ SlotInv'
         /\ \A d \in Ids : /\ slot'[d].gen = slot[d].gen
                           /\ slot'[d].lis = IF d = e THEN None ELSE slot[d].lis
<1>1. CASE e = None
  <2>1. slot' = slot /\ \A d \in Ids : d # e
    BY <1>1 DEF Cleared, None, Ids
  <2> QED BY <2>1 DEF ListenerInv, ListenerTypes, SlotInv
<1>2. CASE e # None
  <2>1. e \in Ids /\ slot[e] \in Slots
    BY <1>2, ConstantsAssumption DEF ListenerInv, ListenerTypes, Ids, None
  <2>2. [slot[e] EXCEPT !.lis = None, !.inst = None] \in Slots
    BY <2>1, NoneIsTyped, Zenon DEF Slots
  <2>3. slot' = [slot EXCEPT ![e] = [slot[e] EXCEPT !.lis = None, !.inst = None]]
    BY <1>2 DEF ListenerInv, ListenerTypes, Cleared
  <2>4. slot' \in [Ids -> Slots]
    BY <2>2, <2>3 DEF ListenerInv, ListenerTypes
  <2>5. \A d \in Ids : /\ slot'[d].gen = slot[d].gen
                       /\ slot'[d].lis = IF d = e THEN None ELSE slot[d].lis
                       /\ slot'[d].inst = IF d = e THEN None ELSE slot[d].inst
    BY <2>1, <2>3 DEF ListenerInv, ListenerTypes, Slots
  <2>6. SlotInv'
    BY <2>5 DEF ListenerInv, SlotInv
  <2> QED BY <2>4, <2>5, <2>6
<1> QED BY <1>1, <1>2

\* A step that clears a slot: the listener registered there is not in its loop afterwards,
\* or is cancelled.
LEMMA ClearTypes ==
  ASSUME ListenerInv, UNCHANGED made, NEW e \in 0..MaxMade, slot' = Cleared(e),
         lis' \in [Ids -> Listeners],
         \A k \in Ids : /\ lis'[k].entry = lis[k].entry /\ lis'[k].gen = lis[k].gen
                        /\ lis'[k].watch = lis[k].watch
                        /\ lis'[k].pc = "none" <=> lis[k].pc = "none",
         \A k \in Ids : InLoop(k)' => InLoop(k) /\ ~(e # None /\ k = slot[e].lis)
  PROVE  ListenerInv'
<1>1. ASSUME NEW k \in Ids, InLoop(k)'
      PROVE  InLoop(k) /\ slot'[lis[k].entry].lis = slot[lis[k].entry].lis
  <2>1. InLoop(k) /\ ~(e # None /\ k = slot[e].lis)
    BY <1>1
  <2>2. slot[lis[k].entry].lis = k /\ lis[k].entry \in Ids
    BY <2>1 DEF ListenerInv, RegisteredInv, GenerationInv, InLoop, Made
  <2>3. lis[k].entry # None
    BY <2>2 DEF Ids, None
  <2>4. lis[k].entry # e
    BY <2>1, <2>2, <2>3
  <2> QED BY <2>1, <2>2, <2>4, SlotCleared
<1>2. \A d \in Ids : slot'[d].gen = slot[d].gen /\ slot'[d].lis \in {None, slot[d].lis}
  BY SlotCleared
<1>3. slot' \in [Ids -> Slots] /\ SlotInv'
  BY SlotCleared
<1> QED BY <1>1, <1>2, <1>3, ListenersKept

\* The request at work, and the connection it is for.
LEMMA RequestKnown ==
  ASSUME HandlerInv
  PROVE  /\ proc["request"] \in Handlers /\ proc["close"] \in Handlers
         /\ Ready(proc["request"])
         /\ proc["request"].pc # "idle" => Conn("request") \in Conns
BY DEF HandlerInv, Procs, Ready, Conn

\* A handler that goes on with what it knows.
LEMMA GotoHandler ==
  ASSUME HandlerInv, NEW p \in Procs, NEW pc \in Places, Goto(p, pc),
         p = "request" => Ready([proc[p] EXCEPT !.pc = pc])
  PROVE  HandlerInv'
<1>1. proc[p] \in Handlers
  BY DEF HandlerInv
<1>2. [proc[p] EXCEPT !.pc = pc] \in Handlers
  BY <1>1, Zenon DEF Handlers
<1> QED BY <1>2, StepHandler DEF Goto

\* It needs no more than the connection for most of the places.
LEMMA GotoPlain ==
  ASSUME HandlerInv, NEW p \in Procs, proc[p].pc # "idle",
         NEW pc \in Places \ {"state", "subscribe", "watch", "listen", "sender", "send"},
         Goto(p, pc)
  PROVE  HandlerInv'
<1>1. proc[p] \in Handlers /\ (p = "request" => proc[p].conn \in Conns)
  BY DEF HandlerInv, Ready
<1>2. ASSUME p = "request" PROVE Ready([proc[p] EXCEPT !.pc = pc])
  BY <1>1, <1>2 DEF Ready, Handlers
<1> QED BY <1>1, <1>2, GotoHandler

\* A handler that ends.
LEMMA StepIdle ==
  ASSUME HandlerInv, NEW p \in Procs, Step(p, Idle)
  PROVE  HandlerInv'
BY IdleHandler, StepHandler

-----------------------------------------------------------------------------
(* Requests.                                                                *)

\* A request begins.
LEMMA BeginTypes ==
  ASSUME HandlerInv, ClientTypes, NEW c \in Conns, NEW op \in Places \cap Operations,
         op \notin {"idle", "state", "subscribe", "watch", "listen", "sender", "send"},
         Begin(c, op)
  PROVE  HandlerInv' /\ calls' \in 0..MaxCalls
<1> DEFINE r == [Idle EXCEPT !.pc = op, !.op = op, !.conn = c]
<1>1. r \in Handlers
  BY IdleHandler, Zenon DEF Handlers
<1>2. r.pc = op /\ r.conn = c
  BY DEF Idle
<1>3. Ready(r)
  BY <1>2 DEF Ready
<1>4. HandlerInv'
  BY <1>1, <1>3, StepHandler DEF Begin, Procs
<1> QED BY <1>4, ConstantsAssumption DEF Begin, ClientTypes

LEMMA BeginInv ==
  ASSUME ThreadInv, NEW c \in Conns
  PROVE  /\ BeginResume(c) => ThreadInv'
         /\ \A op \in Allowed \ {"timeout"} : BeginOther(c, op) => ThreadInv'
<1> USE DEF ThreadInv
<1>1. ASSUME BeginResume(c) PROVE ThreadInv'
  <2>1. HandlerInv' /\ calls' \in 0..MaxCalls
    BY <1>1, BeginTypes DEF BeginResume, Places, Operations
  <2>2. ClientTypes'
    BY <1>1, <2>1 DEF BeginResume, ClientTypes
  <2>3. EntryInv' /\ CoreTypes' /\ UnloadTypes' /\ ListenerInv'
    BY <1>1, Frames DEF BeginResume
  <2> QED BY <2>1, <2>2, <2>3
<1>2. ASSUME NEW op \in Allowed \ {"timeout"}, BeginOther(c, op) PROVE ThreadInv'
  <2>1. op \in {"unsubscribe", "archive", "unarchive"}
    BY ConstantsAssumption DEF Allowances
  <2>2. HandlerInv' /\ calls' \in 0..MaxCalls
    BY <1>2, <2>1, BeginTypes DEF BeginOther, Places, Operations
  <2>3. ClientTypes'
    BY <1>2, <2>2 DEF BeginOther, ClientTypes, clientVars
  <2>4. EntryInv' /\ CoreTypes' /\ UnloadTypes' /\ ListenerInv'
    BY <1>2, Frames DEF BeginOther
  <2> QED BY <2>2, <2>3, <2>4
<1> QED BY <1>1, <1>2

\* thread/resume is refused, or looks for the thread.
LEMMA ResumeStartInv ==
  ASSUME ThreadInv, ResumeStart
  PROVE  ThreadInv'
<1> USE DEF ThreadInv
<1>1. HandlerInv'
  <2>1. proc["request"].pc = "resume"
    BY DEF ResumeStart, At
  <2>2. Step("request", Idle) \/ Goto("request", "find")
    BY DEF ResumeStart
  <2> QED BY <2>1, <2>2, StepIdle, GotoPlain DEF Procs, Places
<1>2. ClientTypes'
  <2>1. Conn("request") \in Conns
    BY RequestKnown DEF ResumeStart, At
  <2>2. Answered(Conn("request"), FALSE) \/ UNCHANGED clientVars
    BY DEF ResumeStart
  <2>3. UNCHANGED <<calls, archived>>
    BY DEF ResumeStart
  <2> QED BY <2>1, <2>2, <2>3, AnsweredTypes, Frames
<1>3. EntryInv' /\ CoreTypes' /\ UnloadTypes' /\ ListenerInv'
  BY Frames DEF ResumeStart
<1> QED BY <1>1, <1>2, <1>3

LEMMA ResumeFindInv ==
  ASSUME ThreadInv, ResumeFind
  PROVE  ThreadInv'
<1> USE DEF ThreadInv
<1>1. HandlerInv'
  <2>1. proc["request"].pc = "find" /\ proc["request"] \in Handlers /\ mgr \in 0..MaxMade
    BY RequestKnown, ConstantsAssumption DEF ResumeFind, At, CoreTypes
  <2>2. CASE Goto("request", "load")
    BY <2>1, <2>2, GotoPlain DEF Procs, Places
  <2>3. CASE mgr # None /\ Step("request", [proc["request"] EXCEPT !.pc = "state", !.inst = mgr])
    <3> DEFINE r == [proc["request"] EXCEPT !.pc = "state", !.inst = mgr]
    <3>1. "state" \in Places
      BY DEF Places
    <3>2. r \in Handlers
      BY <2>1, <3>1, Zenon DEF Handlers
    <3>3. r.pc = "state" /\ r.conn = proc["request"].conn /\ r.inst = mgr
      BY <2>1 DEF Handlers
    <3>4. Ready(r)
      BY <2>1, <2>3, <3>3, RequestKnown DEF Ready
    <3> QED BY <2>3, <3>2, <3>4, StepHandler DEF Procs
  <2> QED BY <2>2, <2>3 DEF ResumeFind
<1>2. EntryInv' /\ CoreTypes' /\ UnloadTypes' /\ ClientTypes' /\ ListenerInv'
  BY Frames DEF ResumeFind
<1> QED BY <1>1, <1>2

\* The steps that find the entry, its watcher and its listener.
LEMMA ResumeStateInv ==
  ASSUME ThreadInv, ResumeState
  PROVE  ThreadInv'
<1> USE DEF ThreadInv
<1>1. EntryInv'
  BY SubscribeTypes DEF ResumeState
<1>2. HandlerInv'
  <2> DEFINE r == [proc["request"] EXCEPT !.pc = "watch", !.entry = entry']
  <2>1. proc["request"].pc = "state" /\ proc["request"] \in Handlers
    BY RequestKnown DEF ResumeState, At
  <2>2. entry' \in Ids /\ entry' \in 0..MaxMade /\ "watch" \in Places
    BY SubscribeTypes DEF ResumeState, Places, Ids
  <2>3. r \in Handlers
    BY <2>1, <2>2, Zenon DEF Handlers
  <2>4. /\ r.pc = "watch" /\ r.conn = proc["request"].conn /\ r.entry = entry'
        /\ r.inst = proc["request"].inst
    BY <2>1 DEF Handlers
  <2>5. Ready(r)
    BY <2>1, <2>2, <2>4, RequestKnown DEF Ready
  <2> QED BY <2>3, <2>5, StepHandler DEF ResumeState, Procs
<1>3. CoreTypes' /\ UnloadTypes' /\ ClientTypes' /\ ListenerInv'
  BY Frames DEF ResumeState
<1> QED BY <1>1, <1>2, <1>3

LEMMA ResumeLoadInv ==
  ASSUME ThreadInv, ResumeLoad
  PROVE  ThreadInv'
<1> USE DEF ThreadInv
<1>1. CoreTypes'
  BY ConstantsAssumption DEF ResumeLoad, CoreTypes
<1>2. HandlerInv'
  <2> DEFINE r == [proc["request"] EXCEPT !.pc = "ensure", !.op = "cold"]
  <2>1. proc["request"].pc = "load" /\ proc["request"] \in Handlers
    BY RequestKnown DEF ResumeLoad, At
  <2>2. "ensure" \in Places /\ "cold" \in Operations
    BY DEF Places, Operations
  <2>3. r \in Handlers
    BY <2>1, <2>2, Zenon DEF Handlers
  <2>4. r.pc = "ensure" /\ r.conn = proc["request"].conn
    BY <2>1 DEF Handlers
  <2>5. Ready(r)
    BY <2>1, <2>4, RequestKnown DEF Ready
  <2> QED BY <2>3, <2>5, StepHandler DEF ResumeLoad, Procs
<1>3. EntryInv' /\ UnloadTypes' /\ ClientTypes' /\ ListenerInv'
  BY Frames DEF ResumeLoad
<1> QED BY <1>1, <1>2, <1>3

LEMMA EnsureGetInv ==
  ASSUME ThreadInv, EnsureGet
  PROVE  ThreadInv'
<1> USE DEF ThreadInv
<1>1. HandlerInv'
  <2> DEFINE r == [proc["request"] EXCEPT !.pc = "subscribe", !.inst = mgr]
  <2>1. proc["request"].pc = "ensure" /\ proc["request"] \in Handlers /\ mgr \in 0..MaxMade
    BY RequestKnown, ConstantsAssumption DEF EnsureGet, At, CoreTypes
  <2>2. CASE Goto("request", "respond")
    BY <2>1, <2>2, GotoPlain DEF Procs, Places
  <2>3. CASE mgr # None /\ Step("request", r)
    <3>1. "subscribe" \in Places
      BY DEF Places
    <3>2. r \in Handlers
      BY <2>1, <3>1, Zenon DEF Handlers
    <3>3. r.pc = "subscribe" /\ r.conn = proc["request"].conn /\ r.inst = mgr
      BY <2>1 DEF Handlers
    <3>4. Ready(r)
      BY <2>1, <2>3, <3>3, RequestKnown DEF Ready
    <3> QED BY <2>3, <3>2, <3>4, StepHandler DEF Procs
  <2> QED BY <2>2, <2>3 DEF EnsureGet
<1>2. EntryInv' /\ CoreTypes' /\ UnloadTypes' /\ ClientTypes' /\ ListenerInv'
  BY Frames DEF EnsureGet
<1> QED BY <1>1, <1>2

\* A subscription that is taken back.
LEMMA EnsureRevokeInv ==
  ASSUME ThreadInv, EnsureRevoke
  PROVE  ThreadInv'
<1> USE DEF ThreadInv
<1>1. proc["request"].pc = "revoke" /\ Conn("request") \in Conns
  BY RequestKnown DEF EnsureRevoke, At
<1>2. EntryInv'
  BY <1>1, UnsubscribeTypes DEF EnsureRevoke
<1>3. HandlerInv'
  BY <1>1, GotoPlain DEF EnsureRevoke, Procs, Places
<1>4. CoreTypes' /\ UnloadTypes' /\ ClientTypes' /\ ListenerInv'
  BY Frames DEF EnsureRevoke
<1> QED BY <1>2, <1>3, <1>4

LEMMA EnsureSubscribedInv ==
  ASSUME ThreadInv, EnsureSubscribed
  PROVE  ThreadInv'
<1> USE DEF ThreadInv
<1>1. EntryInv'
  <2>1. CASE UNCHANGED entryVars
    BY <2>1, Frames DEF EnsureSubscribed
  <2>2. CASE Subscribe({Conn("request")}) /\ MaySubscribe(Conn("request"))
    BY <2>2, SubscribeTypes DEF EnsureSubscribed, MaySubscribe
  <2> QED BY <2>1, <2>2 DEF EnsureSubscribed
<1>2. HandlerInv'
  <2> DEFINE r == [proc["request"] EXCEPT !.pc = "watch", !.entry = entry']
  <2>1. proc["request"].pc = "subscribe" /\ proc["request"] \in Handlers
    BY RequestKnown DEF EnsureSubscribed, At
  <2>2. CASE Goto("request", "respond")
    BY <2>1, <2>2, GotoPlain DEF Procs, Places
  <2>3. CASE Subscribe({Conn("request")}) /\ MaySubscribe(Conn("request")) /\ Step("request", r)
    <3>1. entry' \in Ids /\ entry' \in 0..MaxMade /\ "watch" \in Places
      BY <2>3, SubscribeTypes DEF EnsureSubscribed, MaySubscribe, Places, Ids
    <3>2. r \in Handlers
      BY <2>1, <3>1, Zenon DEF Handlers
    <3>3. /\ r.pc = "watch" /\ r.conn = proc["request"].conn /\ r.entry = entry'
          /\ r.inst = proc["request"].inst
      BY <2>1 DEF Handlers
    <3>4. Ready(r)
      BY <2>1, <3>1, <3>3, RequestKnown DEF Ready
    <3> QED BY <2>3, <3>2, <3>4, StepHandler DEF Procs
  <2> QED BY <2>2, <2>3 DEF EnsureSubscribed
<1>3. CoreTypes' /\ UnloadTypes' /\ ClientTypes' /\ ListenerInv'
  BY Frames DEF EnsureSubscribed
<1> QED BY <1>1, <1>2, <1>3

LEMMA EnsureWatchInv ==
  ASSUME ThreadInv, EnsureWatch
  PROVE  ThreadInv'
<1> USE DEF ThreadInv
<1>1. ClientTypes'
  <2>1. Conn("request") \in Conns
    BY RequestKnown DEF EnsureWatch, At
  <2>2. Answered(Conn("request"), FALSE) \/ UNCHANGED clientVars
    BY DEF EnsureWatch, EnsureFails
  <2>3. UNCHANGED <<calls, archived>>
    BY DEF EnsureWatch
  <2> QED BY <2>1, <2>2, <2>3, AnsweredTypes, Frames
<1>2. HandlerInv'
  <2> DEFINE r == [proc["request"] EXCEPT !.pc = "listen", !.watch = entry]
  <2>1. proc["request"].pc = "watch" /\ proc["request"] \in Handlers
    BY RequestKnown DEF EnsureWatch, At
  <2>2. CASE Goto("request", "revoke")
    BY <2>1, <2>2, GotoPlain DEF Procs, Places
  <2>3. CASE Step("request", Idle)
    BY <2>3, StepIdle DEF Procs
  <2>4. CASE entry # None /\ Step("request", r)
    <3>1. entry \in Ids /\ entry \in 0..MaxMade /\ "listen" \in Places
      BY <2>4, ConstantsAssumption DEF EntryInv, None, Places, Ids
    <3>2. r \in Handlers
      BY <2>1, <3>1, Zenon DEF Handlers
    <3>3. /\ r.pc = "listen" /\ r.conn = proc["request"].conn
          /\ r.entry = proc["request"].entry /\ r.watch = entry
          /\ r.inst = proc["request"].inst
      BY <2>1 DEF Handlers
    <3>4. Ready(r)
      BY <2>1, <3>1, <3>3, RequestKnown DEF Ready
    <3> QED BY <2>4, <3>2, <3>4, StepHandler DEF Procs
  <2> QED BY <2>2, <2>3, <2>4 DEF EnsureWatch, EnsureFails
<1>3. EntryInv' /\ CoreTypes' /\ UnloadTypes' /\ ListenerInv'
  BY Frames DEF EnsureWatch
<1> QED BY <1>1, <1>2, <1>3

\* A new listener: the entry's next generation, in the place of the old listener.
LEMMA SetListenerTypes ==
  ASSUME ListenerInv, EntryInv, made < MaxMade, made' = made + 1,
         NEW e \in Ids, NEW i \in Ids, NEW w \in Ids, SetListener(made', e, i, w)
  PROVE  ListenerInv'
<1> USE ConstantsAssumption DEF None
<1> DEFINE l == made'
           g == slot[e].gen + 1
           new == [NoListener EXCEPT !.pc = "run", !.entry = e, !.gen = g, !.inst = i,
                                     !.watch = w, !.seen = had[w]]
           old == slot[e].lis
<1>0. made \in 0..MaxMade /\ slot[e] \in Slots
  BY DEF ListenerInv, ListenerTypes
<1>1. /\ made \in Nat /\ made' = made + 1 /\ l \in Ids /\ ~Made(l)
      /\ slot[e].gen \in 0..made /\ old \in 0..made /\ old # l
  <2>1. l \in Ids /\ made \in Nat
    BY <1>0 DEF Ids
  <2>2. slot[e].gen \in 0..MaxMade /\ slot[e].lis \in 0..MaxMade
    BY <1>0 DEF Slots
  <2>3. slot[e].gen <= made /\ (slot[e].lis # None => slot[e].lis <= made)
    BY DEF ListenerInv, GenerationInv
  <2>4. ~Made(l)
    BY <2>1 DEF ListenerInv, GenerationInv, Ids
  <2> QED BY <2>1, <2>2, <2>3, <2>4
<1>2. /\ new.pc = "run" /\ new.entry = e /\ new.gen = g /\ new.watch = w
      /\ new.cancelled = FALSE
  BY DEF NoListener
<1>3. new \in Listeners
  <2>1. NoListener \in Listeners
    BY DEF NoListener, Listeners
  <2>2. /\ g \in 0..MaxMade /\ e \in 0..MaxMade /\ w \in 0..MaxMade /\ i \in 0..MaxMade
        /\ had[w] \in BOOLEAN
    <3>1. g \in 0..MaxMade
      BY <1>0, <1>1
    <3>2. e \in 0..MaxMade /\ w \in 0..MaxMade /\ i \in 0..MaxMade
      BY DEF Ids
    <3>3. had[w] \in BOOLEAN
      BY DEF EntryInv
    <3> QED BY <3>1, <3>2, <3>3
  <2> QED BY <2>1, <2>2, Zenon DEF Listeners
<1>4. slot' = [slot EXCEPT ![e] = [lis |-> l, gen |-> g, inst |-> i]]
  BY DEF SetListener
<1>5. slot' \in [Ids -> Slots]
  <2>1. l \in 0..MaxMade /\ g \in 0..MaxMade
    BY <1>0, <1>1 DEF Ids
  <2>2. [lis |-> l, gen |-> g, inst |-> i] \in Slots
    BY <2>1 DEF Slots, Ids
  <2> QED BY <2>2, <1>4 DEF ListenerInv, ListenerTypes
<1>6. \A d \in Ids : d # e => slot'[d] = slot[d]
  BY <1>4 DEF ListenerInv, ListenerTypes
<1>7. slot'[e].lis = l /\ slot'[e].gen = g /\ slot'[e].inst = i
  BY <1>4 DEF ListenerInv, ListenerTypes
<1>8. lis'[l] = new /\ \A k \in Ids : k # l /\ k # old => lis'[k] = lis[k]
  BY <1>1 DEF SetListener
<1>9. old # None => lis'[old] = [lis[old] EXCEPT !.cancelled = TRUE] /\ lis[old] \in Listeners
  BY <1>1 DEF SetListener, ListenerInv, ListenerTypes, Ids
<1>10. old # None => /\ lis'[old] \in Listeners /\ lis'[old].cancelled = TRUE
                     /\ lis'[old].pc = lis[old].pc /\ lis'[old].entry = lis[old].entry
                     /\ lis'[old].gen = lis[old].gen /\ lis'[old].watch = lis[old].watch
  <2> SUFFICES ASSUME old # None
               PROVE  /\ lis'[old] \in Listeners /\ lis'[old].cancelled = TRUE
                      /\ lis'[old].pc = lis[old].pc /\ lis'[old].entry = lis[old].entry
                      /\ lis'[old].gen = lis[old].gen /\ lis'[old].watch = lis[old].watch
    OBVIOUS
  <2>1. lis'[old] \in Listeners
    BY <1>9, Zenon DEF Listeners
  <2> QED BY <1>9, <2>1 DEF Listeners
<1>11. lis' \in [Ids -> Listeners]
  <2>1. \A k \in Ids : lis'[k] \in Listeners
    BY <1>3, <1>8, <1>10 DEF ListenerInv, ListenerTypes, Ids
  <2>2. lis' = [k \in Ids |-> lis'[k]]
    BY DEF SetListener
  <2> QED BY <2>1, <2>2
<1>12. ListenerTypes'
  BY <1>0, <1>1, <1>5, <1>11 DEF ListenerTypes, Ids
<1>13. \A k \in Ids : k # l => /\ lis'[k].entry = lis[k].entry /\ lis'[k].gen = lis[k].gen
                               /\ lis'[k].watch = lis[k].watch /\ lis'[k].pc = lis[k].pc
  BY <1>8, <1>10, <1>1 DEF Ids
<1>14. \A k \in Ids : (Made(k)' <=> k = l \/ Made(k)) /\ (Made(k)' <=> k <= l)
  <2>1. \A k \in Ids : Made(k)' <=> k = l \/ Made(k)
    BY <1>2, <1>8, <1>13 DEF Made
  <2>2. \A k \in Ids : Made(k) <=> k <= made
    BY DEF ListenerInv, GenerationInv
  <2> QED BY <2>1, <2>2, <1>1 DEF Ids
<1>15. \A k \in Ids : Made(k)' => /\ lis'[k].entry \in Ids /\ lis'[k].watch \in Ids
                                  /\ lis'[k].gen <= slot'[lis'[k].entry].gen
  <2> SUFFICES ASSUME NEW k \in Ids, Made(k)'
               PROVE  /\ lis'[k].entry \in Ids /\ lis'[k].watch \in Ids
                      /\ lis'[k].gen <= slot'[lis'[k].entry].gen
    OBVIOUS
  <2>1. CASE k = l
    BY <2>1, <1>1, <1>2, <1>7, <1>8
  <2>2. CASE k # l
    <3>1. /\ lis[k].entry \in Ids /\ lis[k].watch \in Ids
          /\ lis[k].gen <= slot[lis[k].entry].gen /\ lis[k].gen \in Nat
      BY <2>2, <1>14 DEF ListenerInv, GenerationInv, ListenerTypes, Listeners
    <3>3. lis[k].entry = e => slot[lis[k].entry].gen <= slot'[lis[k].entry].gen
      BY <1>1, <1>7
    <3>4. slot[lis[k].entry].gen \in Nat /\ slot'[lis[k].entry].gen \in Nat
      BY <3>1, <1>5 DEF ListenerInv, ListenerTypes, Slots
    <3>5. lis[k].gen <= slot'[lis[k].entry].gen
      BY <3>1, <3>3, <3>4, <1>6
    <3> QED BY <2>2, <3>1, <3>5, <1>13
  <2> QED BY <2>1, <2>2
<1>16. ASSUME NEW j \in Ids, NEW k \in Ids, Made(j)', Made(k)',
              lis'[j].entry = lis'[k].entry, lis'[j].gen = lis'[k].gen
       PROVE  j = k
  <2>1. ASSUME NEW m \in Ids, m # l, Made(m)', lis'[m].entry = e
        PROVE  lis'[m].gen # g
    <3>1. Made(m) /\ lis[m].entry = e /\ lis'[m].gen = lis[m].gen
      BY <2>1, <1>13, <1>14
    <3>2. lis[m].gen <= slot[e].gen
      BY <3>1 DEF ListenerInv, GenerationInv
    <3>3. lis[m].gen \in Nat
      BY DEF ListenerInv, ListenerTypes, Listeners
    <3> QED BY <1>1, <3>1, <3>2, <3>3
  <2>2. CASE j # l /\ k # l
    BY <2>2, <1>13, <1>14, <1>16 DEF ListenerInv, GenerationInv
  <2>3. CASE j = l \/ k = l
    <3>1. lis'[l].entry = e /\ lis'[l].gen = g
      BY <1>2, <1>8
    <3> QED BY <2>1, <2>3, <3>1, <1>16
  <2> QED BY <2>2, <2>3
<1>17. ASSUME NEW d \in Ids, slot'[d].lis # None
       PROVE  /\ slot'[d].lis <= made' /\ lis'[slot'[d].lis].entry = d
              /\ lis'[slot'[d].lis].gen = slot'[d].gen
  <2>1. CASE d = e
    BY <2>1, <1>1, <1>2, <1>7, <1>8
  <2>2. CASE d # e
    <3>1. slot[d].lis \in Ids /\ slot[d].lis <= made
      <4>1. slot[d].lis # None
        BY <2>2, <1>6, <1>17
      <4>2. slot[d] \in Slots
        BY DEF ListenerInv, ListenerTypes
      <4>3. slot[d].lis \in Ids
        BY <4>1, <4>2 DEF Slots, Ids
      <4> QED BY <4>1, <4>3 DEF ListenerInv, GenerationInv
    <3>2. slot[d].lis # l /\ slot[d].lis <= made'
      BY <3>1, <1>1 DEF Ids
    <3>3. lis[slot[d].lis].entry = d /\ lis[slot[d].lis].gen = slot[d].gen
      BY <2>2, <1>6, <1>17 DEF ListenerInv, GenerationInv
    <3> QED BY <2>2, <3>1, <3>2, <3>3, <1>6, <1>13
  <2> QED BY <2>1, <2>2
<1>18. \A d \in Ids : slot'[d].gen <= made'
  BY <1>1, <1>6, <1>7 DEF ListenerInv, GenerationInv, ListenerTypes, Slots
<1>19. GenerationInv'
  BY <1>14, <1>15, <1>16, <1>17, <1>18 DEF GenerationInv
<1>20. ASSUME NEW k \in Ids, InLoop(k)' PROVE slot'[lis'[k].entry].lis = k
  <2>1. CASE k = l
    BY <2>1, <1>2, <1>7, <1>8
  <2>2. CASE k # l
    <3>1. k # old
      BY <1>10, <1>20, <1>1 DEF InLoop, Ids
    <3>2. lis'[k] = lis[k] /\ InLoop(k)
      BY <2>2, <3>1, <1>8, <1>20 DEF InLoop
    <3>3. slot[lis[k].entry].lis = k /\ lis[k].entry \in Ids
      BY <3>2 DEF ListenerInv, RegisteredInv, GenerationInv, InLoop, Made
    <3> QED BY <3>1, <3>2, <3>3, <1>6
  <2> QED BY <2>1, <2>2
<1>21. SlotInv'
  <2>1. l # None /\ i # None
    BY <1>1 DEF Ids
  <2> QED BY <2>1, <1>6, <1>7 DEF ListenerInv, SlotInv
<1> QED BY <1>12, <1>19, <1>20, <1>21 DEF ListenerInv, RegisteredInv

\* A running thread gets a listener of its CodexThread.
LEMMA EnsureListenerInv ==
  ASSUME ThreadInv, EnsureListener
  PROVE  ThreadInv'
<1> USE DEF ThreadInv
<1>1. ListenerInv'
  <2>1. CASE UNCHANGED lisVars
    BY <2>1, Frames
  <2>2. CASE /\ made < MaxMade /\ made' = made + 1
             /\ SetListener(made', proc["request"].entry, proc["request"].inst,
                            proc["request"].watch)
    <3>1. /\ proc["request"].entry \in Ids /\ proc["request"].watch \in Ids
          /\ proc["request"].inst \in Ids
      BY RequestKnown DEF EnsureListener, At, Ready, Handlers, Ids, None
    <3> QED BY <2>2, <3>1, SetListenerTypes
  <2> QED BY <2>1, <2>2 DEF EnsureListener
<1>2. HandlerInv'
  <2>1. proc["request"].pc = "listen" /\ proc["request"] \in Handlers
    BY RequestKnown DEF EnsureListener, At
  <2>2. CASE Goto("request", "respond")
    BY <2>1, <2>2, GotoPlain DEF Procs, Places
  <2>3. CASE Goto("request", "sender")
    <3>1. Ready([proc["request"] EXCEPT !.pc = "sender"])
      BY <2>1, RequestKnown DEF Ready, Handlers
    <3> QED BY <2>3, <3>1, GotoHandler DEF Procs, Places
  <2> QED BY <2>2, <2>3 DEF EnsureListener
<1>3. EntryInv' /\ CoreTypes' /\ UnloadTypes' /\ ClientTypes'
  BY Frames DEF EnsureListener
<1> QED BY <1>1, <1>2, <1>3

\* The answers to a resume.
LEMMA ColdRespondInv ==
  ASSUME ThreadInv, ColdRespond
  PROVE  ThreadInv'
<1> USE DEF ThreadInv
<1>1. HandlerInv'
  BY StepIdle DEF ColdRespond, Procs
<1>2. ClientTypes'
  <2>1. Conn("request") \in Conns /\ UNCHANGED <<calls, archived>>
    BY RequestKnown DEF ColdRespond, At
  <2>2. Answered(Conn("request"), FALSE) \/ Answered(Conn("request"), TRUE) \/ UNCHANGED clientVars
    BY DEF ColdRespond
  <2> QED BY <2>1, <2>2, AnsweredTypes, Frames
<1>3. EntryInv' /\ CoreTypes' /\ UnloadTypes' /\ ListenerInv'
  BY Frames DEF ColdRespond
<1> QED BY <1>1, <1>2, <1>3

LEMMA ResumeSenderInv ==
  ASSUME ThreadInv, ResumeSender
  PROVE  ThreadInv'
<1> USE DEF ThreadInv
<1>1. ClientTypes'
  <2>1. Conn("request") \in Conns /\ UNCHANGED <<calls, archived>>
    BY RequestKnown DEF ResumeSender, At
  <2>2. Answered(Conn("request"), FALSE) \/ Answered(Conn("request"), TRUE) \/ UNCHANGED clientVars
    BY DEF ResumeSender
  <2> QED BY <2>1, <2>2, AnsweredTypes, Frames
<1>2. HandlerInv'
  <2> DEFINE l == slot[proc["request"].entry].lis
             r == [proc["request"] EXCEPT !.pc = "send", !.lis = l]
  <2>1. /\ proc["request"].pc = "sender" /\ proc["request"] \in Handlers
        /\ proc["request"].entry \in Ids
    BY RequestKnown DEF ResumeSender, At, Ready
  <2>2. CASE Step("request", Idle)
    BY <2>2, StepIdle DEF Procs
  <2>3. CASE l # None /\ Step("request", r)
    <3>1. l \in Ids /\ l \in 0..MaxMade /\ "send" \in Places
      BY <2>1, <2>3, ConstantsAssumption
         DEF ListenerInv, ListenerTypes, Slots, Ids, None, Places
    <3>2. r \in Handlers
      BY <2>1, <3>1, Zenon DEF Handlers
    <3>3. /\ r.pc = "send" /\ r.conn = proc["request"].conn
          /\ r.entry = proc["request"].entry /\ r.lis = l
      BY <2>1 DEF Handlers
    <3>4. Ready(r)
      BY <2>1, <3>1, <3>3, RequestKnown DEF Ready
    <3> QED BY <2>3, <3>2, <3>4, StepHandler DEF Procs
  <2> QED BY <2>2, <2>3 DEF ResumeSender
<1>3. EntryInv' /\ CoreTypes' /\ UnloadTypes' /\ ListenerInv'
  BY Frames DEF ResumeSender
<1> QED BY <1>1, <1>2, <1>3

LEMMA ResumeSendInv ==
  ASSUME ThreadInv, ResumeSend
  PROVE  ThreadInv'
<1> USE DEF ThreadInv
<1>1. HandlerInv'
  BY StepIdle DEF ResumeSend, Procs
<1>2. ClientTypes'
  <2>1. Conn("request") \in Conns /\ UNCHANGED <<calls, archived>>
    BY RequestKnown DEF ResumeSend, At
  <2>2. Answered(Conn("request"), FALSE) \/ UNCHANGED clientVars
    BY DEF ResumeSend
  <2> QED BY <2>1, <2>2, AnsweredTypes, Frames
<1>3. ListenerInv'
  <2> DEFINE l == proc["request"].lis
             c == Conn("request")
             r == [lis[l] EXCEPT !.chan = Append(lis[l].chan, c)]
  <2>1. l \in Ids /\ c \in Conns
    BY RequestKnown DEF ResumeSend, At, Ready
  <2>2. lis[l] \in Listeners /\ lis[l].chan \in Seq(Conns)
    BY <2>1 DEF ListenerInv, ListenerTypes, Listeners
  <2>3. CASE UNCHANGED lis
    BY <2>3, Frames DEF ResumeSend, lisVars
  <2>4. CASE lis' = [lis EXCEPT ![l] = r]
    <3>1. Append(lis[l].chan, c) \in Seq(Conns)
      BY <2>1, <2>2
    <3>2. r \in Listeners
      BY <2>2, <3>1, Zenon DEF Listeners
    <3>3. /\ r.pc = lis[l].pc /\ r.entry = lis[l].entry /\ r.gen = lis[l].gen
          /\ r.watch = lis[l].watch /\ r.cancelled = lis[l].cancelled
      BY <2>2 DEF Listeners
    <3>4. r.pc \in {"run", "unload"} /\ ~r.cancelled => InLoop(l)
      BY <3>3 DEF InLoop
    <3> QED BY <2>1, <2>4, <3>2, <3>3, <3>4, ListenerMoves DEF ResumeSend
  <2> QED BY <2>3, <2>4 DEF ResumeSend
<1>4. EntryInv' /\ CoreTypes' /\ UnloadTypes'
  BY Frames DEF ResumeSend
<1> QED BY <1>1, <1>2, <1>3, <1>4


-----------------------------------------------------------------------------
(* Unsubscribing, archiving, and connections that close.                    *)

LEMMA HandleUnsubscribeInv ==
  ASSUME ThreadInv, HandleUnsubscribe
  PROVE  ThreadInv'
<1> USE DEF ThreadInv
<1>1. EntryInv'
  <2>1. Conn("request") \in Conns /\ UNCHANGED live
    BY RequestKnown DEF HandleUnsubscribe, At
  <2>2. CASE UNCHANGED entryVars
    BY <2>1, <2>2, Frames
  <2>3. CASE Unsubscribe(Conn("request"))
    BY <2>1, <2>3, UnsubscribeTypes
  <2> QED BY <2>2, <2>3 DEF HandleUnsubscribe
<1>2. ClientTypes'
  BY DEF HandleUnsubscribe, ClientTypes
<1>3. HandlerInv'
  <2>1. proc["request"].pc = "unsubscribe"
    BY DEF HandleUnsubscribe, At
  <2>2. Step("request", Idle) \/ Goto("request", "final")
    BY DEF HandleUnsubscribe
  <2> QED BY <2>1, <2>2, StepIdle, GotoPlain DEF Procs, Places
<1>4. CoreTypes' /\ UnloadTypes' /\ ListenerInv'
  BY Frames DEF HandleUnsubscribe
<1> QED BY <1>1, <1>2, <1>3, <1>4

LEMMA ArchiveRemoveInv ==
  ASSUME ThreadInv, ArchiveRemove
  PROVE  ThreadInv'
<1> USE DEF ThreadInv
<1>1. CoreTypes'
  BY ConstantsAssumption DEF ArchiveRemove, CoreTypes, None
<1>2. HandlerInv'
  <2> DEFINE pl == IF mgr = None THEN "final" ELSE "shut"
             r == [proc["request"] EXCEPT !.pc = pl, !.inst = mgr]
  <2>1. /\ proc["request"].pc = "archive" /\ proc["request"] \in Handlers
        /\ mgr \in 0..MaxMade /\ pl \in Places
    BY RequestKnown, ConstantsAssumption DEF ArchiveRemove, At, CoreTypes, Places
  <2>2. r \in Handlers
    BY <2>1, Zenon DEF Handlers
  <2>3. r.pc \in {"final", "shut"} /\ r.conn = proc["request"].conn
    BY <2>1 DEF Handlers
  <2>4. Ready(r)
    BY <2>1, <2>3, RequestKnown DEF Ready
  <2> QED BY <2>2, <2>4, StepHandler DEF ArchiveRemove, Procs
<1>3. EntryInv' /\ UnloadTypes' /\ ClientTypes' /\ ListenerInv'
  BY Frames DEF ArchiveRemove
<1> QED BY <1>1, <1>2, <1>3

LEMMA ArchiveShutInv ==
  ASSUME ThreadInv, ArchiveShut
  PROVE  ThreadInv'
<1> USE DEF ThreadInv
<1>1. HandlerInv'
  BY GotoPlain DEF ArchiveShut, At, Procs, Places
<1>2. EntryInv' /\ CoreTypes' /\ UnloadTypes' /\ ClientTypes' /\ ListenerInv'
  BY Frames DEF ArchiveShut
<1> QED BY <1>1, <1>2

LEMMA HandleUnarchiveInv ==
  ASSUME ThreadInv, HandleUnarchive
  PROVE  ThreadInv'
<1> USE DEF ThreadInv
<1>1. HandlerInv'
  BY StepIdle DEF HandleUnarchive, Procs
<1>2. ClientTypes'
  BY DEF HandleUnarchive, ClientTypes, clientVars
<1>3. EntryInv' /\ CoreTypes' /\ UnloadTypes' /\ ListenerInv'
  BY Frames DEF HandleUnarchive
<1> QED BY <1>1, <1>2, <1>3

LEMMA FinalUnpendInv ==
  ASSUME ThreadInv, NEW p \in Procs, FinalUnpend(p)
  PROVE  ThreadInv'
<1> USE DEF ThreadInv
<1>1. UnloadTypes'
  BY DEF FinalUnpend, UnloadTypes
<1>2. HandlerInv'
  BY GotoPlain DEF FinalUnpend, At, Places
<1>3. EntryInv' /\ CoreTypes' /\ ClientTypes' /\ ListenerInv'
  BY Frames DEF FinalUnpend
<1> QED BY <1>1, <1>2, <1>3

LEMMA FinalRemoveInv ==
  ASSUME ThreadInv, NEW p \in Procs, FinalRemove(p)
  PROVE  ThreadInv'
<1> USE DEF ThreadInv
<1>1. EntryInv'
  BY RemoveTypes DEF FinalRemove
<1>2. HandlerInv'
  <2> DEFINE r == [proc[p] EXCEPT !.pc = "clear", !.entry = entry]
  <2>1. /\ proc[p].pc = "remove" /\ proc[p] \in Handlers
        /\ entry \in 0..MaxMade /\ "clear" \in Places
    BY ConstantsAssumption DEF FinalRemove, At, HandlerInv, EntryInv, Places
  <2>2. r \in Handlers
    BY <2>1, Zenon DEF Handlers
  <2>3. r.pc = "clear" /\ r.conn = proc[p].conn
    BY <2>1 DEF Handlers
  <2>4. p = "request" => Ready(r)
    BY <2>1, <2>3, RequestKnown DEF Ready
  <2> QED BY <2>2, <2>4, StepHandler DEF FinalRemove
<1>3. CoreTypes' /\ UnloadTypes' /\ ClientTypes' /\ ListenerInv'
  BY Frames DEF FinalRemove
<1> QED BY <1>1, <1>2, <1>3

LEMMA FinalClearInv ==
  ASSUME ThreadInv, NEW p \in Procs, FinalClear(p)
  PROVE  ThreadInv'
<1> USE DEF ThreadInv
<1>1. ListenerInv'
  <2> DEFINE e == proc[p].entry
  <2>1. e \in 0..MaxMade /\ slot' = Cleared(e) /\ lis' = CancelOf(e) /\ made' = made
    BY DEF HandlerInv, Handlers, FinalClear
  <2> HIDE DEF e
  <2>2. \A k \in Ids : InLoop(k)' => InLoop(k) /\ ~(e # None /\ k = slot[e].lis)
    BY <2>1, CancelTypes DEF InLoop
  <2> QED BY <2>1, <2>2, CancelTypes, ClearTypes
<1>2. HandlerInv'
  BY StepIdle DEF FinalClear
<1>3. ClientTypes'
  BY DEF FinalClear, ClientTypes
<1>4. EntryInv' /\ CoreTypes' /\ UnloadTypes'
  BY Frames DEF FinalClear
<1> QED BY <1>1, <1>2, <1>3, <1>4

LEMMA CloseConnectionInv ==
  ASSUME ThreadInv, NEW c \in Conns, CloseConnection(c)
  PROVE  ThreadInv'
<1> USE DEF ThreadInv
<1>1. EntryInv'
  BY UnsubscribeTypes DEF CloseConnection
<1>2. ClientTypes'
  BY DEF CloseConnection, ClientTypes
<1>3. HandlerInv'
  <2> DEFINE r == [Idle EXCEPT !.pc = "gone", !.op = "close", !.conn = c]
  <2>1. "gone" \in Places /\ "close" \in Operations
    BY DEF Places, Operations
  <2>2. r \in Handlers
    BY <2>1, IdleHandler, Zenon DEF Handlers
  <2>3. CASE Step("close", r)
    BY <2>2, <2>3, StepHandler DEF Procs
  <2>4. CASE UNCHANGED proc
    BY <2>4, Frames
  <2> QED BY <2>3, <2>4 DEF CloseConnection
<1>4. CoreTypes' /\ UnloadTypes' /\ ListenerInv'
  BY Frames DEF CloseConnection
<1> QED BY <1>1, <1>2, <1>3, <1>4

LEMMA CloseTeardownInv ==
  ASSUME ThreadInv, CloseTeardown
  PROVE  ThreadInv'
<1> USE DEF ThreadInv
<1>1. HandlerInv'
  <2>1. proc["close"].pc = "gone"
    BY DEF CloseTeardown, At
  <2>2. Step("close", Idle) \/ Goto("close", "final")
    BY DEF CloseTeardown
  <2> QED BY <2>1, <2>2, StepIdle, GotoPlain DEF Procs, Places
<1>2. EntryInv' /\ CoreTypes' /\ UnloadTypes' /\ ClientTypes' /\ ListenerInv'
  BY Frames DEF CloseTeardown
<1> QED BY <1>1, <1>2

-----------------------------------------------------------------------------
(* Listeners.                                                               *)

\* The watched value, synchronized.
LEMMA SyncedTypes ==
  ASSUME ListenerInv, EntryInv, NEW l \in Ids, lis[l].pc # "none"
  PROVE  LET r == Synced(lis[l]) IN
         /\ lis[l] \in Listeners /\ r \in Listeners
         /\ r.pc = lis[l].pc /\ r.entry = lis[l].entry /\ r.gen = lis[l].gen
         /\ r.watch = lis[l].watch /\ r.cancelled = lis[l].cancelled
<1> DEFINE s == [lis[l] EXCEPT !.seen = had[lis[l].watch], !.elapsed = FALSE]
<1>1. lis[l] \in Listeners /\ lis[l].watch \in Ids
  BY DEF ListenerInv, ListenerTypes, GenerationInv, Made
<1>2. had[lis[l].watch] \in BOOLEAN
  BY <1>1 DEF EntryInv
<1>3. s \in Listeners
  BY <1>1, <1>2, Zenon DEF Listeners
<1>4. /\ s.pc = lis[l].pc /\ s.entry = lis[l].entry /\ s.gen = lis[l].gen
      /\ s.watch = lis[l].watch /\ s.cancelled = lis[l].cancelled
  BY <1>1 DEF Listeners
<1>5. Synced(lis[l]) = lis[l] \/ Synced(lis[l]) = s
  BY DEF Synced
<1> QED BY <1>1, <1>3, <1>4, <1>5

\* A listener goes to another place, with the field elapsed changed or not.
LEMMA ListenerGoes ==
  ASSUME ListenerInv, UNCHANGED <<slot, made>>, NEW l \in Ids, lis[l].pc # "none",
         NEW q \in Listeners, NEW r \in Listeners, lis' = [lis EXCEPT ![l] = r],
         q.entry = lis[l].entry, q.gen = lis[l].gen, q.watch = lis[l].watch,
         q.cancelled = lis[l].cancelled,
         r.entry = q.entry, r.gen = q.gen, r.watch = q.watch, r.cancelled = q.cancelled,
         r.pc # "none", r.pc \in {"run", "unload"} => lis[l].pc \in {"run", "unload"}
  PROVE  ListenerInv'
<1>1. r.pc \in {"run", "unload"} /\ ~r.cancelled => InLoop(l)
  BY DEF InLoop
<1> QED BY <1>1, ListenerMoves

LEMMA ListenerCancelledInv ==
  ASSUME ThreadInv, NEW l \in Ids, ListenerCancelled(l)
  PROVE  ThreadInv'
<1> USE DEF ThreadInv
<1>1. ListenerInv'
  <2> DEFINE r == [lis[l] EXCEPT !.pc = "exit"]
  <2>1. lis[l] \in Listeners /\ lis[l].pc # "none"
    BY DEF ListenerCancelled, Running, ListenerInv, ListenerTypes
  <2>2. r \in Listeners
    BY <2>1, Zenon DEF Listeners
  <2>3. r.pc = "exit" /\ r.entry = lis[l].entry /\ r.gen = lis[l].gen
        /\ r.watch = lis[l].watch /\ r.cancelled = lis[l].cancelled
    BY <2>1 DEF Listeners
  <2>4. lis' = [lis EXCEPT ![l] = r] /\ UNCHANGED <<slot, made>>
    BY DEF ListenerCancelled, Leaves, LisFrame
  <2> QED BY <2>1, <2>2, <2>3, <2>4, ListenerGoes
<1>2. EntryInv' /\ CoreTypes' /\ UnloadTypes' /\ ClientTypes' /\ HandlerInv'
  BY Frames DEF ListenerCancelled, LisFrame
<1> QED BY <1>1, <1>2

LEMMA ListenerResumeInv ==
  ASSUME ThreadInv, NEW l \in Ids, ListenerResume(l)
  PROVE  ThreadInv'
<1> USE DEF ThreadInv
<1>1. EntryInv'
  <2>1. CASE UNCHANGED entryVars
    BY <2>1, Frames DEF ListenerResume, LisFrame
  <2>2. CASE Subscribe({Head(lis[l].chan)}) /\ MaySubscribe(Head(lis[l].chan))
    BY <2>2, SubscribeTypes DEF ListenerResume, MaySubscribe, LisFrame
  <2> QED BY <2>1, <2>2 DEF ListenerResume
<1>2. ClientTypes'
  <2>1. lis[l].chan \in Seq(Conns) /\ lis[l].chan # <<>>
    BY DEF ListenerResume, ListenerInv, ListenerTypes, Listeners
  <2>2. Head(lis[l].chan) \in Conns
    BY <2>1
  <2>3. UNCHANGED <<calls, archived>>
    BY DEF ListenerResume, LisFrame
  <2>4. \/ Answered(Head(lis[l].chan), FALSE) \/ Answered(Head(lis[l].chan), TRUE)
        \/ UNCHANGED clientVars
    BY DEF ListenerResume
  <2> QED BY <2>2, <2>3, <2>4, AnsweredTypes, Frames
<1>3. ListenerInv'
  <2> DEFINE r == [lis[l] EXCEPT !.chan = Tail(lis[l].chan)]
  <2>1. /\ lis[l] \in Listeners /\ lis[l].pc = "run"
        /\ lis[l].chan \in Seq(Conns) /\ lis[l].chan # <<>>
    BY DEF ListenerResume, Running, ListenerInv, ListenerTypes, Listeners
  <2>2. Tail(lis[l].chan) \in Seq(Conns)
    BY <2>1
  <2>3. r \in Listeners
    BY <2>1, <2>2, Zenon DEF Listeners
  <2>4. r.pc = lis[l].pc /\ r.entry = lis[l].entry /\ r.gen = lis[l].gen
        /\ r.watch = lis[l].watch /\ r.cancelled = lis[l].cancelled
    BY <2>1 DEF Listeners
  <2>5. lis' = [lis EXCEPT ![l] = r] /\ UNCHANGED <<slot, made>>
    BY DEF ListenerResume, LisFrame
  <2> QED BY <2>1, <2>3, <2>4, <2>5, ListenerGoes
<1>4. CoreTypes' /\ UnloadTypes' /\ HandlerInv'
  BY Frames DEF ListenerResume, LisFrame
<1> QED BY <1>1, <1>2, <1>3, <1>4

LEMMA ListenerEventsEndInv ==
  ASSUME ThreadInv, NEW l \in Ids, ListenerEventsEnd(l)
  PROVE  ThreadInv'
<1> USE DEF ThreadInv
<1>1. ListenerInv'
  <2> DEFINE r == [lis[l] EXCEPT !.pc = "exit"]
  <2>1. lis[l] \in Listeners /\ lis[l].pc # "none"
    BY DEF ListenerEventsEnd, Running, ListenerInv, ListenerTypes
  <2>2. r \in Listeners
    BY <2>1, Zenon DEF Listeners
  <2>3. r.pc = "exit" /\ r.entry = lis[l].entry /\ r.gen = lis[l].gen
        /\ r.watch = lis[l].watch /\ r.cancelled = lis[l].cancelled
    BY <2>1 DEF Listeners
  <2>4. lis' = [lis EXCEPT ![l] = r] /\ UNCHANGED <<slot, made>>
    BY DEF ListenerEventsEnd, Leaves, LisFrame
  <2> QED BY <2>1, <2>2, <2>3, <2>4, ListenerGoes
<1>2. EntryInv' /\ CoreTypes' /\ UnloadTypes' /\ ClientTypes' /\ HandlerInv'
  BY Frames DEF ListenerEventsEnd, LisFrame
<1> QED BY <1>1, <1>2

LEMMA ListenerSyncInv ==
  ASSUME ThreadInv, NEW l \in Ids, ListenerSync(l)
  PROVE  ThreadInv'
<1> USE DEF ThreadInv
<1>1. ListenerInv'
  <2> DEFINE r == Synced(lis[l])
  <2>1. lis[l].pc = "run"
    BY DEF ListenerSync, Running
  <2>2. lis' = [lis EXCEPT ![l] = r] /\ UNCHANGED <<slot, made>>
    BY DEF ListenerSync, LisFrame
  <2> HIDE DEF r
  <2> QED BY <2>1, <2>2, SyncedTypes, ListenerGoes DEF r
<1>2. EntryInv' /\ CoreTypes' /\ UnloadTypes' /\ ClientTypes' /\ HandlerInv'
  BY Frames DEF ListenerSync, LisFrame
<1> QED BY <1>1, <1>2

LEMMA DelayPassesInv ==
  ASSUME ThreadInv, NEW l \in Ids, DelayPasses(l)
  PROVE  ThreadInv'
<1> USE DEF ThreadInv
<1>1. ListenerInv'
  <2> DEFINE r == [lis[l] EXCEPT !.elapsed = TRUE]
  <2>1. lis[l] \in Listeners /\ lis[l].pc = "run"
    BY DEF DelayPasses, Running, ListenerInv, ListenerTypes
  <2>2. r \in Listeners
    BY <2>1, Zenon DEF Listeners
  <2>3. r.pc = lis[l].pc /\ r.entry = lis[l].entry /\ r.gen = lis[l].gen
        /\ r.watch = lis[l].watch /\ r.cancelled = lis[l].cancelled
    BY <2>1 DEF Listeners
  <2>4. lis' = [lis EXCEPT ![l] = r] /\ UNCHANGED <<slot, made>>
    BY DEF DelayPasses, LisFrame
  <2> QED BY <2>1, <2>2, <2>3, <2>4, ListenerGoes
<1>2. EntryInv' /\ CoreTypes' /\ UnloadTypes' /\ ClientTypes' /\ HandlerInv'
  BY Frames DEF DelayPasses, LisFrame
<1> QED BY <1>1, <1>2

LEMMA ListenerTriggerInv ==
  ASSUME ThreadInv, NEW l \in Ids, ListenerTrigger(l)
  PROVE  ThreadInv'
<1> USE DEF ThreadInv
<1>1. ListenerInv'
  <2> DEFINE q == Synced(lis[l])
  <2>1. lis[l].pc = "run"
    BY DEF ListenerTrigger, Running
  <2>2. /\ q \in Listeners /\ q.entry = lis[l].entry /\ q.gen = lis[l].gen
        /\ q.watch = lis[l].watch /\ q.cancelled = lis[l].cancelled
    BY <2>1, SyncedTypes
  <2>3. UNCHANGED <<slot, made>>
    BY DEF ListenerTrigger, LisFrame
  <2>4. \/ lis' = [lis EXCEPT ![l] = [q EXCEPT !.pc = "unload"]]
        \/ lis' = [lis EXCEPT ![l] = [q EXCEPT !.pc = "exit"]]
    BY DEF ListenerTrigger
  <2> HIDE DEF q
  <2>5. CASE lis' = [lis EXCEPT ![l] = [q EXCEPT !.pc = "unload"]]
    <3> DEFINE r == [q EXCEPT !.pc = "unload"]
    <3>1. r \in Listeners
      BY <2>2, Zenon DEF Listeners
    <3>2. r.pc = "unload" /\ r.entry = q.entry /\ r.gen = q.gen /\ r.watch = q.watch
          /\ r.cancelled = q.cancelled
      BY <2>2 DEF Listeners
    <3> QED BY <2>1, <2>2, <2>3, <2>5, <3>1, <3>2, ListenerGoes
  <2>6. CASE lis' = [lis EXCEPT ![l] = [q EXCEPT !.pc = "exit"]]
    <3> DEFINE r == [q EXCEPT !.pc = "exit"]
    <3>1. r \in Listeners
      BY <2>2, Zenon DEF Listeners
    <3>2. r.pc = "exit" /\ r.entry = q.entry /\ r.gen = q.gen /\ r.watch = q.watch
          /\ r.cancelled = q.cancelled
      BY <2>2 DEF Listeners
    <3> QED BY <2>1, <2>2, <2>3, <2>6, <3>1, <3>2, ListenerGoes
  <2> QED BY <2>4, <2>5, <2>6
<1>2. EntryInv' /\ CoreTypes' /\ UnloadTypes' /\ ClientTypes' /\ HandlerInv'
  BY Frames DEF ListenerTrigger, LisFrame
<1> QED BY <1>1, <1>2

LEMMA ListenerClaimInv ==
  ASSUME ThreadInv, NEW l \in Ids, ListenerClaim(l)
  PROVE  ThreadInv'
<1> USE DEF ThreadInv
<1>1. UnloadTypes'
  BY DEF ListenerClaim, UnloadTypes
<1>2. ListenerInv'
  <2> DEFINE q == Synced(lis[l])
  <2>1. lis[l].pc = "unload"
    BY DEF ListenerClaim, Running
  <2>2. /\ q \in Listeners /\ q.entry = lis[l].entry /\ q.gen = lis[l].gen
        /\ q.watch = lis[l].watch /\ q.cancelled = lis[l].cancelled
    BY <2>1, SyncedTypes
  <2>3. UNCHANGED <<slot, made>>
    BY DEF ListenerClaim, LisFrame
  <2>4. \/ lis' = [lis EXCEPT ![l] = [q EXCEPT !.pc = "remove"]]
        \/ lis' = [lis EXCEPT ![l] = [q EXCEPT !.pc = "run", !.elapsed = FALSE]]
    BY DEF ListenerClaim
  <2> HIDE DEF q
  <2>5. CASE lis' = [lis EXCEPT ![l] = [q EXCEPT !.pc = "remove"]]
    <3> DEFINE r == [q EXCEPT !.pc = "remove"]
    <3>1. r \in Listeners
      BY <2>2, Zenon DEF Listeners
    <3>2. r.pc = "remove" /\ r.entry = q.entry /\ r.gen = q.gen /\ r.watch = q.watch
          /\ r.cancelled = q.cancelled
      BY <2>2 DEF Listeners
    <3> QED BY <2>1, <2>2, <2>3, <2>5, <3>1, <3>2, ListenerGoes
  <2>6. CASE lis' = [lis EXCEPT ![l] = [q EXCEPT !.pc = "run", !.elapsed = FALSE]]
    <3> DEFINE r == [q EXCEPT !.pc = "run", !.elapsed = FALSE]
    <3>1. r \in Listeners
      BY <2>2, Zenon DEF Listeners
    <3>2. r.pc = "run" /\ r.entry = q.entry /\ r.gen = q.gen /\ r.watch = q.watch
          /\ r.cancelled = q.cancelled
      BY <2>2 DEF Listeners
    <3> QED BY <2>1, <2>2, <2>3, <2>6, <3>1, <3>2, ListenerGoes
  <2> QED BY <2>4, <2>5, <2>6
<1>3. EntryInv' /\ CoreTypes' /\ ClientTypes' /\ HandlerInv'
  BY Frames DEF ListenerClaim, LisFrame
<1> QED BY <1>1, <1>2, <1>3

LEMMA UnloadRemoveInv ==
  ASSUME ThreadInv, NEW l \in Ids, UnloadRemove(l)
  PROVE  ThreadInv'
<1> USE DEF ThreadInv
<1>1. EntryInv'
  BY RemoveTypes DEF UnloadRemove, LisFrame
<1>2. ListenerInv'
  <2> DEFINE r == [lis[l] EXCEPT !.pc = "clear", !.gone = entry]
  <2>1. lis[l] \in Listeners /\ lis[l].pc = "remove" /\ entry \in 0..MaxMade
    BY ConstantsAssumption DEF UnloadRemove, EntryInv, ListenerInv, ListenerTypes
  <2>2. r \in Listeners
    BY <2>1, Zenon DEF Listeners
  <2>3. r.pc = "clear" /\ r.entry = lis[l].entry /\ r.gen = lis[l].gen
        /\ r.watch = lis[l].watch /\ r.cancelled = lis[l].cancelled
    BY <2>1 DEF Listeners
  <2>4. lis' = [lis EXCEPT ![l] = r] /\ UNCHANGED <<slot, made>>
    BY DEF UnloadRemove, LisFrame, ListenerInv, ListenerTypes
  <2> QED BY <2>1, <2>2, <2>3, <2>4, ListenerGoes
<1>3. CoreTypes' /\ UnloadTypes' /\ ClientTypes' /\ HandlerInv'
  BY Frames DEF UnloadRemove, LisFrame
<1> QED BY <1>1, <1>2, <1>3

\* A listener that clears a slot on its way out.
LEMMA ClearedBy ==
  ASSUME ListenerInv, UNCHANGED made, NEW e \in 0..MaxMade, slot' = Cleared(e),
         NEW l \in Ids, lis[l].pc # "none", NEW r \in Listeners,
         lis' = [CancelOf(e) EXCEPT ![l] = r], r.pc \in {"exit", "done"},
         r.entry = CancelOf(e)[l].entry, r.gen = CancelOf(e)[l].gen,
         r.watch = CancelOf(e)[l].watch
  PROVE  ListenerInv'
<1>1. lis' \in [Ids -> Listeners] /\ lis'[l] = r
  BY CancelTypes
<1>2. \A k \in Ids : k # l => lis'[k] = CancelOf(e)[k]
  BY CancelTypes
<1>3. \A k \in Ids : /\ lis'[k].entry = lis[k].entry /\ lis'[k].gen = lis[k].gen
                     /\ lis'[k].watch = lis[k].watch
                     /\ lis'[k].pc = "none" <=> lis[k].pc = "none"
  BY <1>1, <1>2, CancelTypes
<1>4. ASSUME NEW k \in Ids, InLoop(k)'
      PROVE  InLoop(k) /\ ~(e # None /\ k = slot[e].lis)
  <2>1. k # l
    BY <1>1, <1>4 DEF InLoop
  <2> QED BY <2>1, <1>2, <1>4, CancelTypes DEF InLoop
<1> QED BY <1>1, <1>3, <1>4, ClearTypes

LEMMA UnloadClearInv ==
  ASSUME ThreadInv, NEW l \in Ids, UnloadClear(l)
  PROVE  ThreadInv'
<1> USE DEF ThreadInv
<1>1. UnloadTypes'
  BY DEF UnloadClear, UnloadTypes
<1>2. ListenerInv'
  <2> DEFINE e == lis[l].gone
             r == [CancelOf(e)[l] EXCEPT !.pc = "exit"]
  <2>1. lis[l].pc = "clear" /\ e \in 0..MaxMade /\ made' = made /\ slot' = Cleared(e)
    BY DEF UnloadClear, ListenerInv, ListenerTypes, Listeners, LisFrame
  <2>2. lis' = [CancelOf(e) EXCEPT ![l].pc = "exit"]
    BY DEF UnloadClear
  <2> HIDE DEF e
  <2>3. CancelOf(e) \in [Ids -> Listeners]
    BY <2>1, CancelTypes
  <2>4. lis' = [CancelOf(e) EXCEPT ![l] = r]
    BY <2>2, <2>3
  <2>5. CancelOf(e)[l] \in Listeners
    BY <2>3
  <2>6. r \in Listeners
    BY <2>5, Zenon DEF Listeners
  <2>7. /\ r.pc = "exit" /\ r.entry = CancelOf(e)[l].entry /\ r.gen = CancelOf(e)[l].gen
        /\ r.watch = CancelOf(e)[l].watch
    BY <2>5 DEF Listeners
  <2> HIDE DEF r
  <2> QED BY <2>1, <2>3, <2>4, <2>6, <2>7, ClearedBy
<1>3. EntryInv' /\ CoreTypes' /\ ClientTypes' /\ HandlerInv'
  BY Frames DEF UnloadClear, LisFrame
<1> QED BY <1>1, <1>2, <1>3

LEMMA ListenerExitInv ==
  ASSUME ThreadInv, NEW l \in Ids, ListenerExit(l)
  PROVE  ThreadInv'
<1> USE DEF ThreadInv
<1>1. ListenerInv'
  <2> DEFINE e == IF Registered(l) THEN lis[l].entry ELSE None
             r == [CancelOf(e)[l] EXCEPT !.pc = "done", !.chan = <<>>]
  <2>1. lis[l].pc = "exit" /\ lis[l].entry \in 0..MaxMade /\ made' = made /\ slot' = Cleared(e)
    BY DEF ListenerExit, ListenerInv, ListenerTypes, Listeners, LisFrame
  <2>2. e \in 0..MaxMade
    BY <2>1, NoneIsTyped
  <2>3. lis' = [CancelOf(e) EXCEPT ![l].pc = "done", ![l].chan = <<>>]
    BY DEF ListenerExit
  <2> HIDE DEF e
  <2>4. CancelOf(e) \in [Ids -> Listeners]
    BY <2>2, CancelTypes
  <2>5. lis' = [CancelOf(e) EXCEPT ![l] = r]
    BY <2>3, <2>4
  <2>6. CancelOf(e)[l] \in Listeners /\ <<>> \in Seq(Conns)
    BY <2>4
  <2>7. r \in Listeners
    BY <2>6, Zenon DEF Listeners
  <2>8. /\ r.pc = "done" /\ r.entry = CancelOf(e)[l].entry /\ r.gen = CancelOf(e)[l].gen
        /\ r.watch = CancelOf(e)[l].watch
    BY <2>6 DEF Listeners
  <2> HIDE DEF r
  <2> QED BY <2>1, <2>2, <2>4, <2>5, <2>7, <2>8, ClearedBy
<1>2. EntryInv' /\ CoreTypes' /\ UnloadTypes' /\ ClientTypes' /\ HandlerInv'
  BY Frames DEF ListenerExit, LisFrame
<1> QED BY <1>1, <1>2

-----------------------------------------------------------------------------
(* The end of an unload and of a session, and the invariant.                *)

LEMMA StopInv ==
  ASSUME ThreadInv, NEW l \in Ids, Stop(l)
  PROVE  ThreadInv'
<1> USE DEF ThreadInv
<1>1. UnloadTypes'
  BY DEF Stop, StopComplete, StopUnpend, StopGivesUp, ReleaseUnload, UnloadTypes
<1>2. CoreTypes'
  <2>1. mgr' \in {None, mgr} /\ UNCHANGED <<loads, up>>
    BY DEF Stop, StopComplete, StopUnpend, StopGivesUp, StopFrame
  <2> QED BY <2>1, ConstantsAssumption DEF CoreTypes, None
<1>3. ClientTypes'
  BY DEF Stop, StopComplete, StopUnpend, StopGivesUp, StopFrame, ClientTypes
<1>4. EntryInv' /\ HandlerInv' /\ ListenerInv'
  BY Frames DEF Stop, StopComplete, StopUnpend, StopGivesUp, StopFrame
<1> QED BY <1>1, <1>2, <1>3, <1>4

LEMMA SessionEndsInv ==
  ASSUME ThreadInv, NEW i \in Ids, SessionEnds(i)
  PROVE  ThreadInv'
<1> USE DEF ThreadInv
<1>1. CoreTypes'
  BY DEF SessionEnds, CoreTypes
<1>2. EntryInv' /\ UnloadTypes' /\ ClientTypes' /\ HandlerInv' /\ ListenerInv'
  BY Frames DEF SessionEnds
<1> QED BY <1>1, <1>2

LEMMA InitInv == Init => ThreadInv
<1> SUFFICES ASSUME Init PROVE ThreadInv
  OBVIOUS
<1> USE ConstantsAssumption DEF Init, None
<1>1. EntryInv
  BY DEF EntryInv, SubscribersAreLive
<1>2. CoreTypes /\ UnloadTypes /\ ClientTypes
  <2>1. CoreTypes
    BY DEF CoreTypes
  <2>2. UnloadTypes
    BY DEF UnloadTypes
  <2>3. 0 \in 0..MaxCalls
    OBVIOUS
  <2>4. ClientTypes
    BY <2>3, Zenon DEF ClientTypes
  <2> QED BY <2>1, <2>2, <2>4
<1>3. HandlerInv
  BY IdleHandler DEF HandlerInv, Procs
<1>4. NoSlot \in Slots /\ NoListener \in Listeners
  BY DEF NoSlot, NoListener, Slots, Listeners
<1>5. ListenerTypes
  BY <1>4 DEF ListenerTypes
<1>6. \A l \in Ids : lis[l].pc = "none"
  BY DEF NoListener
<1>7. \A e \in Ids : slot[e].lis = 0 /\ slot[e].gen = 0 /\ slot[e].inst = 0
  BY DEF NoSlot
<1>8. GenerationInv
  <2>1. made = 0 /\ \A l \in Ids : ~Made(l) /\ ~(l <= 0)
    BY <1>6 DEF Made, Ids
  <2> QED BY <1>7, <2>1 DEF GenerationInv
<1>9. RegisteredInv
  BY <1>6 DEF RegisteredInv, InLoop
<1> QED BY <1>1, <1>2, <1>3, <1>5, <1>7, <1>8, <1>9 DEF ThreadInv, ListenerInv, SlotInv

LEMMA ThreadStep ==
  ASSUME ThreadInv, [Next]_vars
  PROVE  ThreadInv'
<1>1. ASSUME NEW c \in Conns, BeginResume(c) \/ CloseConnection(c) PROVE ThreadInv'
  BY <1>1, BeginInv, CloseConnectionInv
<1>2. ASSUME NEW c \in Conns, NEW op \in Allowed \ {"timeout"}, BeginOther(c, op)
      PROVE  ThreadInv'
  BY <1>2, BeginInv
<1>3. CASE Handle \/ CloseTeardown
  BY <1>3, ResumeStartInv, ResumeFindInv, ResumeStateInv, ResumeLoadInv, EnsureGetInv,
     EnsureSubscribedInv, EnsureWatchInv, EnsureRevokeInv, EnsureListenerInv, ColdRespondInv, ResumeSenderInv, ResumeSendInv,
     HandleUnsubscribeInv, ArchiveRemoveInv, ArchiveShutInv, HandleUnarchiveInv,
     CloseTeardownInv
     DEF Handle
<1>4. ASSUME NEW p \in Procs, Teardown(p) PROVE ThreadInv'
  BY <1>4, FinalUnpendInv, FinalRemoveInv, FinalClearInv DEF Teardown
<1>5. ASSUME NEW l \in Ids, Listener(l) \/ DelayPasses(l) \/ Stop(l) PROVE ThreadInv'
  BY <1>5, ListenerCancelledInv, ListenerResumeInv, ListenerEventsEndInv, ListenerSyncInv,
     ListenerTriggerInv, ListenerClaimInv, UnloadRemoveInv, UnloadClearInv, ListenerExitInv,
     DelayPassesInv, StopInv
     DEF Listener
<1>6. ASSUME NEW i \in Ids, SessionEnds(i) PROVE ThreadInv'
  BY <1>6, SessionEndsInv
<1>7. CASE UNCHANGED vars
  BY <1>7, Frames DEF vars, ThreadInv
<1> QED BY <1>1, <1>2, <1>3, <1>4, <1>5, <1>6, <1>7 DEF Next

\* The inductive invariant: every listener has a generation of its entry to itself, and a
\* slot names the listener of its current generation.
THEOREM ListenerInvariance == Spec => []ThreadInv
<1>1. ThreadInv /\ [Next]_vars => ThreadInv'
  BY ThreadStep
<1> QED BY InitInv, <1>1, PTL DEF Spec

\* Every variable of a thread's bookkeeping keeps its type.
THEOREM ThreadTypes == Spec => []TypeOK
<1>1. ThreadInv => TypeOK
  BY DEF ThreadInv, EntryInv, CoreTypes, UnloadTypes, ClientTypes, HandlerInv, ListenerInv,
         ListenerTypes, SlotInv, Slots, Listeners, TypeOK
<1> QED BY <1>1, ListenerInvariance, PTL

\* However resumes, closing connections and unloads interleave, a connection that closed
\* is not among the subscribers.
THEOREM SubscribersLive == Spec => []SubscribersAreLive
<1>1. ThreadInv => SubscribersAreLive
  BY DEF ThreadInv, EntryInv
<1> QED BY <1>1, ListenerInvariance, PTL

-----------------------------------------------------------------------------
(* Why a listener is cancelled.  Entries are numbered and never come back,  *)
(* so one that has left the map, or is being cleared, stays out of it.      *)

InTheLoop(l) == lis[l].pc \in {"run", "unload"}
Superseded(l) == slot[lis[l].entry].gen > lis[l].gen
CauseInv ==
  /\ \A l \in Ids : Made(l) => lis[l].entry <= entries
  /\ \A p \in Procs : /\ proc[p].entry <= entries
                      /\ At(p, "clear") => proc[p].entry = None \/ proc[p].entry # entry
  /\ \A l \in Ids : lis[l].pc = "clear" =>
       lis[l].gone <= entries /\ (lis[l].gone = None \/ lis[l].gone # entry)
  /\ \A l \in Ids : InTheLoop(l) /\ lis[l].cancelled => Superseded(l) \/ lis[l].entry # entry

\* A step of the map: an entry that is not in it does not come back.
Steady == entries <= entries' /\ \A e \in 1..entries : e # entry => e # entry'

LEMMA SteadySteps ==
  ASSUME EntryInv
  PROVE  /\ UNCHANGED <<entry, entries>> => Steady
         /\ RemoveEntry => Steady
         /\ \A cs : Subscribe(cs) => Steady
         /\ \A c : Unsubscribe(c) => Steady
<1> USE ConstantsAssumption DEF EntryInv, Steady, None
<1>1. UNCHANGED <<entry, entries>> => Steady
  OBVIOUS
<1>2. RemoveEntry => Steady
  BY DEF RemoveEntry
<1>3. ASSUME NEW cs, Subscribe(cs) PROVE Steady
  BY <1>3 DEF Subscribe
<1>4. ASSUME NEW c, Unsubscribe(c) PROVE Steady
  BY <1>4 DEF Unsubscribe
<1> QED BY <1>1, <1>2, <1>3, <1>4

\* What every step has to show.
LEMMA CauseKept ==
  ASSUME ThreadInv, ThreadInv', CauseInv, Steady,
         \A l \in Ids : Made(l)' => lis'[l].entry <= entries',
         \A p \in Procs :
           /\ proc'[p].entry <= entries'
           /\ proc'[p].pc = "clear" =>
                \/ proc'[p].entry = None \/ proc'[p].entry # entry'
                \/ proc[p].pc = "clear" /\ proc'[p].entry = proc[p].entry,
         \A l \in Ids : lis'[l].pc = "clear" =>
           \/ lis'[l].gone <= entries' /\ (lis'[l].gone = None \/ lis'[l].gone # entry')
           \/ lis[l].pc = "clear" /\ lis'[l].gone = lis[l].gone,
         \A l \in Ids : InTheLoop(l)' /\ lis'[l].cancelled =>
           /\ lis'[l].entry = lis[l].entry /\ lis'[l].gen = lis[l].gen /\ InTheLoop(l)
           /\ \/ lis[l].cancelled
              \/ lis[l].entry # entry'
              \/ slot'[lis[l].entry].gen > lis[l].gen,
         \A e \in Ids : slot'[e].gen >= slot[e].gen
  PROVE  CauseInv'
<1> USE ConstantsAssumption DEF None
<1>0. entries \in Nat /\ entries' \in Nat /\ entry \in Nat
  BY DEF ThreadInv, EntryInv
<1>1. ASSUME NEW p \in Procs, proc'[p].pc = "clear"
      PROVE  proc'[p].entry = None \/ proc'[p].entry # entry'
  <2>1. proc[p].entry \in Nat
    BY DEF ThreadInv, HandlerInv, Handlers
  <2>2. CASE proc[p].pc = "clear" /\ proc'[p].entry = proc[p].entry
    <3>1. proc[p].entry <= entries /\ (proc[p].entry = None \/ proc[p].entry # entry)
      BY <2>2 DEF CauseInv, At
    <3> QED BY <2>1, <2>2, <3>1, <1>0 DEF Steady
  <2> QED BY <1>1, <2>2
<1>2. ASSUME NEW l \in Ids, lis'[l].pc = "clear"
      PROVE  lis'[l].gone <= entries' /\ (lis'[l].gone = None \/ lis'[l].gone # entry')
  <2>1. lis[l].gone \in Nat
    BY DEF ThreadInv, ListenerInv, ListenerTypes, Listeners
  <2>2. CASE lis[l].pc = "clear" /\ lis'[l].gone = lis[l].gone
    <3>1. lis[l].gone <= entries /\ (lis[l].gone = None \/ lis[l].gone # entry)
      BY <2>2 DEF CauseInv
    <3> QED BY <2>1, <2>2, <3>1, <1>0 DEF Steady
  <2> QED BY <1>2, <2>2
<1>3. ASSUME NEW l \in Ids, InTheLoop(l)', lis'[l].cancelled
      PROVE  Superseded(l)' \/ lis'[l].entry # entry'
  <2>1. lis'[l].entry = lis[l].entry /\ lis'[l].gen = lis[l].gen /\ InTheLoop(l)
    BY <1>3
  <2>2. /\ lis[l].entry \in Ids /\ lis[l].entry <= entries
        /\ lis[l].gen \in Nat /\ slot[lis[l].entry].gen \in Nat /\ slot'[lis[l].entry].gen \in Nat
    <3>1. Made(l)
      BY <2>1 DEF InTheLoop, Made
    <3>2. lis[l].entry \in Ids /\ lis[l].entry <= entries
      BY <3>1 DEF CauseInv, ThreadInv, ListenerInv, GenerationInv
    <3>3. lis[l].gen \in Nat
      BY DEF ThreadInv, ListenerInv, ListenerTypes, Listeners
    <3>5. slot[lis[l].entry].gen \in Nat
      BY <3>2 DEF ThreadInv, ListenerInv, ListenerTypes, Slots
    <3>4. slot'[lis[l].entry].gen \in Nat
      BY <3>2 DEF ThreadInv, ListenerInv, ListenerTypes, Slots
    <3> QED BY <3>2, <3>3, <3>4, <3>5
  <2>3. CASE lis[l].cancelled
    <3>1. Superseded(l) \/ lis[l].entry # entry
      BY <2>1, <2>3 DEF CauseInv
    <3>2. Superseded(l) => slot'[lis[l].entry].gen > lis[l].gen
      BY <2>2 DEF Superseded
    <3>3. lis[l].entry # entry => lis[l].entry # entry'
      BY <2>2, <1>0 DEF Steady, Ids
    <3> QED BY <2>1, <3>1, <3>2, <3>3 DEF Superseded
  <2> QED BY <1>3, <2>1, <2>3 DEF Superseded
<1> QED BY <1>1, <1>2, <1>3 DEF CauseInv, At

\* A step of a handler that leaves the listeners alone.
LEMMA HandlerCause ==
  ASSUME ThreadInv, ThreadInv', CauseInv, Steady, UNCHANGED <<slot, lis>>,
         NEW p \in Procs, NEW r, Step(p, r),
         \/ r.entry \in {None, proc[p].entry, entry'} /\ r.pc # "clear"
         \/ r.entry = entry /\ entry' = None
  PROVE  CauseInv'
<1> USE ConstantsAssumption DEF None
<1>0. /\ entries \in Nat /\ entries' \in Nat /\ entries <= entries' /\ entry <= entries
      /\ entry' \in Nat /\ entry' <= entries' /\ entry \in Nat
  BY DEF ThreadInv, EntryInv, Steady
<1>1. /\ proc'[p] = r /\ \A q \in Procs : q # p => proc'[q] = proc[q]
      /\ \A q \in Procs : proc[q].entry \in Nat
  BY DEF ThreadInv, HandlerInv, Handlers, Step
<1>2. \A q \in Procs : proc[q].entry <= entries
  BY DEF CauseInv
<1>3. r.entry <= entries'
  BY <1>0, <1>1, <1>2
<1>4. \A q \in Procs : proc'[q].entry <= entries'
  BY <1>0, <1>1, <1>2, <1>3
<1>5. \A q \in Procs : proc'[q].pc = "clear" =>
        \/ proc'[q].entry = None \/ proc'[q].entry # entry'
        \/ proc[q].pc = "clear" /\ proc'[q].entry = proc[q].entry
  BY <1>1
<1>6. \A l \in Ids : Made(l)' => lis'[l].entry <= entries'
  <2>1. \A l \in Ids : lis[l].entry \in Nat
    BY DEF ThreadInv, ListenerInv, ListenerTypes, Listeners
  <2> QED BY <1>0, <2>1 DEF CauseInv, Made
<1>7. \A e \in Ids : slot'[e].gen >= slot[e].gen
  <2>1. \A e \in Ids : slot[e].gen \in Nat
    BY DEF ThreadInv, ListenerInv, ListenerTypes, Slots
  <2> QED BY <2>1
<1>8. \A l \in Ids : InTheLoop(l)' => InTheLoop(l)
  BY DEF InTheLoop
<1> QED BY <1>4, <1>5, <1>6, <1>7, <1>8, CauseKept

\* The same, for a handler that only moves on, or ends.
LEMMA GotoCause ==
  ASSUME ThreadInv, ThreadInv', CauseInv, Steady, UNCHANGED <<slot, lis>>,
         NEW p \in Procs, NEW pc \in Places \ {"clear"}, Goto(p, pc) \/ Step(p, Idle)
  PROVE  CauseInv'
<1> DEFINE r == [proc[p] EXCEPT !.pc = pc]
<1>1. CASE Goto(p, pc)
  <2>1. proc[p] \in Handlers
    BY DEF ThreadInv, HandlerInv
  <2>2. r.pc = pc /\ r.entry = proc[p].entry
    BY <2>1 DEF Handlers
  <2>3. Step(p, r)
    BY <1>1 DEF Goto
  <2> HIDE DEF r
  <2> QED BY <2>2, <2>3, HandlerCause
<1>2. CASE Step(p, Idle)
  <2>1. Idle.entry = None /\ Idle.pc # "clear"
    BY DEF Idle
  <2> QED BY <1>2, <2>1, HandlerCause
<1> QED BY <1>1, <1>2

\* A step of one listener, which cancels nobody.
LEMMA ListenerCause ==
  ASSUME ThreadInv, ThreadInv', CauseInv, Steady, UNCHANGED <<slot, proc>>,
         NEW l \in Ids, NEW r, lis' = [lis EXCEPT ![l] = r],
         r.entry = lis[l].entry, r.gen = lis[l].gen, Made(l),
         r.pc = "clear" => r.gone = entry /\ entry' = None,
         r.pc \in {"run", "unload"} => InTheLoop(l) /\ r.cancelled = lis[l].cancelled
  PROVE  CauseInv'
<1> USE ConstantsAssumption DEF None
<1>0. /\ entries \in Nat /\ entries' \in Nat /\ entries <= entries' /\ entry <= entries
      /\ entry \in Nat
  BY DEF ThreadInv, EntryInv, Steady
<1>1. lis'[l] = r /\ \A k \in Ids : k # l => lis'[k] = lis[k]
  BY DEF ThreadInv, ListenerInv, ListenerTypes
<1>2. \A q \in Procs : proc'[q].entry <= entries'
  <2>1. \A q \in Procs : proc[q].entry \in Nat /\ proc[q].entry <= entries
    BY DEF ThreadInv, HandlerInv, Handlers, CauseInv
  <2> QED BY <1>0, <2>1
<1>3. \A k \in Ids : Made(k)' => lis'[k].entry <= entries'
  <2>1. \A k \in Ids : lis[k].entry \in Nat /\ (Made(k) => lis[k].entry <= entries)
    BY DEF ThreadInv, ListenerInv, ListenerTypes, Listeners, CauseInv
  <2>2. \A k \in Ids : Made(k)' => Made(k) /\ lis'[k].entry = lis[k].entry
    BY <1>1 DEF Made
  <2> QED BY <1>0, <2>1, <2>2
<1>4. \A e \in Ids : slot'[e].gen >= slot[e].gen
  <2>1. \A e \in Ids : slot[e].gen \in Nat
    BY DEF ThreadInv, ListenerInv, ListenerTypes, Slots
  <2> QED BY <2>1
<1>5. \A k \in Ids : lis'[k].pc = "clear" =>
        \/ lis'[k].gone <= entries' /\ (lis'[k].gone = None \/ lis'[k].gone # entry')
        \/ lis[k].pc = "clear" /\ lis'[k].gone = lis[k].gone
  BY <1>0, <1>1
<1>6. \A k \in Ids : InTheLoop(k)' /\ lis'[k].cancelled =>
        /\ lis'[k].entry = lis[k].entry /\ lis'[k].gen = lis[k].gen /\ InTheLoop(k)
        /\ lis[k].cancelled
  BY <1>1 DEF InTheLoop
<1> QED BY <1>2, <1>3, <1>4, <1>5, <1>6, CauseKept

\* A step that clears a slot whose entry has left the map, or one's own.
LEMMA ClearCause ==
  ASSUME ThreadInv, ThreadInv', CauseInv, UNCHANGED <<entry, entries>>,
         NEW e \in 0..MaxMade, slot' = Cleared(e),
         \A k \in Ids :
           /\ lis'[k].entry = lis[k].entry /\ lis'[k].gen = lis[k].gen
           /\ lis'[k].pc = "none" <=> lis[k].pc = "none"
           /\ lis'[k].pc = "clear" => lis[k].pc = "clear" /\ lis'[k].gone = lis[k].gone
           /\ InTheLoop(k)' => /\ InTheLoop(k)
                               /\ \/ lis'[k].cancelled => lis[k].cancelled
                                  \/ e # None /\ k = slot[e].lis /\ e # entry,
         \A q \in Procs : proc'[q].entry \in {None, proc[q].entry} /\
           (proc'[q].pc = "clear" => proc[q].pc = "clear" /\ proc'[q].entry = proc[q].entry)
  PROVE  CauseInv'
<1> USE ConstantsAssumption DEF None
<1>0. entries \in Nat /\ Steady
  BY SteadySteps DEF ThreadInv, EntryInv
<1>1. \A q \in Procs : proc'[q].entry <= entries'
  <2>1. \A q \in Procs : proc[q].entry \in Nat /\ proc[q].entry <= entries
    BY DEF ThreadInv, HandlerInv, Handlers, CauseInv
  <2> QED BY <1>0, <2>1
<1>2. \A k \in Ids : Made(k)' => lis'[k].entry <= entries'
  BY DEF Made, CauseInv
<1>3. \A d \in Ids : slot'[d].gen >= slot[d].gen
  <2>1. \A d \in Ids : slot[d].gen \in Nat /\ slot'[d].gen = slot[d].gen
    BY SlotCleared DEF ThreadInv, ListenerInv, ListenerTypes, Slots
  <2> QED BY <2>1
<1>4. ASSUME NEW k \in Ids, InTheLoop(k)', lis'[k].cancelled
      PROVE  InTheLoop(k) /\ (lis[k].cancelled \/ lis[k].entry # entry')
  <2>1. CASE e # None /\ k = slot[e].lis /\ e # entry
    <3>1. e \in Ids /\ slot[e].lis # None
      BY <2>1 DEF Ids
    <3>2. lis[k].entry = e
      BY <2>1, <3>1 DEF ThreadInv, ListenerInv, GenerationInv
    <3> QED BY <2>1, <3>2, <1>4
  <2> QED BY <1>4, <2>1
<1> QED BY <1>0, <1>1, <1>2, <1>3, <1>4, CauseKept

\* A step of neither handlers nor listeners.
LEMMA StillCause ==
  ASSUME ThreadInv, ThreadInv', CauseInv, Steady, UNCHANGED <<slot, lis, proc>>
  PROVE  CauseInv'
<1> USE ConstantsAssumption DEF None
<1>0. entries \in Nat /\ entries' \in Nat /\ entries <= entries'
  BY DEF ThreadInv, EntryInv, Steady
<1>1. \A q \in Procs : proc'[q].entry <= entries'
  <2>1. \A q \in Procs : proc[q].entry \in Nat /\ proc[q].entry <= entries
    BY DEF ThreadInv, HandlerInv, Handlers, CauseInv
  <2> QED BY <1>0, <2>1
<1>2. \A l \in Ids : Made(l)' => lis'[l].entry <= entries'
  <2>1. \A l \in Ids : lis[l].entry \in Nat
    BY DEF ThreadInv, ListenerInv, ListenerTypes, Listeners
  <2> QED BY <1>0, <2>1 DEF CauseInv, Made
<1>3. \A e \in Ids : slot'[e].gen >= slot[e].gen
  <2>1. \A e \in Ids : slot[e].gen \in Nat
    BY DEF ThreadInv, ListenerInv, ListenerTypes, Slots
  <2> QED BY <2>1
<1>4. \A l \in Ids : InTheLoop(l)' => InTheLoop(l)
  BY DEF InTheLoop
<1> QED BY <1>1, <1>2, <1>3, <1>4, CauseKept

\* Requests that begin, and connections that close.
LEMMA BeginCause ==
  ASSUME ThreadInv, ThreadInv', CauseInv, NEW c \in Conns,
         BeginResume(c) \/ (\E op \in Allowed \ {"timeout"} : BeginOther(c, op))
                        \/ CloseConnection(c)
  PROVE  CauseInv'
<1>1. ASSUME NEW op \in Allowed \cup {"resume"}, Begin(c, op),
             UNCHANGED <<live, entryVars, lisVars>>
      PROVE  CauseInv'
  <2> DEFINE r == [Idle EXCEPT !.pc = op, !.op = op, !.conn = c]
  <2>1. r.entry = None /\ r.pc # "clear"
    BY ConstantsAssumption DEF Idle, Allowances
  <2>2. Step("request", r)
    BY <1>1 DEF Begin
  <2>3. Steady /\ UNCHANGED <<slot, lis>>
    BY <1>1, SteadySteps DEF ThreadInv, entryVars, lisVars
  <2> HIDE DEF r
  <2> QED BY <2>1, <2>2, <2>3, HandlerCause DEF Procs
<1>2. CASE CloseConnection(c)
  <2> DEFINE r == [Idle EXCEPT !.pc = "gone", !.op = "close", !.conn = c]
  <2>1. r.entry = None /\ r.pc # "clear"
    BY DEF Idle
  <2>2. Steady /\ UNCHANGED <<slot, lis>> /\ (Step("close", r) \/ UNCHANGED proc)
    BY <1>2, SteadySteps DEF ThreadInv, CloseConnection, lisVars
  <2> HIDE DEF r
  <2> QED BY <2>1, <2>2, HandlerCause, StillCause DEF Procs
<1> QED BY <1>1, <1>2 DEF BeginResume, BeginOther

\* The steps of a request that leave the listeners alone.
LEMMA RequestCause ==
  ASSUME ThreadInv, ThreadInv', CauseInv,
         \/ ResumeStart \/ ResumeFind \/ ResumeState \/ ResumeLoad \/ EnsureGet
         \/ EnsureSubscribed \/ EnsureWatch \/ EnsureRevoke \/ ColdRespond \/ ResumeSender
         \/ HandleUnsubscribe \/ ArchiveRemove \/ ArchiveShut \/ HandleUnarchive
         \/ CloseTeardown
  PROVE  CauseInv'
<1> DEFINE R == proc["request"]
<1>0. R \in Handlers
  BY RequestKnown DEF ThreadInv
<1>1. ASSUME UNCHANGED <<entry, entries, slot, lis>>, NEW p \in Procs,
             NEW pc \in Places \ {"clear"}, Goto(p, pc) \/ Step(p, Idle)
      PROVE  CauseInv'
  BY <1>1, SteadySteps, GotoCause DEF ThreadInv
<1>2. CASE ResumeStart
  <2>1. UNCHANGED <<entry, entries, slot, lis>>
    BY <1>2 DEF ResumeStart, entryVars, lisVars
  <2>2. Goto("request", "find") \/ Step("request", Idle)
    BY <1>2 DEF ResumeStart
  <2> QED BY <2>1, <2>2, <1>1 DEF Procs, Places
<1>3. CASE ResumeFind
  <2> DEFINE r == [R EXCEPT !.pc = "state", !.inst = mgr]
  <2>1. r.entry = R.entry /\ r.pc # "clear"
    BY <1>0 DEF Handlers
  <2>2. Steady /\ UNCHANGED <<entry, entries, slot, lis>>
    BY <1>3, SteadySteps DEF ThreadInv, ResumeFind, entryVars, lisVars
  <2>3. Step("request", r) \/ Goto("request", "load")
    BY <1>3 DEF ResumeFind
  <2> HIDE DEF r
  <2> QED BY <2>1, <2>2, <2>3, <1>1, HandlerCause DEF Procs, Places
<1>4. CASE ResumeState
  <2> DEFINE r == [R EXCEPT !.pc = "watch", !.entry = entry']
  <2>1. r.entry = entry' /\ r.pc # "clear"
    BY <1>0 DEF Handlers
  <2>2. Steady /\ UNCHANGED <<slot, lis>> /\ Step("request", r)
    BY <1>4, SteadySteps DEF ThreadInv, ResumeState, lisVars
  <2> HIDE DEF r
  <2> QED BY <2>1, <2>2, HandlerCause DEF Procs
<1>5. CASE ResumeLoad
  <2> DEFINE r == [R EXCEPT !.pc = "ensure", !.op = "cold"]
  <2>1. r.entry = R.entry /\ r.pc # "clear"
    BY <1>0 DEF Handlers
  <2>2. Steady /\ UNCHANGED <<slot, lis>> /\ Step("request", r)
    BY <1>5, SteadySteps DEF ThreadInv, ResumeLoad, entryVars, lisVars
  <2> HIDE DEF r
  <2> QED BY <2>1, <2>2, HandlerCause DEF Procs
<1>6. CASE EnsureGet
  <2> DEFINE r == [R EXCEPT !.pc = "subscribe", !.inst = mgr]
  <2>1. r.entry = R.entry /\ r.pc # "clear"
    BY <1>0 DEF Handlers
  <2>2. Steady /\ UNCHANGED <<entry, entries, slot, lis>>
    BY <1>6, SteadySteps DEF ThreadInv, EnsureGet, entryVars, lisVars
  <2>3. Step("request", r) \/ Goto("request", "respond")
    BY <1>6 DEF EnsureGet
  <2> HIDE DEF r
  <2> QED BY <2>1, <2>2, <2>3, <1>1, HandlerCause DEF Procs, Places
<1>7. CASE EnsureSubscribed
  <2> DEFINE r == [R EXCEPT !.pc = "watch", !.entry = entry']
  <2>1. r.entry = entry' /\ r.pc # "clear"
    BY <1>0 DEF Handlers
  <2>2. Steady /\ UNCHANGED <<slot, lis>>
    BY <1>7, SteadySteps DEF ThreadInv, EnsureSubscribed, entryVars, lisVars
  <2>3. Step("request", r) \/ Goto("request", "respond")
    BY <1>7 DEF EnsureSubscribed
  <2> HIDE DEF r
  <2> QED BY <2>1, <2>2, <2>3, GotoCause, HandlerCause DEF Procs, Places
<1>8. CASE EnsureWatch
  <2> DEFINE r == [R EXCEPT !.pc = "listen", !.watch = entry]
  <2>1. r.entry = R.entry /\ r.pc # "clear"
    BY <1>0 DEF Handlers
  <2>2. Steady /\ UNCHANGED <<entry, entries, slot, lis>>
    BY <1>8, SteadySteps DEF ThreadInv, EnsureWatch, entryVars, lisVars
  <2>3. Step("request", r) \/ Goto("request", "revoke") \/ Step("request", Idle)
    BY <1>8 DEF EnsureWatch, EnsureFails
  <2> HIDE DEF r
  <2> QED BY <2>1, <2>2, <2>3, <1>1, HandlerCause DEF Procs, Places
<1>9. CASE EnsureRevoke
  <2>1. Steady /\ UNCHANGED <<slot, lis>> /\ Goto("request", "respond")
    BY <1>9, SteadySteps DEF ThreadInv, EnsureRevoke, lisVars
  <2> QED BY <2>1, GotoCause DEF Procs, Places
<1>10. CASE ColdRespond
  BY <1>1, <1>10 DEF ColdRespond, Procs, Places, entryVars, lisVars
<1>11. CASE ResumeSender
  <2> DEFINE l == slot[R.entry].lis
             r == [R EXCEPT !.pc = "send", !.lis = l]
  <2>1. r.entry = R.entry /\ r.pc # "clear"
    BY <1>0 DEF Handlers
  <2>2. Steady /\ UNCHANGED <<entry, entries, slot, lis>>
    BY <1>11, SteadySteps DEF ThreadInv, ResumeSender, entryVars, lisVars
  <2>3. Step("request", r) \/ Step("request", Idle)
    BY <1>11 DEF ResumeSender
  <2> HIDE DEF r
  <2> QED BY <2>1, <2>2, <2>3, <1>1, HandlerCause DEF Procs, Places
<1>12. CASE HandleUnsubscribe
  <2>1. Steady /\ UNCHANGED <<slot, lis>> /\ (Goto("request", "final") \/ Step("request", Idle))
    BY <1>12, SteadySteps DEF ThreadInv, HandleUnsubscribe, entryVars, lisVars
  <2> QED BY <2>1, GotoCause DEF Procs, Places
<1>13. CASE ArchiveRemove
  <2> DEFINE pc == IF mgr = None THEN "final" ELSE "shut"
             r == [R EXCEPT !.pc = pc, !.inst = mgr]
  <2>1. r.entry = R.entry /\ r.pc # "clear"
    BY <1>0 DEF Handlers
  <2>2. Steady /\ UNCHANGED <<slot, lis>> /\ Step("request", r)
    BY <1>13, SteadySteps DEF ThreadInv, ArchiveRemove, entryVars, lisVars
  <2> HIDE DEF r
  <2> QED BY <2>1, <2>2, HandlerCause DEF Procs
<1>14. CASE ArchiveShut
  BY <1>1, <1>14 DEF ArchiveShut, Procs, Places, entryVars, lisVars
<1>15. CASE HandleUnarchive
  BY <1>1, <1>15 DEF HandleUnarchive, Procs, Places, entryVars, lisVars
<1>16. CASE CloseTeardown
  BY <1>1, <1>16 DEF CloseTeardown, Procs, Places, entryVars, lisVars
<1> QED BY <1>2, <1>3, <1>4, <1>5, <1>6, <1>7, <1>8, <1>9, <1>10, <1>11, <1>12, <1>13, <1>14,
           <1>15, <1>16

\* A new listener supersedes the one it replaces.
LEMMA EnsureListenerCause ==
  ASSUME ThreadInv, ThreadInv', CauseInv, EnsureListener
  PROVE  CauseInv'
<1> USE ConstantsAssumption DEF None
<1> DEFINE R == proc["request"]
           pc == IF R.op = "cold" THEN "respond" ELSE "sender"
           q == [R EXCEPT !.pc = pc]
<1>1. R \in Handlers /\ R.entry \in Ids /\ R.watch \in Ids /\ R.inst \in Ids
  BY RequestKnown DEF ThreadInv, EnsureListener, At, Ready, Handlers, Ids, None
<1>2. /\ Steady /\ UNCHANGED <<entry, entries>> /\ Step("request", q)
      /\ q.entry = R.entry /\ q.pc # "clear"
  <2>1. Steady /\ UNCHANGED <<entry, entries>> /\ Step("request", q)
    BY SteadySteps DEF ThreadInv, EnsureListener, entryVars, Goto
  <2>2. q.entry = R.entry /\ q.pc = pc
    BY <1>1 DEF Handlers
  <2> QED BY <2>1, <2>2
<1> HIDE DEF q
<1>3. CASE UNCHANGED lisVars
  BY <1>2, <1>3, HandlerCause DEF Procs, lisVars
<1>4. CASE made < MaxMade /\ made' = made + 1 /\ SetListener(made', R.entry, R.inst, R.watch)
  <2> DEFINE l == made'
             e == R.entry
             old == slot[e].lis
  <2>0. made \in Nat /\ l \in Ids /\ e \in Ids /\ slot[e] \in Slots /\ entries \in Nat
    BY <1>1, <1>4 DEF ThreadInv, ListenerInv, ListenerTypes, EntryInv, Ids
  <2>1. e <= entries /\ \A p \in Procs : proc[p].entry <= entries
    BY DEF CauseInv, Procs
  <2>2. \A p \in Procs : proc'[p].entry <= entries'
    BY <1>2, <2>1 DEF ThreadInv, HandlerInv, Step
  <2>3. \A p \in Procs : proc'[p].pc = "clear" =>
          proc[p].pc = "clear" /\ proc'[p].entry = proc[p].entry
    BY <1>2 DEF ThreadInv, HandlerInv, Step
  <2>4. slot' = [slot EXCEPT ![e] = [lis |-> l, gen |-> slot[e].gen + 1, inst |-> R.inst]]
    BY <1>4 DEF SetListener
  <2>5. slot'[e].gen = slot[e].gen + 1 /\ \A d \in Ids : d # e => slot'[d] = slot[d]
    BY <2>0, <2>4 DEF ThreadInv, ListenerInv, ListenerTypes
  <2>6. \A d \in Ids : slot[d].gen \in Nat
    BY DEF ThreadInv, ListenerInv, ListenerTypes, Slots
  <2>7. \A d \in Ids : slot'[d].gen >= slot[d].gen
    BY <2>5, <2>6
  <2>8. \A k \in Ids : k # l /\ k # old => lis'[k] = lis[k]
    BY <1>4 DEF SetListener
  <2>9. /\ lis'[l].entry = e /\ lis'[l].pc = "run" /\ lis'[l].cancelled = FALSE
    <3>1. lis'[l] = [NoListener EXCEPT !.pc = "run", !.entry = e, !.gen = slot[e].gen + 1,
                                       !.inst = R.inst, !.watch = R.watch, !.seen = had[R.watch]]
      BY <1>4, <2>0 DEF SetListener
    <3> QED BY <3>1 DEF NoListener
  <2>10. old \in Ids /\ old # l =>
           /\ lis'[old].entry = lis[old].entry /\ lis'[old].gen = lis[old].gen
           /\ lis'[old].pc = lis[old].pc /\ lis'[old].gone = lis[old].gone
    <3> SUFFICES ASSUME old \in Ids, old # l
                 PROVE  /\ lis'[old].entry = lis[old].entry /\ lis'[old].gen = lis[old].gen
                        /\ lis'[old].pc = lis[old].pc /\ lis'[old].gone = lis[old].gone
      OBVIOUS
    <3>1. lis'[old] = [lis[old] EXCEPT !.cancelled = TRUE] /\ lis[old] \in Listeners
      BY <1>4 DEF SetListener, ThreadInv, ListenerInv, ListenerTypes
    <3> QED BY <3>1 DEF Listeners
  <2>11. \A k \in Ids : k # l => /\ lis'[k].entry = lis[k].entry /\ lis'[k].gen = lis[k].gen
                                 /\ lis'[k].pc = lis[k].pc /\ lis'[k].gone = lis[k].gone
    BY <2>8, <2>10
  <2>12. \A k \in Ids : Made(k)' => lis'[k].entry <= entries'
    BY <1>2, <2>1, <2>9, <2>11 DEF Made, CauseInv
  <2>13. \A k \in Ids : lis'[k].pc = "clear" => lis[k].pc = "clear" /\ lis'[k].gone = lis[k].gone
    BY <2>9, <2>11
  <2>14. ASSUME NEW k \in Ids, InTheLoop(k)', lis'[k].cancelled
         PROVE  /\ lis'[k].entry = lis[k].entry /\ lis'[k].gen = lis[k].gen /\ InTheLoop(k)
                /\ lis[k].cancelled \/ slot'[lis[k].entry].gen > lis[k].gen
    <3>1. k # l
      BY <2>9, <2>14
    <3>2. InTheLoop(k) /\ lis'[k].entry = lis[k].entry /\ lis'[k].gen = lis[k].gen
      BY <2>11, <2>14, <3>1 DEF InTheLoop
    <3>3. CASE k = old
      <4>1. lis[k].entry = e /\ lis[k].gen = slot[e].gen
        <5>1. slot[e].lis # None
          BY <3>3 DEF Ids
        <5> QED BY <5>1, <2>0, <3>3 DEF ThreadInv, ListenerInv, GenerationInv
      <4> QED BY <3>2, <4>1, <2>0, <2>5, <2>6
    <3>4. CASE k # old
      BY <2>8, <2>14, <3>1, <3>2, <3>4
    <3> QED BY <3>3, <3>4
  <2> HIDE DEF l, e, old
  <2> QED BY <1>2, <2>2, <2>3, <2>7, <2>12, <2>13, <2>14, CauseKept
<1> QED BY <1>3, <1>4 DEF EnsureListener

\* A command is queued.
LEMMA ResumeSendCause ==
  ASSUME ThreadInv, ThreadInv', CauseInv, ResumeSend
  PROVE  CauseInv'
<1> USE ConstantsAssumption DEF None
<1> DEFINE l == proc["request"].lis
<1>1. Steady /\ UNCHANGED <<entry, entries, slot>> /\ Step("request", Idle)
  BY SteadySteps DEF ThreadInv, ResumeSend, entryVars
<1>2. CASE UNCHANGED lis
  BY <1>1, <1>2, GotoCause DEF Procs, Places
<1>3. CASE lis' = [lis EXCEPT ![l].chan = Append(@, Conn("request"))]
  <2>1. l \in Ids /\ lis[l] \in Listeners
    BY RequestKnown DEF ThreadInv, ResumeSend, At, Ready, ListenerInv, ListenerTypes
  <2>2. /\ lis'[l] = [lis[l] EXCEPT !.chan = Append(lis[l].chan, Conn("request"))]
        /\ \A k \in Ids : k # l => lis'[k] = lis[k]
    BY <1>3, <2>1 DEF ThreadInv, ListenerInv, ListenerTypes
  <2>3. /\ lis'[l].entry = lis[l].entry /\ lis'[l].gen = lis[l].gen /\ lis'[l].pc = lis[l].pc
        /\ lis'[l].gone = lis[l].gone /\ lis'[l].cancelled = lis[l].cancelled
    BY <2>1, <2>2 DEF Listeners
  <2>4. \A k \in Ids : /\ lis'[k].entry = lis[k].entry /\ lis'[k].gen = lis[k].gen
                       /\ lis'[k].pc = lis[k].pc /\ lis'[k].gone = lis[k].gone
                       /\ lis'[k].cancelled = lis[k].cancelled
    BY <2>2, <2>3
  <2>5. \A q \in Procs : /\ proc'[q].entry <= entries'
                         /\ proc'[q].pc = "clear" =>
                              proc[q].pc = "clear" /\ proc'[q].entry = proc[q].entry
    <3>1. Idle.entry = 0 /\ Idle.pc = "idle" /\ entries \in Nat
      BY DEF Idle, ThreadInv, EntryInv
    <3>2. \A q \in Procs : proc[q].entry <= entries
      BY DEF CauseInv
    <3> QED BY <1>1, <3>1, <3>2 DEF Step, ThreadInv, HandlerInv
  <2>6. \A e \in Ids : slot'[e].gen >= slot[e].gen
    <3>1. \A e \in Ids : slot[e].gen \in Nat
      BY DEF ThreadInv, ListenerInv, ListenerTypes, Slots
    <3> QED BY <1>1, <3>1
  <2>7. \A k \in Ids : Made(k)' => lis'[k].entry <= entries'
    BY <1>1, <2>4 DEF Made, CauseInv
  <2>8. \A k \in Ids : InTheLoop(k)' <=> InTheLoop(k)
    BY <2>4 DEF InTheLoop
  <2> HIDE DEF l
  <2> QED BY <1>1, <2>4, <2>5, <2>6, <2>7, <2>8, CauseKept
<1> QED BY <1>2, <1>3 DEF ResumeSend

\* A teardown removes the entry first, and cancels its listener then.
LEMMA FinalCause ==
  ASSUME ThreadInv, ThreadInv', CauseInv, NEW p \in Procs, Teardown(p)
  PROVE  CauseInv'
<1> USE ConstantsAssumption DEF None
<1>0. proc[p] \in Handlers
  BY DEF ThreadInv, HandlerInv
<1>1. CASE FinalUnpend(p)
  <2>1. Steady /\ UNCHANGED <<slot, lis>> /\ Goto(p, "remove")
    BY <1>1, SteadySteps DEF ThreadInv, FinalUnpend, entryVars, lisVars
  <2> QED BY <2>1, GotoCause DEF Places
<1>2. CASE FinalRemove(p)
  <2> DEFINE r == [proc[p] EXCEPT !.pc = "clear", !.entry = entry]
  <2>1. Steady /\ UNCHANGED <<slot, lis>> /\ Step(p, r) /\ entry' = None
    BY <1>2, SteadySteps DEF ThreadInv, FinalRemove, RemoveEntry, lisVars
  <2>2. r.entry = entry
    BY <1>0 DEF Handlers
  <2> HIDE DEF r
  <2> QED BY <2>1, <2>2, HandlerCause
<1>3. CASE FinalClear(p)
  <2> DEFINE e == proc[p].entry
  <2>1. /\ e \in 0..MaxMade /\ slot' = Cleared(e) /\ lis' = CancelOf(e) /\ Step(p, Idle)
        /\ UNCHANGED <<entry, entries>>
    BY <1>0, <1>3 DEF FinalClear, Handlers, entryVars
  <2>2. e = None \/ e # entry
    BY <1>3 DEF FinalClear, CauseInv
  <2>3. \A q \in Procs : proc'[q].entry \in {None, proc[q].entry} /\
          (proc'[q].pc = "clear" => proc[q].pc = "clear" /\ proc'[q].entry = proc[q].entry)
    BY <2>1 DEF Step, Idle, ThreadInv, HandlerInv
  <2> HIDE DEF e
  <2>4. ListenerInv
    BY DEF ThreadInv
  <2>5. \A k \in Ids : InTheLoop(k)' => InTheLoop(k) /\
          ((lis'[k].cancelled => lis[k].cancelled) \/ (e # None /\ k = slot[e].lis /\ e # entry))
    BY <2>1, <2>2, <2>4, CancelTypes DEF InTheLoop
  <2> QED BY <2>1, <2>3, <2>4, <2>5, CancelTypes, ClearCause
<1> QED BY <1>1, <1>2, <1>3 DEF Teardown

\* A listener in its loop, on its way out, or claiming an unload.
LEMMA LoopCause ==
  ASSUME ThreadInv, ThreadInv', CauseInv, NEW l \in Ids,
         \/ ListenerCancelled(l) \/ ListenerResume(l) \/ ListenerEventsEnd(l)
         \/ ListenerSync(l) \/ DelayPasses(l) \/ ListenerTrigger(l) \/ ListenerClaim(l)
         \/ UnloadRemove(l)
  PROVE  CauseInv'
<1> DEFINE q == Synced(lis[l])
<1>0. lis[l].pc \in {"run", "unload", "remove"}
  BY DEF ListenerCancelled, ListenerResume, ListenerEventsEnd, ListenerSync, DelayPasses,
         ListenerTrigger, ListenerClaim, UnloadRemove, Running
<1>1. lis[l] \in Listeners /\ Made(l) /\ lis \in [Ids -> Listeners]
  BY <1>0 DEF ThreadInv, ListenerInv, ListenerTypes, Made
<1>2. /\ q \in Listeners /\ q.pc = lis[l].pc /\ q.entry = lis[l].entry /\ q.gen = lis[l].gen
      /\ q.cancelled = lis[l].cancelled
  BY <1>0, SyncedTypes DEF ThreadInv
<1> HIDE DEF q
<1>3. Steady /\ UNCHANGED <<slot, proc>>
  <2>1. UNCHANGED <<slot, proc>>
    BY DEF ListenerCancelled, ListenerResume, ListenerEventsEnd, ListenerSync, DelayPasses,
           ListenerTrigger, ListenerClaim, UnloadRemove, LisFrame
  <2>2. Steady
    BY SteadySteps DEF ThreadInv, ListenerCancelled, ListenerResume, ListenerEventsEnd,
       ListenerSync, DelayPasses, ListenerTrigger, ListenerClaim, UnloadRemove, entryVars
  <2> QED BY <2>1, <2>2
<1>4. ASSUME NEW b \in Listeners, NEW r, lis' = [lis EXCEPT ![l] = r],
             b.entry = lis[l].entry, b.gen = lis[l].gen, b.cancelled = lis[l].cancelled,
             r.entry = b.entry, r.gen = b.gen, r.cancelled = b.cancelled,
             r.pc = "clear" => r.gone = entry /\ entry' = None,
             r.pc \in {"run", "unload"} => InTheLoop(l)
      PROVE  CauseInv'
  BY <1>1, <1>3, <1>4, ListenerCause
<1>5. CASE ListenerCancelled(l) \/ ListenerEventsEnd(l)
  <2> DEFINE r == [lis[l] EXCEPT !.pc = "exit"]
  <2>1. lis' = [lis EXCEPT ![l] = r]
    BY <1>5, <1>1 DEF ListenerCancelled, ListenerEventsEnd, Leaves
  <2>2. r.pc = "exit" /\ r.entry = lis[l].entry /\ r.gen = lis[l].gen
        /\ r.cancelled = lis[l].cancelled
    BY <1>1 DEF Listeners
  <2> HIDE DEF r
  <2> QED BY <1>1, <2>1, <2>2, <1>4
<1>6. CASE ListenerResume(l)
  <2> DEFINE r == [lis[l] EXCEPT !.chan = Tail(lis[l].chan)]
  <2>1. lis' = [lis EXCEPT ![l] = r] /\ InTheLoop(l)
    BY <1>6, <1>1 DEF ListenerResume, Running, InTheLoop
  <2>2. r.pc = lis[l].pc /\ r.entry = lis[l].entry /\ r.gen = lis[l].gen
        /\ r.cancelled = lis[l].cancelled
    BY <1>1 DEF Listeners
  <2> HIDE DEF r
  <2> QED BY <1>1, <2>1, <2>2, <1>4 DEF InTheLoop
<1>7. CASE ListenerSync(l)
  <2>1. lis' = [lis EXCEPT ![l] = q] /\ InTheLoop(l)
    BY <1>7, <1>1 DEF ListenerSync, Running, InTheLoop, q
  <2> QED BY <1>1, <1>2, <2>1, <1>4 DEF InTheLoop
<1>8. CASE DelayPasses(l)
  <2> DEFINE r == [lis[l] EXCEPT !.elapsed = TRUE]
  <2>1. lis' = [lis EXCEPT ![l] = r] /\ InTheLoop(l)
    BY <1>8, <1>1 DEF DelayPasses, Running, InTheLoop
  <2>2. r.pc = lis[l].pc /\ r.entry = lis[l].entry /\ r.gen = lis[l].gen
        /\ r.cancelled = lis[l].cancelled
    BY <1>1 DEF Listeners
  <2> HIDE DEF r
  <2> QED BY <1>1, <2>1, <2>2, <1>4 DEF InTheLoop
<1>9. CASE ListenerTrigger(l)
  <2>1. PICK pc \in {"unload", "exit"} : lis' = [lis EXCEPT ![l] = [q EXCEPT !.pc = pc]]
    BY <1>9 DEF ListenerTrigger, q
  <2> DEFINE r == [q EXCEPT !.pc = pc]
  <2>2. r.pc = pc /\ r.entry = q.entry /\ r.gen = q.gen /\ r.cancelled = q.cancelled
    BY <1>2 DEF Listeners
  <2>3. InTheLoop(l) /\ lis' = [lis EXCEPT ![l] = r]
    BY <1>9, <2>1 DEF ListenerTrigger, Running, InTheLoop
  <2> HIDE DEF r
  <2> QED BY <1>2, <2>2, <2>3, <1>4
<1>10. CASE ListenerClaim(l)
  <2> DEFINE r1 == [q EXCEPT !.pc = "remove"]
             r2 == [q EXCEPT !.pc = "run", !.elapsed = FALSE]
  <2>1. InTheLoop(l) /\ (lis' = [lis EXCEPT ![l] = r1] \/ lis' = [lis EXCEPT ![l] = r2])
    BY <1>10 DEF ListenerClaim, InTheLoop, q
  <2>2. /\ r1.pc = "remove" /\ r1.entry = q.entry /\ r1.gen = q.gen
        /\ r1.cancelled = q.cancelled
    BY <1>2 DEF Listeners
  <2>3. /\ r2.pc = "run" /\ r2.entry = q.entry /\ r2.gen = q.gen
        /\ r2.cancelled = q.cancelled
    BY <1>2 DEF Listeners
  <2> HIDE DEF r1, r2
  <2>4. CASE lis' = [lis EXCEPT ![l] = r1]
    BY <1>2, <2>1, <2>2, <2>4, <1>4
  <2>5. CASE lis' = [lis EXCEPT ![l] = r2]
    BY <1>2, <2>1, <2>3, <2>5, <1>4
  <2> QED BY <2>1, <2>4, <2>5
<1>11. CASE UnloadRemove(l)
  <2> DEFINE r == [lis[l] EXCEPT !.pc = "clear", !.gone = entry]
  <2>1. lis' = [lis EXCEPT ![l] = r] /\ entry' = None
    BY <1>11, <1>1 DEF UnloadRemove, RemoveEntry
  <2>2. r.pc = "clear" /\ r.gone = entry /\ r.entry = lis[l].entry /\ r.gen = lis[l].gen
        /\ r.cancelled = lis[l].cancelled
    BY <1>1 DEF Listeners
  <2> HIDE DEF r
  <2> QED BY <1>1, <2>1, <2>2, <1>4
<1> QED BY <1>5, <1>6, <1>7, <1>8, <1>9, <1>10, <1>11

\* A listener clears the slot of the entry it has removed, then its own.
LEMMA LeaveCause ==
  ASSUME ThreadInv, ThreadInv', CauseInv, NEW l \in Ids, UnloadClear(l) \/ ListenerExit(l)
  PROVE  CauseInv'
<1> USE ConstantsAssumption DEF None
<1> DEFINE mine == IF Registered(l) THEN lis[l].entry ELSE None
           e == IF lis[l].pc = "clear" THEN lis[l].gone ELSE mine
           pc == IF lis[l].pc = "clear" THEN "exit" ELSE "done"
<1>0. /\ lis[l] \in Listeners /\ lis[l].entry \in Ids /\ Made(l) /\ ListenerInv
      /\ lis[l].pc \in {"clear", "exit"} /\ UNCHANGED <<entry, entries, proc>>
  <2>1. lis[l].pc \in {"clear", "exit"} /\ UNCHANGED <<entry, entries, proc>>
    BY DEF UnloadClear, ListenerExit, LisFrame, entryVars
  <2> QED BY <2>1 DEF ThreadInv, ListenerInv, ListenerTypes, GenerationInv, Made
<1>1. e \in 0..MaxMade
  <2>1. lis[l].gone \in 0..MaxMade /\ lis[l].entry \in 0..MaxMade
    BY <1>0 DEF Listeners
  <2> QED BY <2>1, NoneIsTyped
<1>2. slot' = Cleared(e)
  BY DEF UnloadClear, ListenerExit
<1>3. \/ lis' = [CancelOf(e) EXCEPT ![l].pc = "exit"] /\ pc = "exit"
      \/ lis' = [CancelOf(e) EXCEPT ![l].pc = "done", ![l].chan = <<>>] /\ pc = "done"
  BY DEF UnloadClear, ListenerExit
<1>4. e # None => e # entry \/ slot[e].lis \in {None, l}
  <2>1. CASE lis[l].pc = "clear"
    BY <2>1 DEF CauseInv
  <2>2. CASE lis[l].pc # "clear" /\ Registered(l) /\ slot[lis[l].entry].lis # None
    <3> DEFINE k == slot[lis[l].entry].lis
    <3>1. k \in Ids /\ k <= made /\ lis[k].entry = lis[l].entry /\ lis[k].gen = lis[l].gen
      <4>1. slot[lis[l].entry] \in Slots
        BY <1>0 DEF ListenerInv, ListenerTypes
      <4>2. k \in Ids
        BY <2>2, <4>1 DEF Slots, Ids
      <4> QED BY <1>0, <2>2, <4>2 DEF ListenerInv, GenerationInv, Registered
    <3>2. Made(k)
      BY <3>1 DEF ThreadInv, ListenerInv, GenerationInv
    <3>3. k = l
      BY <3>1, <3>2, <1>0 DEF ListenerInv, GenerationInv
    <3> QED BY <2>2, <3>3
  <2> QED BY <2>1, <2>2
<1> HIDE DEF e, pc
<1>5. CancelOf(e) \in [Ids -> Listeners] /\ CancelOf(e)[l] \in Listeners
  BY <1>0, <1>1, CancelTypes
<1>6. \A k \in Ids : k # l => lis'[k] = CancelOf(e)[k]
  BY <1>3, <1>5
<1>7. /\ lis'[l].pc = pc /\ lis'[l].entry = CancelOf(e)[l].entry
      /\ lis'[l].gen = CancelOf(e)[l].gen
  <2>1. CASE lis' = [CancelOf(e) EXCEPT ![l].pc = "exit"] /\ pc = "exit"
    <3>1. lis'[l] = [CancelOf(e)[l] EXCEPT !.pc = "exit"]
      BY <2>1, <1>5
    <3> QED BY <2>1, <3>1, <1>5 DEF Listeners
  <2>2. CASE lis' = [CancelOf(e) EXCEPT ![l].pc = "done", ![l].chan = <<>>] /\ pc = "done"
    <3>1. lis'[l] = [CancelOf(e)[l] EXCEPT !.pc = "done", !.chan = <<>>]
      BY <2>2, <1>5
    <3> QED BY <2>2, <3>1, <1>5 DEF Listeners
  <2> QED BY <2>1, <2>2, <1>3
<1>8. pc \in {"exit", "done"}
  BY <1>3
<1>9. ASSUME NEW k \in Ids
      PROVE  /\ lis'[k].entry = lis[k].entry /\ lis'[k].gen = lis[k].gen
             /\ lis'[k].pc = "none" <=> lis[k].pc = "none"
             /\ lis'[k].pc = "clear" => lis[k].pc = "clear" /\ lis'[k].gone = lis[k].gone
             /\ InTheLoop(k)' => InTheLoop(k) /\
                  ((lis'[k].cancelled => lis[k].cancelled)
                   \/ (e # None /\ k = slot[e].lis /\ e # entry))
  <2>1. CASE k = l
    <3>1. lis'[k].entry = lis[k].entry /\ lis'[k].gen = lis[k].gen
      BY <2>1, <1>0, <1>1, <1>7, CancelTypes
    <3> QED BY <2>1, <3>1, <1>0, <1>7, <1>8 DEF InTheLoop
  <2>2. CASE k # l
    <3>1. /\ lis'[k].entry = lis[k].entry /\ lis'[k].gen = lis[k].gen /\ lis'[k].pc = lis[k].pc
          /\ lis'[k].gone = lis[k].gone
          /\ lis'[k].cancelled <=> lis[k].cancelled \/ (e # None /\ k = slot[e].lis)
      BY <2>2, <1>0, <1>1, <1>6, CancelTypes
    <3>2. e # None /\ k = slot[e].lis => e # entry
      BY <1>4, <2>2 DEF Ids
    <3> QED BY <3>1, <3>2 DEF InTheLoop
  <2> QED BY <2>1, <2>2
<1> QED BY <1>0, <1>1, <1>2, <1>9, ClearCause

LEMMA CauseStep ==
  ASSUME ThreadInv, ThreadInv', CauseInv, [Next]_vars
  PROVE  CauseInv'
<1>1. ASSUME NEW c \in Conns, BeginResume(c) \/ CloseConnection(c) PROVE CauseInv'
  BY <1>1, BeginCause
<1>2. ASSUME NEW c \in Conns, NEW op \in Allowed \ {"timeout"}, BeginOther(c, op)
      PROVE  CauseInv'
  BY <1>2, BeginCause
<1>3. CASE Handle \/ CloseTeardown
  BY <1>3, RequestCause, EnsureListenerCause, ResumeSendCause DEF Handle
<1>4. ASSUME NEW p \in Procs, Teardown(p) PROVE CauseInv'
  BY <1>4, FinalCause
<1>5. ASSUME NEW l \in Ids, Listener(l) \/ DelayPasses(l) PROVE CauseInv'
  BY <1>5, LoopCause, LeaveCause DEF Listener
<1>6. ASSUME UNCHANGED <<entryVars, slot, lis, proc>> PROVE CauseInv'
  BY <1>6, SteadySteps, StillCause DEF ThreadInv, entryVars
<1>7. ASSUME NEW l \in Ids, Stop(l) PROVE CauseInv'
  BY <1>6, <1>7 DEF Stop, StopComplete, StopUnpend, StopGivesUp, StopFrame, lisVars
<1>8. ASSUME NEW n \in Ids, SessionEnds(n) PROVE CauseInv'
  BY <1>6, <1>8 DEF SessionEnds, lisVars
<1>9. CASE UNCHANGED vars
  BY <1>6, <1>9 DEF vars, lisVars
<1> QED BY <1>1, <1>2, <1>3, <1>4, <1>5, <1>7, <1>8, <1>9 DEF Next

\* A running listener is the one its entry's state names, or it was cancelled for a reason: a
\* newer listener of the entry, or the removal of the entry.  A listener that ends late
\* neither unregisters nor cancels its successor.
THEOREM RunningRegistered == Spec => []RunningIsRegistered
<1>1. Init => CauseInv
  <2> SUFFICES ASSUME Init PROVE CauseInv
    OBVIOUS
  <2>1. \A l \in Ids : lis[l].pc = "none"
    BY DEF Init, NoListener
  <2>2. \A p \in Procs : proc[p].entry = 0 /\ proc[p].pc = "idle"
    BY DEF Init, Idle, None
  <2>3. entries = 0
    BY DEF Init
  <2> QED BY <2>1, <2>2, <2>3 DEF CauseInv, Made, InTheLoop, At
<1>2. ThreadInv /\ ThreadInv' /\ CauseInv /\ [Next]_vars => CauseInv'
  BY CauseStep
<1>3. ThreadInv /\ CauseInv => RunningIsRegistered
  <2> SUFFICES ASSUME ThreadInv, CauseInv, NEW l \in Ids, Running(l)
               PROVE  IF lis[l].cancelled
                        THEN slot[lis[l].entry].gen > lis[l].gen \/ entry # lis[l].entry
                        ELSE slot[lis[l].entry].lis = l
    BY DEF RunningIsRegistered
  <2>1. InTheLoop(l) /\ (~lis[l].cancelled => InLoop(l))
    BY DEF Running, InTheLoop, InLoop
  <2>2. lis[l].cancelled => slot[lis[l].entry].gen > lis[l].gen \/ entry # lis[l].entry
    BY <2>1 DEF CauseInv, Superseded
  <2>3. ~lis[l].cancelled => slot[lis[l].entry].lis = l
    BY <2>1 DEF ThreadInv, ListenerInv, RegisteredInv
  <2> QED BY <2>2, <2>3
<1> QED BY <1>1, <1>2, <1>3, ListenerInvariance, PTL DEF Spec
=============================================================================

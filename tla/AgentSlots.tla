----------------------------- MODULE AgentSlots -----------------------------
(***************************************************************************)
(* The agents of one root session: AgentRegistry counts the open agents    *)
(* against a limit and knows them by path or by thread id, AgentControl    *)
(* spawns, resumes, messages and shuts them down.                          *)
(*                                                                         *)
(* A flow is one call into AgentControl (a tool call of some agent, or a   *)
(* job that runs workers).  Calls of different agents run concurrently;    *)
(* each step below is one access to the counter, to the locked registry or *)
(* to the thread manager, or what happens between two awaits.              *)
(***************************************************************************)
EXTENDS Integers, FiniteSets

CONSTANTS Flows, Threads, Paths, Names,
          Limit,      \* agent_max_threads
          Root,       \* the root session: its thread id, and the key of its path
          Stored,     \* threads the state database has from before this registry
          MaxResets,  \* bound: resets of the nickname pool
          Allowed     \* what happens in a behaviour beside spawns and sends

ASSUME ConstantsAssumption ==
  /\ IsFiniteSet(Flows) /\ IsFiniteSet(Threads) /\ IsFiniteSet(Paths)
  /\ Limit \in Nat /\ MaxResets \in Nat /\ Stored \subseteq Threads
  /\ Root \notin Threads \cup Paths
  /\ Threads \cap Paths = {}
  /\ {"vacant", "reserved", "none"} \cap (Threads \cup Paths \cup Names \cup {Root}) = {}
  /\ Allowed \subseteq {"close", "resume", "unload"}

VARIABLES
  count,    \* total_count
  tree,     \* agent_tree: the agent id of the entry with a key
  used,     \* used_agent_nicknames
  resets,   \* nickname_reset_count
  thr,      \* threads of the thread manager
  nick,     \* the nickname stored with a thread
  pc, kind, tgt, way, name, seen      \* by flow: where it is, and its locals

regVars  == <<count, tree, used, resets>>
thrVars  == <<thr, nick>>
flowVars == <<pc, kind, tgt, way, name, seen>>
vars == <<regVars, thrVars, flowVars>>

None == "none"
NoNick == <<>>
Ids  == Threads \cup {Root}
Keys == Ids \cup Paths              \* "thread:<id>" is written as the id itself
Nicknames == Names \X Nat           \* a listed name and its "the 2nd" suffix

Steps == {"idle", "load", "cas", "prepare", "nickname", "create", "finalize",
          "commit", "send", "drop", "shut", "remove", "release", "sub"}

\* The registry starts empty; stored threads keep the nicknames an earlier one gave them.
Init ==
  /\ count = 0
  /\ tree = [k \in Keys |-> "vacant"]
  /\ used = {}
  /\ resets = 0
  /\ thr = [i \in Ids |-> IF i = Root THEN "live" ELSE IF i \in Stored THEN "gone" ELSE "unused"]
  /\ \E old \in [Stored -> (Names \X (0..MaxResets)) \cup {NoNick}] :
       nick = [t \in Threads |-> IF t \in Stored THEN old[t] ELSE NoNick]
  /\ pc = [f \in Flows |-> "idle"]
  /\ kind = [f \in Flows |-> None]
  /\ tgt = [f \in Flows |-> None]
  /\ way = [f \in Flows |-> None]
  /\ name = [f \in Flows |-> NoNick]
  /\ seen = [f \in Flows |-> 0]

InManager(i) == thr[i] \in {"live", "dead"}

\* Mutant: the thread stays with the manager.
RemovedNot(i) == thr

\* ThreadManager::remove_thread.
Removed(i) == IF InManager(i) THEN [thr EXCEPT ![i] = "gone"] ELSE thr

Goto(f, step) == pc' = [pc EXCEPT ![f] = step]

\* The call returns; its locals are dropped.
Return(f) ==
  /\ pc' = [pc EXCEPT ![f] = "idle"]
  /\ kind' = [kind EXCEPT ![f] = None]
  /\ tgt' = [tgt EXCEPT ![f] = None]
  /\ way' = [way EXCEPT ![f] = None]
  /\ name' = [name EXCEPT ![f] = NoNick]
  /\ seen' = [seen EXCEPT ![f] = 0]

Begin(f, what, i, step) ==
  /\ pc[f] = "idle"
  /\ pc' = [pc EXCEPT ![f] = step]
  /\ kind' = [kind EXCEPT ![f] = what]
  /\ tgt' = [tgt EXCEPT ![f] = i]
  /\ UNCHANGED <<regVars, thrVars, way, name, seen>>

-----------------------------------------------------------------------------
(* Spawn and resume.  A spawn is of a sub-agent or of a job's worker, which *)
(* has neither path nor nickname.                                           *)

BeginSpawn(f) == \E what \in {"agent", "worker"} : Begin(f, what, None, "load")

\* resume_agent, and the descendants it resumes: only a thread that is not loaded now.
BeginResume(f, t) ==
  /\ "resume" \in Allowed
  /\ thr[t] = "gone"
  /\ Begin(f, "resume", t, "load")

LoadCount(f) ==
  /\ pc[f] = "load"
  /\ seen' = [seen EXCEPT ![f] = count]
  /\ Goto(f, "cas")
  /\ UNCHANGED <<regVars, thrVars, kind, tgt, way, name>>

\* Mutant: the limit is off by one.
FullLate(n) == n > Limit

Full(n) == n >= Limit

\* Mutant: a store in place of the compare-and-exchange.
UnmovedAlways(f) == TRUE

\* The counter still has the value this flow read.
Unmoved(f) == count = seen[f]

LimitReached(f) ==
  /\ pc[f] = "cas"
  /\ Full(seen[f])
  /\ Return(f)
  /\ UNCHANGED <<regVars, thrVars>>

CompareExchange(f) ==
  /\ pc[f] = "cas"
  /\ ~Full(seen[f])
  /\ IF Unmoved(f)
       THEN /\ count' = seen[f] + 1
            /\ Goto(f, "prepare")
            /\ seen' = [seen EXCEPT ![f] = 0]
       ELSE /\ seen' = [seen EXCEPT ![f] = count]
            /\ UNCHANGED <<count, pc>>
  /\ UNCHANGED <<tree, used, resets, thrVars, kind, tgt, way, name>>

\* prepare_thread_spawn up to the path: a call at depth 1 registers the root first.
\* Only a spawn names a path; a resumed agent has none.
WithRoot(depth1) ==
  IF depth1 /\ tree[Root] = "vacant" THEN [tree EXCEPT ![Root] = Root] ELSE tree

ReservePath(f) ==
  /\ pc[f] = "prepare" /\ kind[f] # "worker"
  /\ \E depth1 \in BOOLEAN, p \in Paths \cup {None} :
       /\ kind[f] = "resume" => p = None
       /\ IF p = None
            THEN /\ tree' = WithRoot(depth1)
                 /\ Goto(f, "nickname")
                 /\ UNCHANGED way
            ELSE IF tree[p] = "vacant"
              THEN /\ tree' = [WithRoot(depth1) EXCEPT ![p] = "reserved"]
                   /\ way' = [way EXCEPT ![f] = p]
                   /\ Goto(f, "nickname")
              ELSE /\ tree' = WithRoot(depth1)
                   /\ Goto(f, "drop")
                   /\ UNCHANGED way
  /\ UNCHANGED <<count, used, resets, thrVars, kind, tgt, name, seen>>

PrepareWorker(f) ==
  /\ pc[f] = "prepare" /\ kind[f] = "worker"
  /\ Goto(f, "create")
  /\ UNCHANGED <<regVars, thrVars, kind, tgt, way, name, seen>>

TakeNickname(f, n) ==
  /\ name' = [name EXCEPT ![f] = n]
  /\ Goto(f, "create")
  /\ UNCHANGED <<count, tree, thrVars, kind, tgt, way, seen>>

\* A resumed thread keeps the nickname the state database has for it.
PreferredNickname(f) ==
  /\ pc[f] = "nickname" /\ kind[f] = "resume"
  /\ nick[tgt[f]] # NoNick
  /\ TakeNickname(f, nick[tgt[f]])
  /\ used' = used \cup {nick[tgt[f]]}
  /\ UNCHANGED resets

\* Mutant: the names are freed without a new suffix.
NextResetSame == resets

\* The reset after which every listed name is free again, with the next suffix.
NextReset == resets + 1

\* Any other agent draws from the names its role lists; the database may also not answer.
DrawNickname(f) ==
  /\ pc[f] = "nickname"
  /\ \E pool \in SUBSET Names \ {{}} :
       LET free == {n \in pool \X {resets} : n \notin used}
       IN IF free # {}
            THEN \E n \in free :
                   /\ TakeNickname(f, n)
                   /\ used' = used \cup {n}
                   /\ UNCHANGED resets
            ELSE \E n \in pool \X {NextReset} :
                   /\ resets < MaxResets
                   /\ TakeNickname(f, n)
                   /\ used' = {n}
                   /\ resets' = NextReset

\* A role may list no names at all.
NoNickname(f) ==
  /\ pc[f] = "nickname"
  /\ Goto(f, "drop")
  /\ UNCHANGED <<regVars, thrVars, kind, tgt, way, name, seen>>

\* A resume looks for the thread under the manager's lock: another call may have loaded
\* it meanwhile.  A running one is the result, one whose loop has ended is removed.
FindResumed(f) ==
  /\ pc[f] = "create" /\ kind[f] = "resume"
  /\ IF thr[tgt[f]] = "live"
       THEN Goto(f, "commit") /\ UNCHANGED thr
       ELSE Goto(f, "finalize") /\ thr' = Removed(tgt[f])
  /\ UNCHANGED <<regVars, nick, kind, tgt, way, name, seen>>

\* finalize_thread_spawn: the started thread enters the manager, if its id is not there;
\* a new one has a new id.
CreateThread(f, t) ==
  /\ IF kind[f] = "resume"
       THEN pc[f] = "finalize" /\ t = tgt[f] /\ ~InManager(t)
       ELSE pc[f] = "create" /\ thr[t] = "unused"
  /\ thr' = [thr EXCEPT ![t] = "live"]
  /\ nick' = [nick EXCEPT ![t] = name[f]]
  /\ tgt' = [tgt EXCEPT ![f] = t]
  /\ Goto(f, "commit")
  /\ UNCHANGED <<regVars, kind, way, name, seen>>

\* The history cannot be read, the running thread has another rollout, the session does
\* not start, or the thread has entered the manager since this call looked.
CreateFails(f) ==
  /\ pc[f] \in {"create", "finalize"}
  /\ Goto(f, "drop")
  /\ UNCHANGED <<regVars, thrVars, kind, tgt, way, name, seen>>

\* Mutant: a named agent is registered by its thread id.
EntryKeyThread(f) == tgt[f]

EntryKey(f) == IF way[f] = None THEN tgt[f] ELSE way[f]

Commit(f) ==
  /\ pc[f] = "commit"
  /\ tree' = [tree EXCEPT ![EntryKey(f)] = tgt[f]]
  /\ used' = used \cup ({name[f]} \ {NoNick})
  /\ IF kind[f] = "resume"
       THEN Return(f)
       ELSE /\ Goto(f, "send")
            /\ kind' = [kind EXCEPT ![f] = "send"]
            /\ way' = [way EXCEPT ![f] = None]
            /\ name' = [name EXCEPT ![f] = NoNick]
            /\ UNCHANGED <<tgt, seen>>
  /\ UNCHANGED <<count, resets, thrVars>>

\* Mutant: a dropped reservation leaves its path reserved.
PlaceholderKept(f) == way[f] # None /\ tree[way[f]] = "vacant"

\* Drop of a reservation that was not committed: first the path, then the count.
Placeholder(f) == way[f] # None /\ tree[way[f]] = "reserved"

DropReservation(f) ==
  /\ pc[f] = "drop"
  /\ tree' = IF Placeholder(f) THEN [tree EXCEPT ![way[f]] = "vacant"] ELSE tree
  /\ way' = [way EXCEPT ![f] = None]
  /\ Goto(f, "sub")
  /\ UNCHANGED <<count, used, resets, thrVars, kind, tgt, name, seen>>

-----------------------------------------------------------------------------
(* Messages and shutdown.                                                   *)

BeginSend(f, t) == thr[t] # "unused" /\ Begin(f, "send", t, "send")

\* send_op: an agent whose loop has ended is removed and its slot released.
Send(f) ==
  /\ pc[f] = "send"
  /\ IF thr[tgt[f]] = "dead"
       THEN Goto(f, "remove") /\ UNCHANGED <<kind, tgt, way, name, seen>>
       ELSE Return(f)
  /\ UNCHANGED <<regVars, thrVars>>

\* close_agent asks for the thread's status first; a job ends its workers unasked.
BeginShutdown(f, i) ==
  /\ "close" \in Allowed
  /\ \/ InManager(i)
     \/ i \in Threads \ Stored /\ thr[i] = "gone" /\ nick[i] = NoNick
  /\ Begin(f, "shutdown", i, "shut")

\* Op::Shutdown is sent, not awaited; a thread whose rollout cannot be flushed stays.
ShutdownSent(f) ==
  /\ pc[f] = "shut"
  /\ Goto(f, "remove")
  /\ UNCHANGED <<regVars, thrVars, kind, tgt, way, name, seen>>

FlushFails(f) ==
  /\ pc[f] = "shut" /\ InManager(tgt[f])
  /\ Return(f)
  /\ UNCHANGED <<regVars, thrVars>>

RemoveThread(f) ==
  /\ pc[f] = "remove"
  /\ thr' = Removed(tgt[f])
  /\ Goto(f, "release")
  /\ UNCHANGED <<regVars, nick, kind, tgt, way, name, seen>>

\* release_spawned_thread: the entry goes; the root's was never counted.
EntriesOf(i) == {k \in Keys : tree[k] = i}

\* Mutant: the slot of a released agent is kept.
AfterReleaseKept(f, k) == Return(f)

AfterRelease(f, k) == IF k = Root THEN Return(f)
                      ELSE Goto(f, "sub") /\ UNCHANGED <<kind, tgt, way, name, seen>>

\* Mutant: every release gives a slot back.
AfterNoEntryCounts(f) == Goto(f, "sub") /\ UNCHANGED <<kind, tgt, way, name, seen>>

AfterNoEntry(f) == Return(f)

ReleaseEntry(f) ==
  /\ pc[f] = "release"
  /\ \E k \in EntriesOf(tgt[f]) :
       /\ tree' = [tree EXCEPT ![k] = "vacant"]
       /\ AfterRelease(f, k)
  /\ UNCHANGED <<count, used, resets, thrVars>>

NothingToRelease(f) ==
  /\ pc[f] = "release"
  /\ EntriesOf(tgt[f]) = {}
  /\ AfterNoEntry(f)
  /\ UNCHANGED <<regVars, thrVars>>

Decrement(f) ==
  /\ pc[f] = "sub"
  /\ count' = count - 1
  /\ Return(f)
  /\ UNCHANGED <<tree, used, resets, thrVars>>

-----------------------------------------------------------------------------
(* What else happens to a thread.                                           *)

\* Its session loop ends: it was told to shut down, or it broke.
SessionEnds(t) ==
  /\ thr[t] = "live"
  /\ thr' = [thr EXCEPT ![t] = "dead"]
  /\ UNCHANGED <<regVars, nick, flowVars>>

\* The app server unloads or archives the thread; the registry is not told.
Unload(t) ==
  /\ "unload" \in Allowed
  /\ InManager(t)
  /\ thr' = [thr EXCEPT ![t] = "gone"]
  /\ UNCHANGED <<regVars, nick, flowVars>>

FlowStep(f) ==
  \/ BeginSpawn(f) \/ (\E t \in Threads : BeginResume(f, t))
  \/ LoadCount(f) \/ LimitReached(f) \/ CompareExchange(f)
  \/ ReservePath(f) \/ PrepareWorker(f)
  \/ PreferredNickname(f) \/ DrawNickname(f) \/ NoNickname(f)
  \/ FindResumed(f) \/ (\E t \in Threads : CreateThread(f, t)) \/ CreateFails(f)
  \/ Commit(f) \/ DropReservation(f)
  \/ (\E t \in Threads : BeginSend(f, t)) \/ Send(f)
  \/ (\E i \in Ids : BeginShutdown(f, i)) \/ ShutdownSent(f) \/ FlushFails(f)
  \/ RemoveThread(f) \/ ReleaseEntry(f) \/ NothingToRelease(f) \/ Decrement(f)

Next ==
  \/ \E f \in Flows : FlowStep(f)
  \/ \E t \in Threads : SessionEnds(t) \/ Unload(t)

Spec == Init /\ [][Next]_vars

-----------------------------------------------------------------------------
(* Properties.                                                              *)

\* The counter never passes the limit and never goes below zero (it is unsigned), and
\* every other variable has its type.
TypeOK ==
  /\ count \in 0..Limit
  /\ tree \in [Keys -> Ids \cup {"vacant", "reserved"}]
  /\ used \subseteq Nicknames
  /\ resets \in Nat
  /\ thr \in [Ids -> {"unused", "live", "dead", "gone"}]
  /\ nick \in [Threads -> Nicknames \cup {NoNick}]
  /\ pc \in [Flows -> Steps]
  /\ kind \in [Flows -> {"agent", "worker", "resume", "send", "shutdown", None}]
  /\ tgt \in [Flows -> Ids \cup {None}]
  /\ way \in [Flows -> Paths \cup {None}]
  /\ name \in [Flows -> Nicknames \cup {NoNick}]
  /\ seen \in [Flows -> 0..Limit]

\* Flows between taking a slot and registering an agent with it or giving it back.
Holders == {f \in Flows : pc[f] \in {"prepare", "nickname", "create", "finalize",
                                    "commit", "drop", "sub"}}

\* Entries of spawned or resumed agents.
Counted == {k \in Keys \ {Root} : tree[k] \in Threads}

Open == {t \in Threads : InManager(t)}

\* Every registered agent and every call that is making one has a slot of its own,
\* whatever is resumed, shut down twice or unloaded meanwhile.
SlotsCovered == count >= Cardinality(Holders) + Cardinality(Counted)

\* Without resumes no slot is lost either: the count is what is registered or under way.
SlotsExact == count = Cardinality(Holders) + Cardinality(Counted)

\* "Maximum number of agent threads that can be open concurrently."
OpenWithinLimit == Cardinality(Open) <= Limit

\* An open agent can be found in the registry, or is about to be registered: nothing
\* releases the entry of an agent that is still with the thread manager.
OpenIsRegistered ==
  \A t \in Open : \/ EntriesOf(t) # {}
                  \/ \E f \in Flows : pc[f] = "commit" /\ tgt[f] = t

\* A path is reserved by at most one call, whose placeholder nobody else removes or
\* replaces; and a placeholder always has such a call.
PathsExclusive ==
  LET at(p) == {f \in Flows : /\ way[f] = p
                              /\ pc[f] \in {"nickname", "create", "finalize",
                                           "commit", "drop"}}
  IN \A p \in Paths : IF tree[p] = "reserved" THEN Cardinality(at(p)) = 1 ELSE at(p) = {}

\* Two open agents that this registry has named never have the same nickname, through
\* resets of the pool, overlapping lists of names and resumes with a nickname of before.
NicknamesUnique ==
  \A t, u \in Open \ Stored : t # u /\ nick[t] # NoNick => nick[t] # nick[u]

\* Not kept by the code (see README.md): no open agent shares the nickname of another, also
\* when one of them was stored before this registry.
AllNicknamesUnique ==
  \A t, u \in Open : t # u /\ nick[t] # NoNick => nick[t] # nick[u]

\* Not kept by the code (see README.md): every slot in use belongs to an open agent or
\* to a call that has not ended.
SlotsHaveAgents ==
  count <= Cardinality(Open) + Cardinality({f \in Flows : pc[f] # "idle"})
=============================================================================

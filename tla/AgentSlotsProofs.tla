-------------------------- MODULE AgentSlotsProofs --------------------------
(***************************************************************************)
(* What AgentSlots promises for any number of calls, agents, paths and     *)
(* names and any limit.                                                    *)
(***************************************************************************)
EXTENDS AgentSlots, Sequences, FiniteSetTheorems, TLAPS

\* What a call knows of the thread it works on, and the keys of the root; the id of a
\* stored thread is never given to a new one.
CallInv ==
  /\ \A f \in Flows : kind[f] = "resume" => tgt[f] \in Threads
  /\ \A f \in Flows : pc[f] = "commit" => tgt[f] \in Threads
  /\ \A f \in Flows : pc[f] \in {"send", "shut", "remove", "release"} => tgt[f] \in Ids
  /\ \A k \in Keys : tree[k] = Root => k = Root
  /\ \A t \in Stored : thr[t] # "unused"

\* The counter, the calls and the registered agents.
SlotInv == TypeOK /\ CallInv /\ SlotsCovered

PathSteps == {"nickname", "create", "finalize", "commit", "drop"}

\* A placeholder and the call that put it there.
PathInv ==
  /\ \A f \in Flows : way[f] # None => /\ pc[f] \in PathSteps
                                       /\ tree[way[f]] = "reserved"
  /\ \A f, g \in Flows : way[f] # None /\ way[f] = way[g] => f = g
  /\ \A p \in Paths : tree[p] = "reserved" => \E f \in Flows : way[f] = p
  /\ \A i \in Ids : tree[i] \in {"vacant", i}

\* A nickname of this registry is with one agent, or with the calls that make or resume
\* that agent, and one with the current suffix is marked as used.  Nothing of the kind
\* holds of what a stored thread brings along.
Marked(n) == n # NoNick => n[2] <= resets /\ (n[2] = resets => n \in used)

Ours == Threads \ Stored

Naming == {f \in Flows : tgt[f] \notin Stored /\ name[f] # NoNick}

NameInv ==
  /\ \A t \in Ours : Marked(nick[t])
  /\ \A f \in Naming : Marked(name[f])
  /\ \A t, u \in Ours : nick[t] # NoNick /\ nick[t] = nick[u] => t = u
  /\ \A f \in Naming, t \in Ours : name[f] = nick[t] => tgt[f] = t
  /\ \A f, g \in Naming : name[f] = name[g] => f = g \/ (tgt[f] = tgt[g] /\ tgt[f] # None)
  /\ \A f \in Flows : pc[f] \in {"idle", "load", "cas", "prepare", "nickname"} =>
                       name[f] = NoNick
  /\ \A f \in Flows : /\ pc[f] \in {"load", "cas", "prepare", "nickname", "create"}
                      /\ kind[f] # "resume"
                      => tgt[f] = None

\* Without resumes a thread is created once, registered once and never comes back.
OnceInv ==
  /\ \A f \in Flows : kind[f] # "resume"
  /\ \A f \in Flows : tgt[f] \in Threads => thr[tgt[f]] # "unused"
  /\ \A t \in Threads : thr[t] = "unused" => EntriesOf(t) = {}
  /\ \A f \in Flows : pc[f] = "commit" => EntriesOf(tgt[f]) = {}
  /\ \A f, g \in Flows : pc[f] = "commit" /\ pc[g] = "commit" /\ tgt[f] = tgt[g] => f = g
  /\ \A f \in Flows : pc[f] = "release" => ~InManager(tgt[f])

\* What holds of the registry while nothing is resumed.
ExactInv == OnceInv /\ OpenIsRegistered /\ SlotsExact

-----------------------------------------------------------------------------
(* Types, and what a call knows.                                            *)

\* The types, but for the counter's.
Types ==
  /\ tree \in [Keys -> Ids \cup {"vacant", "reserved"}]
  /\ used \subseteq Nicknames
  /\ resets \in Nat
  /\ thr \in [Ids -> {"unused", "live", "dead", "gone"}]
  /\ nick \in [Threads -> Nicknames \cup {NoNick}]
  /\ pc \in [Flows -> Steps]
  /\ kind \in [Flows -> {"agent", "worker", "resume", "send", "shutdown", None}]
  /\ tgt \in [Flows -> Ids \cup {None}]
  /\ way \in [Flows -> Paths \cup {None}]
  /\ name \in [Flows -> Nicknames \cup {NoNick}]
  /\ seen \in [Flows -> 0..Limit]

\* A call that begins.
LEMMA Begins ==
  ASSUME TypeOK, CallInv, NEW f \in Flows, NEW what, NEW i \in Ids \cup {None}, NEW step,
         Begin(f, what, i, step),
         \/ what \in {"agent", "worker"} /\ step = "load"
         \/ what = "resume" /\ step = "load" /\ i \in Threads
         \/ what \in {"send", "shutdown"} /\ step \in {"send", "shut"} /\ i \in Ids
  PROVE  Types' /\ CallInv'
BY DEF Begin, TypeOK, Types, CallInv, regVars, thrVars, Steps

\* A call that returns.
LEMMA Returns ==
  ASSUME TypeOK, CallInv, NEW f \in Flows, Return(f), UNCHANGED <<resets, nick, thr>>,
         used' \subseteq Nicknames,
         tree' \in [Keys -> Ids \cup {"vacant", "reserved"}],
         \A k \in Keys : tree'[k] = Root => k = Root
  PROVE  Types' /\ CallInv'
<1>1. Types'
  BY ConstantsAssumption DEF Return, TypeOK, Types, Steps
<1>2. CallInv'
  BY ConstantsAssumption DEF Return, TypeOK, CallInv, None
<1> QED BY <1>1, <1>2

\* Every step of a call keeps the types and what the calls know.
LEMMA TypeStep ==
  ASSUME TypeOK, CallInv, NEW f \in Flows, FlowStep(f)
  PROVE  Types' /\ CallInv'
<1>1. ASSUME BeginSpawn(f) PROVE Types' /\ CallInv'
  BY <1>1, Begins DEF BeginSpawn
<1>2. ASSUME NEW t \in Threads, BeginResume(f, t) PROVE Types' /\ CallInv'
  BY <1>2, Begins DEF BeginResume, Ids
<1>3. ASSUME LoadCount(f) PROVE Types' /\ CallInv'
  BY <1>3 DEF LoadCount, Goto, TypeOK, Types, CallInv, regVars, thrVars, Steps
<1>4. ASSUME LimitReached(f) PROVE Types' /\ CallInv'
  BY <1>4, Returns DEF LimitReached, regVars, thrVars, TypeOK, CallInv
<1>5. ASSUME CompareExchange(f) PROVE Types' /\ CallInv'
  BY <1>5, ConstantsAssumption
     DEF CompareExchange, Goto, TypeOK, Types, CallInv, thrVars, Steps
<1>6. ASSUME ReservePath(f) PROVE Types' /\ CallInv'
  <2>1. PICK depth1 \in BOOLEAN, p \in Paths \cup {None} :
          \/ tree' = WithRoot(depth1) /\ UNCHANGED way /\ pc' = [pc EXCEPT ![f] = "nickname"]
          \/ tree' = WithRoot(depth1) /\ UNCHANGED way /\ pc' = [pc EXCEPT ![f] = "drop"]
          \/ /\ p \in Paths /\ tree' = [WithRoot(depth1) EXCEPT ![p] = "reserved"]
             /\ way' = [way EXCEPT ![f] = p] /\ pc' = [pc EXCEPT ![f] = "nickname"]
    BY <1>6 DEF ReservePath, Goto
  <2>2. /\ WithRoot(depth1) \in [Keys -> Ids \cup {"vacant", "reserved"}]
        /\ \A k \in Keys : WithRoot(depth1)[k] = Root => k = Root
    BY DEF WithRoot, TypeOK, CallInv, Keys, Ids
  <2>3. /\ tree' \in [Keys -> Ids \cup {"vacant", "reserved"}]
        /\ \A k \in Keys : tree'[k] = Root => k = Root
    BY <2>1, <2>2, ConstantsAssumption
  <2> QED BY <1>6, <2>1, <2>3 DEF ReservePath, TypeOK, Types, CallInv, thrVars, Steps
<1>7. ASSUME PrepareWorker(f) PROVE Types' /\ CallInv'
  BY <1>7 DEF PrepareWorker, Goto, TypeOK, Types, CallInv, regVars, thrVars, Steps
<1>8. ASSUME PreferredNickname(f) PROVE Types' /\ CallInv'
  BY <1>8 DEF PreferredNickname, TakeNickname, Goto, TypeOK, Types, CallInv, thrVars, Steps
<1>9. ASSUME DrawNickname(f) PROVE Types' /\ CallInv'
  <2>1. PICK n : /\ n \in Nicknames /\ TakeNickname(f, n)
                 /\ used' = used \cup {n} \/ used' = {n}
                 /\ resets' \in {resets, resets + 1}
    BY <1>9 DEF DrawNickname, Nicknames, NextReset, TypeOK
  <2> QED BY <1>9, <2>1 DEF DrawNickname, TakeNickname, Goto, TypeOK, Types, CallInv, thrVars, Steps
<1>10. ASSUME NoNickname(f) PROVE Types' /\ CallInv'
  BY <1>10 DEF NoNickname, Goto, TypeOK, Types, CallInv, regVars, thrVars, Steps
<1>11. ASSUME NEW t \in Threads, CreateThread(f, t) PROVE Types' /\ CallInv'
  <2>1. /\ thr' \in [Ids -> {"unused", "live", "dead", "gone"}]
        /\ \A u \in Ids : thr'[u] = "unused" => thr[u] = "unused"
    BY <1>11 DEF CreateThread, TypeOK, Ids
  <2>2. Types'
    BY <1>11, <2>1 DEF CreateThread, Goto, TypeOK, Types, regVars, Steps, Ids
  <2>3. CallInv'
    BY <1>11, <2>1, ConstantsAssumption
       DEF CreateThread, Goto, TypeOK, CallInv, regVars, Ids
  <2> QED BY <2>2, <2>3
<1>12. ASSUME CreateFails(f) PROVE Types' /\ CallInv'
  BY <1>12 DEF CreateFails, Goto, TypeOK, Types, CallInv, regVars, thrVars, Steps
<1>13. ASSUME Commit(f) PROVE Types' /\ CallInv'
  <2>1. /\ EntryKey(f) \in Keys /\ tgt[f] \in Threads
        /\ tree' = [tree EXCEPT ![EntryKey(f)] = tgt[f]]
    BY <1>13 DEF Commit, EntryKey, TypeOK, CallInv, Keys, Ids
  <2>2. /\ tree' \in [Keys -> Ids \cup {"vacant", "reserved"}]
        /\ \A k \in Keys : tree'[k] = Root => k = Root
    BY <2>1, ConstantsAssumption DEF TypeOK, CallInv, Ids
  <2>3. used' \subseteq Nicknames
    BY <1>13 DEF Commit, TypeOK
  <2>4. CASE kind[f] = "resume"
    <3>1. Return(f) /\ UNCHANGED <<resets, thrVars>>
      BY <1>13, <2>4 DEF Commit
    <3> QED BY <2>2, <2>3, <3>1, Returns DEF TypeOK, thrVars
  <2>5. CASE kind[f] # "resume"
    BY <1>13, <2>2, <2>3, <2>5 DEF Commit, Goto, TypeOK, Types, CallInv, Steps, thrVars, Ids
  <2> QED BY <2>4, <2>5
<1>14. ASSUME DropReservation(f) PROVE Types' /\ CallInv'
  BY <1>14, ConstantsAssumption
     DEF DropReservation, Placeholder, Goto, TypeOK, Types, CallInv, thrVars, Steps, Keys
<1>15. ASSUME NEW t \in Threads, BeginSend(f, t) PROVE Types' /\ CallInv'
  BY <1>15, Begins DEF BeginSend, Ids
<1>16. ASSUME Send(f) PROVE Types' /\ CallInv'
  <2>1. CASE Return(f)
    BY <1>16, <2>1, Returns DEF Send, regVars, thrVars, TypeOK, CallInv
  <2> QED BY <1>16, <2>1 DEF Send, Goto, TypeOK, Types, CallInv, regVars, thrVars, Steps
<1>17. ASSUME NEW i \in Ids, BeginShutdown(f, i) PROVE Types' /\ CallInv'
  BY <1>17, Begins DEF BeginShutdown
<1>18. ASSUME ShutdownSent(f) PROVE Types' /\ CallInv'
  BY <1>18 DEF ShutdownSent, Goto, TypeOK, Types, CallInv, regVars, thrVars, Steps
<1>19. ASSUME FlushFails(f) PROVE Types' /\ CallInv'
  BY <1>19, Returns DEF FlushFails, regVars, thrVars, TypeOK, CallInv
<1>20. ASSUME RemoveThread(f) PROVE Types' /\ CallInv'
  <2>1. /\ thr' \in [Ids -> {"unused", "live", "dead", "gone"}]
        /\ \A t \in Ids : thr'[t] = "unused" => thr[t] = "unused"
    BY <1>20 DEF RemoveThread, Removed, TypeOK
  <2>2. Types'
    BY <1>20, <2>1 DEF RemoveThread, Goto, TypeOK, Types, regVars, Steps
  <2>3. CallInv'
    BY <1>20, <2>1, ConstantsAssumption DEF RemoveThread, Goto, TypeOK, CallInv, regVars, Ids
  <2> QED BY <2>2, <2>3
<1>21. ASSUME ReleaseEntry(f) PROVE Types' /\ CallInv'
  <2>1. PICK k \in EntriesOf(tgt[f]) : /\ tree' = [tree EXCEPT ![k] = "vacant"]
                                       /\ AfterRelease(f, k)
    BY <1>21 DEF ReleaseEntry
  <2>2. /\ tree' \in [Keys -> Ids \cup {"vacant", "reserved"}]
        /\ \A l \in Keys : tree'[l] = Root => l = Root
        /\ UNCHANGED <<used, resets, thr, nick>>
    BY <1>21, <2>1, ConstantsAssumption DEF ReleaseEntry, thrVars, TypeOK, CallInv
  <2>3. CASE Return(f)
    BY <2>2, <2>3, Returns DEF TypeOK
  <2> QED BY <2>1, <2>2, <2>3 DEF AfterRelease, Goto, TypeOK, Types, CallInv, Steps
<1>22. ASSUME NothingToRelease(f) PROVE Types' /\ CallInv'
  BY <1>22, Returns DEF NothingToRelease, AfterNoEntry, regVars, thrVars, TypeOK, CallInv
<1>23. ASSUME Decrement(f) PROVE Types' /\ CallInv'
  BY <1>23, Returns DEF Decrement, thrVars, TypeOK, CallInv
<1>24. ASSUME FindResumed(f) PROVE Types' /\ CallInv'
  <2>1. tgt[f] \in Threads /\ tgt[f] \in Ids
    BY <1>24 DEF FindResumed, CallInv, Ids
  <2>2. /\ thr' \in [Ids -> {"unused", "live", "dead", "gone"}]
        /\ \A t \in Ids : thr'[t] = "unused" <=> thr[t] = "unused"
    BY <1>24, <2>1 DEF FindResumed, Removed, InManager, TypeOK
  <2>3. PICK step \in {"commit", "finalize"} : pc' = [pc EXCEPT ![f] = step]
    BY <1>24 DEF FindResumed, Goto
  <2>4. Types'
    BY <1>24, <2>2, <2>3 DEF FindResumed, TypeOK, Types, regVars, Steps
  <2>5. CallInv'
    BY <1>24, <2>1, <2>2, <2>3, ConstantsAssumption DEF FindResumed, TypeOK, CallInv, regVars, Ids
  <2> QED BY <2>4, <2>5
<1> QED BY <1>1, <1>2, <1>3, <1>4, <1>5, <1>6, <1>7, <1>8, <1>9, <1>10, <1>11, <1>12,
           <1>13, <1>14, <1>15, <1>16, <1>17, <1>18, <1>19, <1>20, <1>21, <1>22, <1>23,
           <1>24
        DEF FlowStep

-----------------------------------------------------------------------------
(* The counter, the calls that hold a slot and the registered agents.        *)

HolderSteps == {"prepare", "nickname", "create", "finalize", "commit", "drop", "sub"}

\* What one step of a call does to its own place in Holders.
LEMMA HoldersAt ==
  ASSUME TypeOK, NEW f \in Flows, NEW s, pc' = [pc EXCEPT ![f] = s]
  PROVE  /\ s \in HolderSteps => Holders' = Holders \cup {f}
         /\ s \notin HolderSteps => Holders' = Holders \ {f}
         /\ f \in Holders <=> pc[f] \in HolderSteps
<1>1. \A g \in Flows : pc'[g] = IF g = f THEN s ELSE pc[g]
  BY DEF TypeOK
<1> QED BY <1>1 DEF Holders, HolderSteps

\* A call moves on and neither takes nor gives anything.
Keeps == count' = count /\ Holders' = Holders /\ Counted' = Counted

Takes(f) == /\ f \notin Holders /\ Holders' = Holders \cup {f} /\ Counted' = Counted
            /\ count < Limit /\ count' = count + 1

Registers(f) == /\ f \in Holders /\ Holders' = Holders \ {f} /\ count' = count
                /\ pc[f] = "commit" /\ Counted' = Counted \cup {EntryKey(f)}

Releases(f) == /\ f \notin Holders /\ Holders' = Holders \cup {f} /\ count' = count
               /\ \E k \in Counted : Counted' = Counted \ {k}

GivesBack(f) == /\ f \in Holders /\ Holders' = Holders \ {f} /\ Counted' = Counted
                /\ count' = count - 1

SlotStep(f) == Keeps \/ Takes(f) \/ Registers(f) \/ Releases(f) \/ GivesBack(f)

\* A step that leaves the registry alone and stays inside or outside Holders.
LEMMA KeepsSlots ==
  ASSUME TypeOK, NEW f \in Flows, NEW s, pc' = [pc EXCEPT ![f] = s],
         s \in HolderSteps <=> pc[f] \in HolderSteps, count' = count,
         \A k \in Keys \ {Root} : tree'[k] \in Threads <=> tree[k] \in Threads
  PROVE  Keeps
<1>1. Holders' = Holders
  <2>1. CASE pc[f] \in HolderSteps
    <3>1. f \in Holders /\ Holders' = Holders \cup {f}
      BY <2>1, HoldersAt
    <3> QED BY <3>1
  <2>2. CASE pc[f] \notin HolderSteps
    <3>1. f \notin Holders /\ Holders' = Holders \ {f}
      BY <2>2, HoldersAt
    <3> QED BY <3>1
  <2> QED BY <2>1, <2>2
<1>2. Counted' = Counted
  BY DEF Counted
<1> QED BY <1>1, <1>2 DEF Keeps

\* Every step of a call does one of five things to the slots.
LEMMA SlotShapes ==
  ASSUME TypeOK, CallInv, NEW f \in Flows, FlowStep(f)
  PROVE  SlotStep(f)
<1> USE DEF HolderSteps
<1> DEFINE Quiet(step) == /\ pc' = [pc EXCEPT ![f] = step] /\ count' = count /\ tree' = tree
                          /\ step \in HolderSteps <=> pc[f] \in HolderSteps
<1>0. ASSUME NEW step, Quiet(step) PROVE SlotStep(f)
  BY <1>0, KeepsSlots DEF SlotStep
<1>1. ASSUME NEW what, NEW i, NEW step, Begin(f, what, i, step), step \notin HolderSteps
      PROVE  SlotStep(f)
  <2>1. Quiet(step)
    BY <1>1 DEF Begin, regVars
  <2> QED BY <2>1, <1>0
<1>2. ASSUME BeginSpawn(f) PROVE SlotStep(f)
  BY <1>1, <1>2 DEF BeginSpawn
<1>3. ASSUME NEW t \in Threads, BeginResume(f, t) PROVE SlotStep(f)
  BY <1>1, <1>3 DEF BeginResume
<1>4. ASSUME LoadCount(f) PROVE SlotStep(f)
  <2>1. Quiet("cas")
    BY <1>4 DEF LoadCount, Goto, regVars
  <2> QED BY <2>1, <1>0
<1>5. ASSUME LimitReached(f) PROVE SlotStep(f)
  <2>1. Quiet("idle")
    BY <1>5 DEF LimitReached, Return, regVars
  <2> QED BY <2>1, <1>0
<1>6. ASSUME CompareExchange(f) PROVE SlotStep(f)
  <2>1. CASE Unmoved(f)
    <3>1. /\ pc[f] = "cas" /\ pc' = [pc EXCEPT ![f] = "prepare"] /\ tree' = tree
          /\ count = seen[f] /\ count' = count + 1 /\ ~(count >= Limit)
      BY <1>6, <2>1 DEF CompareExchange, Unmoved, Full, Goto
    <3>2. Counted' = Counted
      BY <3>1 DEF Counted
    <3>3. count < Limit
      BY <3>1, ConstantsAssumption DEF TypeOK
    <3>4. f \notin Holders /\ Holders' = Holders \cup {f}
      BY <3>1, HoldersAt
    <3> QED BY <3>1, <3>2, <3>3, <3>4 DEF SlotStep, Takes
  <2>2. CASE ~Unmoved(f)
    <3>1. Holders' = Holders /\ Counted' = Counted /\ count' = count
      BY <1>6, <2>2 DEF CompareExchange, Holders, Counted
    <3> QED BY <3>1 DEF SlotStep, Keeps
  <2> QED BY <2>1, <2>2
<1>7. ASSUME ReservePath(f) PROVE SlotStep(f)
  <2>1. PICK depth1 \in BOOLEAN, p \in Paths \cup {None}, step \in {"nickname", "drop"} :
          /\ pc' = [pc EXCEPT ![f] = step]
          /\ \/ tree' = WithRoot(depth1)
             \/ /\ p \in Paths /\ tree[p] = "vacant"
                /\ tree' = [WithRoot(depth1) EXCEPT ![p] = "reserved"]
    BY <1>7 DEF ReservePath, Goto
  <2>2. /\ WithRoot(depth1) \in [Keys -> Ids \cup {"vacant", "reserved"}]
        /\ \A k \in Keys \ {Root} : WithRoot(depth1)[k] = tree[k]
    BY DEF WithRoot, TypeOK, Keys, Ids
  <2>3. \A k \in Keys \ {Root} : tree'[k] \in Threads <=> tree[k] \in Threads
    BY <2>1, <2>2, ConstantsAssumption
  <2>4. pc[f] = "prepare" /\ count' = count
    BY <1>7 DEF ReservePath
  <2> QED BY <2>1, <2>3, <2>4, KeepsSlots DEF SlotStep
<1>8. ASSUME PrepareWorker(f) PROVE SlotStep(f)
  <2>1. Quiet("create")
    BY <1>8 DEF PrepareWorker, Goto, regVars
  <2> QED BY <2>1, <1>0
<1>9. ASSUME PreferredNickname(f) \/ DrawNickname(f) PROVE SlotStep(f)
  <2>1. Quiet("create")
    BY <1>9 DEF PreferredNickname, DrawNickname, TakeNickname, Goto
  <2> QED BY <2>1, <1>0
<1>10. ASSUME NoNickname(f) \/ CreateFails(f) PROVE SlotStep(f)
  <2>1. Quiet("drop")
    BY <1>10 DEF NoNickname, CreateFails, Goto, regVars
  <2> QED BY <2>1, <1>0
<1>11. ASSUME NEW t \in Threads, CreateThread(f, t) PROVE SlotStep(f)
  <2>1. Quiet("commit")
    BY <1>11 DEF CreateThread, Goto, regVars
  <2> QED BY <2>1, <1>0
<1>12. ASSUME Commit(f) PROVE SlotStep(f)
  <2>1. PICK step \in {"idle", "send"} : pc' = [pc EXCEPT ![f] = step]
    BY <1>12 DEF Commit, Return, Goto
  <2>2. /\ pc[f] = "commit" /\ count' = count /\ tgt[f] \in Threads
        /\ EntryKey(f) \in Keys \ {Root}
        /\ tree' = [tree EXCEPT ![EntryKey(f)] = tgt[f]]
    BY <1>12, ConstantsAssumption DEF Commit, EntryKey, TypeOK, CallInv, Keys, Ids
  <2>3. Counted' = Counted \cup {EntryKey(f)}
    <3>1. \A k \in Keys : tree'[k] = IF k = EntryKey(f) THEN tgt[f] ELSE tree[k]
      BY <2>2 DEF TypeOK
    <3> QED BY <2>2, <3>1 DEF Counted
  <2>4. f \in Holders /\ Holders' = Holders \ {f}
    BY <2>1, <2>2, HoldersAt
  <2> QED BY <2>2, <2>3, <2>4 DEF SlotStep, Registers
<1>13. ASSUME DropReservation(f) PROVE SlotStep(f)
  <2>1. pc[f] = "drop" /\ pc' = [pc EXCEPT ![f] = "sub"] /\ count' = count
    BY <1>13 DEF DropReservation, Goto
  <2>2. \A k \in Keys \ {Root} : tree'[k] \in Threads <=> tree[k] \in Threads
    BY <1>13, ConstantsAssumption DEF DropReservation, Placeholder, TypeOK
  <2> QED BY <2>1, <2>2, KeepsSlots DEF SlotStep
<1>14. ASSUME NEW t \in Threads, BeginSend(f, t) PROVE SlotStep(f)
  BY <1>1, <1>14 DEF BeginSend
<1>15. ASSUME Send(f) PROVE SlotStep(f)
  <2>1. Quiet("idle") \/ Quiet("remove")
    BY <1>15 DEF Send, Return, Goto, regVars
  <2> QED BY <2>1, <1>0
<1>16. ASSUME NEW i \in Ids, BeginShutdown(f, i) PROVE SlotStep(f)
  BY <1>1, <1>16 DEF BeginShutdown
<1>17. ASSUME ShutdownSent(f) \/ FlushFails(f) PROVE SlotStep(f)
  <2>1. Quiet("idle") \/ Quiet("remove")
    BY <1>17 DEF ShutdownSent, FlushFails, Return, Goto, regVars
  <2> QED BY <2>1, <1>0
<1>18. ASSUME RemoveThread(f) PROVE SlotStep(f)
  <2>1. Quiet("release")
    BY <1>18 DEF RemoveThread, Goto, regVars
  <2> QED BY <2>1, <1>0
<1>19. ASSUME ReleaseEntry(f) PROVE SlotStep(f)
  <2>1. PICK k \in EntriesOf(tgt[f]) : /\ tree' = [tree EXCEPT ![k] = "vacant"]
                                       /\ AfterRelease(f, k)
    BY <1>19 DEF ReleaseEntry
  <2>2. /\ pc[f] = "release" /\ count' = count /\ tgt[f] \in Ids
        /\ k \in Keys /\ tree[k] = tgt[f]
    BY <1>19, <2>1 DEF ReleaseEntry, EntriesOf, CallInv
  <2>3. \A l \in Keys : tree'[l] = IF l = k THEN "vacant" ELSE tree[l]
    BY <2>1, <2>2 DEF TypeOK
  <2>4. CASE k = Root
    <3>1. pc' = [pc EXCEPT ![f] = "idle"]
      BY <2>1, <2>4 DEF AfterRelease, Return
    <3>2. \A l \in Keys \ {Root} : tree'[l] \in Threads <=> tree[l] \in Threads
      BY <2>3, <2>4
    <3> QED BY <2>2, <3>1, <3>2, KeepsSlots DEF SlotStep
  <2>5. CASE k # Root
    <3>1. pc' = [pc EXCEPT ![f] = "sub"]
      BY <2>1, <2>5 DEF AfterRelease, Goto
    <3>2. k \in Counted
      BY <2>2, <2>5 DEF Counted, CallInv, Ids
    <3>3. Counted' = Counted \ {k}
      BY <2>3, ConstantsAssumption DEF Counted
    <3>4. f \notin Holders /\ Holders' = Holders \cup {f}
      BY <2>2, <3>1, HoldersAt
    <3> QED BY <2>2, <3>2, <3>3, <3>4 DEF SlotStep, Releases
  <2> QED BY <2>4, <2>5
<1>20. ASSUME NothingToRelease(f) PROVE SlotStep(f)
  <2>1. Quiet("idle")
    BY <1>20 DEF NothingToRelease, AfterNoEntry, Return, regVars
  <2> QED BY <2>1, <1>0
<1>21. ASSUME Decrement(f) PROVE SlotStep(f)
  <2>1. pc[f] = "sub" /\ pc' = [pc EXCEPT ![f] = "idle"] /\ count' = count - 1 /\ tree' = tree
    BY <1>21 DEF Decrement, Return
  <2>2. Counted' = Counted
    BY <2>1 DEF Counted
  <2>3. "idle" \notin HolderSteps /\ pc[f] \in HolderSteps
    BY <2>1
  <2>4. f \in Holders /\ Holders' = Holders \ {f}
    BY <2>1, <2>3, HoldersAt
  <2> QED BY <2>1, <2>2, <2>4 DEF SlotStep, GivesBack
<1>22. ASSUME FindResumed(f) PROVE SlotStep(f)
  <2>1. Quiet("commit") \/ Quiet("finalize")
    BY <1>22 DEF FindResumed, Goto, regVars
  <2> QED BY <2>1, <1>0
<1> QED BY <1>2, <1>3, <1>4, <1>5, <1>6, <1>7, <1>8, <1>9, <1>10, <1>11, <1>12, <1>13,
           <1>14, <1>15, <1>16, <1>17, <1>18, <1>19, <1>20, <1>21, <1>22
        DEF FlowStep

\* The sets that are counted are finite, now and after a step.
LEMMA FiniteParts ==
  /\ IsFiniteSet(Holders) /\ Cardinality(Holders) \in Nat
  /\ IsFiniteSet(Counted) /\ Cardinality(Counted) \in Nat
  /\ IsFiniteSet(Holders)' /\ Cardinality(Holders)' \in Nat
  /\ IsFiniteSet(Counted)' /\ Cardinality(Counted)' \in Nat
<1>1. IsFiniteSet(Flows)
  BY ConstantsAssumption
<1>2. IsFiniteSet(Keys)
  <2>1. IsFiniteSet(Ids)
    BY ConstantsAssumption, FS_AddElement DEF Ids
  <2> QED BY <2>1, ConstantsAssumption, FS_Union DEF Keys
<1>3. Holders \subseteq Flows /\ Holders' \subseteq Flows
  BY DEF Holders
<1>4. Counted \subseteq Keys /\ Counted' \subseteq Keys
  BY DEF Counted
<1>5. /\ IsFiniteSet(Holders) /\ IsFiniteSet(Holders)'
      /\ IsFiniteSet(Counted) /\ IsFiniteSet(Counted)'
  BY <1>1, <1>2, <1>3, <1>4, FS_Subset
<1> QED BY <1>5, FS_CardinalityType

\* What a step does to the two numbers the counter is compared with.
LEMMA SlotNumbers ==
  ASSUME TypeOK, NEW f \in Flows, SlotStep(f), NEW h, NEW c,
         h = Cardinality(Holders), c = Cardinality(Counted)
  PROVE  \/ /\ count' = count
            /\ Cardinality(Holders)' = h /\ Cardinality(Counted)' = c
         \/ /\ count < Limit /\ count' = count + 1
            /\ Cardinality(Holders)' = h + 1 /\ Cardinality(Counted)' = c
         \/ /\ count' = count /\ pc[f] = "commit" /\ Cardinality(Holders)' = h - 1
            /\ Cardinality(Counted)' = IF EntryKey(f) \in Counted THEN c ELSE c + 1
         \/ /\ count' = count
            /\ Cardinality(Holders)' = h + 1 /\ Cardinality(Counted)' = c - 1
         \/ /\ count' = count - 1 /\ h > 0
            /\ Cardinality(Holders)' = h - 1 /\ Cardinality(Counted)' = c
<1>1. /\ IsFiniteSet(Holders) /\ h \in Nat /\ IsFiniteSet(Counted) /\ c \in Nat
  BY FiniteParts
<1>2. CASE Keeps
  BY <1>2 DEF Keeps
<1>3. CASE Takes(f)
  <2>1. Cardinality(Holders)' = h + 1
    BY <1>1, <1>3, FS_AddElement DEF Takes
  <2> QED BY <1>3, <2>1 DEF Takes
<1>4. CASE Registers(f)
  <2>1. Cardinality(Holders)' = h - 1
    BY <1>1, <1>4, FS_RemoveElement DEF Registers
  <2>2. Cardinality(Counted)' = IF EntryKey(f) \in Counted THEN c ELSE c + 1
    BY <1>1, <1>4, FS_AddElement DEF Registers
  <2> QED BY <1>4, <2>1, <2>2 DEF Registers
<1>5. CASE Releases(f)
  <2>1. Cardinality(Holders)' = h + 1
    BY <1>1, <1>5, FS_AddElement DEF Releases
  <2>2. PICK k \in Counted : Counted' = Counted \ {k}
    BY <1>5 DEF Releases
  <2>3. Cardinality(Counted)' = c - 1
    BY <1>1, <2>2, FS_RemoveElement
  <2> QED BY <1>5, <2>1, <2>3 DEF Releases
<1>6. CASE GivesBack(f)
  <2>1. Cardinality(Holders)' = h - 1
    BY <1>1, <1>6, FS_RemoveElement DEF GivesBack
  <2>2. h > 0
    <3>1. Holders # {}
      BY <1>6 DEF GivesBack
    <3> QED BY <1>1, <3>1, FS_EmptySet
  <2> QED BY <1>6, <2>1, <2>2 DEF GivesBack
<1> QED BY <1>2, <1>3, <1>4, <1>5, <1>6 DEF SlotStep

\* A registry without agents.
LEMMA SlotInit == Init => SlotInv
<1> SUFFICES ASSUME Init PROVE SlotInv
  OBVIOUS
<1>1. TypeOK
  <2>1. PICK old \in [Stored -> (Names \X (0..MaxResets)) \cup {NoNick}] :
          nick = [t \in Threads |-> IF t \in Stored THEN old[t] ELSE NoNick]
    BY DEF Init
  <2>2. (Names \X (0..MaxResets)) \cup {NoNick} \subseteq Nicknames \cup {NoNick}
    BY ConstantsAssumption DEF Nicknames
  <2>3. nick \in [Threads -> Nicknames \cup {NoNick}]
    BY <2>1, <2>2
  <2> QED BY <2>3, ConstantsAssumption DEF Init, TypeOK, Steps, Ids
<1>2. CallInv
  BY ConstantsAssumption DEF Init, CallInv, None, Keys, Ids
<1>3. Holders = {} /\ Counted = {}
  BY ConstantsAssumption DEF Init, Holders, Counted
<1>4. SlotsCovered
  BY <1>3, FS_EmptySet DEF SlotsCovered, Init
<1> QED BY <1>1, <1>2, <1>4 DEF SlotInv

\* The steps that are no call's.
LEMMA ThreadStep ==
  ASSUME SlotInv, NEW t \in Threads, SessionEnds(t) \/ Unload(t)
  PROVE  SlotInv' /\ Keeps
<1>1. /\ UNCHANGED <<count, tree, used, resets, nick, pc, kind, tgt, way, name, seen>>
      /\ thr' \in [Ids -> {"unused", "live", "dead", "gone"}]
      /\ \A u \in Threads : thr'[u] = "unused" => thr[u] = "unused"
  BY DEF SessionEnds, Unload, regVars, flowVars, SlotInv, TypeOK, Ids
<1>2. Holders' = Holders /\ Counted' = Counted
  BY <1>1 DEF Holders, Counted
<1>3. TypeOK' /\ CallInv'
  BY <1>1, ConstantsAssumption DEF SlotInv, TypeOK, CallInv
<1>4. SlotsCovered'
  BY <1>1, <1>2 DEF SlotsCovered, SlotInv
<1> QED BY <1>1, <1>2, <1>3, <1>4 DEF SlotInv, Keeps

\* Every step of a call keeps its slots covered and the counter in its range.
LEMMA SlotFlowStep ==
  ASSUME SlotInv, NEW f \in Flows, FlowStep(f)
  PROVE  SlotInv'
<1>1. Types' /\ CallInv' /\ SlotStep(f)
  BY TypeStep, SlotShapes DEF SlotInv
<1> DEFINE h == Cardinality(Holders)
           c == Cardinality(Counted)
<1>2. h \in Nat /\ c \in Nat /\ count \in 0..Limit /\ Limit \in Nat /\ count >= h + c
  BY FiniteParts, ConstantsAssumption DEF SlotInv, TypeOK, SlotsCovered
<1> HIDE DEF h, c
<1>3. /\ count' \in 0..Limit
      /\ count' >= Cardinality(Holders)' + Cardinality(Counted)'
  <2>1. h = Cardinality(Holders) /\ c = Cardinality(Counted) /\ TypeOK
    BY DEF h, c, SlotInv
  <2> QED BY <1>1, <1>2, <2>1, SlotNumbers
<1> QED BY <1>1, <1>3 DEF SlotInv, TypeOK, Types, SlotsCovered

\* The types, the locals of the calls and the covered slots are kept together: the
\* counter stays above zero because whoever gives a slot back holds one.
THEOREM SlotInvariance == Spec => []SlotInv
<1>1. SlotInv /\ [Next]_vars => SlotInv'
  <2> SUFFICES ASSUME SlotInv, [Next]_vars PROVE SlotInv'
    OBVIOUS
  <2>1. CASE UNCHANGED vars
    BY <2>1 DEF vars, regVars, thrVars, flowVars, SlotInv, TypeOK, CallInv, SlotsCovered,
       Holders, Counted
  <2> QED BY <2>1, SlotFlowStep, ThreadStep DEF Next
<1> QED BY <1>1, SlotInit, PTL DEF Spec

\* The counter stays between zero and agent_max_threads, whatever calls overlap.
THEOREM AgentTypes == Spec => []TypeOK
<1>1. SlotInv => TypeOK
  BY DEF SlotInv
<1> QED BY <1>1, SlotInvariance, PTL

\* Every registered agent and every call that makes one has a slot of its own.
THEOREM SlotsAreCovered == Spec => []SlotsCovered
<1>1. SlotInv => SlotsCovered
  BY DEF SlotInv
<1> QED BY <1>1, SlotInvariance, PTL

-----------------------------------------------------------------------------
(* Paths.                                                                    *)

\* A step that neither reserves nor ends the reservation of a path.
LEMMA PathKept ==
  ASSUME TypeOK, PathInv, NEW f \in Flows, NEW s, pc' = [pc EXCEPT ![f] = s],
         tree' = tree, way' \in {way, [way EXCEPT ![f] = None]},
         pc[f] \notin PathSteps \/ (s \in PathSteps /\ way' = way)
  PROVE  PathInv'
<1>1. way' = way
  <2>1. CASE pc[f] \notin PathSteps
    <3>1. way[f] = None
      BY <2>1 DEF PathInv, PathSteps
    <3> QED BY <3>1 DEF TypeOK
  <2> QED BY <2>1
<1>2. \A g \in Flows : way[g] # None => pc'[g] \in PathSteps
  BY DEF PathInv, PathSteps, TypeOK
<1> QED BY <1>1, <1>2 DEF PathInv, PathSteps

\* Every step of a call keeps the placeholders and their calls in step.
LEMMA PathStep ==
  ASSUME SlotInv, PathInv, NEW f \in Flows, FlowStep(f)
  PROVE  PathInv'
<1> USE DEF PathSteps
<1>t. TypeOK /\ CallInv
  BY DEF SlotInv
<1> DEFINE Quiet(step) == /\ pc' = [pc EXCEPT ![f] = step] /\ tree' = tree
                          /\ way' \in {way, [way EXCEPT ![f] = None]}
                          /\ pc[f] \notin PathSteps \/ (step \in PathSteps /\ way' = way)
<1>0. ASSUME NEW step, Quiet(step) PROVE PathInv'
  BY <1>0, <1>t, PathKept
<1>1. ASSUME NEW what, NEW i, NEW step, Begin(f, what, i, step) PROVE PathInv'
  <2>1. Quiet(step)
    BY <1>1 DEF Begin, regVars
  <2> QED BY <2>1, <1>0
<1>2. ASSUME Return(f), tree' = tree, pc[f] \notin PathSteps PROVE PathInv'
  <2>1. Quiet("idle")
    BY <1>2 DEF Return
  <2> QED BY <2>1, <1>0
<1>3. CASE BeginSpawn(f) \/ (\E t \in Threads : BeginResume(f, t) \/ BeginSend(f, t))
           \/ (\E i \in Ids : BeginShutdown(f, i))
  BY <1>1, <1>3 DEF BeginSpawn, BeginResume, BeginSend, BeginShutdown
<1>4. CASE LimitReached(f) \/ FlushFails(f) \/ NothingToRelease(f) \/ Decrement(f)
  BY <1>2, <1>4 DEF LimitReached, FlushFails, NothingToRelease, AfterNoEntry, Decrement, regVars
<1>5. CASE LoadCount(f) \/ PrepareWorker(f) \/ ShutdownSent(f) \/ RemoveThread(f)
  <2>1. Quiet("cas") \/ Quiet("create") \/ Quiet("remove") \/ Quiet("release")
    BY <1>5 DEF LoadCount, PrepareWorker, ShutdownSent, RemoveThread, Goto, regVars
  <2> QED BY <2>1, <1>0
<1>6. CASE CompareExchange(f)
  <2>1. CASE Unmoved(f)
    <3>1. Quiet("prepare")
      BY <1>6, <2>1 DEF CompareExchange, Goto
    <3> QED BY <3>1, <1>0
  <2>2. CASE ~Unmoved(f)
    <3>1. pc' = pc /\ tree' = tree /\ way' = way
      BY <1>6, <2>2 DEF CompareExchange
    <3> QED BY <3>1 DEF PathInv
  <2> QED BY <2>1, <2>2
<1>7. CASE PreferredNickname(f) \/ DrawNickname(f)
  <2>1. Quiet("create")
    BY <1>7 DEF PreferredNickname, DrawNickname, TakeNickname, Goto
  <2> QED BY <2>1, <1>0
<1>8. CASE NoNickname(f) \/ FindResumed(f) \/ CreateFails(f)
           \/ (\E t \in Threads : CreateThread(f, t))
  <2>1. Quiet("drop") \/ Quiet("commit") \/ Quiet("finalize")
    BY <1>8 DEF NoNickname, FindResumed, CreateFails, CreateThread, Goto, regVars
  <2> QED BY <2>1, <1>0
<1>9. CASE Send(f)
  <2>1. Quiet("idle") \/ Quiet("remove")
    BY <1>9 DEF Send, Return, Goto, regVars
  <2> QED BY <2>1, <1>0
<1>10. CASE ReservePath(f)
  <2>1. PICK depth1 \in BOOLEAN, p \in Paths \cup {None}, step \in {"nickname", "drop"} :
          /\ pc' = [pc EXCEPT ![f] = step]
          /\ \/ tree' = WithRoot(depth1) /\ way' = way
             \/ /\ p \in Paths /\ tree[p] = "vacant" /\ step = "nickname"
                /\ tree' = [WithRoot(depth1) EXCEPT ![p] = "reserved"]
                /\ way' = [way EXCEPT ![f] = p]
    BY <1>10 DEF ReservePath, Goto
  <2>2. /\ WithRoot(depth1) \in [Keys -> Ids \cup {"vacant", "reserved"}]
        /\ \A k \in Keys \ {Root} : WithRoot(depth1)[k] = tree[k]
    BY <1>t DEF WithRoot, TypeOK, Keys, Ids
  <2>3. pc[f] = "prepare" /\ way[f] = None
    BY <1>10 DEF ReservePath, PathInv
  <2>4. /\ Root \notin Paths /\ Root \notin Threads /\ Threads \cap Paths = {}
        /\ Paths \subseteq Keys /\ Threads \subseteq Keys /\ None \notin Paths
    BY ConstantsAssumption DEF Keys, Ids, None
  <2>7. \A i \in Ids : WithRoot(depth1)[i] \in {"vacant", i}
    BY <1>t DEF WithRoot, PathInv, TypeOK, Keys, Ids
  <2>5. CASE tree' = WithRoot(depth1) /\ way' = way
    <3>1. /\ \A k \in Paths \cup Threads : tree'[k] = tree[k]
          /\ \A g \in Flows : pc'[g] = pc[g] \/ g = f
      BY <1>t, <2>1, <2>2, <2>4, <2>5 DEF TypeOK
    <3>2. \A i \in Ids : tree'[i] \in {"vacant", i}
      BY <2>5, <2>7 DEF Keys
    <3> QED BY <1>t, <2>3, <2>4, <2>5, <3>1, <3>2 DEF PathInv, TypeOK
  <2>6. CASE /\ p \in Paths /\ tree[p] = "vacant" /\ step = "nickname"
             /\ tree' = [WithRoot(depth1) EXCEPT ![p] = "reserved"]
             /\ way' = [way EXCEPT ![f] = p]
    <3>1. /\ \A k \in Paths \cup Threads : tree'[k] = IF k = p THEN "reserved" ELSE tree[k]
          /\ \A g \in Flows : pc'[g] = IF g = f THEN "nickname" ELSE pc[g]
          /\ \A g \in Flows : way'[g] = IF g = f THEN p ELSE way[g]
      BY <1>t, <2>1, <2>2, <2>4, <2>6 DEF TypeOK
    <3>2. \A g \in Flows : way[g] \in Paths \cup {None} /\ way[g] # p
      BY <1>t, <2>4, <2>6 DEF PathInv, TypeOK
    <3>3. \A i \in Ids : tree'[i] \in {"vacant", i}
      BY <2>2, <2>4, <2>6, <2>7 DEF Keys, Ids
    <3> QED BY <2>3, <2>4, <2>6, <3>1, <3>2, <3>3 DEF PathInv
  <2> QED BY <2>1, <2>5, <2>6
<1>11. CASE Commit(f)
  <2>1. /\ pc[f] = "commit" /\ tree' = [tree EXCEPT ![EntryKey(f)] = tgt[f]]
        /\ way' = [way EXCEPT ![f] = None] /\ tgt[f] \in Threads
        /\ EntryKey(f) = IF way[f] = None THEN tgt[f] ELSE way[f]
    BY <1>11, <1>t DEF Commit, Return, EntryKey, CallInv
  <2>2. /\ Threads \cap Paths = {} /\ Paths \subseteq Keys /\ Threads \subseteq Keys
        /\ None \notin Paths /\ "reserved" \notin Threads
    BY ConstantsAssumption DEF Keys, Ids, None
  <2>3. \A g \in Flows : (pc'[g] = pc[g] \/ g = f) /\ way'[g] = IF g = f THEN None ELSE way[g]
    BY <1>11, <1>t, <2>1 DEF Commit, Return, Goto, TypeOK
  <2>4. \A k \in Keys : tree'[k] = IF k = EntryKey(f) THEN tgt[f] ELSE tree[k]
    BY <1>t, <2>1 DEF TypeOK
  <2>5. \A g \in Flows : way[g] \in Paths \cup {None}
    BY <1>t DEF TypeOK
  <2>6. \A i \in Ids : tree'[i] \in {"vacant", i}
    BY <2>1, <2>4, <2>5, ConstantsAssumption DEF PathInv, Keys, Ids
  <2> QED BY <2>1, <2>2, <2>3, <2>4, <2>5, <2>6 DEF PathInv
<1>12. CASE DropReservation(f)
  <2>1. /\ way' = [way EXCEPT ![f] = None]
        /\ tree' = IF Placeholder(f) THEN [tree EXCEPT ![way[f]] = "vacant"] ELSE tree
    BY <1>12 DEF DropReservation
  <2>2. /\ Threads \cap Paths = {} /\ Paths \subseteq Keys /\ Threads \subseteq Keys
        /\ None \notin Paths
    BY ConstantsAssumption DEF Keys, Ids, None
  <2>3. \A g \in Flows : /\ pc'[g] = pc[g] \/ g = f
                         /\ way'[g] = IF g = f THEN None ELSE way[g]
                         /\ way[g] \in Paths \cup {None}
    BY <1>12, <1>t, <2>1 DEF DropReservation, Goto, TypeOK
  <2>4. Placeholder(f) <=> way[f] # None
    BY DEF Placeholder, PathInv
  <2>5. \A k \in Keys : tree'[k] = IF way[f] # None /\ k = way[f] THEN "vacant" ELSE tree[k]
    BY <1>t, <2>1, <2>4 DEF TypeOK
  <2>6. \A i \in Ids : tree'[i] \in {"vacant", i}
    BY <2>5 DEF PathInv, Keys
  <2> QED BY <2>2, <2>3, <2>5, <2>6 DEF PathInv
<1>13. CASE ReleaseEntry(f)
  <2>1. PICK k \in EntriesOf(tgt[f]) : /\ tree' = [tree EXCEPT ![k] = "vacant"]
                                       /\ AfterRelease(f, k)
    BY <1>13 DEF ReleaseEntry
  <2>2. pc[f] = "release" /\ tgt[f] \in Ids /\ k \in Keys /\ tree[k] = tgt[f] /\ way[f] = None
    BY <1>13, <1>t, <2>1 DEF ReleaseEntry, EntriesOf, CallInv, PathInv
  <2>3. tree[k] # "reserved"
    BY <2>2, ConstantsAssumption DEF Ids
  <2>4. \A l \in Keys : tree'[l] = IF l = k THEN "vacant" ELSE tree[l]
    BY <1>t, <2>1 DEF TypeOK
  <2>5. way' = way /\ \A g \in Flows : pc'[g] = pc[g] \/ g = f
    BY <1>t, <2>1, <2>2 DEF AfterRelease, Return, Goto, TypeOK
  <2>6. \A g \in Flows : way[g] \in Paths \cup {None}
    BY <1>t DEF TypeOK
  <2> QED BY <2>2, <2>3, <2>4, <2>5, <2>6 DEF PathInv, Keys, Ids
<1> QED BY <1>3, <1>4, <1>5, <1>6, <1>7, <1>8, <1>9, <1>10, <1>11, <1>12, <1>13 DEF FlowStep

\* The invariant of the paths.
LEMMA PathInvariance == Spec => [](SlotInv /\ PathInv)
<1>1. Init => PathInv
  BY ConstantsAssumption DEF Init, PathInv, Keys, Ids
<1>2. SlotInv /\ PathInv /\ [Next]_vars => PathInv'
  <2> SUFFICES ASSUME SlotInv, PathInv, [Next]_vars PROVE PathInv'
    OBVIOUS
  <2>1. ASSUME UNCHANGED <<pc, way, tree>> PROVE PathInv'
    BY <2>1 DEF PathInv
  <2>2. ASSUME NEW t \in Threads, SessionEnds(t) \/ Unload(t) PROVE PathInv'
    BY <2>1, <2>2 DEF SessionEnds, Unload, regVars, flowVars
  <2>3. CASE UNCHANGED vars
    BY <2>1, <2>3 DEF vars, regVars, flowVars
  <2> QED BY <2>2, <2>3, PathStep DEF Next
<1> QED BY <1>1, <1>2, SlotInvariance, PTL DEF Spec

\* reserve_agent_path excludes every other call from the path, and nothing but the end
\* of that call removes or replaces its placeholder.
THEOREM PathsAreExclusive == Spec => []PathsExclusive
<1>1. SlotInv /\ PathInv => PathsExclusive
  <2> SUFFICES ASSUME SlotInv, PathInv, NEW p \in Paths
               PROVE  LET at == {f \in Flows : /\ way[f] = p
                                                /\ pc[f] \in PathSteps}
                      IN IF tree[p] = "reserved" THEN Cardinality(at) = 1 ELSE at = {}
    BY DEF PathsExclusive, PathSteps
  <2> DEFINE at == {f \in Flows : way[f] = p /\ pc[f] \in PathSteps}
  <2>0. p # None
    BY ConstantsAssumption DEF None
  <2>1. CASE tree[p] = "reserved"
    <3>1. PICK f \in Flows : way[f] = p
      BY <2>1 DEF PathInv
    <3>2. at = {f}
      BY <2>0, <3>1 DEF PathInv, PathSteps
    <3> QED BY <2>1, <3>2, FS_Singleton
  <2>2. CASE tree[p] # "reserved"
    BY <2>0, <2>2 DEF PathInv
  <2> QED BY <2>1, <2>2
<1> QED BY <1>1, PathInvariance, PTL

-----------------------------------------------------------------------------
(* Nicknames.                                                                *)

NameSteps == {"idle", "load", "cas", "prepare", "nickname"}
NewSteps  == {"load", "cas", "prepare", "nickname", "create"}

\* A nickname is a pair, never the empty tuple.
LEMMA NicknamesNotEmpty == \A n \in Nicknames : n # NoNick
<1> SUFFICES ASSUME NEW n \in Nicknames PROVE n # NoNick
  OBVIOUS
<1>1. PICK a \in Names, b \in Nat : n = <<a, b>>
  BY DEF Nicknames
<1>2. Len(<<a, b>>) = 2 /\ Len(<<>>) = 0
  OBVIOUS
<1> QED BY <1>1, <1>2 DEF NoNick

\* A name stays marked while the pool only grows.
LEMMA MarkedKept ==
  ASSUME resets' = resets, used \subseteq used', NEW n, Marked(n)
  PROVE  Marked(n)'
BY DEF Marked

\* A step that gives no name: the call keeps its name and its thread, or has no name.
LEMMA NameKept ==
  ASSUME TypeOK, NameInv, NEW f \in Flows, nick' = nick, resets' = resets, used \subseteq used',
         \A g \in Flows \ {f} : /\ pc'[g] = pc[g] /\ kind'[g] = kind[g]
                               /\ tgt'[g] = tgt[g] /\ name'[g] = name[g],
         name'[f] = NoNick \/ (name'[f] = name[f] /\ tgt'[f] = tgt[f]),
         pc'[f] \in NameSteps => name'[f] = NoNick,
         pc'[f] \in NewSteps /\ kind'[f] # "resume" => tgt'[f] = None
  PROVE  NameInv'
<1>1. \A t \in Ours : Marked(nick[t])'
  BY MarkedKept DEF NameInv
<1>2. \A g \in Naming' : g \in Naming /\ name'[g] = name[g] /\ tgt'[g] = tgt[g]
  BY DEF Naming
<1>3. \A g \in Naming' : Marked(name[g])'
  BY <1>2 DEF NameInv, Marked
<1>4. \A g \in Naming', t \in Ours : name'[g] = nick'[t] => tgt'[g] = t
  BY <1>2 DEF NameInv
<1>5. \A g, h \in Naming' : name'[g] = name'[h] => g = h \/ (tgt'[g] = tgt'[h] /\ tgt'[g] # None)
  BY <1>2 DEF NameInv
<1>6. /\ \A g \in Flows : pc'[g] \in NameSteps => name'[g] = NoNick
      /\ \A g \in Flows : pc'[g] \in NewSteps /\ kind'[g] # "resume" => tgt'[g] = None
  BY DEF NameInv, NameSteps, NewSteps
<1>7. \A t, u \in Ours : nick'[t] # NoNick /\ nick'[t] = nick'[u] => t = u
  BY DEF NameInv
<1> QED BY <1>1, <1>3, <1>4, <1>5, <1>6, <1>7 DEF NameInv, NameSteps, NewSteps

\* A call that takes a name: one that no thread and no other call of this registry has,
\* unless the call resumes a stored thread.
LEMMA NameTaken ==
  ASSUME TypeOK, NameInv, NEW f \in Flows, NEW n, n # NoNick, pc[f] = "nickname",
         TakeNickname(f, n),
         \A m \in Nicknames \cup {NoNick} : Marked(m) => Marked(m)',
         \/ tgt[f] \in Stored
         \/ /\ Marked(n)'
            /\ \A t \in Ours : nick[t] = n => tgt[f] = t
            /\ \A g \in Naming : name[g] = n => tgt[g] = tgt[f] /\ tgt[f] # None
  PROVE  NameInv'
<1>1. /\ nick' = nick /\ UNCHANGED <<kind, tgt>>
      /\ \A g \in Flows : pc'[g] = IF g = f THEN "create" ELSE pc[g]
      /\ \A g \in Flows : name'[g] = IF g = f THEN n ELSE name[g]
  BY DEF TakeNickname, Goto, thrVars, TypeOK
<1>0. /\ \A g \in Naming' : g \in Flows /\ (g # f => g \in Naming) /\ name'[g] # NoNick
      /\ f \in Naming' => tgt[f] \notin Stored
  BY <1>1 DEF Naming
<1>2. \A t \in Ours : Marked(nick[t])'
  <2> TAKE t \in Ours
  <2>1. Marked(nick[t]) /\ nick[t] \in Nicknames \cup {NoNick} /\ nick'[t] = nick[t]
    BY <1>1 DEF NameInv, TypeOK, Ours
  <2> QED BY <2>1 DEF Marked
<1>3. \A g \in Naming' : Marked(name[g])'
  <2> TAKE g \in Naming'
  <2>1. CASE g = f
    BY <1>0, <1>1, <2>1 DEF Marked
  <2>2. CASE g # f
    <3>1. /\ Marked(name[g]) /\ name'[g] = name[g]
          /\ name[g] \in Nicknames \cup {NoNick}
      BY <1>0, <1>1, <2>2 DEF NameInv, TypeOK
    <3> QED BY <3>1 DEF Marked
  <2> QED BY <2>1, <2>2
<1>4. \A g \in Naming', t \in Ours : name'[g] = nick'[t] => tgt'[g] = t
  BY <1>0, <1>1 DEF NameInv
<1>5. \A g, h \in Naming' : name'[g] = name'[h] => g = h \/ (tgt'[g] = tgt'[h] /\ tgt'[g] # None)
  BY <1>0, <1>1 DEF NameInv
<1>6. /\ \A g \in Flows : pc'[g] \in NameSteps => name'[g] = NoNick
      /\ \A g \in Flows : pc'[g] \in NewSteps /\ kind'[g] # "resume" => tgt'[g] = None
  BY <1>1 DEF NameInv, NameSteps, NewSteps
<1>7. \A t, u \in Ours : nick'[t] # NoNick /\ nick'[t] = nick'[u] => t = u
  BY <1>1 DEF NameInv
<1> QED BY <1>2, <1>3, <1>4, <1>5, <1>6, <1>7 DEF NameInv, NameSteps, NewSteps

\* A resume takes back the nickname of its thread.
LEMMA PreferredStep ==
  ASSUME SlotInv, NameInv, NEW f \in Flows, PreferredNickname(f)
  PROVE  NameInv'
<1>0. PICK n : n = nick[tgt[f]]
  OBVIOUS
<1>1. /\ pc[f] = "nickname" /\ tgt[f] \in Threads /\ n # NoNick
      /\ TakeNickname(f, n) /\ used' = used \cup {n} /\ resets' = resets
  BY <1>0 DEF PreferredNickname, SlotInv, CallInv
<1>2. \A m \in Nicknames \cup {NoNick} : Marked(m) => Marked(m)'
  BY <1>1 DEF Marked
<1>3. CASE tgt[f] \in Stored
  BY <1>1, <1>2, <1>3, NameTaken DEF SlotInv
<1>4. CASE tgt[f] \in Ours
  <2>1. Marked(n)'
    <3>1. Marked(n)
      BY <1>0, <1>4 DEF NameInv
    <3> QED BY <1>1, <3>1 DEF Marked
  <2>2. /\ \A t \in Ours : nick[t] = n => tgt[f] = t
        /\ \A g \in Naming : name[g] = n => tgt[g] = tgt[f] /\ tgt[f] # None
    BY <1>0, <1>1, <1>4, ConstantsAssumption DEF NameInv, None
  <2> QED BY <1>1, <1>2, <2>1, <2>2, NameTaken DEF SlotInv
<1> QED BY <1>1, <1>3, <1>4 DEF Ours

\* A drawn nickname is new: it was not used, or its suffix is.
LEMMA DrawStep ==
  ASSUME SlotInv, NameInv, NEW f \in Flows, DrawNickname(f)
  PROVE  NameInv'
<1>t. TypeOK
  BY DEF SlotInv
<1>1. PICK n \in Nicknames :
        /\ TakeNickname(f, n)
        /\ \/ /\ n[2] = resets /\ n \notin used
              /\ used' = used \cup {n} /\ resets' = resets
           \/ /\ n[2] = resets + 1 /\ used' = {n} /\ resets' = resets + 1
  BY <1>t DEF DrawNickname, Nicknames, NextReset, TypeOK
<1>2. n # NoNick /\ resets \in Nat /\ pc[f] = "nickname"
  <2>1. n # NoNick
    BY NicknamesNotEmpty
  <2> QED BY <1>t, <2>1 DEF TypeOK, DrawNickname
<1>3. \A m \in Nicknames \cup {NoNick} : Marked(m) => Marked(m)' /\ m # n
  BY <1>1, <1>2 DEF Marked, Nicknames
<1>4. Marked(n)'
  BY <1>1, <1>2 DEF Marked
<1>5. /\ \A t \in Ours : nick[t] # n
      /\ \A g \in Naming : name[g] # n
  BY <1>t, <1>3 DEF NameInv, Naming, Ours, TypeOK
<1> QED BY <1>t, <1>1, <1>2, <1>3, <1>4, <1>5, NameTaken

\* The nickname goes from the call to the thread.
LEMMA CreateStep ==
  ASSUME SlotInv, NameInv, NEW f \in Flows, NEW t \in Threads, CreateThread(f, t)
  PROVE  NameInv'
<1>1. /\ (kind[f] = "resume" => t = tgt[f])
      /\ UNCHANGED <<used, resets, kind, name>>
      /\ \A u \in Threads : nick'[u] = IF u = t THEN name[f] ELSE nick[u]
      /\ \A g \in Flows : tgt'[g] = IF g = f THEN t ELSE tgt[g]
      /\ \A g \in Flows : pc'[g] = IF g = f THEN "commit" ELSE pc[g]
  BY DEF CreateThread, Goto, regVars, SlotInv, TypeOK
<1>2. /\ t # None /\ None \notin Stored
      /\ tgt[f] = t \/ (tgt[f] = None /\ t \in Ours)
  <2>1. CASE kind[f] = "resume"
    BY <1>1, <2>1, ConstantsAssumption DEF None
  <2>2. CASE kind[f] # "resume"
    <3>1. pc[f] = "create" /\ thr[t] = "unused"
      BY <2>2 DEF CreateThread
    <3> QED BY <2>2, <3>1, ConstantsAssumption DEF NameInv, Ours, SlotInv, CallInv, None
  <2> QED BY <2>1, <2>2
<1>n. Naming' = Naming
  BY <1>1, <1>2 DEF Naming, Ours
<1>f. t \in Ours /\ name[f] # NoNick => f \in Naming
  BY <1>2 DEF Naming, Ours
<1>3. \A u \in Ours : Marked(nick[u])'
  <2> TAKE u \in Ours
  <2>1. CASE u = t /\ name[f] # NoNick
    BY <1>1, <1>f, <2>1 DEF NameInv, Marked, Ours
  <2>2. CASE u = t /\ name[f] = NoNick
    BY <1>1, <2>2 DEF Marked
  <2>3. CASE u # t
    BY <1>1, <2>3 DEF NameInv, Marked, Ours
  <2> QED BY <2>1, <2>2, <2>3
<1>4. \A g \in Naming : Marked(name[g])'
  BY <1>1 DEF NameInv, Marked
<1>5. \A u \in Ours : f \in Naming /\ name[f] = nick[u] => u = t
  BY <1>2, ConstantsAssumption DEF NameInv, Ours, None
<1>6. \A g \in Naming : f \in Naming /\ name[g] = name[f] => g = f \/ tgt[g] = t
  BY <1>2 DEF NameInv
<1>7. \A u, v \in Ours : nick'[u] # NoNick /\ nick'[u] = nick'[v] => u = v
  BY <1>1, <1>5, <1>f DEF NameInv, Ours
<1>8. \A g \in Naming, u \in Ours : name'[g] = nick'[u] => tgt'[g] = u
  <2> SUFFICES ASSUME NEW g \in Naming, NEW u \in Ours, name'[g] = nick'[u] PROVE tgt'[g] = u
    OBVIOUS
  <2>1. g \in Flows /\ u \in Threads /\ name[g] # NoNick /\ name'[g] = name[g]
    BY <1>1 DEF Naming, Ours
  <2>2. CASE u = t
    BY <1>1, <1>6, <1>f, <2>1, <2>2
  <2>3. CASE u # t
    BY <1>1, <1>5, <2>1, <2>3 DEF NameInv
  <2> QED BY <2>2, <2>3
<1>9. \A g, h \in Naming : name'[g] = name'[h] => g = h \/ (tgt'[g] = tgt'[h] /\ tgt'[g] # None)
  BY <1>1, <1>2, <1>6 DEF NameInv, Naming
<1>10. /\ \A g \in Flows : pc'[g] \in NameSteps => name'[g] = NoNick
       /\ \A g \in Flows : pc'[g] \in NewSteps /\ kind'[g] # "resume" => tgt'[g] = None
  BY <1>1 DEF NameInv, NameSteps, NewSteps
<1> QED BY <1>3, <1>4, <1>7, <1>8, <1>9, <1>10, <1>n DEF NameInv, NameSteps, NewSteps

\* Every step of a call keeps the nicknames apart.
LEMMA NameStep ==
  ASSUME SlotInv, NameInv, NEW f \in Flows, FlowStep(f)
  PROVE  NameInv'
<1> USE DEF NameSteps, NewSteps
<1>t. TypeOK /\ CallInv
  BY DEF SlotInv
<1> DEFINE Others == \A g \in Flows \ {f} : /\ pc'[g] = pc[g] /\ kind'[g] = kind[g]
                                           /\ tgt'[g] = tgt[g] /\ name'[g] = name[g]
           Pool == nick' = nick /\ resets' = resets /\ used \subseteq used'
\* The call moves on with its locals.
<1>1. ASSUME NEW step \in Steps, pc' = [pc EXCEPT ![f] = step], Pool,
             UNCHANGED <<kind, tgt, name>>,
             step \in NameSteps => pc[f] \in NameSteps,
             step \in NewSteps => pc[f] \in NewSteps
      PROVE  NameInv'
  <2>1. Others /\ pc'[f] = step
    BY <1>1, <1>t DEF TypeOK
  <2>2. /\ pc'[f] \in NameSteps => name'[f] = NoNick
        /\ pc'[f] \in NewSteps /\ kind'[f] # "resume" => tgt'[f] = None
    BY <1>1, <2>1 DEF NameInv
  <2> QED BY <1>1, <1>t, <2>1, <2>2, NameKept
\* The call has no name afterwards.
<1>2. ASSUME Pool, Others, name'[f] = NoNick,
             pc'[f] \in NewSteps /\ kind'[f] # "resume" => tgt'[f] = None
      PROVE  NameInv'
  BY <1>2, <1>t, NameKept
<1>3. ASSUME Return(f), Pool PROVE NameInv'
  <2>1. Others /\ name'[f] = NoNick /\ pc'[f] = "idle"
    BY <1>3, <1>t DEF Return, TypeOK
  <2> QED BY <1>2, <1>3, <2>1
<1>4. ASSUME NEW what, NEW i, NEW step, Begin(f, what, i, step),
             what \in {"agent", "worker"} => i = None,
             what \in {"send", "shutdown"} => step \notin NewSteps,
             what \in {"agent", "worker", "resume", "send", "shutdown"}
      PROVE  NameInv'
  <2>1. /\ Others /\ name'[f] = NoNick /\ pc'[f] = step /\ kind'[f] = what /\ tgt'[f] = i
        /\ Pool
    BY <1>4, <1>t DEF Begin, regVars, thrVars, TypeOK, NameInv
  <2> QED BY <1>2, <1>4, <2>1
<1>5. CASE BeginSpawn(f) \/ (\E t \in Threads : BeginResume(f, t) \/ BeginSend(f, t))
           \/ (\E i \in Ids : BeginShutdown(f, i))
  BY <1>4, <1>5 DEF BeginSpawn, BeginResume, BeginSend, BeginShutdown
<1>6. CASE LimitReached(f) \/ FlushFails(f) \/ NothingToRelease(f) \/ Decrement(f)
  BY <1>3, <1>6 DEF LimitReached, FlushFails, NothingToRelease, AfterNoEntry, Decrement,
     regVars, thrVars
<1>7. CASE LoadCount(f) \/ ShutdownSent(f) \/ NoNickname(f) \/ CreateFails(f)
           \/ PrepareWorker(f) \/ FindResumed(f)
  <2>1. PICK step \in {"cas", "remove", "drop", "create", "finalize", "commit"} :
          /\ pc' = [pc EXCEPT ![f] = step] /\ UNCHANGED <<regVars, nick, kind, tgt, name>>
          /\ step = "cas" => pc[f] = "load"
          /\ step = "create" => pc[f] = "prepare"
    BY <1>7 DEF LoadCount, ShutdownSent, NoNickname, CreateFails, PrepareWorker, FindResumed,
       Goto, thrVars
  <2> QED BY <1>1, <2>1 DEF regVars, Steps
<1>8. CASE CompareExchange(f)
  <2>1. Pool /\ UNCHANGED <<kind, tgt, name>> /\ pc[f] = "cas"
    BY <1>8 DEF CompareExchange, thrVars
  <2>2. pc' = [pc EXCEPT ![f] = "prepare"] \/ pc' = [pc EXCEPT ![f] = "cas"]
    BY <1>8, <1>t DEF CompareExchange, Goto, TypeOK
  <2> QED BY <1>1, <2>1, <2>2 DEF Steps
<1>9. CASE ReservePath(f)
  <2>1. PICK step \in {"nickname", "drop"} : pc' = [pc EXCEPT ![f] = step]
    BY <1>9 DEF ReservePath, Goto
  <2>2. Pool /\ UNCHANGED <<kind, tgt, name>> /\ pc[f] = "prepare"
    BY <1>9 DEF ReservePath, thrVars
  <2> QED BY <1>1, <2>1, <2>2 DEF Steps
<1>10. CASE Commit(f)
  <2>1. Others /\ name'[f] = NoNick /\ pc'[f] \in {"idle", "send"}
    BY <1>10, <1>t DEF Commit, Return, Goto, TypeOK
  <2>2. Pool
    BY <1>10 DEF Commit, thrVars
  <2> QED BY <1>2, <2>1, <2>2
<1>11. CASE DropReservation(f)
  <2>1. Pool /\ UNCHANGED <<kind, tgt, name>> /\ pc' = [pc EXCEPT ![f] = "sub"]
    BY <1>11 DEF DropReservation, Goto, thrVars
  <2> QED BY <1>1, <2>1 DEF Steps
<1>12. CASE Send(f)
  <2>1. Pool
    BY <1>12 DEF Send, regVars, thrVars
  <2>2. CASE Return(f)
    BY <1>3, <2>1, <2>2
  <2>3. CASE pc' = [pc EXCEPT ![f] = "remove"] /\ UNCHANGED <<kind, tgt, name>>
    BY <1>1, <2>1, <2>3 DEF Steps
  <2> QED BY <1>12, <2>2, <2>3 DEF Send, Goto
<1>13. CASE RemoveThread(f)
  <2>1. Pool /\ UNCHANGED <<kind, tgt, name>> /\ pc' = [pc EXCEPT ![f] = "release"]
    BY <1>13 DEF RemoveThread, Goto, regVars
  <2> QED BY <1>1, <2>1 DEF Steps
<1>14. CASE ReleaseEntry(f)
  <2>1. Pool
    BY <1>14 DEF ReleaseEntry, thrVars
  <2>2. CASE Return(f)
    BY <1>3, <2>1, <2>2
  <2>3. CASE pc' = [pc EXCEPT ![f] = "sub"] /\ UNCHANGED <<kind, tgt, name>>
    BY <1>1, <2>1, <2>3 DEF Steps
  <2> QED BY <1>14, <2>2, <2>3 DEF ReleaseEntry, AfterRelease, Goto
<1> QED BY <1>5, <1>6, <1>7, <1>8, <1>9, <1>10, <1>11, <1>12, <1>13, <1>14,
           PreferredStep, DrawStep, CreateStep
        DEF FlowStep

\* The invariant of the nicknames.
LEMMA NameInvariance == Spec => []NameInv
<1>1. Init => NameInv
  <2> SUFFICES ASSUME Init PROVE NameInv
    OBVIOUS
  <2>1. /\ \A t \in Ours : nick[t] = NoNick
        /\ \A f \in Flows : name[f] = NoNick /\ pc[f] = "idle"
    BY DEF Init, Ours
  <2> QED BY <2>1 DEF NameInv, Naming, Marked
<1>2. SlotInv /\ NameInv /\ [Next]_vars => NameInv'
  <2> SUFFICES ASSUME SlotInv, NameInv, [Next]_vars PROVE NameInv'
    OBVIOUS
  <2>1. ASSUME UNCHANGED <<used, resets, nick, pc, kind, tgt, name>> PROVE NameInv'
    BY <2>1 DEF NameInv, Naming, Marked
  <2>2. ASSUME NEW t \in Threads, SessionEnds(t) \/ Unload(t) PROVE NameInv'
    BY <2>1, <2>2 DEF SessionEnds, Unload, regVars, flowVars
  <2>3. CASE UNCHANGED vars
    BY <2>1, <2>3 DEF vars, regVars, thrVars, flowVars
  <2> QED BY <2>2, <2>3, NameStep DEF Next
<1> QED BY <1>1, <1>2, SlotInvariance, PTL DEF Spec

\* No two open agents that this registry named have the same nickname, through resets of
\* the pool, overlapping lists of names and concurrent resumes of one thread, whatever
\* names stored threads bring along.
THEOREM NicknamesAreUnique == Spec => []NicknamesUnique
<1>1. NameInv => NicknamesUnique
  BY DEF NameInv, NicknamesUnique, Open, Ours
<1> QED BY <1>1, NameInvariance, PTL

-----------------------------------------------------------------------------
(* Without resumes: every slot has its agent.                                *)

NoResume == "resume" \notin Allowed

LiveInv == OnceInv /\ OpenIsRegistered

\* The call moves on; no thread, and no entry of one, changes.
LEMMA LiveKept ==
  ASSUME SlotInv, LiveInv, NEW f \in Flows, thr' = thr,
         \A t \in Threads, k \in Keys : tree'[k] = t <=> tree[k] = t,
         \A g \in Flows \ {f} : pc'[g] = pc[g] /\ kind'[g] = kind[g] /\ tgt'[g] = tgt[g],
         pc[f] # "commit", pc'[f] \notin {"commit", "release"}, kind'[f] # "resume",
         tgt'[f] \in Threads => thr[tgt'[f]] # "unused"
  PROVE  LiveInv'
<1> USE DEF LiveInv, InManager, EntriesOf
<1>1. OnceInv'
  <2>1. /\ \A g \in Flows : kind'[g] # "resume"
        /\ \A g \in Flows : tgt'[g] \in Threads => thr'[tgt'[g]] # "unused"
        /\ \A g \in Flows : pc'[g] = "release" => thr'[tgt'[g]] \notin {"live", "dead"}
        /\ \A g, h \in Flows : pc'[g] = "commit" /\ pc'[h] = "commit" /\ tgt'[g] = tgt'[h]
                               => g = h
    BY DEF OnceInv
  <2>2. \A t \in Threads : thr'[t] = "unused" => {k \in Keys : tree'[k] = t} = {}
    BY DEF OnceInv
  <2>3. \A g \in Flows : pc'[g] = "commit" => {k \in Keys : tree'[k] = tgt'[g]} = {}
    <3>1. \A g \in Flows : pc'[g] = "commit" => g # f /\ tgt'[g] = tgt[g] /\ tgt[g] \in Threads
      BY DEF SlotInv, CallInv
    <3> QED BY <3>1 DEF OnceInv
  <2> QED BY <2>1, <2>2, <2>3 DEF OnceInv
<1>2. OpenIsRegistered'
  BY DEF OpenIsRegistered, Open
<1> QED BY <1>1, <1>2

\* A new thread is about to be registered.
LEMMA LiveCreate ==
  ASSUME SlotInv, LiveInv, NEW f \in Flows, NEW t \in Threads, CreateThread(f, t)
  PROVE  LiveInv'
<1>1. /\ tree' = tree /\ kind' = kind /\ pc[f] = "create" /\ thr[t] = "unused"
      /\ \A g \in Flows : tgt'[g] = IF g = f THEN t ELSE tgt[g]
      /\ \A g \in Flows : pc'[g] = IF g = f THEN "commit" ELSE pc[g]
      /\ \A i \in Ids : thr'[i] = IF i = t THEN "live" ELSE thr[i]
  BY DEF CreateThread, Goto, regVars, SlotInv, TypeOK, LiveInv, OnceInv
<1>2. t \in Ids /\ t # Root
  BY ConstantsAssumption DEF Ids
<1>3. \A g \in Flows : pc[g] \in {"commit", "release"} => tgt[g] \in Ids /\ tgt[g] # t
  BY <1>1, <1>2 DEF SlotInv, CallInv, Ids, LiveInv, OnceInv
<1>4. \A k \in Keys : tree[k] # t
  BY <1>1 DEF LiveInv, OnceInv, EntriesOf
<1>5. OnceInv'
  <2>1. /\ \A g \in Flows : kind'[g] # "resume"
        /\ \A g \in Flows : tgt'[g] \in Threads => thr'[tgt'[g]] # "unused"
        /\ \A u \in Threads : thr'[u] = "unused" => {k \in Keys : tree'[k] = u} = {}
    BY <1>1 DEF LiveInv, OnceInv, EntriesOf, Ids
  <2>2. \A g \in Flows : pc'[g] = "commit" => {k \in Keys : tree'[k] = tgt'[g]} = {}
    BY <1>1, <1>4 DEF LiveInv, OnceInv, EntriesOf
  <2>3. \A g, h \in Flows : pc'[g] = "commit" /\ pc'[h] = "commit" /\ tgt'[g] = tgt'[h] => g = h
    BY <1>1, <1>3 DEF LiveInv, OnceInv
  <2>4. \A g \in Flows : pc'[g] = "release" => thr'[tgt'[g]] \notin {"live", "dead"}
    BY <1>1, <1>3 DEF LiveInv, OnceInv, InManager
  <2> QED BY <2>1, <2>2, <2>3, <2>4 DEF OnceInv, EntriesOf, InManager
<1>6. OpenIsRegistered'
  <2> SUFFICES ASSUME NEW u \in Threads, thr'[u] \in {"live", "dead"}
               PROVE  \/ {k \in Keys : tree'[k] = u} # {}
                      \/ \E g \in Flows : pc'[g] = "commit" /\ tgt'[g] = u
    BY DEF OpenIsRegistered, Open, InManager, EntriesOf
  <2>1. CASE u = t
    BY <1>1, <2>1
  <2>2. CASE u # t
    BY <1>1, <2>2 DEF LiveInv, OpenIsRegistered, Open, InManager, EntriesOf, Ids
  <2> QED BY <2>1, <2>2
<1> QED BY <1>5, <1>6 DEF LiveInv

\* The agent is registered under a key nobody has.
LEMMA LiveCommit ==
  ASSUME SlotInv, PathInv, LiveInv, NEW f \in Flows, Commit(f)
  PROVE  LiveInv' /\ EntryKey(f) \notin Counted
<1>1. /\ thr' = thr /\ pc[f] = "commit" /\ tgt[f] \in Threads
      /\ EntryKey(f) = (IF way[f] = None THEN tgt[f] ELSE way[f])
      /\ EntryKey(f) \in Keys /\ EntryKey(f) \in Paths \cup Threads
      /\ \A k \in Keys : tree'[k] = IF k = EntryKey(f) THEN tgt[f] ELSE tree[k]
      /\ tgt' = tgt
      /\ \A g \in Flows : pc'[g] = IF g = f THEN "send" ELSE pc[g]
      /\ \A g \in Flows : kind'[g] = IF g = f THEN "send" ELSE kind[g]
  <2>1. kind[f] # "resume"
    BY DEF LiveInv, OnceInv
  <2> QED BY <2>1 DEF Commit, Goto, EntryKey, thrVars, SlotInv, CallInv, TypeOK, Keys, Ids
<1>2. tree[EntryKey(f)] \in {"vacant", "reserved"}
  <2>1. CASE way[f] = None
    BY <1>1, <2>1 DEF PathInv, LiveInv, OnceInv, EntriesOf, Ids
  <2>2. CASE way[f] # None
    BY <1>1, <2>2 DEF PathInv
  <2> QED BY <2>1, <2>2
<1>3. EntryKey(f) \notin Counted /\ tree[EntryKey(f)] \notin Threads
  BY <1>2, ConstantsAssumption DEF Counted
<1>4. \A t \in Threads, k \in Keys :
         tree'[k] = t <=> tree[k] = t \/ (t = tgt[f] /\ k = EntryKey(f))
  BY <1>1, <1>3
<1>5. OnceInv'
  <2>1. /\ \A g \in Flows : kind'[g] # "resume"
        /\ \A g \in Flows : tgt'[g] \in Threads => thr'[tgt'[g]] # "unused"
        /\ \A g, h \in Flows : pc'[g] = "commit" /\ pc'[h] = "commit" /\ tgt'[g] = tgt'[h]
                               => g = h
        /\ \A g \in Flows : pc'[g] = "release" => thr'[tgt'[g]] \notin {"live", "dead"}
    BY <1>1 DEF LiveInv, OnceInv, InManager
  <2>2. \A t \in Threads : thr'[t] = "unused" => {k \in Keys : tree'[k] = t} = {}
    BY <1>1, <1>4 DEF LiveInv, OnceInv, EntriesOf
  <2>3. \A g \in Flows : pc'[g] = "commit" => {k \in Keys : tree'[k] = tgt'[g]} = {}
    <3> SUFFICES ASSUME NEW g \in Flows, pc'[g] = "commit"
                 PROVE  {k \in Keys : tree'[k] = tgt'[g]} = {}
      OBVIOUS
    <3>1. g # f /\ pc[g] = "commit" /\ tgt'[g] = tgt[g] /\ tgt[g] \in Threads
      BY <1>1 DEF SlotInv, CallInv
    <3>2. tgt[g] # tgt[f] /\ \A k \in Keys : tree[k] # tgt[g]
      BY <1>1, <3>1 DEF LiveInv, OnceInv, EntriesOf
    <3> QED BY <1>1, <1>4, <3>1, <3>2
  <2> QED BY <2>1, <2>2, <2>3 DEF OnceInv, EntriesOf, InManager
<1>6. OpenIsRegistered'
  <2> SUFFICES ASSUME NEW u \in Threads, thr'[u] \in {"live", "dead"}
               PROVE  \/ \E k \in Keys : tree'[k] = u
                      \/ \E g \in Flows : pc'[g] = "commit" /\ tgt'[g] = u
    BY DEF OpenIsRegistered, Open, InManager, EntriesOf
  <2>1. CASE u = tgt[f]
    BY <1>1, <2>1
  <2>2. CASE u # tgt[f]
    <3>1. \/ \E k \in Keys : tree[k] = u
          \/ \E g \in Flows : pc[g] = "commit" /\ tgt[g] = u
      BY <1>1 DEF LiveInv, OpenIsRegistered, Open, InManager, EntriesOf
    <3> QED BY <1>1, <1>4, <2>2, <3>1
  <2> QED BY <2>1, <2>2
<1> QED BY <1>3, <1>5, <1>6 DEF LiveInv

\* A thread leaves the manager, and with it nobody's claim to be registered.
LEMMA LiveRemove ==
  ASSUME SlotInv, LiveInv, NEW f \in Flows, RemoveThread(f)
  PROVE  LiveInv'
<1>1. /\ tree' = tree /\ kind' = kind /\ tgt' = tgt /\ pc[f] = "remove" /\ tgt[f] \in Ids
      /\ \A g \in Flows : pc'[g] = IF g = f THEN "release" ELSE pc[g]
      /\ \A i \in Ids : thr'[i] = IF i = tgt[f] /\ thr[i] \in {"live", "dead"}
                                 THEN "gone" ELSE thr[i]
  BY DEF RemoveThread, Removed, InManager, Goto, regVars, SlotInv, TypeOK, CallInv
<1>2. \A g \in Flows : pc'[g] = "release" => tgt[g] \in Ids
  BY <1>1 DEF SlotInv, CallInv
<1>3. OnceInv'
  <2>1. \A g \in Flows : pc'[g] = "release" => thr'[tgt'[g]] \notin {"live", "dead"}
    BY <1>1, <1>2 DEF LiveInv, OnceInv, InManager
  <2>2. \A i \in Ids : thr'[i] = "unused" <=> thr[i] = "unused"
    BY <1>1
  <2> QED BY <1>1, <2>1, <2>2 DEF LiveInv, OnceInv, EntriesOf, InManager, Ids
<1>4. OpenIsRegistered'
  BY <1>1 DEF LiveInv, OpenIsRegistered, Open, InManager, EntriesOf, Ids
<1> QED BY <1>3, <1>4 DEF LiveInv

\* The entry of a thread that has left the manager is removed.
LEMMA LiveRelease ==
  ASSUME SlotInv, LiveInv, NEW f \in Flows, ReleaseEntry(f)
  PROVE  LiveInv'
<1>1. PICK k \in Keys : /\ tree[k] = tgt[f] /\ tree' = [tree EXCEPT ![k] = "vacant"]
                        /\ AfterRelease(f, k)
  BY DEF ReleaseEntry, EntriesOf
<1>2. /\ pc[f] = "release" /\ thr' = thr /\ tgt[f] \in Ids
      /\ \A l \in Keys : tree'[l] = IF l = k THEN "vacant" ELSE tree[l]
      /\ thr[tgt[f]] \notin {"live", "dead"}
  BY <1>1 DEF ReleaseEntry, thrVars, SlotInv, TypeOK, CallInv, LiveInv, OnceInv, InManager
<1>3. /\ \A g \in Flows \ {f} : pc'[g] = pc[g] /\ kind'[g] = kind[g] /\ tgt'[g] = tgt[g]
      /\ pc'[f] \in {"idle", "sub"} /\ kind'[f] \in {kind[f], None}
      /\ tgt'[f] \in {tgt[f], None}
  BY <1>1 DEF AfterRelease, Return, Goto, SlotInv, TypeOK
<1>4. None \notin Threads /\ None # "resume" /\ "vacant" \notin Threads
  BY ConstantsAssumption DEF None
<1>5. \A t \in Threads, l \in Keys : tree'[l] = t => tree[l] = t
  BY <1>2, <1>4
<1>6. OnceInv'
  <2>1. /\ \A g \in Flows : kind'[g] # "resume"
        /\ \A g \in Flows : tgt'[g] \in Threads => thr'[tgt'[g]] # "unused"
        /\ \A g, h \in Flows : pc'[g] = "commit" /\ pc'[h] = "commit" /\ tgt'[g] = tgt'[h]
                               => g = h
        /\ \A g \in Flows : pc'[g] = "release" => thr'[tgt'[g]] \notin {"live", "dead"}
    BY <1>2, <1>3, <1>4 DEF LiveInv, OnceInv, InManager
  <2>2. \A t \in Threads : thr'[t] = "unused" => {l \in Keys : tree'[l] = t} = {}
    BY <1>2, <1>5 DEF LiveInv, OnceInv, EntriesOf
  <2>3. \A g \in Flows : pc'[g] = "commit" => {l \in Keys : tree'[l] = tgt'[g]} = {}
    <3>1. \A g \in Flows : pc'[g] = "commit" => pc[g] = "commit" /\ tgt'[g] = tgt[g]
                                               /\ tgt[g] \in Threads
      BY <1>3 DEF SlotInv, CallInv
    <3> QED BY <1>5, <3>1 DEF LiveInv, OnceInv, EntriesOf
  <2> QED BY <2>1, <2>2, <2>3 DEF OnceInv, EntriesOf, InManager
<1>7. OpenIsRegistered'
  <2> SUFFICES ASSUME NEW u \in Threads, thr'[u] \in {"live", "dead"}
               PROVE  \/ \E l \in Keys : tree'[l] = u
                      \/ \E g \in Flows : pc'[g] = "commit" /\ tgt'[g] = u
    BY DEF OpenIsRegistered, Open, InManager, EntriesOf
  <2>1. \/ \E l \in Keys : tree[l] = u
        \/ \E g \in Flows : pc[g] = "commit" /\ tgt[g] = u
    BY <1>2 DEF LiveInv, OpenIsRegistered, Open, InManager, EntriesOf
  <2>2. u # tgt[f]
    BY <1>2
  <2> QED BY <1>1, <1>2, <1>3, <2>1, <2>2
<1> QED BY <1>6, <1>7 DEF LiveInv

\* Every step of a call keeps open agents registered.
LEMMA LiveStep ==
  ASSUME NoResume, SlotInv, PathInv, LiveInv, NEW f \in Flows, FlowStep(f)
  PROVE  LiveInv'
<1>t. TypeOK /\ CallInv /\ kind[f] # "resume" /\ None \notin Threads /\ None # "resume"
  BY ConstantsAssumption DEF SlotInv, LiveInv, OnceInv, None
<1> DEFINE Others == \A g \in Flows \ {f} : /\ pc'[g] = pc[g] /\ kind'[g] = kind[g]
                                           /\ tgt'[g] = tgt[g]
           SameEntries == \A t \in Threads, k \in Keys : tree'[k] = t <=> tree[k] = t
\* The call moves on with its locals.
<1>1. ASSUME NEW step, pc' = [pc EXCEPT ![f] = step], thr' = thr, SameEntries,
             UNCHANGED <<kind, tgt>>, pc[f] # "commit", step \notin {"commit", "release"}
      PROVE  LiveInv'
  <2>1. Others /\ pc'[f] = step /\ kind'[f] # "resume"
    BY <1>1, <1>t DEF TypeOK
  <2>2. tgt'[f] \in Threads => thr[tgt'[f]] # "unused"
    BY <1>1 DEF LiveInv, OnceInv
  <2> QED BY <1>1, <2>1, <2>2, LiveKept
<1>2. ASSUME Return(f), thr' = thr, tree' = tree, pc[f] # "commit" PROVE LiveInv'
  <2>1. Others /\ pc'[f] = "idle" /\ kind'[f] = None /\ tgt'[f] = None
    BY <1>2, <1>t DEF Return, TypeOK
  <2> QED BY <1>2, <1>t, <2>1, LiveKept
<1>3. ASSUME NEW what \in {"agent", "worker", "send", "shutdown"}, NEW i,
             NEW step \in {"load", "send", "shut"}, Begin(f, what, i, step),
             i \in Threads => thr[i] # "unused"
      PROVE  LiveInv'
  <2>1. /\ Others /\ pc'[f] = step /\ kind'[f] = what /\ tgt'[f] = i
        /\ thr' = thr /\ tree' = tree /\ pc[f] = "idle"
    BY <1>3, <1>t DEF Begin, regVars, thrVars, TypeOK
  <2> QED BY <1>3, <2>1, LiveKept
<1>4. CASE BeginSpawn(f) \/ (\E t \in Threads : BeginSend(f, t))
  BY <1>3, <1>4, <1>t DEF BeginSpawn, BeginSend
<1>5. CASE \E i \in Ids : BeginShutdown(f, i)
  BY <1>3, <1>5 DEF BeginShutdown, InManager
<1>6. ~FindResumed(f) /\ ~\E t \in Threads : BeginResume(f, t)
  BY <1>t DEF FindResumed, BeginResume, NoResume
<1>7. CASE LimitReached(f) \/ FlushFails(f) \/ NothingToRelease(f) \/ Decrement(f)
  BY <1>2, <1>7 DEF LimitReached, FlushFails, NothingToRelease, AfterNoEntry, Decrement,
     regVars, thrVars
<1>8. CASE LoadCount(f) \/ ShutdownSent(f) \/ NoNickname(f) \/ CreateFails(f) \/ PrepareWorker(f)
  <2>1. PICK step \in {"cas", "remove", "drop", "create"} :
          /\ pc' = [pc EXCEPT ![f] = step] /\ UNCHANGED <<regVars, thrVars, kind, tgt>>
          /\ pc[f] # "commit"
    BY <1>8 DEF LoadCount, ShutdownSent, NoNickname, CreateFails, PrepareWorker, Goto
  <2> QED BY <1>1, <2>1 DEF regVars, thrVars
<1>9. CASE CompareExchange(f)
  <2>1. thr' = thr /\ tree' = tree /\ UNCHANGED <<kind, tgt>> /\ pc[f] = "cas"
    BY <1>9 DEF CompareExchange, thrVars
  <2>2. pc' = [pc EXCEPT ![f] = "prepare"] \/ pc' = [pc EXCEPT ![f] = "cas"]
    BY <1>9, <1>t DEF CompareExchange, Goto, TypeOK
  <2> QED BY <1>1, <2>1, <2>2
<1>10. CASE ReservePath(f)
  <2>1. PICK depth1 \in BOOLEAN, p \in Paths \cup {None}, step \in {"nickname", "drop"} :
          /\ pc' = [pc EXCEPT ![f] = step]
          /\ \/ tree' = WithRoot(depth1)
             \/ /\ p \in Paths /\ tree[p] = "vacant"
                /\ tree' = [WithRoot(depth1) EXCEPT ![p] = "reserved"]
    BY <1>10 DEF ReservePath, Goto
  <2>2. /\ WithRoot(depth1) \in [Keys -> Ids \cup {"vacant", "reserved"}]
        /\ \A k \in Keys : WithRoot(depth1)[k] # tree[k] =>
                           k = Root /\ tree[k] = "vacant" /\ WithRoot(depth1)[k] = Root
    BY <1>t DEF WithRoot, TypeOK, Keys, Ids
  <2>3. SameEntries
    BY <2>1, <2>2, ConstantsAssumption
  <2>4. thr' = thr /\ UNCHANGED <<kind, tgt>> /\ pc[f] = "prepare"
    BY <1>10 DEF ReservePath, thrVars
  <2> QED BY <1>1, <2>1, <2>3, <2>4
<1>11. CASE PreferredNickname(f) \/ DrawNickname(f)
  <2>1. /\ pc' = [pc EXCEPT ![f] = "create"] /\ thr' = thr /\ tree' = tree
        /\ UNCHANGED <<kind, tgt>> /\ pc[f] = "nickname"
    BY <1>11 DEF PreferredNickname, DrawNickname, TakeNickname, Goto, thrVars
  <2>2. SameEntries
    BY <2>1
  <2> QED BY <1>1, <2>1, <2>2
<1>12. CASE DropReservation(f)
  <2>1. /\ pc' = [pc EXCEPT ![f] = "sub"] /\ thr' = thr /\ UNCHANGED <<kind, tgt>>
        /\ pc[f] = "drop"
    BY <1>12 DEF DropReservation, Goto, thrVars
  <2>2. SameEntries
    BY <1>12, <1>t, ConstantsAssumption DEF DropReservation, Placeholder, TypeOK
  <2> QED BY <1>1, <2>1, <2>2
<1>13. CASE Send(f)
  <2>1. thr' = thr /\ tree' = tree /\ pc[f] = "send"
    BY <1>13 DEF Send, regVars, thrVars
  <2>2. CASE Return(f)
    BY <1>2, <2>1, <2>2
  <2>3. CASE pc' = [pc EXCEPT ![f] = "remove"] /\ UNCHANGED <<kind, tgt>>
    <3>1. SameEntries
      BY <2>1
    <3> QED BY <1>1, <2>1, <2>3, <3>1
  <2> QED BY <1>13, <2>2, <2>3 DEF Send, Goto
<1> QED BY <1>4, <1>5, <1>6, <1>7, <1>8, <1>9, <1>10, <1>11, <1>12, <1>13,
           LiveCreate, LiveCommit, LiveRemove, LiveRelease
        DEF FlowStep

\* A thread that breaks or is unloaded keeps its entry, so nothing open loses one.
LEMMA LiveThread ==
  ASSUME SlotInv, LiveInv, NEW t \in Threads, SessionEnds(t) \/ Unload(t)
  PROVE  LiveInv'
<1>1. /\ UNCHANGED <<tree, kind, tgt, pc>> /\ thr[t] \in {"live", "dead"}
      /\ \A i \in Ids : thr'[i] = IF i = t THEN thr'[t] ELSE thr[i]
      /\ thr'[t] \in {"dead", "gone"}
  BY DEF SessionEnds, Unload, InManager, regVars, flowVars, SlotInv, TypeOK, Ids
<1>2. \A g \in Flows : pc[g] = "release" => tgt[g] \in Ids /\ tgt[g] # t
  BY <1>1 DEF SlotInv, CallInv, LiveInv, OnceInv, InManager
<1>3. OnceInv'
  BY <1>1, <1>2 DEF LiveInv, OnceInv, EntriesOf, InManager, Ids
<1>4. OpenIsRegistered'
  BY <1>1 DEF LiveInv, OpenIsRegistered, Open, InManager, EntriesOf, Ids
<1> QED BY <1>3, <1>4 DEF LiveInv

\* A commit is of an agent that is not registered yet, so no slot disappears.
LEMMA ExactStep ==
  ASSUME SlotInv, PathInv, LiveInv, SlotsExact, NEW f \in Flows, FlowStep(f)
  PROVE  SlotsExact'
<1> DEFINE h == Cardinality(Holders)
           c == Cardinality(Counted)
<1>1. h \in Nat /\ c \in Nat /\ count = h + c
  BY FiniteParts DEF SlotsExact
<1>2. pc[f] = "commit" => EntryKey(f) \notin Counted
  <2> SUFFICES ASSUME pc[f] = "commit" PROVE EntryKey(f) \notin Counted
    OBVIOUS
  <2>1. Commit(f)
    BY DEF FlowStep, BeginSpawn, BeginResume, Begin, LoadCount, LimitReached, CompareExchange,
       ReservePath, PrepareWorker, PreferredNickname, DrawNickname, NoNickname, FindResumed,
       CreateThread, CreateFails, DropReservation, BeginSend, Send, BeginShutdown, ShutdownSent, FlushFails,
       RemoveThread, ReleaseEntry, NothingToRelease, Decrement
  <2> QED BY <2>1, LiveCommit
<1> HIDE DEF h, c
<1>3. h = Cardinality(Holders) /\ c = Cardinality(Counted) /\ TypeOK /\ SlotStep(f)
  BY SlotShapes DEF h, c, SlotInv
<1>4. count' = Cardinality(Holders)' + Cardinality(Counted)'
  BY <1>1, <1>2, <1>3, SlotNumbers
<1> QED BY <1>4 DEF SlotsExact

\* The invariant without resumes.
LEMMA ExactInvariance == NoResume => (Spec => [](SlotInv /\ PathInv /\ ExactInv))
<1> SUFFICES ASSUME NoResume PROVE Spec => [](SlotInv /\ PathInv /\ ExactInv)
  OBVIOUS
<1>1. Init => ExactInv
  <2> SUFFICES ASSUME Init PROVE ExactInv
    OBVIOUS
  <2>1. Holders = {} /\ Counted = {} /\ Open = {}
    BY ConstantsAssumption DEF Init, Holders, Counted, Open, InManager, Ids
  <2>2. SlotsExact /\ OpenIsRegistered
    BY <2>1, FS_EmptySet DEF SlotsExact, OpenIsRegistered, Init
  <2>3. OnceInv
    BY ConstantsAssumption DEF Init, OnceInv, EntriesOf, None
  <2> QED BY <2>2, <2>3 DEF ExactInv
<1>2. SlotInv /\ PathInv /\ ExactInv /\ [Next]_vars => ExactInv'
  <2> SUFFICES ASSUME SlotInv, PathInv, ExactInv, [Next]_vars PROVE ExactInv'
    OBVIOUS
  <2>0. LiveInv /\ SlotsExact
    BY DEF ExactInv, LiveInv
  <2>1. ASSUME NEW f \in Flows, FlowStep(f) PROVE ExactInv'
    BY <2>0, <2>1, LiveStep, ExactStep DEF ExactInv, LiveInv
  <2>2. ASSUME NEW t \in Threads, SessionEnds(t) \/ Unload(t) PROVE ExactInv'
    <3>1. LiveInv' /\ Keeps
      BY <2>0, <2>2, LiveThread, ThreadStep
    <3> QED BY <2>0, <3>1 DEF ExactInv, LiveInv, Keeps, SlotsExact
  <2>3. CASE UNCHANGED vars
    BY <2>3 DEF vars, regVars, thrVars, flowVars, ExactInv, OnceInv, EntriesOf, InManager,
       OpenIsRegistered, Open, SlotsExact, Holders, Counted
  <2> QED BY <2>1, <2>2, <2>3 DEF Next
<1> QED BY <1>1, <1>2, PathInvariance, PTL DEF Spec

\* Without resumes the counter is exactly the registered agents and the calls under
\* way: no slot leaks, however spawns fail, agents die or are shut down twice.
THEOREM SlotsAreExact == NoResume => (Spec => []SlotsExact)
<1>1. ExactInv => SlotsExact
  BY DEF ExactInv
<1> QED BY <1>1, ExactInvariance, PTL

\* Without resumes an agent that is with the thread manager can be found in the registry.
THEOREM OpenAreRegistered == NoResume => (Spec => []OpenIsRegistered)
<1>1. ExactInv => OpenIsRegistered
  BY DEF ExactInv
<1> QED BY <1>1, ExactInvariance, PTL

\* Without resumes at most agent_max_threads agents are open.
THEOREM LimitHolds == NoResume => (Spec => []OpenWithinLimit)
<1>1. SlotInv /\ PathInv /\ ExactInv => OpenWithinLimit
  <2> SUFFICES ASSUME SlotInv, PathInv, ExactInv PROVE Cardinality(Open) <= Limit
    BY DEF OpenWithinLimit
  <2> DEFINE A == {t \in Open : EntriesOf(t) # {}}
             B == Open \ A
             entry == [t \in A |-> CHOOSE k \in EntriesOf(t) : TRUE]
             maker == [t \in B |-> CHOOSE f \in Flows : pc[f] = "commit" /\ tgt[f] = t]
  <2>1. IsFiniteSet(Open) /\ IsFiniteSet(A) /\ IsFiniteSet(B)
    <3>1. Open \subseteq Threads /\ A \subseteq Threads /\ B \subseteq Threads
      BY DEF Open
    <3> QED BY <3>1, ConstantsAssumption, FS_Subset
  <2>2. entry \in Injection(A, Counted)
    <3>1. ASSUME NEW t \in A
          PROVE  entry[t] \in Keys /\ tree[entry[t]] = t /\ t \in Threads /\ entry[t] # Root
      <4>1. entry[t] \in EntriesOf(t) /\ t \in Threads
        BY DEF Open
      <4>2. tree[Root] \notin Threads
        BY ConstantsAssumption DEF PathInv, Ids
      <4> QED BY <4>1, <4>2 DEF EntriesOf
    <3>2. entry \in [A -> Counted]
      BY <3>1 DEF Counted
    <3>3. \A t, u \in A : entry[t] = entry[u] => t = u
      BY <3>1
    <3> HIDE DEF entry, A
    <3> QED BY <3>2, <3>3 DEF Injection, IsInjective
  <2>3. maker \in Injection(B, Holders)
    <3>1. ASSUME NEW t \in B
          PROVE  maker[t] \in Flows /\ pc[maker[t]] = "commit" /\ tgt[maker[t]] = t
      <4>1. \E f \in Flows : pc[f] = "commit" /\ tgt[f] = t
        BY DEF ExactInv, OpenIsRegistered
      <4> QED BY <4>1
    <3>2. maker \in [B -> Holders]
      BY <3>1 DEF Holders
    <3>3. \A t, u \in B : maker[t] = maker[u] => t = u
      BY <3>1
    <3> HIDE DEF maker, B
    <3> QED BY <3>2, <3>3 DEF Injection, IsInjective
  <2>4. Cardinality(Open) <= Cardinality(A) + Cardinality(B)
    <3>1. Open = A \cup B /\ A \cap B = {}
      OBVIOUS
    <3> HIDE DEF A, B
    <3>2. Cardinality(A \cup B) = Cardinality(A) + Cardinality(B) - Cardinality(A \cap B)
      BY <2>1, FS_Union
    <3>3. Cardinality(A \cap B) = 0 /\ Cardinality(A) \in Nat /\ Cardinality(B) \in Nat
      BY <2>1, <3>1, FS_EmptySet, FS_CardinalityType
    <3> QED BY <3>1, <3>2, <3>3
  <2> HIDE DEF A, B, entry, maker
  <2>5. Cardinality(A) <= Cardinality(Counted) /\ Cardinality(B) <= Cardinality(Holders)
    BY <2>2, <2>3, FS_Injection, FiniteParts
  <2>6. count = Cardinality(Holders) + Cardinality(Counted) /\ count <= Limit /\ count \in Nat
    BY ConstantsAssumption DEF ExactInv, SlotsExact, SlotInv, TypeOK
  <2>7. /\ Cardinality(Open) \in Nat /\ Cardinality(A) \in Nat /\ Cardinality(B) \in Nat
        /\ Cardinality(Holders) \in Nat /\ Cardinality(Counted) \in Nat /\ Limit \in Nat
    BY <2>1, FS_CardinalityType, FiniteParts, ConstantsAssumption
  <2> QED BY <2>4, <2>5, <2>6, <2>7
<1> QED BY <1>1, ExactInvariance, PTL
=============================================================================

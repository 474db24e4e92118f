------------------------ MODULE SessionDeliveryProofs ------------------------
(***************************************************************************)
(* The items of SessionTurns: none is ever in two places, and the session  *)
(* implements InputDelivery, the at-most-once delivery of its input.       *)
(* Steered prompts keep a reader; and while only the submission loop starts *)
(* turns there is one task at a time, which takes no mail after its answer. *)
(***************************************************************************)
EXTENDS SessionTurnsProofs, FiniteSetTheorems

-----------------------------------------------------------------------------
(* An item is in one place.                                                *)

\* get_pending_input's first lock moves the installed turn's input; nothing
\* it moves stays behind.
LEMMA TakePendingMoves ==
  ASSUME Types, NoDuplicate, NEW t \in Turns, TakePending(t),
         UNCHANGED <<active, idleQueue, mailbox, input, history, dropped>>
  PROVE  NoDuplicate'
<1> USE DEF Types, Disjoint, Apart, AllApart, Buffered
<1>1. CASE active = None
  BY <1>1 DEF TakePending, NoDuplicate
<1>2. CASE active # None
  <2>1. /\ pending' \in [TurnStates -> SUBSET Items]
        /\ held' \in [Turns \cup {Loop} -> SUBSET Items]
    BY <1>2 DEF TakePending
  <2>2. \A s \in TurnStates : pending'[s] = IF s = active THEN {} ELSE pending[s]
    BY <1>2 DEF TakePending
  <2>3. \A p \in Turns \cup {Loop} :
          held'[p] = IF p = t THEN held[t] \cup pending[active] ELSE held[p]
    BY <1>2 DEF TakePending
  <2>4. Disjoint(pending')
    BY <2>1, <2>2 DEF NoDuplicate
  <2>5. Disjoint(held')
    BY <1>2, <2>1, <2>3 DEF NoDuplicate
  <2>6. AllApart(pending', held')
    BY <1>2, <2>1, <2>2, <2>3 DEF NoDuplicate
  <2>7. AllApart(pending', input') /\ AllApart(held', input')
    BY <1>2, <2>1, <2>2, <2>3 DEF NoDuplicate
  <2>8. ASSUME NEW S, Apart(S, pending), Apart(S, held)
        PROVE  Apart(S, pending') /\ Apart(S, held')
    BY <1>2, <2>1, <2>2, <2>3, <2>8
  <2> HIDE DEF Disjoint, Apart, AllApart
  <2> QED BY <2>4, <2>5, <2>6, <2>7, <2>8 DEF NoDuplicate
<1> QED BY <1>1, <1>2

\* Of the items a task holds, prompt b is dropped, the ones in rest go back to
\* the installed turn, and the task keeps the others.
LEMMA PutBackMoves ==
  ASSUME Types, NoDuplicate, active # None,
         NEW t \in Turns, NEW b \in held[t], NEW ok \in SUBSET (held[t] \ {b}),
         held' = [held EXCEPT ![t] = ok], dropped' = dropped \cup {b},
         pending' = [pending EXCEPT
                       ![active] = @ \cup (held[t] \ (ok \cup {b}))],
         UNCHANGED <<idleQueue, mailbox, input, history>>
  PROVE  NoDuplicate'
<1> USE DEF Types, Disjoint, Apart, AllApart, Buffered
<1> DEFINE rest == held[t] \ (ok \cup {b})
<1>1. /\ pending' \in [TurnStates -> SUBSET Items]
      /\ held' \in [Turns \cup {Loop} -> SUBSET Items]
  OBVIOUS
<1>2. \A s \in TurnStates :
        pending'[s] = IF s = active THEN pending[s] \cup rest ELSE pending[s]
  OBVIOUS
<1>3. \A p \in Turns \cup {Loop} : held'[p] = IF p = t THEN ok ELSE held[p]
  OBVIOUS
<1>4. rest \cup {b} \subseteq held[t] /\ ok \subseteq held[t]
      /\ rest \cap ok = {} /\ b \notin rest \cup ok
  OBVIOUS
<1> HIDE DEF rest
<1>5. Disjoint(pending') /\ Disjoint(held')
  BY <1>1, <1>2, <1>3, <1>4 DEF NoDuplicate
<1>6. AllApart(pending', held')
  BY <1>1, <1>2, <1>3, <1>4 DEF NoDuplicate
<1>7. AllApart(pending', input') /\ AllApart(held', input')
  BY <1>1, <1>2, <1>3, <1>4 DEF NoDuplicate
<1>8. ASSUME NEW S, Apart(S, pending), Apart(S, held)
      PROVE  Apart(S, pending') /\ Apart(S, held')
  BY <1>1, <1>2, <1>3, <1>4, <1>8
<1>9. Apart(dropped', pending') /\ Apart(dropped', held') /\ Apart(dropped', input')
  BY <1>1, <1>2, <1>3, <1>4 DEF NoDuplicate
<1>10. (idleQueue \cup mailbox \cup history) \cap dropped' = {}
  BY <1>4 DEF NoDuplicate
<1> HIDE DEF Disjoint, Apart, AllApart
<1> QED BY <1>5, <1>6, <1>7, <1>8, <1>9, <1>10 DEF NoDuplicate

\* Every step moves items from one place to another, or accepts new ones.
LEMMA DeliveryStep ==
  Types /\ TasksInv /\ DeliveryInv /\ [Next]_vars => DeliveryInv'
<1> SUFFICES ASSUME Types, TasksInv, DeliveryInv, [Next]_vars
             PROVE  DeliveryInv'
  OBVIOUS
<1> USE DEF vars, activeVars, bufferVars, turnVars, abortVars, itemVars,
            eventVars, Types, DeliveryInv, NoDuplicate, OnlySent, Disjoint,
            Apart, AllApart, Buffered, Before
<1>1. ASSUME NEW p \in Prompts, SteerInput(p)
       PROVE  DeliveryInv'
  <2>0. \A u \in Turns : GoalPrompt(u) # p
    BY ItemsAssumption DEF GoalPrompts
  <2>1. \A u \in Turns :
          pc'[u] \in Before("reserve") \cup {"recheck", "goalPush"}
            => GoalPrompt(u) \notin sent'
    BY <1>1, <2>0 DEF SteerInput, Steerable
  <2>2. OnlySent'
    BY <1>1 DEF SteerInput, Steerable
  <2>3. NoDuplicate'
    BY <1>1 DEF SteerInput, Steerable
  <2> QED BY <2>1, <2>2, <2>3
<1>2. ASSUME NEW t \in Turns, NEW p \in Prompts, UserInput(t, p)
       PROVE  DeliveryInv'
  <2>0. \A u \in Turns : GoalPrompt(u) # p
    BY ItemsAssumption DEF GoalPrompts
  <2>1. \A u \in Turns :
          pc'[u] \in Before("reserve") \cup {"recheck", "goalPush"}
            => GoalPrompt(u) \notin sent'
    BY <1>2, <2>0 DEF UserInput, Submit, Goto
  <2>2. OnlySent'
    BY <1>2 DEF UserInput, Submit, Goto
  <2>3. NoDuplicate'
    BY <1>2 DEF UserInput, Submit, Goto
  <2> QED BY <2>1, <2>2, <2>3
<1>3. ASSUME NEW t \in Turns, NEW k \in {"shell", "review", "compact"},
       StandaloneTask(t, k)
       PROVE  DeliveryInv'
  BY <1>3 DEF StandaloneTask, Submit, Goto
<1>4. ASSUME NEW m \in Mails, SendMail(m)
       PROVE  DeliveryInv'
  <2>0. \A u \in Turns : GoalPrompt(u) # m
    BY ItemsAssumption DEF GoalPrompts
  <2>1. \A u \in Turns :
          pc'[u] \in Before("reserve") \cup {"recheck", "goalPush"}
            => GoalPrompt(u) \notin sent'
    BY <1>4, <2>0 DEF SendMail, Enqueue
  <2>2. OnlySent'
    BY <1>4 DEF SendMail, Enqueue
  <2>3. NoDuplicate'
    BY <1>4 DEF SendMail, Enqueue
  <2> QED BY <2>1, <2>2, <2>3
<1>5. ASSUME NEW t \in Turns, NEW m \in Mails, SendTriggerMail(t, m)
       PROVE  DeliveryInv'
  <2>0. \A u \in Turns : GoalPrompt(u) # m
    BY ItemsAssumption DEF GoalPrompts
  <2>1. \A u \in Turns :
          pc'[u] \in Before("reserve") \cup {"recheck", "goalPush"}
            => GoalPrompt(u) \notin sent'
    BY <1>5, <2>0 DEF SendTriggerMail, Enqueue, CallPendingWork
  <2>2. OnlySent'
    BY <1>5 DEF SendTriggerMail, Enqueue, CallPendingWork
  <2>3. NoDuplicate'
    BY <1>5 DEF SendTriggerMail, Enqueue, CallPendingWork
  <2> QED BY <2>1, <2>2, <2>3
<1>6. ASSUME NEW n \in Notes, ApproveDenied(n)
       PROVE  DeliveryInv'
  <2>0. \A u \in Turns : GoalPrompt(u) # n
    BY ItemsAssumption DEF GoalPrompts
  <2>1. \A u \in Turns :
          pc'[u] \in Before("reserve") \cup {"recheck", "goalPush"}
            => GoalPrompt(u) \notin sent'
    BY <1>6, <2>0 DEF ApproveDenied, InjectInto
  <2>2. OnlySent'
    BY <1>6 DEF ApproveDenied, InjectInto
  <2>3. NoDuplicate'
    BY <1>6 DEF ApproveDenied, InjectInto
  <2> QED BY <2>1, <2>2, <2>3
<1>7. ASSUME NEW n \in Notes, AuxShellOutput(n)
       PROVE  DeliveryInv'
  <2>0. \A u \in Turns : GoalPrompt(u) # n
    BY ItemsAssumption DEF GoalPrompts
  <2>1. \A u \in Turns :
          pc'[u] \in Before("reserve") \cup {"recheck", "goalPush"}
            => GoalPrompt(u) \notin sent'
    BY <1>7, <2>0 DEF AuxShellOutput, InjectInto
  <2>2. OnlySent'
    BY <1>7 DEF AuxShellOutput, InjectInto
  <2>3. NoDuplicate'
    BY <1>7 DEF AuxShellOutput, InjectInto
  <2> QED BY <2>1, <2>2, <2>3
<1>8. ASSUME NEW t \in Turns, SetGoal(t)
       PROVE  DeliveryInv'
  BY <1>8 DEF SetGoal, CallPendingWork
<1>9. ASSUME NEW t \in Turns, GuardianAbort(t)
       PROVE  DeliveryInv'
  BY <1>9 DEF GuardianAbort, TakeActive, AbortOf
<1>10. CASE StopGoal
  BY <1>10 DEF StopGoal
<1>11. CASE Interrupt
  BY <1>11 DEF Interrupt, TakeActive, AbortOf
<1>12. CASE QueueNote
  BY <1>12 DEF QueueNote
<1>13. ASSUME NEW t \in Turns, CheckQueue(t)
       PROVE  DeliveryInv'
  BY <1>13 DEF CheckQueue, Jump, Goto
<1>14. ASSUME NEW t \in Turns, CheckMail(t)
       PROVE  DeliveryInv'
  BY <1>14 DEF CheckMail, GiveUp, Goto, StartFrame
<1>15. ASSUME NEW t \in Turns, Reserve(t)
       PROVE  DeliveryInv'
  BY <1>15 DEF Reserve, GiveUp, Goto, StartFrame
<1>16. ASSUME NEW t \in Turns, GoalCandidate(t)
       PROVE  DeliveryInv'
  BY <1>16 DEF GoalCandidate, GiveUp, Goto, StartFrame
<1>17. ASSUME NEW t \in Turns, GoalReserve(t)
       PROVE  DeliveryInv'
  BY <1>17 DEF GoalReserve, GiveUp, Goto, StartFrame
<1>18. ASSUME NEW t \in Turns, GoalRecheck(t)
       PROVE  DeliveryInv'
  BY <1>18 DEF GoalRecheck, Goto, StartFrame
<1>19. ASSUME NEW t \in Turns, GoalPush(t)
       PROVE  DeliveryInv'
  <2>0. ts[t] \in TurnStates
    BY <1>19 DEF GoalPush, TasksInv
  <2>1. \A u \in Turns :
          pc'[u] \in Before("reserve") \cup {"recheck", "goalPush"}
            => GoalPrompt(u) \notin sent'
    BY <1>19, <2>0 DEF GoalPrompt, GoalPush, Goto, StartFrame
  <2>2. OnlySent'
    BY <1>19, <2>0 DEF GoalPush, Goto, StartFrame
  <2>3. NoDuplicate'
    BY <1>19, <2>0 DEF GoalPush, Goto, StartFrame
  <2> QED BY <2>1, <2>2, <2>3
<1>20. ASSUME NEW t \in Turns, GoalStillReserved(t)
       PROVE  DeliveryInv'
  BY <1>20 DEF GoalStillReserved, Jump, Goto
<1>21. ASSUME NEW t \in Turns, GoalClearReserved(t)
       PROVE  DeliveryInv'
  BY <1>21 DEF GoalClearReserved, Goto, Reserved, StartFrame
<1>22. ASSUME NEW t \in Turns, NEW u \in Turns, GoalAfterStart(u, t)
       PROVE  DeliveryInv'
  BY <1>22 DEF GoalAfterStart, Goto, StartFrame
<1>23. ASSUME NEW t \in Turns, ReplaceTasks(t)
       PROVE  DeliveryInv'
  BY <1>23 DEF ReplaceTasks, Goto, TakeActive, AbortOf
<1>24. ASSUME NEW t \in Turns, CollectQueue(t)
       PROVE  DeliveryInv'
  BY <1>24 DEF CollectQueue, Goto, StartFrame
<1>25. ASSUME NEW t \in Turns, CollectPending(t)
       PROVE  DeliveryInv'
  <2>1. \A u \in Turns :
          pc'[u] \in Before("reserve") \cup {"recheck", "goalPush"}
            => GoalPrompt(u) \notin sent'
    BY <1>25 DEF CollectPending, TakePending, Goto, StartFrame
  <2>2. OnlySent'
    BY <1>25 DEF CollectPending, TakePending, Goto, StartFrame
  <2>3. NoDuplicate'
    BY <1>25, TakePendingMoves DEF CollectPending, StartFrame
  <2> QED BY <2>1, <2>2, <2>3
<1>26. ASSUME NEW t \in Turns, CollectMail(t)
       PROVE  DeliveryInv'
  BY <1>26 DEF CollectMail, DrainMailbox, Goto, StartFrame
<1>27. ASSUME NEW t \in Turns, Install(t)
       PROVE  DeliveryInv'
  BY <1>27 DEF Install, Goto, StartFrame
<1>28. ASSUME NEW t \in Turns, PushCollected(t)
       PROVE  DeliveryInv'
  BY <1>28 DEF PushCollected, Goto, StartFrame
<1>29. ASSUME NEW t \in Turns, SpawnTask(t)
       PROVE  DeliveryInv'
  BY <1>29 DEF SpawnTask, Goto, StartFrame
<1>30. ASSUME NEW t \in Turns, PrewarmCancelled(t)
       PROVE  DeliveryInv'
  BY <1>30 DEF PrewarmCancelled, Goto, TaskFrame
<1>31. ASSUME NEW t \in Turns, RunTurnNothing(t)
       PROVE  DeliveryInv'
  BY <1>31 DEF RunTurnNothing, Entering, Jump, Goto
<1>32. ASSUME NEW t \in Turns, RunTurnRefused(t)
       PROVE  DeliveryInv'
  BY <1>32 DEF RunTurnRefused, Entering, Goto, TaskFrame
<1>33. ASSUME NEW t \in Turns, RunTurnBegins(t)
       PROVE  DeliveryInv'
  BY <1>33 DEF RunTurnBegins, Entering, Goto, TaskFrame
<1>34. ASSUME NEW t \in Turns, RunStandalone(t)
       PROVE  DeliveryInv'
  BY <1>34 DEF RunStandalone, Jump, Goto
<1>35. ASSUME NEW t \in Turns, SessionStartStops(t)
       PROVE  DeliveryInv'
  BY <1>35 DEF SessionStartStops, Jump, Goto
<1>36. ASSUME NEW t \in Turns, DrainPending(t)
       PROVE  DeliveryInv'
  <2>1. \A u \in Turns :
          pc'[u] \in Before("reserve") \cup {"recheck", "goalPush"}
            => GoalPrompt(u) \notin sent'
    BY <1>36 DEF DrainPending, TakePending, Goto, TaskFrame
  <2>2. OnlySent'
    BY <1>36 DEF DrainPending, TakePending, Goto, TaskFrame
  <2>3. NoDuplicate'
    BY <1>36, TakePendingMoves DEF DrainPending, TaskFrame
  <2> QED BY <2>1, <2>2, <2>3
<1>37. ASSUME NEW t \in Turns, DrainMail(t)
       PROVE  DeliveryInv'
  BY <1>37 DEF DrainMail, DrainMailbox, Goto, TaskFrame
<1>38. ASSUME NEW t \in Turns, InspectAccepts(t)
       PROVE  DeliveryInv'
  BY <1>38 DEF InspectAccepts, Jump, Goto
<1>39. ASSUME NEW t \in Turns, NEW b \in held[t], NEW ok \in SUBSET held[t],
              InspectBlocks(t, b, ok)
       PROVE  DeliveryInv'
  <2>1. \A u \in Turns :
          pc'[u] \in Before("reserve") \cup {"recheck", "goalPush"}
            => GoalPrompt(u) \notin sent'
    BY <1>39 DEF InspectBlocks, Goto, TaskFrame
  <2>2. CASE active = None
    BY <1>39, <2>1, <2>2 DEF InspectBlocks, Goto, TaskFrame
  <2>3. CASE active # None
    <3>1. OnlySent'
      BY <1>39, <2>3 DEF InspectBlocks, TaskFrame
    <3>2. NoDuplicate /\ ok \in SUBSET (held[t] \ {b})
      BY <1>39 DEF InspectBlocks
    <3>3. /\ held' = [held EXCEPT ![t] = ok] /\ dropped' = dropped \cup {b}
          /\ pending' = [pending EXCEPT
                           ![active] = @ \cup (held[t] \ (ok \cup {b}))]
          /\ UNCHANGED <<idleQueue, mailbox, input, history>>
      BY <1>39, <2>3 DEF InspectBlocks, TaskFrame
    <3>4. NoDuplicate'
      <4> HIDE DEF NoDuplicate, Types
      <4> QED BY <2>3, <3>2, <3>3, PutBackMoves
    <3> QED BY <2>1, <3>1, <3>4
  <2> QED BY <2>2, <2>3
<1>40. ASSUME NEW t \in Turns, RecordPending(t)
       PROVE  DeliveryInv'
  BY <1>40 DEF RecordPending, Goto, TaskFrame
<1>41. ASSUME NEW t \in Turns, DeferMailbox(t)
       PROVE  DeliveryInv'
  BY <1>41 DEF DeferMailbox, TaskFrame
<1>42. ASSUME NEW t \in Turns, AcceptMailbox(t)
       PROVE  DeliveryInv'
  BY <1>42 DEF AcceptMailbox, TaskFrame
<1>43. ASSUME NEW t \in Turns, NEW o \in {"drain", "loopCheck"}, Sample(t, o)
       PROVE  DeliveryInv'
  BY <1>43 DEF Sample, Jump, Goto
<1>44. ASSUME NEW t \in Turns, LoopCheck(t)
       PROVE  DeliveryInv'
  BY <1>44 DEF LoopCheck, Jump, Goto
<1>45. ASSUME NEW t \in Turns, FinishCheck(t)
       PROVE  DeliveryInv'
  BY <1>45 DEF FinishCheck, Jump, Goto
<1>46. ASSUME NEW t \in Turns, RemoveTask(t)
       PROVE  DeliveryInv'
  BY <1>46 DEF RemoveTask, Goto, TaskFrame
<1>47. ASSUME NEW t \in Turns, TakeLeftover(t)
       PROVE  DeliveryInv'
  <2>0. ts[t] \in TurnStates
    BY <1>47 DEF TakeLeftover, TasksInv
  <2>1. \A u \in Turns :
          pc'[u] \in Before("reserve") \cup {"recheck", "goalPush"}
            => GoalPrompt(u) \notin sent'
    BY <1>47 DEF TakeLeftover, Goto, TaskFrame
  <2>2. OnlySent'
    BY <1>47, <2>0 DEF TakeLeftover, Goto, TaskFrame
  <2>3. NoDuplicate'
    BY <1>47, <2>0 DEF TakeLeftover, Goto, TaskFrame
  <2> QED BY <2>1, <2>2, <2>3
<1>48. ASSUME NEW t \in Turns, NEW blocked \in SUBSET held[t], Complete(t,
       blocked)
       PROVE  DeliveryInv'
  BY <1>48 DEF Complete, Goto, TaskFrame
<1>49. ASSUME NEW t \in Turns, ClearActive(t)
       PROVE  DeliveryInv'
  BY <1>49 DEF ClearActive, Goto, Reserved
<1>50. ASSUME NEW t \in Turns, NEW u \in Turns, ContinueIfIdle(t, u)
       PROVE  DeliveryInv'
  BY <1>50 DEF ContinueIfIdle
<1>51. ASSUME NEW t \in Turns, Killed(t)
       PROVE  DeliveryInv'
  BY <1>51 DEF Killed, Goto, TaskFrame
<1>52. ASSUME NEW a \in Aborters, NEW t \in Turns, CancelTask(a, t)
       PROVE  DeliveryInv'
  BY <1>52 DEF CancelTask, AbortFrame
<1>53. ASSUME NEW a \in Aborters, NEW t \in Turns, AbortNext(a, t)
       PROVE  DeliveryInv'
  BY <1>53 DEF AbortNext, AbortFrame, NoAbort, CallPendingWork, Goto
<1>54. ASSUME NEW a \in Aborters, KillTask(a)
       PROVE  DeliveryInv'
  BY <1>54 DEF KillTask, AbortFrame
<1>55. ASSUME NEW a \in Aborters, PauseGoal(a)
       PROVE  DeliveryInv'
  BY <1>55 DEF PauseGoal, AbortFrame
<1>56. ASSUME NEW a \in Aborters, ClearPending(a)
       PROVE  DeliveryInv'
  <2>0. abort[a].ts \in TurnStates \cup {None}
    BY DEF Aborts
  <2>1. CASE abort[a].ts = None
    BY <1>56, <2>1 DEF ClearPending, AbortFrame
  <2>2. CASE abort[a].ts # None
    <3>1. OnlySent'
      BY <1>56, <2>2, <2>0 DEF ClearPending, AbortFrame
    <3>2. NoDuplicate'
      BY <1>56, <2>2, <2>0, SMTT(30) DEF ClearPending, AbortFrame
    <3> QED BY <1>56, <3>1, <3>2 DEF ClearPending, AbortFrame
  <2> QED BY <2>1, <2>2
<1>57. ASSUME NEW a \in Aborters, AbortNothing(a)
       PROVE  DeliveryInv'
  BY <1>57 DEF AbortNothing, AbortFrame, NoAbort
<1>58. CASE UNCHANGED vars
  BY <1>58
<1> HIDE DEF Types, DeliveryInv, NoDuplicate, OnlySent, Before
<1> QED
  BY <1>1, <1>2, <1>3, <1>4, <1>5, <1>6, <1>7, <1>8, <1>9, <1>10, <1>11, <1>12,
     <1>13, <1>14, <1>15, <1>16, <1>17, <1>18, <1>19, <1>20, <1>21, <1>22,
     <1>23, <1>24, <1>25, <1>26, <1>27, <1>28, <1>29, <1>30, <1>31, <1>32,
     <1>33, <1>34, <1>35, <1>36, <1>37, <1>38, <1>39, <1>40, <1>41, <1>42,
     <1>43, <1>44, <1>45, <1>46, <1>47, <1>48, <1>49, <1>50, <1>51, <1>52,
     <1>53, <1>54, <1>55, <1>56, <1>57, <1>58 DEF Next, Client, StartStep,
     RunStep, FinishStep, AbortStep

\* The items of a session are where DeliveryInv says.
LEMMA DeliveryAlways ==
  Spec => []DeliveryInv
<1>1. Init => DeliveryInv
  BY DEF Init, DeliveryInv, NoDuplicate, OnlySent, Disjoint, Apart, AllApart,
         Buffered
<1> QED BY <1>1, TasksAlways, DeliveryStep, PTL DEF Spec

\* No prompt, mail or note is ever in two buffers, or recorded twice, or
\* recorded after it was dropped.
THEOREM NeverDuplicated ==
  Spec => []NoDuplicate
<1>1. DeliveryInv => NoDuplicate
  BY DEF DeliveryInv
<1> QED BY <1>1, DeliveryAlways, PTL

-----------------------------------------------------------------------------
(* Refinement of InputDelivery.                                            *)

\* What no step undoes, and where dropped items come from.
Forward ==
  /\ sent \subseteq sent' /\ history \subseteq history'
  /\ dropped \subseteq dropped' /\ dropped' \subseteq sent

\* No step takes back an item that was accepted, recorded or dropped, and only
\* accepted items are dropped.
LEMMA StepsForward ==
  Types /\ TasksInv /\ OnlySent /\ [Next]_vars => Forward
<1> SUFFICES ASSUME Types, TasksInv, OnlySent, [Next]_vars
             PROVE  Forward
  OBVIOUS
<1> USE DEF vars, activeVars, bufferVars, turnVars, abortVars, itemVars,
            eventVars, Types, OnlySent, Forward
<1>1. ASSUME NEW p \in Prompts, SteerInput(p)
       PROVE  Forward
  BY <1>1 DEF SteerInput, Steerable
<1>2. ASSUME NEW t \in Turns, NEW p \in Prompts, UserInput(t, p)
       PROVE  Forward
  BY <1>2 DEF UserInput, Submit, Goto
<1>3. ASSUME NEW t \in Turns, NEW k \in {"shell", "review", "compact"},
       StandaloneTask(t, k)
       PROVE  Forward
  BY <1>3 DEF StandaloneTask, Submit, Goto
<1>4. ASSUME NEW m \in Mails, SendMail(m)
       PROVE  Forward
  BY <1>4 DEF SendMail, Enqueue
<1>5. ASSUME NEW t \in Turns, NEW m \in Mails, SendTriggerMail(t, m)
       PROVE  Forward
  BY <1>5 DEF SendTriggerMail, Enqueue, CallPendingWork
<1>6. ASSUME NEW n \in Notes, ApproveDenied(n)
       PROVE  Forward
  BY <1>6 DEF ApproveDenied, InjectInto
<1>7. ASSUME NEW n \in Notes, AuxShellOutput(n)
       PROVE  Forward
  BY <1>7 DEF AuxShellOutput, InjectInto
<1>8. ASSUME NEW t \in Turns, SetGoal(t)
       PROVE  Forward
  BY <1>8 DEF SetGoal, CallPendingWork
<1>9. ASSUME NEW t \in Turns, GuardianAbort(t)
       PROVE  Forward
  BY <1>9 DEF GuardianAbort, TakeActive, AbortOf
<1>10. CASE StopGoal
  BY <1>10 DEF StopGoal
<1>11. CASE Interrupt
  BY <1>11 DEF Interrupt, TakeActive, AbortOf
<1>12. CASE QueueNote
  BY <1>12 DEF QueueNote
<1>13. ASSUME NEW t \in Turns, CheckQueue(t)
       PROVE  Forward
  BY <1>13 DEF CheckQueue, Jump, Goto
<1>14. ASSUME NEW t \in Turns, CheckMail(t)
       PROVE  Forward
  BY <1>14 DEF CheckMail, GiveUp, Goto, StartFrame
<1>15. ASSUME NEW t \in Turns, Reserve(t)
       PROVE  Forward
  BY <1>15 DEF Reserve, GiveUp, Goto, StartFrame
<1>16. ASSUME NEW t \in Turns, GoalCandidate(t)
       PROVE  Forward
  BY <1>16 DEF GoalCandidate, GiveUp, Goto, StartFrame
<1>17. ASSUME NEW t \in Turns, GoalReserve(t)
       PROVE  Forward
  BY <1>17 DEF GoalReserve, GiveUp, Goto, StartFrame
<1>18. ASSUME NEW t \in Turns, GoalRecheck(t)
       PROVE  Forward
  BY <1>18 DEF GoalRecheck, Goto, StartFrame
<1>19. ASSUME NEW t \in Turns, GoalPush(t)
       PROVE  Forward
  BY <1>19 DEF GoalPush, Goto, StartFrame
<1>20. ASSUME NEW t \in Turns, GoalStillReserved(t)
       PROVE  Forward
  BY <1>20 DEF GoalStillReserved, Jump, Goto
<1>21. ASSUME NEW t \in Turns, GoalClearReserved(t)
       PROVE  Forward
  BY <1>21 DEF GoalClearReserved, Goto, Reserved, StartFrame
<1>22. ASSUME NEW t \in Turns, NEW u \in Turns, GoalAfterStart(u, t)
       PROVE  Forward
  BY <1>22 DEF GoalAfterStart, Goto, StartFrame
<1>23. ASSUME NEW t \in Turns, ReplaceTasks(t)
       PROVE  Forward
  BY <1>23 DEF ReplaceTasks, Goto, TakeActive, AbortOf
<1>24. ASSUME NEW t \in Turns, CollectQueue(t)
       PROVE  Forward
  BY <1>24 DEF CollectQueue, Goto, StartFrame
<1>25. ASSUME NEW t \in Turns, CollectPending(t)
       PROVE  Forward
  BY <1>25 DEF CollectPending, TakePending, Goto, StartFrame
<1>26. ASSUME NEW t \in Turns, CollectMail(t)
       PROVE  Forward
  BY <1>26 DEF CollectMail, DrainMailbox, Goto, StartFrame
<1>27. ASSUME NEW t \in Turns, Install(t)
       PROVE  Forward
  BY <1>27 DEF Install, Goto, StartFrame
<1>28. ASSUME NEW t \in Turns, PushCollected(t)
       PROVE  Forward
  BY <1>28 DEF PushCollected, Goto, StartFrame
<1>29. ASSUME NEW t \in Turns, SpawnTask(t)
       PROVE  Forward
  BY <1>29 DEF SpawnTask, Goto, StartFrame
<1>30. ASSUME NEW t \in Turns, PrewarmCancelled(t)
       PROVE  Forward
  BY <1>30 DEF PrewarmCancelled, Goto, TaskFrame
<1>31. ASSUME NEW t \in Turns, RunTurnNothing(t)
       PROVE  Forward
  BY <1>31 DEF RunTurnNothing, Entering, Jump, Goto
<1>32. ASSUME NEW t \in Turns, RunTurnRefused(t)
       PROVE  Forward
  BY <1>32 DEF RunTurnRefused, Entering, Goto, TaskFrame
<1>33. ASSUME NEW t \in Turns, RunTurnBegins(t)
       PROVE  Forward
  BY <1>33 DEF RunTurnBegins, Entering, Goto, TaskFrame
<1>34. ASSUME NEW t \in Turns, RunStandalone(t)
       PROVE  Forward
  BY <1>34 DEF RunStandalone, Jump, Goto
<1>35. ASSUME NEW t \in Turns, SessionStartStops(t)
       PROVE  Forward
  BY <1>35 DEF SessionStartStops, Jump, Goto
<1>36. ASSUME NEW t \in Turns, DrainPending(t)
       PROVE  Forward
  BY <1>36 DEF DrainPending, TakePending, Goto, TaskFrame
<1>37. ASSUME NEW t \in Turns, DrainMail(t)
       PROVE  Forward
  BY <1>37 DEF DrainMail, DrainMailbox, Goto, TaskFrame
<1>38. ASSUME NEW t \in Turns, InspectAccepts(t)
       PROVE  Forward
  BY <1>38 DEF InspectAccepts, Jump, Goto
<1>39. ASSUME NEW t \in Turns, NEW b \in held[t], NEW ok \in SUBSET held[t],
       InspectBlocks(t, b, ok)
       PROVE  Forward
  BY <1>39 DEF InspectBlocks, Goto, TaskFrame
<1>40. ASSUME NEW t \in Turns, RecordPending(t)
       PROVE  Forward
  BY <1>40 DEF RecordPending, Goto, TaskFrame
<1>41. ASSUME NEW t \in Turns, DeferMailbox(t)
       PROVE  Forward
  BY <1>41 DEF DeferMailbox, TaskFrame
<1>42. ASSUME NEW t \in Turns, AcceptMailbox(t)
       PROVE  Forward
  BY <1>42 DEF AcceptMailbox, TaskFrame
<1>43. ASSUME NEW t \in Turns, NEW o \in {"drain", "loopCheck"}, Sample(t, o)
       PROVE  Forward
  BY <1>43 DEF Sample, Jump, Goto
<1>44. ASSUME NEW t \in Turns, LoopCheck(t)
       PROVE  Forward
  BY <1>44 DEF LoopCheck, Jump, Goto
<1>45. ASSUME NEW t \in Turns, FinishCheck(t)
       PROVE  Forward
  BY <1>45 DEF FinishCheck, Jump, Goto
<1>46. ASSUME NEW t \in Turns, RemoveTask(t)
       PROVE  Forward
  BY <1>46 DEF RemoveTask, Goto, TaskFrame
<1>47. ASSUME NEW t \in Turns, TakeLeftover(t)
       PROVE  Forward
  BY <1>47 DEF TakeLeftover, Goto, TaskFrame
<1>48. ASSUME NEW t \in Turns, NEW blocked \in SUBSET held[t], Complete(t,
       blocked)
       PROVE  Forward
  BY <1>48 DEF Complete, Goto, TaskFrame
<1>49. ASSUME NEW t \in Turns, ClearActive(t)
       PROVE  Forward
  BY <1>49 DEF ClearActive, Goto, Reserved
<1>50. ASSUME NEW t \in Turns, NEW u \in Turns, ContinueIfIdle(t, u)
       PROVE  Forward
  BY <1>50 DEF ContinueIfIdle
<1>51. ASSUME NEW t \in Turns, Killed(t)
       PROVE  Forward
  BY <1>51 DEF Killed, Goto, TaskFrame
<1>52. ASSUME NEW a \in Aborters, NEW t \in Turns, CancelTask(a, t)
       PROVE  Forward
  BY <1>52 DEF CancelTask, AbortFrame
<1>53. ASSUME NEW a \in Aborters, NEW t \in Turns, AbortNext(a, t)
       PROVE  Forward
  BY <1>53 DEF AbortNext, AbortFrame, NoAbort, CallPendingWork, Goto
<1>54. ASSUME NEW a \in Aborters, KillTask(a)
       PROVE  Forward
  BY <1>54 DEF KillTask, AbortFrame
<1>55. ASSUME NEW a \in Aborters, PauseGoal(a)
       PROVE  Forward
  BY <1>55 DEF PauseGoal, AbortFrame
<1>56. ASSUME NEW a \in Aborters, ClearPending(a)
       PROVE  Forward
  BY <1>56 DEF ClearPending, AbortFrame, Aborts
<1>57. ASSUME NEW a \in Aborters, AbortNothing(a)
       PROVE  Forward
  BY <1>57 DEF AbortNothing, AbortFrame, NoAbort
<1>58. CASE UNCHANGED vars
  BY <1>58
<1> HIDE DEF Types, OnlySent, Forward
<1> QED
  BY <1>1, <1>2, <1>3, <1>4, <1>5, <1>6, <1>7, <1>8, <1>9, <1>10, <1>11, <1>12,
     <1>13, <1>14, <1>15, <1>16, <1>17, <1>18, <1>19, <1>20, <1>21, <1>22,
     <1>23, <1>24, <1>25, <1>26, <1>27, <1>28, <1>29, <1>30, <1>31, <1>32,
     <1>33, <1>34, <1>35, <1>36, <1>37, <1>38, <1>39, <1>40, <1>41, <1>42,
     <1>43, <1>44, <1>45, <1>46, <1>47, <1>48, <1>49, <1>50, <1>51, <1>52,
     <1>53, <1>54, <1>55, <1>56, <1>57, <1>58 DEF Next, Client, StartStep,
     RunStep, FinishStep, AbortStep

\* Every step of the session is a step, or a stutter, of InputDelivery.
LEMMA DeliveryNext ==
  Types /\ TasksInv /\ DeliveryInv /\ DeliveryInv' /\ [Next]_vars
    => [Delivery!Next]_Status
<1> SUFFICES ASSUME Types, TasksInv, DeliveryInv, DeliveryInv', [Next]_vars
             PROVE  Delivery!Next
  OBVIOUS
<1>1. Forward
  BY StepsForward DEF DeliveryInv
<1>2. history \cap dropped = {} /\ (history \cap dropped = {})'
  BY DEF DeliveryInv, NoDuplicate
<1>3. history \cup dropped \subseteq sent /\ (history \cup dropped \subseteq sent)'
  BY DEF DeliveryInv, OnlySent
<1>4. Status' \in [Items -> Delivery!Statuses]
  BY DEF Status, Delivery!Statuses
<1>5. ASSUME NEW i \in Items
      PROVE  \/ Status'[i] = Status[i]
             \/ <<Status[i], Status'[i]>> \in Delivery!Steps
  BY <1>1, <1>2, <1>3 DEF Forward, Status, Delivery!Steps
<1> QED BY <1>4, <1>5 DEF Delivery!Next

\* The session implements at-most-once delivery: an accepted item is recorded
\* or dropped, at most one of the two, and never taken back.
THEOREM Delivers ==
  Spec => DeliverySpec
<1>1. Init => Delivery!Init
  BY DEF Init, Status, Delivery!Init
<1> QED BY <1>1, TasksAlways, DeliveryAlways, DeliveryNext, PTL
        DEF Spec, DeliverySpec, Delivery!Spec

-----------------------------------------------------------------------------
(* The submission loop.                                                    *)

\* Every step keeps the loop to one start or one abort at a time.
LEMMA LoopStep ==
  Types /\ LoopInv /\ [Next]_vars => LoopInv'
<1> SUFFICES ASSUME Types, LoopInv, [Next]_vars
             PROVE  LoopInv'
  OBVIOUS
<1> USE DEF vars, activeVars, bufferVars, turnVars, abortVars, itemVars,
            eventVars, Types, LoopInv, StartedByLoop, StartStages,
            PendingWorkStages, GoalStages, CollectStages
<1>0. Loop \notin {None, "guardian", "idle", "goal"}
  BY NamesAssumption DEF Loop
<1>1. ASSUME NEW p \in Prompts, SteerInput(p)
       PROVE  LoopInv'
  BY <1>1 DEF SteerInput, Steerable
<1>2. ASSUME NEW t \in Turns, NEW p \in Prompts, UserInput(t, p)
       PROVE  LoopInv'
  BY <1>2 DEF UserInput, AborterIdle, Goto, LoopIdle, Starting, Submit
<1>3. ASSUME NEW t \in Turns, NEW k \in {"shell", "review", "compact"},
       StandaloneTask(t, k)
       PROVE  LoopInv'
  BY <1>3 DEF StandaloneTask, AborterIdle, Goto, LoopIdle, Starting, Submit
<1>4. ASSUME NEW m \in Mails, SendMail(m)
       PROVE  LoopInv'
  BY <1>4 DEF SendMail, Enqueue
<1>5. ASSUME NEW t \in Turns, NEW m \in Mails, SendTriggerMail(t, m)
       PROVE  LoopInv'
  BY <1>5 DEF SendTriggerMail, AborterIdle, CallPendingWork, Enqueue,
    LoopIdle, Starting
<1>6. ASSUME NEW n \in Notes, ApproveDenied(n)
       PROVE  LoopInv'
  BY <1>6 DEF ApproveDenied, InjectInto
<1>7. ASSUME NEW n \in Notes, AuxShellOutput(n)
       PROVE  LoopInv'
  BY <1>7 DEF AuxShellOutput, InjectInto
<1>8. ASSUME NEW t \in Turns, SetGoal(t)
       PROVE  LoopInv'
  BY <1>8, <1>0 DEF SetGoal, CallPendingWork
<1>9. ASSUME NEW t \in Turns, GuardianAbort(t)
       PROVE  LoopInv'
  <2>1. \A b \in Aborters :
          abort'[b] = IF b = "guardian" THEN AbortOf("Interrupted") ELSE abort[b]
    BY <1>9 DEF GuardianAbort, TakeActive
  <2> QED BY <1>9, <2>1 DEF GuardianAbort, TakeActive, AbortOf, Aborters, Loop
<1>10. CASE StopGoal
  BY <1>10 DEF StopGoal
<1>11. CASE Interrupt
  <2>1. \A b \in Aborters :
          abort'[b] = IF b = Loop THEN AbortOf("Interrupted") ELSE abort[b]
    BY <1>11 DEF Interrupt, TakeActive
  <2> QED BY <1>11, <2>1 DEF Interrupt, TakeActive, AbortOf, Aborters, LoopIdle,
                        AborterIdle, Starting, Loop
<1>12. CASE QueueNote
  BY <1>12 DEF QueueNote
<1>13. ASSUME NEW t \in Turns, CheckQueue(t)
       PROVE  LoopInv'
  BY <1>13 DEF CheckQueue, Goto, Jump
<1>14. ASSUME NEW t \in Turns, CheckMail(t)
       PROVE  LoopInv'
  BY <1>14, <1>0 DEF CheckMail, GiveUp, Goto, StartFrame
<1>15. ASSUME NEW t \in Turns, Reserve(t)
       PROVE  LoopInv'
  BY <1>15, <1>0 DEF Reserve, GiveUp, Goto, StartFrame
<1>16. ASSUME NEW t \in Turns, GoalCandidate(t)
       PROVE  LoopInv'
  BY <1>16, <1>0 DEF GoalCandidate, GiveUp, Goto, StartFrame
<1>17. ASSUME NEW t \in Turns, GoalReserve(t)
       PROVE  LoopInv'
  BY <1>17, <1>0 DEF GoalReserve, GiveUp, Goto, StartFrame
<1>18. ASSUME NEW t \in Turns, GoalRecheck(t)
       PROVE  LoopInv'
  BY <1>18 DEF GoalRecheck, Goto, StartFrame
<1>19. ASSUME NEW t \in Turns, GoalPush(t)
       PROVE  LoopInv'
  BY <1>19 DEF GoalPush, Goto, StartFrame
<1>20. ASSUME NEW t \in Turns, GoalStillReserved(t)
       PROVE  LoopInv'
  BY <1>20 DEF GoalStillReserved, Goto, Jump
<1>21. ASSUME NEW t \in Turns, GoalClearReserved(t)
       PROVE  LoopInv'
  BY <1>21 DEF GoalClearReserved, Goto, StartFrame
<1>22. ASSUME NEW t \in Turns, NEW u \in Turns, GoalAfterStart(u, t)
       PROVE  LoopInv'
  BY <1>22, <1>0 DEF GoalAfterStart, Goto, StartFrame
<1>23. ASSUME NEW t \in Turns, ReplaceTasks(t)
       PROVE  LoopInv'
  <2>1. \A b \in Aborters :
          abort'[b] = IF b = Loop THEN AbortOf("Replaced") ELSE abort[b]
    BY <1>23 DEF ReplaceTasks, TakeActive
  <2> QED BY <1>23, <2>1 DEF ReplaceTasks, TakeActive, Goto, AbortOf, Aborters,
                        Loop
<1>24. ASSUME NEW t \in Turns, CollectQueue(t)
       PROVE  LoopInv'
  BY <1>24 DEF CollectQueue, Goto, StartFrame
<1>25. ASSUME NEW t \in Turns, CollectPending(t)
       PROVE  LoopInv'
  BY <1>25 DEF CollectPending, Goto, StartFrame, TakePending
<1>26. ASSUME NEW t \in Turns, CollectMail(t)
       PROVE  LoopInv'
  BY <1>26 DEF CollectMail, DrainMailbox, Goto, StartFrame
<1>27. ASSUME NEW t \in Turns, Install(t)
       PROVE  LoopInv'
  BY <1>27 DEF Install, Goto, StartFrame
<1>28. ASSUME NEW t \in Turns, PushCollected(t)
       PROVE  LoopInv'
  BY <1>28 DEF PushCollected, Goto, StartFrame
<1>29. ASSUME NEW t \in Turns, SpawnTask(t)
       PROVE  LoopInv'
  BY <1>29 DEF SpawnTask, Goto, StartFrame
<1>30. ASSUME NEW t \in Turns, PrewarmCancelled(t)
       PROVE  LoopInv'
  BY <1>30 DEF PrewarmCancelled, Goto, TaskFrame
<1>31. ASSUME NEW t \in Turns, RunTurnNothing(t)
       PROVE  LoopInv'
  BY <1>31 DEF RunTurnNothing, Entering, Goto, Jump
<1>32. ASSUME NEW t \in Turns, RunTurnRefused(t)
       PROVE  LoopInv'
  BY <1>32 DEF RunTurnRefused, Entering, Goto, TaskFrame
<1>33. ASSUME NEW t \in Turns, RunTurnBegins(t)
       PROVE  LoopInv'
  BY <1>33 DEF RunTurnBegins, Entering, Goto, TaskFrame
<1>34. ASSUME NEW t \in Turns, RunStandalone(t)
       PROVE  LoopInv'
  BY <1>34 DEF RunStandalone, Goto, Jump
<1>35. ASSUME NEW t \in Turns, SessionStartStops(t)
       PROVE  LoopInv'
  BY <1>35 DEF SessionStartStops, Goto, Jump
<1>36. ASSUME NEW t \in Turns, DrainPending(t)
       PROVE  LoopInv'
  BY <1>36 DEF DrainPending, Goto, TakePending, TaskFrame
<1>37. ASSUME NEW t \in Turns, DrainMail(t)
       PROVE  LoopInv'
  BY <1>37 DEF DrainMail, DrainMailbox, Goto, TaskFrame
<1>38. ASSUME NEW t \in Turns, InspectAccepts(t)
       PROVE  LoopInv'
  BY <1>38 DEF InspectAccepts, Goto, Jump
<1>39. ASSUME NEW t \in Turns, NEW b \in held[t], NEW ok \in SUBSET held[t],
       InspectBlocks(t, b, ok)
       PROVE  LoopInv'
  BY <1>39 DEF InspectBlocks, Goto, TaskFrame
<1>40. ASSUME NEW t \in Turns, RecordPending(t)
       PROVE  LoopInv'
  BY <1>40 DEF RecordPending, Goto, TaskFrame
<1>41. ASSUME NEW t \in Turns, DeferMailbox(t)
       PROVE  LoopInv'
  BY <1>41 DEF DeferMailbox, TaskFrame
<1>42. ASSUME NEW t \in Turns, AcceptMailbox(t)
       PROVE  LoopInv'
  BY <1>42 DEF AcceptMailbox, TaskFrame
<1>43. ASSUME NEW t \in Turns, NEW o \in {"drain", "loopCheck"}, Sample(t, o)
       PROVE  LoopInv'
  BY <1>43 DEF Sample, Goto, Jump
<1>44. ASSUME NEW t \in Turns, LoopCheck(t)
       PROVE  LoopInv'
  BY <1>44 DEF LoopCheck, Goto, Jump
<1>45. ASSUME NEW t \in Turns, FinishCheck(t)
       PROVE  LoopInv'
  BY <1>45 DEF FinishCheck, Goto, Jump
<1>46. ASSUME NEW t \in Turns, RemoveTask(t)
       PROVE  LoopInv'
  BY <1>46 DEF RemoveTask, Goto, TaskFrame
<1>47. ASSUME NEW t \in Turns, TakeLeftover(t)
       PROVE  LoopInv'
  BY <1>47 DEF TakeLeftover, Goto, TaskFrame
<1>48. ASSUME NEW t \in Turns, NEW blocked \in SUBSET held[t], Complete(t,
       blocked)
       PROVE  LoopInv'
  BY <1>48 DEF Complete, Goto, TaskFrame
<1>49. ASSUME NEW t \in Turns, ClearActive(t)
       PROVE  LoopInv'
  BY <1>49 DEF ClearActive, Goto
<1>50. ASSUME NEW t \in Turns, NEW u \in Turns, ContinueIfIdle(t, u)
       PROVE  LoopInv'
  BY <1>50, <1>0 DEF ContinueIfIdle
<1>51. ASSUME NEW t \in Turns, Killed(t)
       PROVE  LoopInv'
  BY <1>51 DEF Killed, Goto, TaskFrame
<1>52. ASSUME NEW a \in Aborters, NEW t \in Turns, CancelTask(a, t)
       PROVE  LoopInv'
  <2>1. /\ pc' = pc /\ caller' = caller
        /\ \A b \in Aborters : abort'[b].reason = abort[b].reason
        /\ \A b \in Aborters : abort'[b].stage # "idle" => abort[b].stage # "idle"
    BY <1>52 DEF CancelTask, AbortFrame, Aborts
  <2> QED BY <2>1 DEF Aborters
<1>53. ASSUME NEW a \in Aborters, NEW t \in Turns, AbortNext(a, t)
       PROVE  LoopInv'
  <2>1. \A b \in Aborters : abort'[b] = IF b = a THEN NoAbort ELSE abort[b]
    BY <1>53 DEF AbortNext
  <2>2. CASE abort[a].reason = "Interrupted" /\ CallPendingWork(t, a)
    BY <1>53, <2>1, <2>2 DEF AbortNext, CallPendingWork, NoAbort, Aborters
  <2>3. CASE abort[a].reason = "Replaced" /\ pc[t] = "replacing"
             /\ Goto(t, "collectQueue") /\ UNCHANGED caller
    <3>1. a = Loop
      BY <2>3 DEF Aborters
    <3> QED BY <2>1, <2>3, <3>1 DEF Goto, NoAbort, Aborters
  <2> QED BY <1>53, <2>2, <2>3 DEF AbortNext
<1>54. ASSUME NEW a \in Aborters, KillTask(a)
       PROVE  LoopInv'
  <2>1. /\ pc' = pc /\ caller' = caller
        /\ \A b \in Aborters : abort'[b].reason = abort[b].reason
        /\ \A b \in Aborters : abort'[b].stage # "idle" => abort[b].stage # "idle"
    BY <1>54 DEF KillTask, AbortFrame, Aborts
  <2> QED BY <2>1 DEF Aborters
<1>55. ASSUME NEW a \in Aborters, PauseGoal(a)
       PROVE  LoopInv'
  <2>1. /\ pc' = pc /\ caller' = caller
        /\ \A b \in Aborters : abort'[b].reason = abort[b].reason
        /\ \A b \in Aborters : abort'[b].stage # "idle" => abort[b].stage # "idle"
    BY <1>55 DEF PauseGoal, AbortFrame, Aborts
  <2> QED BY <2>1 DEF Aborters
<1>56. ASSUME NEW a \in Aborters, ClearPending(a)
       PROVE  LoopInv'
  <2>1. /\ pc' = pc /\ caller' = caller
        /\ \A b \in Aborters : abort'[b].reason = abort[b].reason
        /\ \A b \in Aborters : abort'[b].stage # "idle" => abort[b].stage # "idle"
    BY <1>56 DEF ClearPending, AbortFrame, Aborts
  <2> QED BY <2>1 DEF Aborters
<1>57. ASSUME NEW a \in Aborters, AbortNothing(a)
       PROVE  LoopInv'
  <2>1. /\ pc' = pc /\ caller' = caller
        /\ \A b \in Aborters : abort'[b] = IF b = a THEN NoAbort ELSE abort[b]
    BY <1>57 DEF AbortNothing, AbortFrame
  <2> QED BY <2>1 DEF NoAbort, Aborters
<1>58. CASE UNCHANGED vars
  BY <1>58
<1> HIDE DEF Types, LoopInv, StartedByLoop, StartStages, PendingWorkStages,
         GoalStages, CollectStages
<1> QED
  BY <1>1, <1>2, <1>3, <1>4, <1>5, <1>6, <1>7, <1>8, <1>9, <1>10, <1>11,
     <1>12, <1>13, <1>14, <1>15, <1>16, <1>17, <1>18, <1>19, <1>20, <1>21,
     <1>22, <1>23, <1>24, <1>25, <1>26, <1>27, <1>28, <1>29, <1>30, <1>31,
     <1>32, <1>33, <1>34, <1>35, <1>36, <1>37, <1>38, <1>39, <1>40, <1>41,
     <1>42, <1>43, <1>44, <1>45, <1>46, <1>47, <1>48, <1>49, <1>50, <1>51,
     <1>52, <1>53, <1>54, <1>55, <1>56, <1>57, <1>58 DEF Next, Client,
     StartStep, RunStep, FinishStep, AbortStep

-----------------------------------------------------------------------------
(* Readers of steered prompts.                                             *)

\* What a step owes to a prompt in a turn state.
ReaderKept(s, p) ==
  p \in pending'[s] /\ (p \in sent => p \in pending[s] /\ Attended(s))
    => Attended(s)'

\* A turn state keeps its reader if the installed turn keeps its tasks, and
\* whoever is about to take or clear its input is still about to.
LEMMA AttendedKept ==
  ASSUME NEW s \in TurnStates, Attended(s),
         s = active /\ tasks # {} => s = active' /\ tasks' # {},
         \A t \in Turns : pc[t] = "take" => pc'[t] = "take" /\ ts'[t] = ts[t],
         \A a \in Aborters : abort[a].stage \in {"tasks", "clear"} =>
           abort'[a].stage \in {"tasks", "clear"} /\ abort'[a].ts = abort[a].ts
  PROVE  Attended(s)'
BY DEF Attended

\* Every step leaves a steered prompt its reader, or takes it out.
LEMMA ReaderStep ==
  ASSUME Types, TasksInv, LoopInv, OnlySent, [Next]_vars,
         NEW s \in TurnStates, NEW p \in Prompts
  PROVE  ReaderKept(s, p)
<1> SUFFICES ASSUME p \in pending'[s], p \in sent => p \in pending[s] /\ Attended(s)
             PROVE  Attended(s)'
  BY DEF ReaderKept
<1> USE DEF vars, activeVars, bufferVars, turnVars, abortVars, itemVars,
            eventVars, Types
<1>0. s # None /\ (p \in pending[s] => Attended(s))
  BY NamesAssumption DEF OnlySent
<1>1. ASSUME NEW q \in Prompts, SteerInput(q)
       PROVE  Attended(s)'
  <2>1. CASE s = active
    BY <1>1, <2>1 DEF SteerInput, Attended
  <2>2. CASE s # active
    <3>1. p \in pending[s]
      BY <1>1, <2>2 DEF SteerInput
    <3> QED BY <1>1, <3>1, <1>0, AttendedKept DEF SteerInput
  <2> QED BY <2>1, <2>2
<1>2. ASSUME NEW t \in Turns, NEW q \in Prompts, UserInput(t, q)
       PROVE  Attended(s)'
  <2>1. p \in pending[s]
    BY <1>2 DEF UserInput, AborterIdle, Goto, LoopIdle, Starting, Submit
  <2> QED BY <1>2, <2>1, <1>0, AttendedKept DEF UserInput, AborterIdle, Goto,
             LoopIdle, Starting, Submit
<1>3. ASSUME NEW t \in Turns, NEW k \in {"shell", "review", "compact"},
       StandaloneTask(t, k)
       PROVE  Attended(s)'
  <2>1. p \in pending[s]
    BY <1>3 DEF StandaloneTask, AborterIdle, Goto, LoopIdle, Starting, Submit
  <2> QED BY <1>3, <2>1, <1>0, AttendedKept DEF StandaloneTask, AborterIdle,
             Goto, LoopIdle, Starting, Submit
<1>4. ASSUME NEW m \in Mails, SendMail(m)
       PROVE  Attended(s)'
  <2>1. p \in pending[s]
    BY <1>4 DEF SendMail, Enqueue
  <2> QED BY <1>4, <2>1, <1>0, AttendedKept DEF SendMail, Enqueue
<1>5. ASSUME NEW t \in Turns, NEW m \in Mails, SendTriggerMail(t, m)
       PROVE  Attended(s)'
  <2>1. p \in pending[s]
    BY <1>5 DEF SendTriggerMail, AborterIdle, CallPendingWork, Enqueue,
      LoopIdle, Starting
  <2> QED BY <1>5, <2>1, <1>0, AttendedKept DEF SendTriggerMail, AborterIdle,
             CallPendingWork, Enqueue, LoopIdle, Starting
<1>6. ASSUME NEW n \in Notes, ApproveDenied(n)
       PROVE  Attended(s)'
  <2>1. p \in pending[s]
    BY <1>6, ItemsAssumption DEF ApproveDenied, InjectInto
  <2> QED BY <1>6, <2>1, <1>0, AttendedKept DEF ApproveDenied, InjectInto
<1>7. ASSUME NEW n \in Notes, AuxShellOutput(n)
       PROVE  Attended(s)'
  <2>1. p \in pending[s]
    BY <1>7, ItemsAssumption DEF AuxShellOutput, InjectInto
  <2> QED BY <1>7, <2>1, <1>0, AttendedKept DEF AuxShellOutput, InjectInto
<1>8. ASSUME NEW t \in Turns, SetGoal(t)
       PROVE  Attended(s)'
  <2>1. p \in pending[s]
    BY <1>8 DEF SetGoal, CallPendingWork
  <2> QED BY <1>8, <2>1, <1>0, AttendedKept DEF SetGoal, CallPendingWork
<1>9. ASSUME NEW t \in Turns, GuardianAbort(t)
       PROVE  Attended(s)'
  <2>1. p \in pending[s] /\ Attended(s)
    BY <1>9, <1>0 DEF GuardianAbort, TakeActive
  <2>2. \A b \in Aborters :
          abort'[b] = IF b = "guardian" THEN AbortOf("Interrupted") ELSE abort[b]
    BY <1>9 DEF GuardianAbort, TakeActive
  <2>3. abort["guardian"].stage = "idle"
    BY <1>9 DEF GuardianAbort, AborterIdle
  <2>4. CASE s = active /\ tasks # {}
    BY <2>2, <2>4 DEF Attended, AbortOf, Aborters
  <2>5. CASE ~(s = active /\ tasks # {})
    <3>1. \A b \in Aborters : abort[b].stage \in {"tasks", "clear"} =>
            abort'[b] = abort[b]
      BY <2>2, <2>3
    <3> QED BY <1>9, <2>1, <2>5, <3>1, AttendedKept DEF GuardianAbort,
               TakeActive, Goto
  <2> QED BY <2>4, <2>5
<1>10. CASE StopGoal
  <2>1. p \in pending[s]
    BY <1>10 DEF StopGoal
  <2> QED BY <1>10, <2>1, <1>0, AttendedKept DEF StopGoal
<1>11. CASE Interrupt
  <2>1. p \in pending[s] /\ Attended(s)
    BY <1>11, <1>0 DEF Interrupt, TakeActive
  <2>2. \A b \in Aborters :
          abort'[b] = IF b = Loop THEN AbortOf("Interrupted") ELSE abort[b]
    BY <1>11 DEF Interrupt, TakeActive
  <2>3. abort[Loop].stage = "idle"
    BY <1>11 DEF Interrupt, LoopIdle, AborterIdle
  <2>4. CASE s = active /\ tasks # {}
    BY <2>2, <2>4 DEF Attended, AbortOf, Aborters
  <2>5. CASE ~(s = active /\ tasks # {})
    <3>1. \A b \in Aborters : abort[b].stage \in {"tasks", "clear"} =>
            abort'[b] = abort[b]
      BY <2>2, <2>3
    <3> QED BY <1>11, <2>1, <2>5, <3>1, AttendedKept DEF Interrupt,
               TakeActive, Goto
  <2> QED BY <2>4, <2>5
<1>12. CASE QueueNote
  <2>1. p \in pending[s]
    BY <1>12 DEF QueueNote
  <2> QED BY <1>12, <2>1, <1>0, AttendedKept DEF QueueNote
<1>13. ASSUME NEW t \in Turns, CheckQueue(t)
       PROVE  Attended(s)'
  <2>1. p \in pending[s]
    BY <1>13 DEF CheckQueue, Goto, Jump
  <2> QED BY <1>13, <2>1, <1>0, AttendedKept DEF CheckQueue, Goto, Jump
<1>14. ASSUME NEW t \in Turns, CheckMail(t)
       PROVE  Attended(s)'
  <2>1. p \in pending[s]
    BY <1>14 DEF CheckMail, GiveUp, Goto, StartFrame
  <2> QED BY <1>14, <2>1, <1>0, AttendedKept DEF CheckMail, GiveUp, Goto,
             StartFrame
<1>15. ASSUME NEW t \in Turns, Reserve(t)
       PROVE  Attended(s)'
  <2>1. p \in pending[s]
    BY <1>15 DEF Reserve, GiveUp, Goto, StartFrame
  <2> QED BY <1>15, <2>1, <1>0, AttendedKept DEF Reserve, GiveUp, Goto,
             StartFrame
<1>16. ASSUME NEW t \in Turns, GoalCandidate(t)
       PROVE  Attended(s)'
  <2>1. p \in pending[s]
    BY <1>16 DEF GoalCandidate, GiveUp, Goto, StartFrame
  <2> QED BY <1>16, <2>1, <1>0, AttendedKept DEF GoalCandidate, GiveUp, Goto,
             StartFrame
<1>17. ASSUME NEW t \in Turns, GoalReserve(t)
       PROVE  Attended(s)'
  <2>1. p \in pending[s]
    BY <1>17 DEF GoalReserve, GiveUp, Goto, StartFrame
  <2> QED BY <1>17, <2>1, <1>0, AttendedKept DEF GoalReserve, GiveUp, Goto,
             StartFrame
<1>18. ASSUME NEW t \in Turns, GoalRecheck(t)
       PROVE  Attended(s)'
  <2>1. p \in pending[s]
    BY <1>18 DEF GoalRecheck, Goto, StartFrame
  <2> QED BY <1>18, <2>1, <1>0, AttendedKept DEF GoalRecheck, Goto, StartFrame
<1>19. ASSUME NEW t \in Turns, GoalPush(t)
       PROVE  Attended(s)'
  <2>0. p # GoalPrompt(t)
    BY ItemsAssumption DEF GoalPrompts
  <2>1. p \in pending[s]
    BY <1>19, <2>0 DEF GoalPush
  <2> QED BY <1>19, <2>1, <1>0, AttendedKept DEF GoalPush, Goto, StartFrame
<1>20. ASSUME NEW t \in Turns, GoalStillReserved(t)
       PROVE  Attended(s)'
  <2>1. p \in pending[s]
    BY <1>20 DEF GoalStillReserved, Goto, Jump
  <2> QED BY <1>20, <2>1, <1>0, AttendedKept DEF GoalStillReserved, Goto, Jump
<1>21. ASSUME NEW t \in Turns, GoalClearReserved(t)
       PROVE  Attended(s)'
  <2>1. p \in pending[s]
    BY <1>21 DEF GoalClearReserved, Goto, StartFrame
  <2> QED BY <1>21, <2>1, <1>0, AttendedKept DEF Reserved, GoalClearReserved,
             Goto, StartFrame
<1>22. ASSUME NEW t \in Turns, NEW u \in Turns, GoalAfterStart(u, t)
       PROVE  Attended(s)'
  <2>1. p \in pending[s]
    BY <1>22 DEF GoalAfterStart, Goto, StartFrame
  <2> QED BY <1>22, <2>1, <1>0, AttendedKept DEF GoalAfterStart, Goto,
             StartFrame
<1>23. ASSUME NEW t \in Turns, ReplaceTasks(t)
       PROVE  Attended(s)'
  <2>1. p \in pending[s] /\ Attended(s)
    BY <1>23, <1>0 DEF ReplaceTasks, TakeActive
  <2>2. \A b \in Aborters :
          abort'[b] = IF b = Loop THEN AbortOf("Replaced") ELSE abort[b]
    BY <1>23 DEF ReplaceTasks, TakeActive
  <2>3. abort[Loop].stage = "idle"
    BY <1>23 DEF ReplaceTasks, LoopInv, StartedByLoop, StartStages
  <2>4. CASE s = active /\ tasks # {}
    BY <2>2, <2>4 DEF Attended, AbortOf, Aborters
  <2>5. CASE ~(s = active /\ tasks # {})
    <3>1. \A b \in Aborters : abort[b].stage \in {"tasks", "clear"} =>
            abort'[b] = abort[b]
      BY <2>2, <2>3
    <3> QED BY <1>23, <2>1, <2>5, <3>1, AttendedKept DEF ReplaceTasks,
               TakeActive, Goto
  <2> QED BY <2>4, <2>5
<1>24. ASSUME NEW t \in Turns, CollectQueue(t)
       PROVE  Attended(s)'
  <2>1. p \in pending[s]
    BY <1>24 DEF CollectQueue, Goto, StartFrame
  <2> QED BY <1>24, <2>1, <1>0, AttendedKept DEF CollectQueue, Goto, StartFrame
<1>25. ASSUME NEW t \in Turns, CollectPending(t)
       PROVE  Attended(s)'
  <2>1. p \in pending[s]
    BY <1>25 DEF CollectPending, Goto, StartFrame, TakePending
  <2> QED BY <1>25, <2>1, <1>0, AttendedKept DEF CollectPending, Goto,
             StartFrame, TakePending
<1>26. ASSUME NEW t \in Turns, CollectMail(t)
       PROVE  Attended(s)'
  <2>1. p \in pending[s]
    BY <1>26 DEF CollectMail, DrainMailbox, Goto, StartFrame
  <2> QED BY <1>26, <2>1, <1>0, AttendedKept DEF CollectMail, DrainMailbox,
             Goto, StartFrame
<1>27. ASSUME NEW t \in Turns, Install(t)
       PROVE  Attended(s)'
  <2>1. p \in pending[s]
    BY <1>27 DEF Install, Goto, StartFrame
  <2> QED BY <1>27, <2>1, <1>0, AttendedKept DEF Install, Goto, StartFrame
<1>28. ASSUME NEW t \in Turns, PushCollected(t)
       PROVE  Attended(s)'
  <2>1. p \in sent
    BY <1>28 DEF PushCollected, OnlySent
  <2> QED BY <1>28, <2>1, AttendedKept DEF PushCollected, Goto, StartFrame
<1>29. ASSUME NEW t \in Turns, SpawnTask(t)
       PROVE  Attended(s)'
  <2>1. p \in pending[s]
    BY <1>29 DEF SpawnTask, Goto, StartFrame
  <2> QED BY <1>29, <2>1, <1>0, AttendedKept DEF SpawnTask, Goto, StartFrame
<1>30. ASSUME NEW t \in Turns, PrewarmCancelled(t)
       PROVE  Attended(s)'
  <2>1. p \in pending[s]
    BY <1>30 DEF PrewarmCancelled, Goto, TaskFrame
  <2> QED BY <1>30, <2>1, <1>0, AttendedKept DEF PrewarmCancelled, Goto,
             TaskFrame
<1>31. ASSUME NEW t \in Turns, RunTurnNothing(t)
       PROVE  Attended(s)'
  <2>1. p \in pending[s]
    BY <1>31 DEF RunTurnNothing, Entering, Goto, Jump
  <2> QED BY <1>31, <2>1, <1>0, AttendedKept DEF RunTurnNothing, Entering,
             Goto, Jump
<1>32. ASSUME NEW t \in Turns, RunTurnRefused(t)
       PROVE  Attended(s)'
  <2>1. p \in pending[s]
    BY <1>32 DEF RunTurnRefused, Entering, Goto, TaskFrame
  <2> QED BY <1>32, <2>1, <1>0, AttendedKept DEF RunTurnRefused, Entering,
             Goto, TaskFrame
<1>33. ASSUME NEW t \in Turns, RunTurnBegins(t)
       PROVE  Attended(s)'
  <2>1. p \in pending[s]
    BY <1>33 DEF RunTurnBegins, Entering, Goto, TaskFrame
  <2> QED BY <1>33, <2>1, <1>0, AttendedKept DEF RunTurnBegins, Entering,
             Goto, TaskFrame
<1>34. ASSUME NEW t \in Turns, RunStandalone(t)
       PROVE  Attended(s)'
  <2>1. p \in pending[s]
    BY <1>34 DEF RunStandalone, Goto, Jump
  <2> QED BY <1>34, <2>1, <1>0, AttendedKept DEF RunStandalone, Goto, Jump
<1>35. ASSUME NEW t \in Turns, SessionStartStops(t)
       PROVE  Attended(s)'
  <2>1. p \in pending[s]
    BY <1>35 DEF SessionStartStops, Goto, Jump
  <2> QED BY <1>35, <2>1, <1>0, AttendedKept DEF SessionStartStops, Goto, Jump
<1>36. ASSUME NEW t \in Turns, DrainPending(t)
       PROVE  Attended(s)'
  <2>1. p \in pending[s]
    BY <1>36 DEF DrainPending, Goto, TakePending, TaskFrame
  <2> QED BY <1>36, <2>1, <1>0, AttendedKept DEF DrainPending, Goto,
             TakePending, TaskFrame
<1>37. ASSUME NEW t \in Turns, DrainMail(t)
       PROVE  Attended(s)'
  <2>1. p \in pending[s]
    BY <1>37 DEF DrainMail, DrainMailbox, Goto, TaskFrame
  <2> QED BY <1>37, <2>1, <1>0, AttendedKept DEF DrainMail, DrainMailbox,
             Goto, TaskFrame
<1>38. ASSUME NEW t \in Turns, InspectAccepts(t)
       PROVE  Attended(s)'
  <2>1. p \in pending[s]
    BY <1>38 DEF InspectAccepts, Goto, Jump
  <2> QED BY <1>38, <2>1, <1>0, AttendedKept DEF InspectAccepts, Goto, Jump
<1>39. ASSUME NEW t \in Turns, NEW b \in held[t], NEW ok \in SUBSET held[t],
       InspectBlocks(t, b, ok)
       PROVE  Attended(s)'
  <2>1. p \in sent
    BY <1>39 DEF InspectBlocks, OnlySent, TaskFrame
  <2> QED BY <1>39, <2>1, AttendedKept DEF InspectBlocks, Goto, TaskFrame
<1>40. ASSUME NEW t \in Turns, RecordPending(t)
       PROVE  Attended(s)'
  <2>1. p \in pending[s]
    BY <1>40 DEF RecordPending, Goto, TaskFrame
  <2> QED BY <1>40, <2>1, <1>0, AttendedKept DEF RecordPending, Goto, TaskFrame
<1>41. ASSUME NEW t \in Turns, DeferMailbox(t)
       PROVE  Attended(s)'
  <2>1. p \in pending[s]
    BY <1>41 DEF DeferMailbox, TaskFrame
  <2> QED BY <1>41, <2>1, <1>0, AttendedKept DEF DeferMailbox, TaskFrame
<1>42. ASSUME NEW t \in Turns, AcceptMailbox(t)
       PROVE  Attended(s)'
  <2>1. p \in pending[s]
    BY <1>42 DEF AcceptMailbox, TaskFrame
  <2> QED BY <1>42, <2>1, <1>0, AttendedKept DEF AcceptMailbox, TaskFrame
<1>43. ASSUME NEW t \in Turns, NEW o \in {"drain", "loopCheck"}, Sample(t, o)
       PROVE  Attended(s)'
  <2>1. p \in pending[s]
    BY <1>43 DEF Sample, Goto, Jump
  <2> QED BY <1>43, <2>1, <1>0, AttendedKept DEF Sample, Goto, Jump
<1>44. ASSUME NEW t \in Turns, LoopCheck(t)
       PROVE  Attended(s)'
  <2>1. p \in pending[s]
    BY <1>44 DEF LoopCheck, Goto, Jump
  <2> QED BY <1>44, <2>1, <1>0, AttendedKept DEF LoopCheck, Goto, Jump
<1>45. ASSUME NEW t \in Turns, FinishCheck(t)
       PROVE  Attended(s)'
  <2>1. p \in pending[s]
    BY <1>45 DEF FinishCheck, Goto, Jump
  <2> QED BY <1>45, <2>1, <1>0, AttendedKept DEF FinishCheck, Goto, Jump
<1>46. ASSUME NEW t \in Turns, RemoveTask(t)
       PROVE  Attended(s)'
  <2>1. p \in pending[s] /\ Attended(s)
    BY <1>46, <1>0 DEF RemoveTask, TaskFrame
  <2>2. CASE s = active /\ tasks = {t}
    BY <1>46, <2>2 DEF RemoveTask, Goto, TaskFrame, Attended
  <2>3. CASE ~(s = active /\ tasks = {t})
    <3>1. s = active /\ tasks # {} => s = active' /\ tasks' # {}
      BY <1>46, <2>3 DEF RemoveTask, TaskFrame
    <3> QED BY <1>46, <2>1, <3>1, AttendedKept DEF RemoveTask, Goto, TaskFrame
  <2> QED BY <2>2, <2>3
<1>47. ASSUME NEW t \in Turns, TakeLeftover(t)
       PROVE  Attended(s)'
  <2>1. p \in pending[s] /\ Attended(s) /\ s # ts[t]
    BY <1>47, <1>0 DEF TakeLeftover, TasksInv
  <2> QED BY <1>47, <2>1 DEF TakeLeftover, Goto, TaskFrame, Attended
<1>48. ASSUME NEW t \in Turns, NEW blocked \in SUBSET held[t], Complete(t,
       blocked)
       PROVE  Attended(s)'
  <2>1. p \in pending[s]
    BY <1>48 DEF Complete, Goto, TaskFrame
  <2> QED BY <1>48, <2>1, <1>0, AttendedKept DEF Complete, Goto, TaskFrame
<1>49. ASSUME NEW t \in Turns, ClearActive(t)
       PROVE  Attended(s)'
  <2>1. p \in pending[s]
    BY <1>49 DEF ClearActive, Goto
  <2> QED BY <1>49, <2>1, <1>0, AttendedKept DEF Reserved, ClearActive, Goto
<1>50. ASSUME NEW t \in Turns, NEW u \in Turns, ContinueIfIdle(t, u)
       PROVE  Attended(s)'
  <2>1. p \in pending[s]
    BY <1>50 DEF ContinueIfIdle
  <2> QED BY <1>50, <2>1, <1>0, AttendedKept DEF ContinueIfIdle
<1>51. ASSUME NEW t \in Turns, Killed(t)
       PROVE  Attended(s)'
  <2>1. p \in pending[s] /\ Attended(s) /\ pc[t] # "take"
    BY <1>51, <1>0 DEF Killed, TasksInv, Condemned, RunStages
  <2> QED BY <1>51, <2>1, AttendedKept DEF Killed, Goto, TaskFrame
<1>52. ASSUME NEW a \in Aborters, NEW t \in Turns, CancelTask(a, t)
       PROVE  Attended(s)'
  <2>1. p \in pending[s]
    BY <1>52 DEF CancelTask, AbortFrame
  <2>2. \A b \in Aborters : abort[b].stage \in {"tasks", "clear"} =>
          abort'[b].stage \in {"tasks", "clear"} /\ abort'[b].ts = abort[b].ts
    BY <1>52 DEF CancelTask, Aborts
  <2> QED BY <1>52, <2>1, <2>2, <1>0, AttendedKept DEF CancelTask, AbortFrame
<1>53. ASSUME NEW a \in Aborters, NEW t \in Turns, AbortNext(a, t)
       PROVE  Attended(s)'
  <2>1. p \in pending[s]
    BY <1>53 DEF AbortNext, AbortFrame
  <2>2. \A b \in Aborters : abort[b].stage \in {"tasks", "clear"} =>
          abort'[b] = abort[b]
    BY <1>53 DEF AbortNext
  <2> QED BY <1>53, <2>1, <2>2, <1>0, AttendedKept DEF AbortNext, AbortFrame,
             CallPendingWork, Goto
<1>54. ASSUME NEW a \in Aborters, KillTask(a)
       PROVE  Attended(s)'
  <2>1. p \in pending[s]
    BY <1>54 DEF KillTask, AbortFrame
  <2>2. \A b \in Aborters : abort[b].stage \in {"tasks", "clear"} =>
          abort'[b].stage \in {"tasks", "clear"} /\ abort'[b].ts = abort[b].ts
    BY <1>54 DEF KillTask, Aborts
  <2> QED BY <1>54, <2>1, <2>2, <1>0, AttendedKept DEF KillTask, AbortFrame
<1>55. ASSUME NEW a \in Aborters, PauseGoal(a)
       PROVE  Attended(s)'
  <2>1. p \in pending[s]
    BY <1>55 DEF PauseGoal, AbortFrame
  <2>2. \A b \in Aborters : abort[b].stage \in {"tasks", "clear"} =>
          abort'[b].stage \in {"tasks", "clear"} /\ abort'[b].ts = abort[b].ts
    BY <1>55 DEF PauseGoal, Aborts
  <2> QED BY <1>55, <2>1, <2>2, <1>0, AttendedKept DEF PauseGoal, AbortFrame
<1>56. ASSUME NEW a \in Aborters, ClearPending(a)
       PROVE  Attended(s)'
  <2>1. p \in pending[s] /\ Attended(s) /\ s # abort[a].ts
    <3>1. CASE abort[a].ts = None
      BY <1>56, <3>1, <1>0 DEF ClearPending
    <3>2. CASE abort[a].ts # None
      <4>1. abort[a].ts \in TurnStates
        BY <3>2 DEF Aborts
      <4> QED BY <1>56, <3>2, <4>1, <1>0 DEF ClearPending
    <3> QED BY <3>1, <3>2
  <2>2. \A b \in Aborters : /\ abort'[b].ts = abort[b].ts
                           /\ b # a => abort'[b] = abort[b]
    BY <1>56 DEF ClearPending, Aborts
  <2> QED BY <1>56, <2>1, <2>2 DEF ClearPending, AbortFrame, Attended
<1>57. ASSUME NEW a \in Aborters, AbortNothing(a)
       PROVE  Attended(s)'
  <2>1. p \in pending[s]
    BY <1>57 DEF AbortNothing, AbortFrame
  <2>2. \A b \in Aborters : abort[b].stage \in {"tasks", "clear"} =>
          abort'[b] = abort[b]
    BY <1>57 DEF AbortNothing
  <2> QED BY <1>57, <2>1, <2>2, <1>0, AttendedKept DEF AbortNothing,
             AbortFrame, CallPendingWork, Goto
<1>58. CASE UNCHANGED vars
  <2>1. p \in pending[s]
    BY <1>58
  <2> QED BY <1>58, <2>1, <1>0, AttendedKept
<1> HIDE DEF Types
<1> QED
  BY <1>1, <1>2, <1>3, <1>4, <1>5, <1>6, <1>7, <1>8, <1>9, <1>10, <1>11,
     <1>12, <1>13, <1>14, <1>15, <1>16, <1>17, <1>18, <1>19, <1>20, <1>21,
     <1>22, <1>23, <1>24, <1>25, <1>26, <1>27, <1>28, <1>29, <1>30, <1>31,
     <1>32, <1>33, <1>34, <1>35, <1>36, <1>37, <1>38, <1>39, <1>40, <1>41,
     <1>42, <1>43, <1>44, <1>45, <1>46, <1>47, <1>48, <1>49, <1>50, <1>51,
     <1>52, <1>53, <1>54, <1>55, <1>56, <1>57, <1>58 DEF Next, Client,
     StartStep, RunStep, FinishStep, AbortStep

-----------------------------------------------------------------------------
(* Sessions whose turns are all started by the loop.                       *)

\* Every step keeps them to one task.
LEMMA OneTaskStep ==
  ASSUME OnlyLoopStarts, Types, TasksInv, LoopInv, OneTaskInv, [Next]_vars
  PROVE  OneTaskInv'
<1> USE DEF vars, activeVars, bufferVars, turnVars, abortVars, itemVars,
            eventVars, Types, OneTaskInv, CollectStages, GoalStages
<1>0. Loop \notin {None, "guardian", "idle", "goal"} \cup Turns /\ None # "idle"
  BY NamesAssumption DEF Loop
<1> USE <1>0
<1>1. ASSUME NEW q \in Prompts, SteerInput(q)
       PROVE  OneTaskInv'
  BY <1>1 DEF SteerInput, Steerable
<1>2. ASSUME NEW t \in Turns, NEW q \in Prompts, UserInput(t, q)
       PROVE  OneTaskInv'
  BY <1>2 DEF UserInput, AborterIdle, Goto, LoopIdle, Starting, Submit
<1>3. ASSUME NEW t \in Turns, NEW k \in {"shell", "review", "compact"},
       StandaloneTask(t, k)
       PROVE  OneTaskInv'
  BY <1>3 DEF StandaloneTask, AborterIdle, Goto, LoopIdle, Starting, Submit
<1>4. ASSUME NEW m \in Mails, SendMail(m)
       PROVE  OneTaskInv'
  BY <1>4 DEF SendMail, Enqueue
<1>5. ASSUME NEW t \in Turns, NEW m \in Mails, SendTriggerMail(t, m)
       PROVE  OneTaskInv'
  BY <1>5 DEF SendTriggerMail, AborterIdle, CallPendingWork, Enqueue,
    LoopIdle, OnlyLoopStarts, Starting
<1>6. ASSUME NEW n \in Notes, ApproveDenied(n)
       PROVE  OneTaskInv'
  BY <1>6 DEF ApproveDenied, InjectInto, OnlyLoopStarts
<1>7. ASSUME NEW n \in Notes, AuxShellOutput(n)
       PROVE  OneTaskInv'
  BY <1>7 DEF AuxShellOutput, InjectInto
<1>8. ASSUME NEW t \in Turns, SetGoal(t)
       PROVE  OneTaskInv'
  BY <1>8 DEF SetGoal, CallPendingWork, GoalsEnabled, OnlyLoopStarts
<1>9. ASSUME NEW t \in Turns, GuardianAbort(t)
       PROVE  OneTaskInv'
  BY <1>9 DEF GuardianAbort, AbortOf, Goto, TakeActive
<1>10. CASE StopGoal
  BY <1>10 DEF StopGoal
<1>11. CASE Interrupt
  BY <1>11 DEF Interrupt, AbortOf, AborterIdle, Goto, LoopIdle, Starting,
    TakeActive
<1>12. CASE QueueNote
  BY <1>12 DEF QueueNote
<1>13. ASSUME NEW t \in Turns, CheckQueue(t)
       PROVE  OneTaskInv'
  BY <1>13 DEF CheckQueue, Goto, Jump
<1>14. ASSUME NEW t \in Turns, CheckMail(t)
       PROVE  OneTaskInv'
  BY <1>14 DEF CheckMail, GiveUp, GoalsEnabled, Goto, HasTriggerMail,
    OnlyLoopStarts, StartFrame
<1>15. ASSUME NEW t \in Turns, Reserve(t)
       PROVE  OneTaskInv'
  BY <1>15 DEF Reserve, GiveUp, Goto, StartFrame
<1>16. ASSUME NEW t \in Turns, GoalCandidate(t)
       PROVE  OneTaskInv'
  BY <1>16 DEF GoalCandidate, GiveUp, Goto, StartFrame
<1>17. ASSUME NEW t \in Turns, GoalReserve(t)
       PROVE  OneTaskInv'
  BY <1>17 DEF GoalReserve, GiveUp, Goto, StartFrame
<1>18. ASSUME NEW t \in Turns, GoalRecheck(t)
       PROVE  OneTaskInv'
  BY <1>18 DEF GoalRecheck, Goto, StartFrame
<1>19. ASSUME NEW t \in Turns, GoalPush(t)
       PROVE  OneTaskInv'
  BY <1>19 DEF GoalPush, Goto, StartFrame
<1>20. ASSUME NEW t \in Turns, GoalStillReserved(t)
       PROVE  OneTaskInv'
  BY <1>20 DEF GoalStillReserved, Goto, Jump
<1>21. ASSUME NEW t \in Turns, GoalClearReserved(t)
       PROVE  OneTaskInv'
  BY <1>21 DEF GoalClearReserved, Goto, StartFrame
<1>22. ASSUME NEW t \in Turns, NEW u \in Turns, GoalAfterStart(u, t)
       PROVE  OneTaskInv'
  BY <1>22 DEF GoalAfterStart, Goto, PendingWorkStages, StartFrame, StartStages
<1>23. ASSUME NEW t \in Turns, ReplaceTasks(t)
       PROVE  OneTaskInv'
  BY <1>23 DEF ReplaceTasks, AbortOf, Goto, TakeActive
<1>24. ASSUME NEW t \in Turns, CollectQueue(t)
       PROVE  OneTaskInv'
  BY <1>24 DEF CollectQueue, Goto, StartFrame
<1>25. ASSUME NEW t \in Turns, CollectPending(t)
       PROVE  OneTaskInv'
  BY <1>25 DEF CollectPending, Goto, StartFrame, TakePending
<1>26. ASSUME NEW t \in Turns, CollectMail(t)
       PROVE  OneTaskInv'
  BY <1>26 DEF CollectMail, DrainMailbox, Goto, StartFrame
<1>27. ASSUME NEW t \in Turns, Install(t)
       PROVE  OneTaskInv'
  BY <1>27 DEF Install, Goto, StartFrame
<1>28. ASSUME NEW t \in Turns, PushCollected(t)
       PROVE  OneTaskInv'
  BY <1>28 DEF PushCollected, Goto, StartFrame
<1>29. ASSUME NEW t \in Turns, SpawnTask(t)
       PROVE  OneTaskInv'
  BY <1>29 DEF SpawnTask, GoalsEnabled, Goto, LoopInv, OnlyLoopStarts,
    StartFrame, StartStages, StartedByLoop
<1>30. ASSUME NEW t \in Turns, PrewarmCancelled(t)
       PROVE  OneTaskInv'
  BY <1>30 DEF PrewarmCancelled, Goto, TaskFrame
<1>31. ASSUME NEW t \in Turns, RunTurnNothing(t)
       PROVE  OneTaskInv'
  BY <1>31 DEF RunTurnNothing, Entering, Goto, Jump
<1>32. ASSUME NEW t \in Turns, RunTurnRefused(t)
       PROVE  OneTaskInv'
  BY <1>32 DEF RunTurnRefused, Entering, Goto, TaskFrame
<1>33. ASSUME NEW t \in Turns, RunTurnBegins(t)
       PROVE  OneTaskInv'
  BY <1>33 DEF RunTurnBegins, Entering, Goto, TaskFrame
<1>34. ASSUME NEW t \in Turns, RunStandalone(t)
       PROVE  OneTaskInv'
  BY <1>34 DEF RunStandalone, Goto, Jump
<1>35. ASSUME NEW t \in Turns, SessionStartStops(t)
       PROVE  OneTaskInv'
  BY <1>35 DEF SessionStartStops, Goto, Jump
<1>36. ASSUME NEW t \in Turns, DrainPending(t)
       PROVE  OneTaskInv'
  BY <1>36 DEF DrainPending, AcceptsMailbox, Goto, TakePending, TaskFrame,
    TasksInv
<1>37. ASSUME NEW t \in Turns, DrainMail(t)
       PROVE  OneTaskInv'
  BY <1>37 DEF DrainMail, DrainMailbox, Goto, TaskFrame
<1>38. ASSUME NEW t \in Turns, InspectAccepts(t)
       PROVE  OneTaskInv'
  BY <1>38 DEF InspectAccepts, Goto, Jump
<1>39. ASSUME NEW t \in Turns, NEW b \in held[t], NEW ok \in SUBSET held[t],
       InspectBlocks(t, b, ok)
       PROVE  OneTaskInv'
  BY <1>39 DEF InspectBlocks, Goto, TaskFrame
<1>40. ASSUME NEW t \in Turns, RecordPending(t)
       PROVE  OneTaskInv'
  BY <1>40 DEF RecordPending, Goto, TaskFrame
<1>41. ASSUME NEW t \in Turns, DeferMailbox(t)
       PROVE  OneTaskInv'
  BY <1>41 DEF DeferMailbox, TaskFrame
<1>42. ASSUME NEW t \in Turns, AcceptMailbox(t)
       PROVE  OneTaskInv'
  BY <1>42 DEF AcceptMailbox, TaskFrame
<1>43. ASSUME NEW t \in Turns, NEW o \in {"drain", "loopCheck"}, Sample(t, o)
       PROVE  OneTaskInv'
  BY <1>43 DEF Sample, Goto, Jump
<1>44. ASSUME NEW t \in Turns, LoopCheck(t)
       PROVE  OneTaskInv'
  BY <1>44 DEF LoopCheck, Goto, Jump
<1>45. ASSUME NEW t \in Turns, FinishCheck(t)
       PROVE  OneTaskInv'
  BY <1>45 DEF FinishCheck, Goto, Jump
<1>46. ASSUME NEW t \in Turns, RemoveTask(t)
       PROVE  OneTaskInv'
  BY <1>46 DEF RemoveTask, Goto, TaskFrame
<1>47. ASSUME NEW t \in Turns, TakeLeftover(t)
       PROVE  OneTaskInv'
  BY <1>47 DEF TakeLeftover, Goto, TaskFrame
<1>48. ASSUME NEW t \in Turns, NEW blocked \in SUBSET held[t], Complete(t,
       blocked)
       PROVE  OneTaskInv'
  BY <1>48 DEF Complete, Goto, TaskFrame
<1>49. ASSUME NEW t \in Turns, ClearActive(t)
       PROVE  OneTaskInv'
  BY <1>49 DEF ClearActive, Goto, Reserved
<1>50. ASSUME NEW t \in Turns, NEW u \in Turns, ContinueIfIdle(t, u)
       PROVE  OneTaskInv'
  BY <1>50 DEF ContinueIfIdle
<1>51. ASSUME NEW t \in Turns, Killed(t)
       PROVE  OneTaskInv'
  BY <1>51 DEF Killed, FinishStages, Goto, RunStages, TaskFrame, TaskStages
<1>52. ASSUME NEW a \in Aborters, NEW t \in Turns, CancelTask(a, t)
       PROVE  OneTaskInv'
  BY <1>52 DEF CancelTask, AbortFrame, NoAbort
<1>53. ASSUME NEW a \in Aborters, NEW t \in Turns, AbortNext(a, t)
       PROVE  OneTaskInv'
  BY <1>53 DEF AbortNext, AbortFrame, Aborters, CallPendingWork, Goto,
    LoopInv, NoAbort
<1>54. ASSUME NEW a \in Aborters, KillTask(a)
       PROVE  OneTaskInv'
  BY <1>54 DEF KillTask, AbortFrame, NoAbort
<1>55. ASSUME NEW a \in Aborters, PauseGoal(a)
       PROVE  OneTaskInv'
  BY <1>55 DEF PauseGoal, AbortFrame, NoAbort
<1>56. ASSUME NEW a \in Aborters, ClearPending(a)
       PROVE  OneTaskInv'
  BY <1>56 DEF ClearPending, AbortFrame, NoAbort
<1>57. ASSUME NEW a \in Aborters, AbortNothing(a)
       PROVE  OneTaskInv'
  BY <1>57 DEF AbortNothing, AbortFrame, NoAbort
<1>58. CASE UNCHANGED vars
  BY <1>58
<1> HIDE DEF Types, OneTaskInv, CollectStages, GoalStages
<1> QED
  BY <1>1, <1>2, <1>3, <1>4, <1>5, <1>6, <1>7, <1>8, <1>9, <1>10, <1>11,
     <1>12, <1>13, <1>14, <1>15, <1>16, <1>17, <1>18, <1>19, <1>20, <1>21,
     <1>22, <1>23, <1>24, <1>25, <1>26, <1>27, <1>28, <1>29, <1>30, <1>31,
     <1>32, <1>33, <1>34, <1>35, <1>36, <1>37, <1>38, <1>39, <1>40, <1>41,
     <1>42, <1>43, <1>44, <1>45, <1>46, <1>47, <1>48, <1>49, <1>50, <1>51,
     <1>52, <1>53, <1>54, <1>55, <1>56, <1>57, <1>58 DEF Next, Client,
     StartStep, RunStep, FinishStep, AbortStep

-----------------------------------------------------------------------------
(* The theorems.                                                           *)

\* Mail leaves the mailbox only by the two steps that drain it.
LEMMA MailLeaves ==
  ASSUME [Next]_vars
  PROVE  mailbox \subseteq mailbox' \/ \E t \in Turns : CollectMail(t) \/ DrainMail(t)
<1> USE DEF vars, bufferVars
<1>1. CASE Client \/ QueueNote
  BY <1>1 DEF Client, SteerInput, UserInput, StandaloneTask, Submit, SendMail,
     SendTriggerMail, Enqueue, ApproveDenied, AuxShellOutput, SetGoal,
     GuardianAbort, StopGoal, Interrupt, TakeActive, QueueNote
<1>2. ASSUME NEW t \in Turns, StartStep(t)
      PROVE  mailbox \subseteq mailbox' \/ CollectMail(t)
  BY <1>2 DEF StartStep, CheckQueue, Jump, CheckMail, Reserve, GoalCandidate,
     GoalReserve, GoalRecheck, GoalPush, GoalStillReserved, GoalClearReserved,
     GoalAfterStart, ReplaceTasks, TakeActive, CollectQueue, CollectPending,
     Install, PushCollected, SpawnTask
<1>3. ASSUME NEW t \in Turns, RunStep(t)
      PROVE  mailbox \subseteq mailbox' \/ DrainMail(t)
  BY <1>3 DEF RunStep, PrewarmCancelled, RunTurnNothing, Jump, RunTurnRefused,
     RunTurnBegins, RunStandalone, SessionStartStops, DrainPending,
     InspectAccepts, InspectBlocks, RecordPending, DeferMailbox, AcceptMailbox,
     Sample, LoopCheck
<1>4. ASSUME NEW t \in Turns, FinishStep(t)
      PROVE  mailbox \subseteq mailbox'
  BY <1>4 DEF FinishStep, FinishCheck, Jump, RemoveTask, TakeLeftover, Complete,
     ClearActive, ContinueIfIdle, Killed
<1>5. ASSUME NEW a \in Aborters, AbortStep(a)
      PROVE  mailbox \subseteq mailbox'
  BY <1>5 DEF AbortStep, CancelTask, AbortNext, KillTask, PauseGoal,
     ClearPending, AbortNothing, AbortFrame
<1> QED BY <1>1, <1>2, <1>3, <1>4, <1>5 DEF Next

\* The loop starts one turn, or aborts, at a time.
LEMMA LoopAlways ==
  Spec => []LoopInv
<1>1. Init => LoopInv
  BY DEF Init, LoopInv, StartedByLoop, StartStages, PendingWorkStages,
    GoalStages,
         CollectStages, NoAbort, Aborters
<1> QED BY <1>1, TasksAlways, LoopStep, PTL DEF Spec

\* A prompt that steer_input has put into a turn state keeps a reader there,
\* through the end of the turn, its replacement and its abort, until that
\* reader takes it out: on_task_finished and the aborts never leave it behind.
THEOREM PromptsKeepReaders ==
  Spec => PromptKeepsReader
<1>1. Types /\ TasksInv /\ LoopInv /\ DeliveryInv /\ [Next]_vars
        => [\A s \in TurnStates, p \in Prompts :
              p \in pending'[s] /\ (p \in sent => p \in pending[s] /\ Attended(s))
                => Attended(s)']_vars
  BY ReaderStep DEF DeliveryInv, ReaderKept
<1> QED BY <1>1, TasksAlways, LoopAlways, DeliveryAlways, PTL
           DEF Spec, PromptKeepsReader

\* OneTaskInv holds while only the loop starts turns.
LEMMA OneTaskAlways ==
  ASSUME OnlyLoopStarts
  PROVE  Spec => []OneTaskInv
<1>1. Init => OneTaskInv
  <2>1. None # "idle"
    BY NamesAssumption
  <2> QED BY <2>1 DEF Init, OneTaskInv, GoalStages, CollectStages
<1>2. Types /\ TasksInv /\ LoopInv /\ OneTaskInv /\ [Next]_vars => OneTaskInv'
  BY OneTaskStep
<1> QED BY <1>1, <1>2, TasksAlways, LoopAlways, PTL DEF Spec

\* A session in which only the submission loop starts turns runs at most one
\* task at a time, however its turns are replaced, interrupted and aborted.
THEOREM OneTask ==
  ASSUME OnlyLoopStarts
  PROVE  Spec => []AtMostOneTask
<1>1. OneTaskInv => AtMostOneTask
  <2> SUFFICES ASSUME OneTaskInv PROVE Cardinality(tasks) <= 1
    BY DEF AtMostOneTask
  <2>1. CASE tasks = {}
    BY <2>1, FS_EmptySet
  <2>2. CASE tasks # {}
    <3>1. PICK t \in tasks : tasks = {t}
      BY <2>2 DEF OneTaskInv
    <3> QED BY <3>1, FS_Singleton
  <2> QED BY <2>1, <2>2
<1> QED BY <1>1, OneTaskAlways, PTL

\* In such a session a task of the active turn takes mail only while the turn
\* accepts it, although get_pending_input reads the delivery phase before it
\* drains the mailbox: nobody closes the turn in between.
THEOREM LateMail ==
  ASSUME OnlyLoopStarts
  PROVE  Spec => LateMailWaits
<1>1. ASSUME Types, Types', OneTaskInv, NoDuplicate', [Next]_vars,
             NEW t \in tasks, NEW m \in Mails, m \in mailbox, m \in held'[t]
      PROVE  phase[active] = "CurrentTurn"
  <2>0. t \in Turns
    BY <1>1 DEF Types
  <2>1. m \notin mailbox' /\ \A u \in Turns : u # t => m \notin held'[u]
    BY <1>1, <2>0 DEF NoDuplicate, Buffered, Apart, Disjoint, Types
  <2>2. PICK u \in Turns : CollectMail(u) \/ DrainMail(u)
    BY <1>1, <2>1, MailLeaves
  <2>3. ~CollectMail(u)
    BY <1>1 DEF CollectMail, OneTaskInv, CollectStages
  <2>4. u = t /\ pc[u] = "drainMail"
    BY <1>1, <2>0, <2>1, <2>2, <2>3 DEF DrainMail, DrainMailbox, Types
  <2> QED BY <1>1, <2>0, <2>4 DEF OneTaskInv
<1>2. Types /\ Types' /\ OneTaskInv /\ NoDuplicate' /\ [Next]_vars
        => [\A t \in tasks, m \in Mails :
              m \in mailbox /\ m \in held'[t] => phase[active] = "CurrentTurn"]_vars
  BY <1>1
<1> QED BY <1>2, TasksAlways, OneTaskAlways, NeverDuplicated, PTL
           DEF Spec, LateMailWaits
==============================================================================

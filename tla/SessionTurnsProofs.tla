------------------------- MODULE SessionTurnsProofs -------------------------
(***************************************************************************)
(* Type correctness of SessionTurns, the bookkeeping of its tasks, and the *)
(* separation of aborts from successor turns, for any number of turns and  *)
(* items.                                                                  *)
(***************************************************************************)
EXTENDS SessionTurns, TLAPS

-----------------------------------------------------------------------------
(* Types.                                                                  *)

Callers == [Turns -> {None, "loop", "guardian", "idle", "goal"}]

\* An attempt to start a turn that is given up leaves a stage and a caller.
LEMMA GiveUpTypes ==
  ASSUME Types, NEW t \in Turns, GiveUp(t)
  PROVE  pc' \in [Turns -> Stages] /\ caller' \in Callers
<1>1. {"candidate", "unused"} \subseteq Stages
  BY DEF Stages, StartStages, GoalStages
<1> QED BY <1>1 DEF Types, GiveUp, Goto, Callers

\* Every step keeps the types.  Only the leftover input that a finishing task
\* takes needs more than Types: the task still has the turn state's Arc.
LEMMA TypeStep ==
  Types /\ TasksInv /\ [Next]_vars => Types'
<1> SUFFICES ASSUME Types, TasksInv, [Next]_vars
             PROVE  Types'
  OBVIOUS
<1> USE DEF vars, activeVars, bufferVars, turnVars, abortVars, itemVars,
            eventVars, Types
<1>0. /\ {"unused", "dead", "replace", "replacing", "checkQueue", "checkMail",
           "reserve"} \subseteq Stages
      /\ GoalStages \cup CollectStages \cup RunStages \cup FinishStages
           \subseteq Stages
  BY DEF Stages, StartStages, TaskStages, PendingWorkStages
<1> USE DEF GoalStages, CollectStages, RunStages, FinishStages
<1>1. ASSUME NEW p \in Prompts, SteerInput(p)
       PROVE  Types'
  BY <1>1, <1>0 DEF SteerInput, Steerable, Items
<1>2. ASSUME NEW t \in Turns, NEW p \in Prompts, UserInput(t, p)
       PROVE  Types'
  BY <1>2, <1>0 DEF UserInput, Submit, Goto, Items, Loop
<1>3. ASSUME NEW t \in Turns, NEW k \in {"shell", "review", "compact"},
       StandaloneTask(t, k)
       PROVE  Types'
  BY <1>3, <1>0 DEF StandaloneTask, Submit, Goto, Items, Loop
<1>4. ASSUME NEW m \in Mails, SendMail(m)
       PROVE  Types'
  BY <1>4, <1>0 DEF SendMail, Enqueue, Items
<1>5. ASSUME NEW t \in Turns, NEW m \in Mails, SendTriggerMail(t, m)
       PROVE  Types'
  BY <1>5, <1>0 DEF SendTriggerMail, Enqueue, CallPendingWork, Items, Loop
<1>6. ASSUME NEW n \in Notes, ApproveDenied(n)
       PROVE  Types'
  BY <1>6, <1>0 DEF ApproveDenied, InjectInto, Items
<1>7. ASSUME NEW n \in Notes, AuxShellOutput(n)
       PROVE  Types'
  BY <1>7, <1>0 DEF AuxShellOutput, InjectInto, Items
<1>8. ASSUME NEW t \in Turns, SetGoal(t)
       PROVE  Types'
  BY <1>8, <1>0 DEF SetGoal, CallPendingWork
<1>9. ASSUME NEW t \in Turns, GuardianAbort(t)
       PROVE  Types'
  <2>1. \A r \in {"Interrupted", "Replaced"} : AbortOf(r) \in Aborts
    BY DEF AbortOf, Aborts
  <2>2. abort' \in [Aborters -> Aborts]
    BY <1>9, <2>1 DEF GuardianAbort, TakeActive
  <2> QED BY <1>9, <1>0, <2>1, <2>2 DEF GuardianAbort, TakeActive
<1>10. CASE StopGoal
  BY <1>10, <1>0 DEF StopGoal
<1>11. CASE Interrupt
  <2>1. \A r \in {"Interrupted", "Replaced"} : AbortOf(r) \in Aborts
    BY DEF AbortOf, Aborts
  <2>2. abort' \in [Aborters -> Aborts]
    BY <1>11, <2>1 DEF Interrupt, TakeActive
  <2> QED BY <1>11, <1>0, <2>1, <2>2 DEF Interrupt, TakeActive
<1>12. CASE QueueNote
  BY <1>12, <1>0 DEF QueueNote
<1>13. ASSUME NEW t \in Turns, CheckQueue(t)
       PROVE  Types'
  BY <1>13, <1>0 DEF CheckQueue, Jump, Goto
<1>14. ASSUME NEW t \in Turns, CheckMail(t)
       PROVE  Types'
  <2>1. CASE GiveUp(t)
    <3>1. pc' \in [Turns -> Stages] /\ caller' \in Callers
      BY <2>1, GiveUpTypes
    <3> QED BY <1>14, <2>1, <3>1 DEF CheckMail, StartFrame, Callers
  <2>2. CASE Goto(t, "reserve") /\ UNCHANGED caller
    BY <1>14, <2>2, <1>0 DEF CheckMail, Goto, StartFrame
  <2> QED BY <1>14, <2>1, <2>2 DEF CheckMail
<1>15. ASSUME NEW t \in Turns, Reserve(t)
       PROVE  Types'
  <2>1. CASE GiveUp(t) /\ UNCHANGED active
    <3>1. pc' \in [Turns -> Stages] /\ caller' \in Callers
      BY <2>1, GiveUpTypes
    <3> QED BY <1>15, <2>1, <3>1 DEF Reserve, StartFrame, Callers
  <2>2. CASE active = None /\ Goto(t, "collectQueue") /\ UNCHANGED caller
    BY <1>15, <2>2, <1>0 DEF Reserve, Goto, StartFrame, TurnStates
  <2> QED BY <1>15, <2>1, <2>2 DEF Reserve
<1>16. ASSUME NEW t \in Turns, GoalCandidate(t)
       PROVE  Types'
  <2>1. CASE GiveUp(t)
    <3>1. pc' \in [Turns -> Stages] /\ caller' \in Callers
      BY <2>1, GiveUpTypes
    <3> QED BY <1>16, <2>1, <3>1 DEF GoalCandidate, StartFrame, Callers
  <2>2. CASE Goto(t, "goalReserve") /\ UNCHANGED caller
    BY <1>16, <2>2, <1>0 DEF GoalCandidate, Goto, StartFrame
  <2> QED BY <1>16, <2>1, <2>2 DEF GoalCandidate
<1>17. ASSUME NEW t \in Turns, GoalReserve(t)
       PROVE  Types'
  <2>1. CASE GiveUp(t) /\ UNCHANGED <<active, ts>>
    <3>1. pc' \in [Turns -> Stages] /\ caller' \in Callers
      BY <2>1, GiveUpTypes
    <3> QED BY <1>17, <2>1, <3>1 DEF GoalReserve, StartFrame, Callers
  <2>2. CASE active = None /\ Goto(t, "recheck") /\ UNCHANGED caller
    BY <1>17, <2>2, <1>0 DEF GoalReserve, Goto, StartFrame, TurnStates
  <2> QED BY <1>17, <2>1, <2>2 DEF GoalReserve
<1>18. ASSUME NEW t \in Turns, GoalRecheck(t)
       PROVE  Types'
  BY <1>18, <1>0 DEF GoalRecheck, Goto, StartFrame
<1>19. ASSUME NEW t \in Turns, GoalPush(t)
       PROVE  Types'
  <2>1. GoalPrompt(t) \in Items
    BY DEF GoalPrompts, Items
  <2>2. pending' \in [TurnStates -> SUBSET Items]
    BY <1>19, <2>1 DEF GoalPush
  <2> QED BY <1>19, <1>0, <2>1, <2>2 DEF GoalPush, Goto, StartFrame
<1>20. ASSUME NEW t \in Turns, GoalStillReserved(t)
       PROVE  Types'
  BY <1>20, <1>0 DEF GoalStillReserved, Jump, Goto
<1>21. ASSUME NEW t \in Turns, GoalClearReserved(t)
       PROVE  Types'
  BY <1>21, <1>0 DEF GoalClearReserved, Goto, Reserved, StartFrame
<1>22. ASSUME NEW t \in Turns, NEW u \in Turns, GoalAfterStart(u, t)
       PROVE  Types'
  BY <1>22, <1>0 DEF GoalAfterStart, Goto, StartFrame
<1>23. ASSUME NEW t \in Turns, ReplaceTasks(t)
       PROVE  Types'
  <2>1. \A r \in {"Interrupted", "Replaced"} : AbortOf(r) \in Aborts
    BY DEF AbortOf, Aborts
  <2>2. abort' \in [Aborters -> Aborts]
    BY <1>23, <2>1 DEF ReplaceTasks, TakeActive
  <2> QED BY <1>23, <1>0, <2>1, <2>2 DEF ReplaceTasks, TakeActive, Goto
<1>24. ASSUME NEW t \in Turns, CollectQueue(t)
       PROVE  Types'
  BY <1>24, <1>0 DEF CollectQueue, Goto, StartFrame
<1>25. ASSUME NEW t \in Turns, CollectPending(t)
       PROVE  Types'
  BY <1>25, <1>0 DEF CollectPending, TakePending, Goto, StartFrame
<1>26. ASSUME NEW t \in Turns, CollectMail(t)
       PROVE  Types'
  BY <1>26, <1>0 DEF CollectMail, DrainMailbox, Goto, StartFrame
<1>27. ASSUME NEW t \in Turns, Install(t)
       PROVE  Types'
  BY <1>27, <1>0 DEF Install, Goto, StartFrame, TurnStates
<1>28. ASSUME NEW t \in Turns, PushCollected(t)
       PROVE  Types'
  BY <1>28, <1>0 DEF PushCollected, Goto, StartFrame
<1>29. ASSUME NEW t \in Turns, SpawnTask(t)
       PROVE  Types'
  BY <1>29, <1>0 DEF SpawnTask, Goto, StartFrame, TurnStates
<1>30. ASSUME NEW t \in Turns, PrewarmCancelled(t)
       PROVE  Types'
  BY <1>30, <1>0 DEF PrewarmCancelled, Goto, TaskFrame
<1>31. ASSUME NEW t \in Turns, RunTurnNothing(t)
       PROVE  Types'
  BY <1>31, <1>0 DEF RunTurnNothing, Entering, Jump, Goto
<1>32. ASSUME NEW t \in Turns, RunTurnRefused(t)
       PROVE  Types'
  BY <1>32, <1>0 DEF RunTurnRefused, Entering, Goto, TaskFrame
<1>33. ASSUME NEW t \in Turns, RunTurnBegins(t)
       PROVE  Types'
  BY <1>33, <1>0 DEF RunTurnBegins, Entering, Goto, TaskFrame
<1>34. ASSUME NEW t \in Turns, RunStandalone(t)
       PROVE  Types'
  BY <1>34, <1>0 DEF RunStandalone, Jump, Goto
<1>35. ASSUME NEW t \in Turns, SessionStartStops(t)
       PROVE  Types'
  BY <1>35, <1>0 DEF SessionStartStops, Jump, Goto
<1>36. ASSUME NEW t \in Turns, DrainPending(t)
       PROVE  Types'
  BY <1>36, <1>0 DEF DrainPending, TakePending, Goto, TaskFrame
<1>37. ASSUME NEW t \in Turns, DrainMail(t)
       PROVE  Types'
  BY <1>37, <1>0 DEF DrainMail, DrainMailbox, Goto, TaskFrame
<1>38. ASSUME NEW t \in Turns, InspectAccepts(t)
       PROVE  Types'
  BY <1>38, <1>0 DEF InspectAccepts, Jump, Goto
<1>39. ASSUME NEW t \in Turns, NEW b \in held[t], NEW ok \in SUBSET held[t],
       InspectBlocks(t, b, ok)
       PROVE  Types'
  BY <1>39, <1>0 DEF InspectBlocks, Goto, TaskFrame
<1>40. ASSUME NEW t \in Turns, RecordPending(t)
       PROVE  Types'
  BY <1>40, <1>0 DEF RecordPending, Goto, TaskFrame
<1>41. ASSUME NEW t \in Turns, DeferMailbox(t)
       PROVE  Types'
  BY <1>41, <1>0 DEF DeferMailbox, TaskFrame
<1>42. ASSUME NEW t \in Turns, AcceptMailbox(t)
       PROVE  Types'
  BY <1>42, <1>0 DEF AcceptMailbox, TaskFrame
<1>43. ASSUME NEW t \in Turns, NEW o \in {"drain", "loopCheck"}, Sample(t, o)
       PROVE  Types'
  BY <1>43, <1>0 DEF Sample, Jump, Goto
<1>44. ASSUME NEW t \in Turns, LoopCheck(t)
       PROVE  Types'
  BY <1>44, <1>0 DEF LoopCheck, Jump, Goto
<1>45. ASSUME NEW t \in Turns, FinishCheck(t)
       PROVE  Types'
  BY <1>45, <1>0 DEF FinishCheck, Jump, Goto
<1>46. ASSUME NEW t \in Turns, RemoveTask(t)
       PROVE  Types'
  BY <1>46, <1>0 DEF RemoveTask, Goto, TaskFrame
<1>47. ASSUME NEW t \in Turns, TakeLeftover(t)
       PROVE  Types'
  BY <1>47, <1>0 DEF TakeLeftover, Goto, TaskFrame, TasksInv
<1>48. ASSUME NEW t \in Turns, NEW blocked \in SUBSET held[t], Complete(t,
       blocked)
       PROVE  Types'
  BY <1>48, <1>0 DEF Complete, Goto, TaskFrame
<1>49. ASSUME NEW t \in Turns, ClearActive(t)
       PROVE  Types'
  BY <1>49, <1>0 DEF ClearActive, Goto, Reserved
<1>50. ASSUME NEW t \in Turns, NEW u \in Turns, ContinueIfIdle(t, u)
       PROVE  Types'
  BY <1>50, <1>0 DEF ContinueIfIdle
<1>51. ASSUME NEW t \in Turns, Killed(t)
       PROVE  Types'
  BY <1>51, <1>0 DEF Killed, Goto, TaskFrame
<1>52. ASSUME NEW a \in Aborters, NEW t \in Turns, CancelTask(a, t)
       PROVE  Types'
  <2>1. abort[a] \in Aborts
    OBVIOUS
  <2>2. abort' \in [Aborters -> Aborts]
    BY <1>52, <2>1 DEF CancelTask, Aborts
  <2> QED BY <1>52, <1>0, <2>1, <2>2 DEF CancelTask, AbortFrame
<1>53. ASSUME NEW a \in Aborters, NEW t \in Turns, AbortNext(a, t)
       PROVE  Types'
  <2>1. NoAbort \in Aborts
    BY DEF NoAbort, Aborts
  <2>2. abort' \in [Aborters -> Aborts]
    BY <1>53, <2>1 DEF AbortNext
  <2>3. CASE CallPendingWork(t, a)
    BY <1>53, <1>0, <2>2, <2>3 DEF AbortNext, AbortFrame, CallPendingWork, Aborters, Loop
  <2>4. CASE Goto(t, "collectQueue") /\ UNCHANGED caller
    BY <1>53, <1>0, <2>2, <2>4 DEF AbortNext, AbortFrame, Goto
  <2> QED BY <1>53, <2>3, <2>4 DEF AbortNext
<1>54. ASSUME NEW a \in Aborters, KillTask(a)
       PROVE  Types'
  <2>1. abort[a] \in Aborts
    OBVIOUS
  <2>2. abort[a].cur \in Turns
    BY <1>54, <2>1 DEF KillTask, Aborts
  <2>3. abort' \in [Aborters -> Aborts]
    BY <1>54, <2>1, <2>2 DEF KillTask, Aborts
  <2> QED BY <1>54, <1>0, <2>1, <2>2, <2>3 DEF KillTask, AbortFrame
<1>55. ASSUME NEW a \in Aborters, PauseGoal(a)
       PROVE  Types'
  <2>1. abort[a] \in Aborts
    OBVIOUS
  <2>2. abort' \in [Aborters -> Aborts]
    BY <1>55, <2>1 DEF PauseGoal, Aborts
  <2> QED BY <1>55, <1>0, <2>1, <2>2 DEF PauseGoal, AbortFrame
<1>56. ASSUME NEW a \in Aborters, ClearPending(a)
       PROVE  Types'
  <2>1. abort[a] \in Aborts
    OBVIOUS
  <2>2. abort' \in [Aborters -> Aborts]
    BY <1>56, <2>1 DEF ClearPending, Aborts
  <2>3. abort[a].ts \in TurnStates \cup {None}
    BY <2>1 DEF Aborts
  <2>4. pending' \in [TurnStates -> SUBSET Items] /\ dropped' \subseteq Items
    BY <1>56, <2>3 DEF ClearPending
  <2> QED BY <1>56, <1>0, <2>1, <2>2, <2>3, <2>4 DEF ClearPending, AbortFrame
<1>57. ASSUME NEW a \in Aborters, AbortNothing(a)
       PROVE  Types'
  <2>1. NoAbort \in Aborts
    BY DEF NoAbort, Aborts
  <2>2. abort' \in [Aborters -> Aborts]
    BY <1>57, <2>1 DEF AbortNothing
  <2> QED BY <1>57, <1>0, <2>1, <2>2 DEF AbortNothing, AbortFrame
<1>58. CASE UNCHANGED vars
  BY <1>58
<1> HIDE DEF Types
<1> QED
  BY <1>1, <1>2, <1>3, <1>4, <1>5, <1>6, <1>7, <1>8, <1>9, <1>10, <1>11, <1>12,
     <1>13, <1>14, <1>15, <1>16, <1>17, <1>18, <1>19, <1>20, <1>21, <1>22,
     <1>23, <1>24, <1>25, <1>26, <1>27, <1>28, <1>29, <1>30, <1>31, <1>32,
     <1>33, <1>34, <1>35, <1>36, <1>37, <1>38, <1>39, <1>40, <1>41, <1>42,
     <1>43, <1>44, <1>45, <1>46, <1>47, <1>48, <1>49, <1>50, <1>51, <1>52,
     <1>53, <1>54, <1>55, <1>56, <1>57, <1>58 DEF Next, Client, StartStep,
     RunStep, FinishStep, AbortStep

-----------------------------------------------------------------------------
(* Tasks.                                                                  *)

\* Every step keeps the bookkeeping of tasks: what an abort has drained is no
\* longer in ActiveTurn.tasks, and holds no turn state.
LEMMA TasksStep ==
  Types /\ TasksInv /\ [Next]_vars => TasksInv'
<1> SUFFICES ASSUME Types, TasksInv, [Next]_vars
             PROVE  TasksInv'
  OBVIOUS
<1> USE DEF vars, activeVars, bufferVars, turnVars, abortVars, itemVars,
            eventVars, Types, TasksInv, Condemned, RunStages, Aborts,
            TurnStates
<1>1. ASSUME NEW p \in Prompts, SteerInput(p)
       PROVE  TasksInv'
  BY <1>1 DEF SteerInput, Steerable
<1>2. ASSUME NEW t \in Turns, NEW p \in Prompts, UserInput(t, p)
       PROVE  TasksInv'
  BY <1>2 DEF UserInput, Submit, Goto
<1>3. ASSUME NEW t \in Turns, NEW k \in {"shell", "review", "compact"},
       StandaloneTask(t, k)
       PROVE  TasksInv'
  BY <1>3 DEF StandaloneTask, Submit, Goto
<1>4. ASSUME NEW m \in Mails, SendMail(m)
       PROVE  TasksInv'
  BY <1>4 DEF SendMail, Enqueue
<1>5. ASSUME NEW t \in Turns, NEW m \in Mails, SendTriggerMail(t, m)
       PROVE  TasksInv'
  BY <1>5 DEF SendTriggerMail, Enqueue, CallPendingWork
<1>6. ASSUME NEW n \in Notes, ApproveDenied(n)
       PROVE  TasksInv'
  BY <1>6 DEF ApproveDenied, InjectInto
<1>7. ASSUME NEW n \in Notes, AuxShellOutput(n)
       PROVE  TasksInv'
  BY <1>7 DEF AuxShellOutput, InjectInto
<1>8. ASSUME NEW t \in Turns, SetGoal(t)
       PROVE  TasksInv'
  BY <1>8 DEF SetGoal, CallPendingWork
<1>9. ASSUME NEW t \in Turns, GuardianAbort(t)
       PROVE  TasksInv'
  BY <1>9 DEF GuardianAbort, TakeActive, AbortOf
<1>10. CASE StopGoal
  BY <1>10 DEF StopGoal
<1>11. CASE Interrupt
  BY <1>11 DEF Interrupt, TakeActive, AbortOf
<1>12. CASE QueueNote
  BY <1>12 DEF QueueNote
<1>13. ASSUME NEW t \in Turns, CheckQueue(t)
       PROVE  TasksInv'
  BY <1>13 DEF CheckQueue, Jump, Goto
<1>14. ASSUME NEW t \in Turns, CheckMail(t)
       PROVE  TasksInv'
  <2>1. PICK x \in {"reserve", "candidate", "unused"} : pc' = [pc EXCEPT ![t] = x]
    BY <1>14 DEF CheckMail, GiveUp, Goto
  <2> QED BY <1>14, <2>1 DEF CheckMail, StartFrame
<1>15. ASSUME NEW t \in Turns, Reserve(t)
       PROVE  TasksInv'
  <2>1. CASE active = None
    BY <1>15, <2>1, NamesAssumption DEF Reserve, Goto, StartFrame
  <2>2. CASE active # None
    <3>1. PICK x \in {"candidate", "unused"} : pc' = [pc EXCEPT ![t] = x]
      BY <1>15, <2>2 DEF Reserve, GiveUp, Goto
    <3> QED BY <1>15, <2>2, <3>1 DEF Reserve, StartFrame
  <2> QED BY <2>1, <2>2
<1>16. ASSUME NEW t \in Turns, GoalCandidate(t)
       PROVE  TasksInv'
  <2>1. PICK x \in {"goalReserve", "candidate", "unused"} : pc' = [pc EXCEPT ![t] = x]
    BY <1>16 DEF GoalCandidate, GiveUp, Goto
  <2> QED BY <1>16, <2>1 DEF GoalCandidate, StartFrame
<1>17. ASSUME NEW t \in Turns, GoalReserve(t)
       PROVE  TasksInv'
  <2>1. CASE active = None
    <3>1. active' # None /\ ts'[t] # None
      BY <1>17, <2>1, NamesAssumption DEF GoalReserve
    <3>2. \A u \in Turns \ {t} : ts'[u] = ts[u] /\ pc'[u] = pc[u]
      BY <1>17, <2>1 DEF GoalReserve, Goto
    <3>3. pc'[t] = "recheck" /\ ~Condemned(t) /\ t \notin tasks
      BY <1>17, <2>1 DEF GoalReserve, Goto
    <3>4. UNCHANGED <<tasks, abortVars>> /\ tasks \subseteq Turns
      BY <1>17, <2>1 DEF GoalReserve, StartFrame
    <3> HIDE DEF Types, Aborts, TurnStates
    <3> QED BY <3>1, <3>2, <3>3, <3>4
  <2>2. CASE active # None
    <3>1. PICK x \in {"candidate", "unused"} : pc' = [pc EXCEPT ![t] = x]
      BY <1>17, <2>2 DEF GoalReserve, GiveUp, Goto
    <3> QED BY <1>17, <2>2, <3>1 DEF GoalReserve, StartFrame
  <2> QED BY <2>1, <2>2
<1>18. ASSUME NEW t \in Turns, GoalRecheck(t)
       PROVE  TasksInv'
  <2>1. CASE Goto(t, "goalPush")
    BY <1>18, <2>1 DEF GoalRecheck, Goto, StartFrame
  <2>2. CASE Goto(t, "clearReserved")
    BY <1>18, <2>2 DEF GoalRecheck, Goto, StartFrame
  <2> QED BY <1>18, <2>1, <2>2 DEF GoalRecheck
<1>19. ASSUME NEW t \in Turns, GoalPush(t)
       PROVE  TasksInv'
  BY <1>19 DEF GoalPush, Goto, StartFrame
<1>20. ASSUME NEW t \in Turns, GoalStillReserved(t)
       PROVE  TasksInv'
  BY <1>20 DEF GoalStillReserved, Jump, Goto
<1>21. ASSUME NEW t \in Turns, GoalClearReserved(t)
       PROVE  TasksInv'
  BY <1>21 DEF GoalClearReserved, Goto, Reserved, StartFrame
<1>22. ASSUME NEW t \in Turns, NEW u \in Turns, GoalAfterStart(u, t)
       PROVE  TasksInv'
  BY <1>22 DEF GoalAfterStart, Goto, StartFrame
<1>23. ASSUME NEW t \in Turns, ReplaceTasks(t)
       PROVE  TasksInv'
  BY <1>23 DEF ReplaceTasks, Goto, TakeActive, AbortOf
<1>24. ASSUME NEW t \in Turns, CollectQueue(t)
       PROVE  TasksInv'
  BY <1>24 DEF CollectQueue, Goto, StartFrame
<1>25. ASSUME NEW t \in Turns, CollectPending(t)
       PROVE  TasksInv'
  BY <1>25 DEF CollectPending, TakePending, Goto, StartFrame
<1>26. ASSUME NEW t \in Turns, CollectMail(t)
       PROVE  TasksInv'
  BY <1>26 DEF CollectMail, DrainMailbox, Goto, StartFrame
<1>27. ASSUME NEW t \in Turns, Install(t)
       PROVE  TasksInv'
  <2>1. active' # None
    BY <1>27, NamesAssumption DEF Install
  <2> QED BY <1>27, <2>1 DEF Install, Goto, StartFrame
<1>28. ASSUME NEW t \in Turns, PushCollected(t)
       PROVE  TasksInv'
  BY <1>28 DEF PushCollected, Goto, StartFrame
<1>29. ASSUME NEW t \in Turns, SpawnTask(t)
       PROVE  TasksInv'
  <2>1. active' # None
    BY <1>29, NamesAssumption DEF SpawnTask
  <2> QED BY <1>29, <2>1 DEF SpawnTask, Goto, StartFrame
<1>30. ASSUME NEW t \in Turns, PrewarmCancelled(t)
       PROVE  TasksInv'
  BY <1>30 DEF PrewarmCancelled, Goto, TaskFrame
<1>31. ASSUME NEW t \in Turns, RunTurnNothing(t)
       PROVE  TasksInv'
  BY <1>31 DEF RunTurnNothing, Entering, Jump, Goto
<1>32. ASSUME NEW t \in Turns, RunTurnRefused(t)
       PROVE  TasksInv'
  BY <1>32 DEF RunTurnRefused, Entering, Goto, TaskFrame
<1>33. ASSUME NEW t \in Turns, RunTurnBegins(t)
       PROVE  TasksInv'
  BY <1>33 DEF RunTurnBegins, Entering, Goto, TaskFrame
<1>34. ASSUME NEW t \in Turns, RunStandalone(t)
       PROVE  TasksInv'
  BY <1>34 DEF RunStandalone, Jump, Goto
<1>35. ASSUME NEW t \in Turns, SessionStartStops(t)
       PROVE  TasksInv'
  BY <1>35 DEF SessionStartStops, Jump, Goto
<1>36. ASSUME NEW t \in Turns, DrainPending(t)
       PROVE  TasksInv'
  BY <1>36 DEF DrainPending, TakePending, Goto, TaskFrame
<1>37. ASSUME NEW t \in Turns, DrainMail(t)
       PROVE  TasksInv'
  BY <1>37 DEF DrainMail, DrainMailbox, Goto, TaskFrame
<1>38. ASSUME NEW t \in Turns, InspectAccepts(t)
       PROVE  TasksInv'
  BY <1>38 DEF InspectAccepts, Jump, Goto
<1>39. ASSUME NEW t \in Turns, NEW b \in held[t], NEW ok \in SUBSET held[t],
       InspectBlocks(t, b, ok)
       PROVE  TasksInv'
  BY <1>39 DEF InspectBlocks, Goto, TaskFrame
<1>40. ASSUME NEW t \in Turns, RecordPending(t)
       PROVE  TasksInv'
  BY <1>40 DEF RecordPending, Goto, TaskFrame
<1>41. ASSUME NEW t \in Turns, DeferMailbox(t)
       PROVE  TasksInv'
  BY <1>41 DEF DeferMailbox, TaskFrame
<1>42. ASSUME NEW t \in Turns, AcceptMailbox(t)
       PROVE  TasksInv'
  BY <1>42 DEF AcceptMailbox, TaskFrame
<1>43. ASSUME NEW t \in Turns, NEW o \in {"drain", "loopCheck"}, Sample(t, o)
       PROVE  TasksInv'
  BY <1>43 DEF Sample, Jump, Goto
<1>44. ASSUME NEW t \in Turns, LoopCheck(t)
       PROVE  TasksInv'
  BY <1>44 DEF LoopCheck, Jump, Goto
<1>45. ASSUME NEW t \in Turns, FinishCheck(t)
       PROVE  TasksInv'
  BY <1>45 DEF FinishCheck, Jump, Goto
<1>46. ASSUME NEW t \in Turns, RemoveTask(t)
       PROVE  TasksInv'
  BY <1>46 DEF RemoveTask, Goto, TaskFrame
<1>47. ASSUME NEW t \in Turns, TakeLeftover(t)
       PROVE  TasksInv'
  BY <1>47 DEF TakeLeftover, Goto, TaskFrame
<1>48. ASSUME NEW t \in Turns, NEW blocked \in SUBSET held[t], Complete(t,
       blocked)
       PROVE  TasksInv'
  BY <1>48 DEF Complete, Goto, TaskFrame
<1>49. ASSUME NEW t \in Turns, ClearActive(t)
       PROVE  TasksInv'
  <2>1. PICK x \in {"continue", "dead"} : pc' = [pc EXCEPT ![t] = x]
    BY <1>49 DEF ClearActive, Goto
  <2>2. ~Condemned(t) /\ t \notin tasks
    BY <1>49 DEF ClearActive
  <2>3. tasks # {} => active' # None
    BY <1>49 DEF ClearActive, Reserved
  <2>4. UNCHANGED <<tasks, abortVars>> /\ ts' = [ts EXCEPT ![t] = None]
    BY <1>49 DEF ClearActive
  <2> HIDE DEF Aborts, TurnStates
  <2> QED BY <2>1, <2>2, <2>3, <2>4
<1>50. ASSUME NEW t \in Turns, NEW u \in Turns, ContinueIfIdle(t, u)
       PROVE  TasksInv'
  <2>1. ~Condemned(t) /\ ~Condemned(u) /\ t \notin tasks /\ u \notin tasks
    BY <1>50 DEF ContinueIfIdle
  <2>2. \A v \in Turns : v \notin {t, u} => pc'[v] = pc[v]
    BY <1>50 DEF ContinueIfIdle
  <2>3. pc'[t] = "dead" /\ pc'[u] = "checkQueue"
    BY <1>50 DEF ContinueIfIdle
  <2>4. UNCHANGED <<activeVars, ts, abortVars>> /\ tasks \subseteq Turns
    BY <1>50 DEF ContinueIfIdle
  <2> HIDE DEF Types, Aborts, TurnStates
  <2> QED BY <2>1, <2>2, <2>3, <2>4
<1>51. ASSUME NEW t \in Turns, Killed(t)
       PROVE  TasksInv'
  BY <1>51 DEF Killed, Goto, TaskFrame, TaskStages, FinishStages
<1>52. ASSUME NEW a \in Aborters, NEW t \in Turns, CancelTask(a, t)
       PROVE  TasksInv'
  BY <1>52 DEF CancelTask, AbortFrame
<1>53. ASSUME NEW a \in Aborters, NEW t \in Turns, AbortNext(a, t)
       PROVE  TasksInv'
  <2>1. CASE CallPendingWork(t, a)
    BY <1>53, <2>1 DEF AbortNext, AbortFrame, NoAbort, CallPendingWork
  <2>2. CASE pc[t] = "replacing" /\ Goto(t, "collectQueue")
    BY <1>53, <2>2 DEF AbortNext, AbortFrame, NoAbort, Goto
  <2> QED BY <1>53, <2>1, <2>2 DEF AbortNext
<1>54. ASSUME NEW a \in Aborters, KillTask(a)
       PROVE  TasksInv'
  BY <1>54 DEF KillTask, AbortFrame
<1>55. ASSUME NEW a \in Aborters, PauseGoal(a)
       PROVE  TasksInv'
  BY <1>55 DEF PauseGoal, AbortFrame
<1>56. ASSUME NEW a \in Aborters, ClearPending(a)
       PROVE  TasksInv'
  BY <1>56 DEF ClearPending, AbortFrame
<1>57. ASSUME NEW a \in Aborters, AbortNothing(a)
       PROVE  TasksInv'
  BY <1>57 DEF AbortNothing, AbortFrame, NoAbort
<1>58. CASE UNCHANGED vars
  BY <1>58
<1> HIDE DEF Types, TasksInv, Condemned, RunStages, Aborts, TurnStates
<1> QED
  BY <1>1, <1>2, <1>3, <1>4, <1>5, <1>6, <1>7, <1>8, <1>9, <1>10, <1>11, <1>12,
     <1>13, <1>14, <1>15, <1>16, <1>17, <1>18, <1>19, <1>20, <1>21, <1>22,
     <1>23, <1>24, <1>25, <1>26, <1>27, <1>28, <1>29, <1>30, <1>31, <1>32,
     <1>33, <1>34, <1>35, <1>36, <1>37, <1>38, <1>39, <1>40, <1>41, <1>42,
     <1>43, <1>44, <1>45, <1>46, <1>47, <1>48, <1>49, <1>50, <1>51, <1>52,
     <1>53, <1>54, <1>55, <1>56, <1>57, <1>58 DEF Next, Client, StartStep,
     RunStep, FinishStep, AbortStep

\* A fresh session has the types and no task.
LEMMA InitTasks ==
  Init => Types /\ TasksInv
<1> SUFFICES ASSUME Init
             PROVE  Types /\ TasksInv
  OBVIOUS
<1>1. NoAbort \in Aborts /\ NoAbort.todo = {} /\ NoAbort.cur = None
  BY DEF NoAbort, Aborts
<1>2. Types
  BY <1>1 DEF Init, Types, Stages
<1>3. TasksInv
  BY <1>1 DEF Init, TasksInv, Condemned, RunStages
<1> QED BY <1>2, <1>3

\* The types and the bookkeeping of tasks hold together.
LEMMA TasksAlways ==
  Spec => [](Types /\ TasksInv)
<1>1. Types /\ TasksInv /\ [Next]_vars => (Types /\ TasksInv)'
  BY TypeStep, TasksStep
<1> QED BY <1>1, InitTasks, PTL DEF Spec

\* Every variable of the session keeps its type, however turns are started,
\* steered, finished and aborted, and no code locks a turn state it does not
\* have: a task whose ActiveTurn an abort has taken does not take its leftovers.
THEOREM TypeCorrect ==
  Spec => []TypeOK
<1>1. Types /\ TasksInv => TypeOK
  BY DEF TasksInv, TypeOK
<1> QED BY <1>1, TasksAlways, PTL

\* ActiveTurn.tasks holds exactly running, uncancelled tasks, and a cancelled
\* task never clears the active turn in on_task_finished.
THEOREM TasksLive ==
  Spec => []TasksAreLive
<1>1. Types /\ TasksInv => TasksAreLive
  BY DEF Types, TasksInv, TasksAreLive, Condemned, RunStages
<1> QED BY <1>1, TasksAlways, PTL

-----------------------------------------------------------------------------
(* Aborts.                                                                 *)

\* A step that installs no turn state and takes none keeps AbortInv, as long as
\* no turn goes back before the creation of its turn states.
LEMMA AbortKept ==
  ASSUME AbortInv,
         \A b \in Aborters : abort'[b].ts \in {abort[b].ts, None},
         active' \in {active, None},
         \A t \in Turns, k \in {"reserve", "install", "spawn"} :
           pc'[t] \in Before(k) => pc[t] \in Before(k)
  PROVE  AbortInv'
<1>0. \A t \in Turns, k \in {"reserve", "install", "spawn"} : <<t, k>> # None
  BY NamesAssumption DEF TurnStates
<1>1. AbortClearsTaken'
  BY DEF AbortInv, AbortClearsTaken
<1>2. ASSUME NEW t \in Turns, NEW k \in {"reserve", "install", "spawn"},
             pc'[t] \in Before(k)
      PROVE  active' # <<t, k>> /\ \A a \in Aborters : abort'[a].ts # <<t, k>>
  BY <1>0, <1>2 DEF AbortInv
<1> QED BY <1>1, <1>2 DEF AbortInv

\* So does the step by which an abort takes the installed turn state.
LEMMA AbortTaken ==
  ASSUME AbortInv, active' = None,
         \A b \in Aborters : abort'[b].ts \in {abort[b].ts, None, active},
         \A t \in Turns, k \in {"reserve", "install", "spawn"} :
           pc'[t] \in Before(k) => pc[t] \in Before(k)
  PROVE  AbortInv'
<1>0. \A t \in Turns, k \in {"reserve", "install", "spawn"} : <<t, k>> # None
  BY NamesAssumption DEF TurnStates
<1>1. AbortClearsTaken'
  BY DEF AbortInv, AbortClearsTaken
<1>2. ASSUME NEW t \in Turns, NEW k \in {"reserve", "install", "spawn"},
             pc'[t] \in Before(k)
      PROVE  active' # <<t, k>> /\ \A a \in Aborters : abort'[a].ts # <<t, k>>
  BY <1>0, <1>2 DEF AbortInv
<1> QED BY <1>1, <1>2 DEF AbortInv

\* So does the creation of a turn state that nobody can have taken before.
LEMMA AbortCreated ==
  ASSUME AbortInv, NEW t \in Turns, NEW k \in {"reserve", "install", "spawn"},
         active' = <<t, k>>, abort' = abort,
         pc[t] \in Before(k), pc'[t] \notin Before(k),
         \A u \in Turns, j \in {"reserve", "install", "spawn"} :
           pc'[u] \in Before(j) => pc[u] \in Before(j)
  PROVE  AbortInv'
<1>1. AbortClearsTaken'
  BY DEF AbortInv, AbortClearsTaken
<1>2. ASSUME NEW u \in Turns, NEW j \in {"reserve", "install", "spawn"},
             pc'[u] \in Before(j)
      PROVE  active' # <<u, j>> /\ \A a \in Aborters : abort'[a].ts # <<u, j>>
  BY <1>2 DEF AbortInv
<1> QED BY <1>1, <1>2 DEF AbortInv

\* Every step keeps the turn states that aborts have taken apart from the
\* installed one.
LEMMA AbortStepKeeps ==
  Types /\ AbortInv /\ [Next]_vars => AbortInv'
<1> SUFFICES ASSUME Types, AbortInv, [Next]_vars
             PROVE  AbortInv'
  OBVIOUS
<1> USE DEF vars, activeVars, bufferVars, turnVars, abortVars, itemVars,
            eventVars, Types, AbortInv, AbortClearsTaken, Before
<1>1. ASSUME NEW p \in Prompts, SteerInput(p)
       PROVE  AbortInv'
  BY <1>1 DEF SteerInput, Steerable
<1>2. ASSUME NEW t \in Turns, NEW p \in Prompts, UserInput(t, p)
       PROVE  AbortInv'
  BY <1>2 DEF UserInput, Submit, Goto
<1>3. ASSUME NEW t \in Turns, NEW k \in {"shell", "review", "compact"},
       StandaloneTask(t, k)
       PROVE  AbortInv'
  BY <1>3 DEF StandaloneTask, Submit, Goto
<1>4. ASSUME NEW m \in Mails, SendMail(m)
       PROVE  AbortInv'
  BY <1>4 DEF SendMail, Enqueue
<1>5. ASSUME NEW t \in Turns, NEW m \in Mails, SendTriggerMail(t, m)
       PROVE  AbortInv'
  BY <1>5 DEF SendTriggerMail, Enqueue, CallPendingWork
<1>6. ASSUME NEW n \in Notes, ApproveDenied(n)
       PROVE  AbortInv'
  BY <1>6 DEF ApproveDenied, InjectInto
<1>7. ASSUME NEW n \in Notes, AuxShellOutput(n)
       PROVE  AbortInv'
  BY <1>7 DEF AuxShellOutput, InjectInto
<1>8. ASSUME NEW t \in Turns, SetGoal(t)
       PROVE  AbortInv'
  BY <1>8 DEF SetGoal, CallPendingWork
<1>9. ASSUME NEW t \in Turns, GuardianAbort(t)
       PROVE  AbortInv'
  <2> HIDE DEF AbortInv, AbortClearsTaken
  <2>1. \A b \in Aborters : abort'[b].ts \in {abort[b].ts, None, active}
    BY <1>9 DEF GuardianAbort, TakeActive, AbortOf, Aborts, TurnStates
  <2>2. \A u \in Turns, k \in {"reserve", "install", "spawn"} :
         pc'[u] \in Before(k) => pc[u] \in Before(k)
    BY <1>9 DEF GuardianAbort, Goto
  <2>3. active' = None
    BY <1>9 DEF GuardianAbort, TakeActive
  <2> QED BY <2>1, <2>2, <2>3, AbortTaken
<1>10. CASE StopGoal
  BY <1>10 DEF StopGoal
<1>11. CASE Interrupt
  <2> HIDE DEF AbortInv, AbortClearsTaken
  <2>1. \A b \in Aborters : abort'[b].ts \in {abort[b].ts, None, active}
    BY <1>11 DEF Interrupt, TakeActive, AbortOf, Aborts, TurnStates
  <2>2. \A u \in Turns, k \in {"reserve", "install", "spawn"} :
         pc'[u] \in Before(k) => pc[u] \in Before(k)
    BY <1>11 DEF Interrupt, Goto
  <2>3. active' = None
    BY <1>11 DEF Interrupt, TakeActive
  <2> QED BY <2>1, <2>2, <2>3, AbortTaken
<1>12. CASE QueueNote
  BY <1>12 DEF QueueNote
<1>13. ASSUME NEW t \in Turns, CheckQueue(t)
       PROVE  AbortInv'
  BY <1>13 DEF CheckQueue, Jump, Goto
<1>14. ASSUME NEW t \in Turns, CheckMail(t)
       PROVE  AbortInv'
  BY <1>14 DEF CheckMail, GiveUp, Goto, StartFrame
<1>15. ASSUME NEW t \in Turns, Reserve(t)
       PROVE  AbortInv'
  <2> HIDE DEF AbortInv, AbortClearsTaken
  <2>1. abort' = abort
    BY <1>15 DEF Reserve, StartFrame
  <2>2. \A u \in Turns, k \in {"reserve", "install", "spawn"} :
         pc'[u] \in Before(k) => pc[u] \in Before(k)
    BY <1>15 DEF Reserve, GiveUp, Goto
  <2>3. CASE active = None
    <3>1. active' = <<t, "reserve">>
      BY <1>15, <2>3 DEF Reserve
    <3>2. pc[t] \in Before("reserve") /\ pc'[t] \notin Before("reserve")
      BY <1>15, <2>3 DEF Reserve, Goto
    <3> QED BY <2>1, <2>2, <3>1, <3>2, AbortCreated
  <2>4. CASE active # None
    <3>1. active' = active
      BY <1>15, <2>4 DEF Reserve
    <3> QED BY <2>1, <2>2, <3>1, AbortKept
  <2> QED BY <2>3, <2>4
<1>16. ASSUME NEW t \in Turns, GoalCandidate(t)
       PROVE  AbortInv'
  BY <1>16 DEF GoalCandidate, GiveUp, Goto, StartFrame
<1>17. ASSUME NEW t \in Turns, GoalReserve(t)
       PROVE  AbortInv'
  <2> HIDE DEF AbortInv, AbortClearsTaken
  <2>1. abort' = abort
    BY <1>17 DEF GoalReserve, StartFrame
  <2>2. \A u \in Turns, k \in {"reserve", "install", "spawn"} :
         pc'[u] \in Before(k) => pc[u] \in Before(k)
    BY <1>17 DEF GoalReserve, GiveUp, Goto
  <2>3. CASE active = None
    <3>1. active' = <<t, "reserve">>
      BY <1>17, <2>3 DEF GoalReserve
    <3>2. pc[t] \in Before("reserve") /\ pc'[t] \notin Before("reserve")
      BY <1>17, <2>3 DEF GoalReserve, Goto
    <3> QED BY <2>1, <2>2, <3>1, <3>2, AbortCreated
  <2>4. CASE active # None
    <3>1. active' = active
      BY <1>17, <2>4 DEF GoalReserve
    <3> QED BY <2>1, <2>2, <3>1, AbortKept
  <2> QED BY <2>3, <2>4
<1>18. ASSUME NEW t \in Turns, GoalRecheck(t)
       PROVE  AbortInv'
  BY <1>18 DEF GoalRecheck, Goto, StartFrame
<1>19. ASSUME NEW t \in Turns, GoalPush(t)
       PROVE  AbortInv'
  BY <1>19 DEF GoalPush, Goto, StartFrame
<1>20. ASSUME NEW t \in Turns, GoalStillReserved(t)
       PROVE  AbortInv'
  BY <1>20 DEF GoalStillReserved, Jump, Goto
<1>21. ASSUME NEW t \in Turns, GoalClearReserved(t)
       PROVE  AbortInv'
  <2> HIDE DEF AbortInv, AbortClearsTaken
  <2>1. active' \in {active, None} /\ abort' = abort
    BY <1>21 DEF GoalClearReserved, StartFrame
  <2>2. \A u \in Turns, k \in {"reserve", "install", "spawn"} :
         pc'[u] \in Before(k) => pc[u] \in Before(k)
    BY <1>21 DEF GoalClearReserved, Goto
  <2> QED BY <2>1, <2>2, AbortKept
<1>22. ASSUME NEW t \in Turns, NEW u \in Turns, GoalAfterStart(u, t)
       PROVE  AbortInv'
  BY <1>22 DEF GoalAfterStart, Goto, StartFrame
<1>23. ASSUME NEW t \in Turns, ReplaceTasks(t)
       PROVE  AbortInv'
  <2> HIDE DEF AbortInv, AbortClearsTaken
  <2>1. \A b \in Aborters : abort'[b].ts \in {abort[b].ts, None, active}
    BY <1>23 DEF ReplaceTasks, TakeActive, AbortOf, Aborts, TurnStates
  <2>2. \A u \in Turns, k \in {"reserve", "install", "spawn"} :
         pc'[u] \in Before(k) => pc[u] \in Before(k)
    BY <1>23 DEF ReplaceTasks, Goto
  <2>3. active' = None
    BY <1>23 DEF ReplaceTasks, TakeActive
  <2> QED BY <2>1, <2>2, <2>3, AbortTaken
<1>24. ASSUME NEW t \in Turns, CollectQueue(t)
       PROVE  AbortInv'
  BY <1>24 DEF CollectQueue, Goto, StartFrame
<1>25. ASSUME NEW t \in Turns, CollectPending(t)
       PROVE  AbortInv'
  BY <1>25 DEF CollectPending, TakePending, Goto, StartFrame
<1>26. ASSUME NEW t \in Turns, CollectMail(t)
       PROVE  AbortInv'
  BY <1>26 DEF CollectMail, DrainMailbox, Goto, StartFrame
<1>27. ASSUME NEW t \in Turns, Install(t)
       PROVE  AbortInv'
  <2> HIDE DEF AbortInv, AbortClearsTaken
  <2>1. active' = active \/ active' = <<t, "install">>
    BY <1>27 DEF Install
  <2>2. \A u \in Turns, k \in {"reserve", "install", "spawn"} :
         pc'[u] \in Before(k) => pc[u] \in Before(k)
    BY <1>27 DEF Install, Goto
  <2>3. pc[t] \in Before("install") /\ pc'[t] \notin Before("install")
    BY <1>27 DEF Install, Goto
  <2>4. abort' = abort
    BY <1>27 DEF Install, StartFrame
  <2> QED BY <2>1, <2>2, <2>3, <2>4, AbortKept, AbortCreated
<1>28. ASSUME NEW t \in Turns, PushCollected(t)
       PROVE  AbortInv'
  BY <1>28 DEF PushCollected, Goto, StartFrame
<1>29. ASSUME NEW t \in Turns, SpawnTask(t)
       PROVE  AbortInv'
  <2> HIDE DEF AbortInv, AbortClearsTaken
  <2>1. active' = active \/ active' = <<t, "spawn">>
    BY <1>29 DEF SpawnTask
  <2>2. \A u \in Turns, k \in {"reserve", "install", "spawn"} :
         pc'[u] \in Before(k) => pc[u] \in Before(k)
    BY <1>29 DEF SpawnTask, Goto
  <2>3. pc[t] \in Before("spawn") /\ pc'[t] \notin Before("spawn")
    BY <1>29 DEF SpawnTask, Goto
  <2>4. abort' = abort
    BY <1>29 DEF SpawnTask, StartFrame
  <2> QED BY <2>1, <2>2, <2>3, <2>4, AbortKept, AbortCreated
<1>30. ASSUME NEW t \in Turns, PrewarmCancelled(t)
       PROVE  AbortInv'
  BY <1>30 DEF PrewarmCancelled, Goto, TaskFrame
<1>31. ASSUME NEW t \in Turns, RunTurnNothing(t)
       PROVE  AbortInv'
  BY <1>31 DEF RunTurnNothing, Entering, Jump, Goto
<1>32. ASSUME NEW t \in Turns, RunTurnRefused(t)
       PROVE  AbortInv'
  BY <1>32 DEF RunTurnRefused, Entering, Goto, TaskFrame
<1>33. ASSUME NEW t \in Turns, RunTurnBegins(t)
       PROVE  AbortInv'
  BY <1>33 DEF RunTurnBegins, Entering, Goto, TaskFrame
<1>34. ASSUME NEW t \in Turns, RunStandalone(t)
       PROVE  AbortInv'
  BY <1>34 DEF RunStandalone, Jump, Goto
<1>35. ASSUME NEW t \in Turns, SessionStartStops(t)
       PROVE  AbortInv'
  BY <1>35 DEF SessionStartStops, Jump, Goto
<1>36. ASSUME NEW t \in Turns, DrainPending(t)
       PROVE  AbortInv'
  BY <1>36 DEF DrainPending, TakePending, Goto, TaskFrame
<1>37. ASSUME NEW t \in Turns, DrainMail(t)
       PROVE  AbortInv'
  BY <1>37 DEF DrainMail, DrainMailbox, Goto, TaskFrame
<1>38. ASSUME NEW t \in Turns, InspectAccepts(t)
       PROVE  AbortInv'
  BY <1>38 DEF InspectAccepts, Jump, Goto
<1>39. ASSUME NEW t \in Turns, NEW b \in held[t], NEW ok \in SUBSET held[t],
       InspectBlocks(t, b, ok)
       PROVE  AbortInv'
  BY <1>39 DEF InspectBlocks, Goto, TaskFrame
<1>40. ASSUME NEW t \in Turns, RecordPending(t)
       PROVE  AbortInv'
  BY <1>40 DEF RecordPending, Goto, TaskFrame
<1>41. ASSUME NEW t \in Turns, DeferMailbox(t)
       PROVE  AbortInv'
  BY <1>41 DEF DeferMailbox, TaskFrame
<1>42. ASSUME NEW t \in Turns, AcceptMailbox(t)
       PROVE  AbortInv'
  BY <1>42 DEF AcceptMailbox, TaskFrame
<1>43. ASSUME NEW t \in Turns, NEW o \in {"drain", "loopCheck"}, Sample(t, o)
       PROVE  AbortInv'
  BY <1>43 DEF Sample, Jump, Goto
<1>44. ASSUME NEW t \in Turns, LoopCheck(t)
       PROVE  AbortInv'
  BY <1>44 DEF LoopCheck, Jump, Goto
<1>45. ASSUME NEW t \in Turns, FinishCheck(t)
       PROVE  AbortInv'
  BY <1>45 DEF FinishCheck, Jump, Goto
<1>46. ASSUME NEW t \in Turns, RemoveTask(t)
       PROVE  AbortInv'
  BY <1>46 DEF RemoveTask, Goto, TaskFrame
<1>47. ASSUME NEW t \in Turns, TakeLeftover(t)
       PROVE  AbortInv'
  BY <1>47 DEF TakeLeftover, Goto, TaskFrame
<1>48. ASSUME NEW t \in Turns, NEW blocked \in SUBSET held[t], Complete(t,
       blocked)
       PROVE  AbortInv'
  BY <1>48 DEF Complete, Goto, TaskFrame
<1>49. ASSUME NEW t \in Turns, ClearActive(t)
       PROVE  AbortInv'
  <2> HIDE DEF AbortInv, AbortClearsTaken
  <2>1. active' \in {active, None} /\ abort' = abort
    BY <1>49 DEF ClearActive
  <2>2. \A u \in Turns, k \in {"reserve", "install", "spawn"} :
         pc'[u] \in Before(k) => pc[u] \in Before(k)
    BY <1>49 DEF ClearActive, Goto
  <2> QED BY <2>1, <2>2, AbortKept
<1>50. ASSUME NEW t \in Turns, NEW u \in Turns, ContinueIfIdle(t, u)
       PROVE  AbortInv'
  BY <1>50 DEF ContinueIfIdle
<1>51. ASSUME NEW t \in Turns, Killed(t)
       PROVE  AbortInv'
  BY <1>51 DEF Killed, Goto, TaskFrame
<1>52. ASSUME NEW a \in Aborters, NEW t \in Turns, CancelTask(a, t)
       PROVE  AbortInv'
  <2> HIDE DEF AbortInv, AbortClearsTaken
  <2>1. \A b \in Aborters : abort'[b].ts \in {abort[b].ts, None}
    BY <1>52 DEF CancelTask, NoAbort, Aborts, TurnStates
  <2>2. \A u \in Turns, k \in {"reserve", "install", "spawn"} :
         pc'[u] \in Before(k) => pc[u] \in Before(k)
    BY <1>52 DEF CancelTask, AbortFrame
  <2>3. active' = active
    BY <1>52 DEF CancelTask, AbortFrame
  <2> QED BY <2>1, <2>2, <2>3, AbortKept
<1>53. ASSUME NEW a \in Aborters, NEW t \in Turns, AbortNext(a, t)
       PROVE  AbortInv'
  <2> HIDE DEF AbortInv, AbortClearsTaken
  <2>1. \A b \in Aborters : abort'[b].ts \in {abort[b].ts, None}
    BY <1>53 DEF AbortNext, NoAbort, Aborts, TurnStates
  <2>2. \A u \in Turns, k \in {"reserve", "install", "spawn"} :
         pc'[u] \in Before(k) => pc[u] \in Before(k)
    BY <1>53 DEF AbortNext, CallPendingWork, Goto
  <2>3. active' = active
    BY <1>53 DEF AbortNext, AbortFrame
  <2> QED BY <2>1, <2>2, <2>3, AbortKept
<1>54. ASSUME NEW a \in Aborters, KillTask(a)
       PROVE  AbortInv'
  <2> HIDE DEF AbortInv, AbortClearsTaken
  <2>1. \A b \in Aborters : abort'[b].ts \in {abort[b].ts, None}
    BY <1>54 DEF KillTask, NoAbort, Aborts, TurnStates
  <2>2. \A u \in Turns, k \in {"reserve", "install", "spawn"} :
         pc'[u] \in Before(k) => pc[u] \in Before(k)
    BY <1>54 DEF KillTask, AbortFrame
  <2>3. active' = active
    BY <1>54 DEF KillTask, AbortFrame
  <2> QED BY <2>1, <2>2, <2>3, AbortKept
<1>55. ASSUME NEW a \in Aborters, PauseGoal(a)
       PROVE  AbortInv'
  <2> HIDE DEF AbortInv, AbortClearsTaken
  <2>1. \A b \in Aborters : abort'[b].ts \in {abort[b].ts, None}
    BY <1>55 DEF PauseGoal, NoAbort, Aborts, TurnStates
  <2>2. \A u \in Turns, k \in {"reserve", "install", "spawn"} :
         pc'[u] \in Before(k) => pc[u] \in Before(k)
    BY <1>55 DEF PauseGoal, AbortFrame
  <2>3. active' = active
    BY <1>55 DEF PauseGoal, AbortFrame
  <2> QED BY <2>1, <2>2, <2>3, AbortKept
<1>56. ASSUME NEW a \in Aborters, ClearPending(a)
       PROVE  AbortInv'
  <2> HIDE DEF AbortInv, AbortClearsTaken
  <2>1. \A b \in Aborters : abort'[b].ts \in {abort[b].ts, None}
    BY <1>56 DEF ClearPending, NoAbort, Aborts, TurnStates
  <2>2. \A u \in Turns, k \in {"reserve", "install", "spawn"} :
         pc'[u] \in Before(k) => pc[u] \in Before(k)
    BY <1>56 DEF ClearPending, AbortFrame
  <2>3. active' = active
    BY <1>56 DEF ClearPending, AbortFrame
  <2> QED BY <2>1, <2>2, <2>3, AbortKept
<1>57. ASSUME NEW a \in Aborters, AbortNothing(a)
       PROVE  AbortInv'
  <2> HIDE DEF AbortInv, AbortClearsTaken
  <2>1. \A b \in Aborters : abort'[b].ts \in {abort[b].ts, None}
    BY <1>57 DEF AbortNothing, NoAbort, Aborts, TurnStates
  <2>2. \A u \in Turns, k \in {"reserve", "install", "spawn"} :
         pc'[u] \in Before(k) => pc[u] \in Before(k)
    BY <1>57 DEF AbortNothing, AbortFrame
  <2>3. active' = active
    BY <1>57 DEF AbortNothing, AbortFrame
  <2> QED BY <2>1, <2>2, <2>3, AbortKept
<1>58. CASE UNCHANGED vars
  BY <1>58
<1> HIDE DEF Types, AbortInv, AbortClearsTaken, Before
<1> QED
  BY <1>1, <1>2, <1>3, <1>4, <1>5, <1>6, <1>7, <1>8, <1>9, <1>10, <1>11, <1>12,
     <1>13, <1>14, <1>15, <1>16, <1>17, <1>18, <1>19, <1>20, <1>21, <1>22,
     <1>23, <1>24, <1>25, <1>26, <1>27, <1>28, <1>29, <1>30, <1>31, <1>32,
     <1>33, <1>34, <1>35, <1>36, <1>37, <1>38, <1>39, <1>40, <1>41, <1>42,
     <1>43, <1>44, <1>45, <1>46, <1>47, <1>48, <1>49, <1>50, <1>51, <1>52,
     <1>53, <1>54, <1>55, <1>56, <1>57, <1>58 DEF Next, Client, StartStep,
     RunStep, FinishStep, AbortStep

\* clear_pending at the end of abort_all_tasks or abort_turn_if_active never
\* reaches the turn state of a turn installed in the meantime.
THEOREM AbortsClearTaken ==
  Spec => []AbortClearsTaken
<1>1. Init => AbortInv
  <2>1. \A t \in Turns, k \in {"reserve", "install", "spawn"} : <<t, k>> # None
    BY NamesAssumption DEF TurnStates
  <2>2. Init => active = None /\ \A a \in Aborters : abort[a].ts = None
    BY DEF Init, NoAbort
  <2> QED BY <2>1, <2>2 DEF AbortInv, AbortClearsTaken
<1>2. AbortInv => AbortClearsTaken
  BY DEF AbortInv
<1> QED BY <1>1, <1>2, TasksAlways, AbortStepKeeps, PTL DEF Spec
=============================================================================

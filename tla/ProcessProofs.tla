---------------------------- MODULE ProcessProofs ----------------------------
(***************************************************************************)
(* Theorems about ProcessManager, for any number of tasks and any limits,  *)
(* and about ProcessTools, for any calls of a turn.  The inductive         *)
(* invariant of the manager ties each task's status to the place its       *)
(* monitor has reached: a status is terminal exactly when the monitor is   *)
(* past Commit, and only such a task can be queued, drained or claimed.    *)
(* It holds on under the steps of the tools, which forget tasks the        *)
(* manager alone would not; on top of it comes what each call knows of its *)
(* task at each of its steps.                                              *)
(***************************************************************************)
EXTENDS ProcessTools, SequenceTheorems, FiniteSetTheorems, TLAPS

\* A start in flight still has a task id left to give.
StartBound == starting # "idle" => started < MaxTasks

\* Where a task is in its life, as its status, monitor and process see it.
Lifecycle(t) ==
    /\ t \notin Started => /\ status[t] = "unstarted" /\ monitor[t] = "none"
                           /\ ~notify[t] /\ ~claimed[t]
    /\ monitor[t] = "none" => t \notin Started
    /\ monitor[t] \in {"select", "drain"} <=> IsRunning(t)
    /\ monitor[t] \in {"announce", "done"} <=> IsTerminal(t)
    /\ monitor[t] \in {"drain", "announce", "done"} => proc[t] # "running"
    /\ Background(t) => notify[t]
    /\ status[t] = "foreground" => ~notify[t]
    /\ claimed[t] => IsTerminal(t)
    /\ reaping[t] # "no" => t \in Started \ tracked

\* What the queue, the drainers and the claimers hold.
Delivery(t) ==
    /\ t \in unqueuing /\ t \in tracked => claimed[t]
    /\ t \in taken => notify[t] /\ monitor[t] = "done" /\ t \notin Queued
    /\ t \in Queued => notify[t] /\ monitor[t] = "done" /\ (claimed[t] => t \in unqueuing)
    /\ t \in tracked /\ monitor[t] = "done" /\ notify[t] => claimed[t] \/ t \in Queued \/ t \in taken

IInv ==
    /\ TypeOK
    /\ StartBound
    /\ \A t \in Tasks : Lifecycle(t)
    /\ \A t \in Tasks : Delivery(t)

-----------------------------------------------------------------------------
LEMMA EntombedType ==
    ASSUME TypeOK, NEW t \in Tasks, NEW b \in BOOLEAN
    PROVE  Entombed(t, b) \in Seq(Tombstone)
<1> DEFINE e == [task |-> t, outcome |-> status[t], retained |-> b]
<1> DEFINE s == Append(Without(tombstones, t), e)
<1>1. e \in Tombstone
  BY DEF TypeOK, Tombstone
<1>2. Without(tombstones, t) \in Seq(Tombstone)
  <2>1. CASE \E i \in DOMAIN tombstones : tombstones[i].task = t
    <3> DEFINE i == CHOOSE i \in DOMAIN tombstones : tombstones[i].task = t
    <3>1. i \in 1 .. Len(tombstones) /\ Len(tombstones) \in Nat
      BY <2>1, LenProperties DEF TypeOK
    <3> HIDE DEF i
    <3>2. \A k \in 1 .. Len(tombstones) : tombstones[k] \in Tombstone
      BY ElementOfSeq DEF TypeOK
    <3>3. /\ SubSeq(tombstones, 1, i - 1) \in Seq(Tombstone)
          /\ SubSeq(tombstones, i + 1, Len(tombstones)) \in Seq(Tombstone)
      BY <3>1, <3>2, SubSeqProperties
    <3>4. Without(tombstones, t) = SubSeq(tombstones, 1, i - 1) \o SubSeq(tombstones, i + 1, Len(tombstones))
      BY <2>1 DEF Without, i
    <3> QED BY <3>3, <3>4, ConcatProperties
  <2>2. CASE ~ \E i \in DOMAIN tombstones : tombstones[i].task = t
    BY <2>2 DEF Without, TypeOK
  <2> QED BY <2>1, <2>2
<1>3. s \in Seq(Tombstone) /\ s # <<>>
  BY <1>1, <1>2, AppendProperties
<1>4. Tail(s) \in Seq(Tombstone)
  BY <1>3, HeadTailProperties
<1> QED BY <1>3, <1>4 DEF Entombed

LEMMA InitIInv == Init => IInv
<1> SUFFICES ASSUME Init PROVE IInv
  OBVIOUS
<1> USE LimitsAssumption DEF Init, Tasks, Started
<1>1. TypeOK
  <2>1. tombstones \in Seq(Tombstone)
    BY EmptySeq
  <2>2. started \in 0 .. MaxTasks
    OBVIOUS
  <2>3. notifications \subseteq Notification
    OBVIOUS
  <2> QED BY <2>1, <2>2, <2>3 DEF TypeOK, Status
<1>2. StartBound
  BY DEF StartBound
<1>3. \A t \in Tasks : Lifecycle(t)
  BY DEF Lifecycle, IsRunning, IsTerminal, Background, Reason, Terminal
<1>4. \A t \in Tasks : Delivery(t)
  BY DEF Delivery, Queued
<1> QED BY <1>1, <1>2, <1>3, <1>4 DEF IInv

LEMMA TypeStep ==
    ASSUME IInv, [Next]_vars
    PROVE  TypeOK' /\ StartBound'
<1>a. TypeOK /\ StartBound
  BY DEF IInv
<1> USE <1>a, LimitsAssumption DEF TypeOK, StartBound, Tasks, Started, Reason, Terminal, Status, Notification, Queued,
        vars, procVars, stateVars, tableVars, queueVars, startVars
<1>1. CASE BeginStart
  BY <1>1 DEF BeginStart
<1>2. CASE Admit
  BY <1>2 DEF Admit
<1>3. CASE SpawnFails
  BY <1>3 DEF SpawnFails
<1>4. ASSUME NEW r \in {"foreground", "explicit"}, Spawn(r) PROVE TypeOK' /\ StartBound'
  <2>0. started + 1 \in Tasks /\ started \in Nat /\ started' = started + 1 /\ starting' = "idle"
    BY <1>4 DEF Spawn
  <2>1. Started' = Started \cup {started + 1}
    BY <2>0
  <2>2. /\ status' \in [Tasks -> Status] /\ notify' \in [Tasks -> BOOLEAN]
        /\ proc' \in [Tasks -> {"none", "running", "zero", "nonzero", "reaped"}]
        /\ monitor' \in [Tasks -> {"none", "select", "drain", "announce", "done"}]
    BY <1>4 DEF Spawn, NotifyAtStart
  <2>3. tracked' \subseteq Started' /\ permits' \subseteq Started' /\ files' \subseteq Started'
    BY <1>4, <2>1 DEF Spawn
  <2> QED BY <1>4, <2>0, <2>1, <2>2, <2>3 DEF Spawn
<1>5. ASSUME NEW t \in Tasks, ProcessExits(t) PROVE TypeOK' /\ StartBound'
  <2>1. /\ \E code \in {"zero", "nonzero"} : proc' = [proc EXCEPT ![t] = code]
        /\ UNCHANGED <<monitor, forced, timedOut, stateVars, tableVars, queueVars, startVars>>
    BY <1>5 DEF ProcessExits
  <2>2. proc' \in [Tasks -> {"none", "running", "zero", "nonzero", "reaped"}]
    BY <2>1
  <2> QED BY <2>1, <2>2
<1>6. ASSUME NEW t \in Tasks, ObserveExit(t) PROVE TypeOK' /\ StartBound'
  BY <1>6 DEF ObserveExit
<1>7. ASSUME NEW t \in Tasks, ObserveCancel(t) PROVE TypeOK' /\ StartBound'
  BY <1>7 DEF ObserveCancel, KillThenDrain
<1>8. ASSUME NEW t \in Tasks, DeadlineKills(t) PROVE TypeOK' /\ StartBound'
  BY <1>8 DEF DeadlineKills, KillThenDrain
<1>9. ASSUME NEW t \in Tasks, DeadlineBackgrounds(t) PROVE TypeOK' /\ StartBound'
  <2>1. CASE status[t] = "foreground"
    <3>1. status' \in [Tasks -> Status] /\ notify' \in [Tasks -> BOOLEAN]
      BY <1>9, <2>1 DEF DeadlineBackgrounds
    <3>2. timedOut' \in [Tasks -> BOOLEAN]
      BY <1>9 DEF DeadlineBackgrounds
    <3> QED BY <1>9, <3>1, <3>2 DEF DeadlineBackgrounds
  <2>2. CASE status[t] # "foreground"
    BY <1>9, <2>2 DEF DeadlineBackgrounds
  <2> QED BY <2>1, <2>2
<1>10. ASSUME NEW t \in Tasks, Commit(t) PROVE TypeOK' /\ StartBound'
  BY <1>10 DEF Commit, ReturnPermit
<1>11. ASSUME NEW t \in Tasks, Announce(t) PROVE TypeOK' /\ StartBound'
  <2>1. notifications' \subseteq Notification
    <3> DEFINE e == [task |-> t, wakes |-> ~byUser[t]]
    <3>1. e \in Notification
      OBVIOUS
    <3>2. notifications' \subseteq notifications \cup {e}
      BY <1>11 DEF Announce
    <3> HIDE DEF e
    <3> QED BY <3>1, <3>2
  <2>2. monitor' \in [Tasks -> {"none", "select", "drain", "announce", "done"}]
    BY <1>11 DEF Announce
  <2> QED BY <1>11, <2>1, <2>2 DEF Announce
<1>12. ASSUME NEW t \in Tasks, EntombPruned(t) PROVE TypeOK' /\ StartBound'
  BY <1>12, EntombedType DEF EntombPruned
<1>13. ASSUME NEW t \in Tasks, EntombForgotten(t) PROVE TypeOK' /\ StartBound'
  <2>1. t \in Started
    BY <1>13 DEF EntombForgotten, IInv, Lifecycle
  <2>2. tombstones' \in Seq(Tombstone)
    BY <1>13, EntombedType DEF EntombForgotten
  <2>3. unqueuing' \subseteq Started'
    BY <1>13, <2>1 DEF EntombForgotten
  <2> QED BY <1>13, <2>2, <2>3 DEF EntombForgotten
<1>14. ASSUME NEW t \in Tasks, DropQueued(t) PROVE TypeOK' /\ StartBound'
  BY <1>14 DEF DropQueued
<1>15. ASSUME NEW t \in Tasks, MarkTaken(t) PROVE TypeOK' /\ StartBound'
  BY <1>15 DEF MarkTaken
<1>16. ASSUME NEW t \in Tasks, ToBackground(t, "yield") PROVE TypeOK' /\ StartBound'
  BY <1>16 DEF ToBackground, Detach, InForeground
<1>17. ASSUME NEW t \in Tasks, NEW o \in Origin, Stop(t, o) PROVE TypeOK' /\ StartBound'
  BY <1>17 DEF Stop
<1>18. ASSUME NEW t \in Tasks, IsTerminal(t), ClaimNotification(t) PROVE TypeOK' /\ StartBound'
  BY <1>18 DEF ClaimNotification
<1>19. ASSUME NEW t \in Tasks, IsTerminal(t) \/ requested[t], Forget(t) PROVE TypeOK' /\ StartBound'
  BY <1>19 DEF Forget
<1>20. ASSUME NEW r \in UserReasons, BackgroundAllForeground(r) PROVE TypeOK' /\ StartBound'
  BY <1>20 DEF BackgroundAllForeground, Detach, InForeground
<1>21. CASE StopAllBackground
  BY <1>21 DEF StopAllBackground, RequestKill
<1>22. CASE TakeNotifications
  <2>1. Queued \subseteq Started
    BY DEF IInv, Delivery, Lifecycle
  <2>2. taken' \subseteq Started
    BY <1>22, <2>1 DEF TakeNotifications
  <2> QED BY <1>22, <2>2 DEF TakeNotifications
<1>23. CASE TerminateAll
  BY <1>23 DEF TerminateAll, RequestKill
<1>24. CASE KillAllNow
  BY <1>24 DEF KillAllNow, RequestKill
<1>25. CASE OtherSessionStarts
  BY <1>25 DEF OtherSessionStarts
<1>26. CASE OtherSessionFinishes
  BY <1>26 DEF OtherSessionFinishes
<1>27. CASE UNCHANGED vars
  BY <1>27
<1> QED
  BY <1>1, <1>2, <1>3, <1>4, <1>5, <1>6, <1>7, <1>8, <1>9, <1>10, <1>11, <1>12, <1>13, <1>14, <1>15, <1>16, <1>17, <1>18, <1>19, <1>20, <1>21, <1>22, <1>23, <1>24, <1>25, <1>26, <1>27
     DEF Next, StartCall, Monitor, HalfDone, Caller, Session, Elsewhere

LEMMA LifecycleStep ==
    ASSUME IInv, [Next]_vars, NEW u \in Tasks
    PROVE  Lifecycle(u)'
<1>a. TypeOK /\ StartBound /\ Lifecycle(u) /\ Delivery(u)
  BY DEF IInv
<1> USE <1>a, LimitsAssumption DEF Tasks, Started, Reason, Terminal, IsRunning, IsTerminal, Background,
        vars, procVars, stateVars, tableVars, queueVars, startVars, Lifecycle
<1>1. CASE BeginStart
  BY <1>1 DEF TypeOK, BeginStart, Prunable
<1>2. CASE Admit
  BY <1>2 DEF TypeOK, Admit
<1>3. CASE SpawnFails
  BY <1>3 DEF TypeOK, SpawnFails
<1>4. ASSUME NEW r \in {"foreground", "explicit"}, Spawn(r) PROVE Lifecycle(u)'
  <2>1. started + 1 \in Tasks /\ started \in Nat /\ Started' = Started \cup {started + 1}
    BY <1>4 DEF TypeOK, StartBound, Spawn
  <2>2. CASE u = started + 1
    <3>1. status'[u] = r /\ monitor'[u] = "select" /\ (notify'[u] <=> r # "foreground")
      BY <1>4, <2>1, <2>2 DEF TypeOK, Spawn, NotifyAtStart
    <3>2. ~claimed'[u] /\ reaping'[u] = "no"
      BY <1>4, <2>1, <2>2 DEF TypeOK, Spawn, NotifyAtStart
    <3> QED BY <2>1, <2>2, <3>1, <3>2
  <2>3. CASE u # started + 1
    BY <1>4, <2>1, <2>3 DEF TypeOK, Spawn, NotifyAtStart
  <2> QED BY <2>2, <2>3
<1>5. ASSUME NEW t \in Tasks, ProcessExits(t) PROVE Lifecycle(u)'
  BY <1>5 DEF TypeOK, ProcessExits
<1>6. ASSUME NEW t \in Tasks, ObserveExit(t) PROVE Lifecycle(u)'
  BY <1>6 DEF TypeOK, ObserveExit
<1>7. ASSUME NEW t \in Tasks, ObserveCancel(t) PROVE Lifecycle(u)'
  BY <1>7 DEF TypeOK, ObserveCancel, KillThenDrain
<1>8. ASSUME NEW t \in Tasks, DeadlineKills(t) PROVE Lifecycle(u)'
  BY <1>8 DEF TypeOK, DeadlineKills, KillThenDrain
<1>9. ASSUME NEW t \in Tasks, DeadlineBackgrounds(t) PROVE Lifecycle(u)'
  <2>1. CASE status[t] = "foreground"
    <3>1. status' = [status EXCEPT ![t] = "timeout"] /\ notify' = [notify EXCEPT ![t] = TRUE]
      BY <1>9, <2>1 DEF DeadlineBackgrounds
    <3>2. UNCHANGED <<started, tracked, monitor, proc, claimed, reaping>>
      BY <1>9 DEF DeadlineBackgrounds
    <3>3. t \in Started /\ ~claimed[t] /\ ~IsTerminal(t)
      BY <2>1 DEF IInv
    <3> QED BY <1>9, <2>1, <3>1, <3>2, <3>3 DEF TypeOK
  <2>2. CASE status[t] # "foreground"
    BY <1>9, <2>2 DEF DeadlineBackgrounds
  <2> QED BY <2>1, <2>2
<1>10. ASSUME NEW t \in Tasks, Commit(t) PROVE Lifecycle(u)'
  BY <1>10 DEF TypeOK, Commit, ReturnPermit
<1>11. ASSUME NEW t \in Tasks, Announce(t) PROVE Lifecycle(u)'
  BY <1>11 DEF TypeOK, Announce, Owed
<1>12. ASSUME NEW t \in Tasks, EntombPruned(t) PROVE Lifecycle(u)'
  BY <1>12 DEF TypeOK, EntombPruned
<1>13. ASSUME NEW t \in Tasks, EntombForgotten(t) PROVE Lifecycle(u)'
  BY <1>13 DEF TypeOK, EntombForgotten
<1>14. ASSUME NEW t \in Tasks, DropQueued(t) PROVE Lifecycle(u)'
  BY <1>14 DEF TypeOK, DropQueued
<1>15. ASSUME NEW t \in Tasks, MarkTaken(t) PROVE Lifecycle(u)'
  BY <1>15 DEF TypeOK, MarkTaken, Delivery
<1>16. ASSUME NEW t \in Tasks, ToBackground(t, "yield") PROVE Lifecycle(u)'
  BY <1>16 DEF TypeOK, ToBackground, Detach, InForeground
<1>17. ASSUME NEW t \in Tasks, NEW o \in Origin, Stop(t, o) PROVE Lifecycle(u)'
  BY <1>17 DEF TypeOK, Stop
<1>18. ASSUME NEW t \in Tasks, IsTerminal(t), ClaimNotification(t) PROVE Lifecycle(u)'
  BY <1>18 DEF TypeOK, ClaimNotification
<1>19. ASSUME NEW t \in Tasks, IsTerminal(t) \/ requested[t], Forget(t) PROVE Lifecycle(u)'
  BY <1>19 DEF TypeOK, Forget
<1>20. ASSUME NEW r \in UserReasons, BackgroundAllForeground(r) PROVE Lifecycle(u)'
  BY <1>20 DEF TypeOK, BackgroundAllForeground, Detach, InForeground
<1>21. CASE StopAllBackground
  BY <1>21 DEF TypeOK, StopAllBackground, RequestKill
<1>22. CASE TakeNotifications
  BY <1>22 DEF TypeOK, TakeNotifications
<1>23. CASE TerminateAll
  BY <1>23 DEF TypeOK, TerminateAll, RequestKill
<1>24. CASE KillAllNow
  BY <1>24 DEF TypeOK, KillAllNow, RequestKill, Running
<1>25. CASE OtherSessionStarts
  BY <1>25 DEF TypeOK, OtherSessionStarts
<1>26. CASE OtherSessionFinishes
  BY <1>26 DEF TypeOK, OtherSessionFinishes
<1>27. CASE UNCHANGED vars
  BY <1>27
<1> QED
  BY <1>1, <1>2, <1>3, <1>4, <1>5, <1>6, <1>7, <1>8, <1>9, <1>10, <1>11, <1>12, <1>13, <1>14, <1>15, <1>16, <1>17, <1>18, <1>19, <1>20, <1>21, <1>22, <1>23, <1>24, <1>25, <1>26, <1>27
     DEF Next, StartCall, Monitor, HalfDone, Caller, Session, Elsewhere

LEMMA DeliveryStep ==
    ASSUME IInv, [Next]_vars, NEW u \in Tasks
    PROVE  Delivery(u)'
<1>a. TypeOK /\ StartBound /\ Lifecycle(u) /\ Delivery(u)
  BY DEF IInv
<1> USE <1>a, LimitsAssumption DEF Tasks, Started, Reason, Terminal, IsRunning, IsTerminal, Background,
        vars, procVars, stateVars, tableVars, queueVars, startVars, Queued, Delivery
<1>1. CASE BeginStart
  BY <1>1 DEF TypeOK, BeginStart, Prunable
<1>2. CASE Admit
  BY <1>2 DEF TypeOK, Admit
<1>3. CASE SpawnFails
  BY <1>3 DEF TypeOK, SpawnFails
<1>4. ASSUME NEW r \in {"foreground", "explicit"}, Spawn(r) PROVE Delivery(u)'
  <2>1. started + 1 \in Tasks /\ started \in Nat
    BY <1>4 DEF TypeOK, StartBound, Spawn
  <2>2. Queued' = Queued
    BY <1>4 DEF Spawn, NotifyAtStart
  <2>3. CASE u = started + 1
    <3>1. u \notin Queued /\ u \notin taken /\ u \notin unqueuing
      BY <2>1, <2>3 DEF Lifecycle, TypeOK
    <3> QED BY <1>4, <2>1, <2>2, <2>3, <3>1 DEF TypeOK, Spawn, NotifyAtStart
  <2>4. CASE u # started + 1
    BY <1>4, <2>1, <2>2, <2>4 DEF TypeOK, Spawn, NotifyAtStart
  <2> QED BY <2>3, <2>4
<1>5. ASSUME NEW t \in Tasks, ProcessExits(t) PROVE Delivery(u)'
  BY <1>5 DEF TypeOK, ProcessExits
<1>6. ASSUME NEW t \in Tasks, ObserveExit(t) PROVE Delivery(u)'
  BY <1>6 DEF TypeOK, ObserveExit
<1>7. ASSUME NEW t \in Tasks, ObserveCancel(t) PROVE Delivery(u)'
  BY <1>7 DEF TypeOK, ObserveCancel, KillThenDrain
<1>8. ASSUME NEW t \in Tasks, DeadlineKills(t) PROVE Delivery(u)'
  BY <1>8 DEF TypeOK, DeadlineKills, KillThenDrain
<1>9. ASSUME NEW t \in Tasks, DeadlineBackgrounds(t) PROVE Delivery(u)'
  BY <1>9 DEF TypeOK, DeadlineBackgrounds
<1>10. ASSUME NEW t \in Tasks, Commit(t) PROVE Delivery(u)'
  BY <1>10 DEF TypeOK, Commit, ReturnPermit
<1>11. ASSUME NEW t \in Tasks, Announce(t) PROVE Delivery(u)'
  <2>1. CASE Owed(t)
    <3>1. notifications' = notifications \cup {[task |-> t, wakes |-> ~byUser[t]]}
      BY <1>11, <2>1 DEF Announce
    <3>2. u \in Queued' <=> u \in Queued \/ u = t
      <4> DEFINE e == [task |-> t, wakes |-> ~byUser[t]]
      <4>1. e.task = t /\ notifications' = notifications \cup {e}
        BY <3>1
      <4> HIDE DEF e
      <4> QED BY <4>1
    <3> QED BY <1>11, <2>1, <3>2 DEF TypeOK, Announce, Owed, Lifecycle
  <2>2. CASE ~Owed(t)
    <3>1. Queued' = Queued
      BY <1>11, <2>2 DEF Announce
    <3> QED BY <1>11, <2>2, <3>1 DEF TypeOK, Announce, Owed, Lifecycle
  <2> QED BY <2>1, <2>2
<1>12. ASSUME NEW t \in Tasks, EntombPruned(t) PROVE Delivery(u)'
  BY <1>12 DEF TypeOK, EntombPruned
<1>13. ASSUME NEW t \in Tasks, EntombForgotten(t) PROVE Delivery(u)'
  <2>1. Queued' = Queued
    BY <1>13 DEF EntombForgotten
  <2>2. t = u => u \notin tracked
    BY <1>13 DEF Lifecycle, EntombForgotten
  <2> QED BY <1>13, <2>1, <2>2 DEF TypeOK, EntombForgotten
<1>14. ASSUME NEW t \in Tasks, DropQueued(t) PROVE Delivery(u)'
  <2>1. Queued' = Queued \ {t}
    BY <1>14 DEF DropQueued
  <2> QED BY <1>14, <2>1 DEF TypeOK, DropQueued, Lifecycle
<1>15. ASSUME NEW t \in Tasks, MarkTaken(t) PROVE Delivery(u)'
  <2>1. Queued' = Queued
    BY <1>15 DEF MarkTaken
  <2> QED BY <1>15, <2>1 DEF TypeOK, MarkTaken
<1>16. ASSUME NEW t \in Tasks, ToBackground(t, "yield") PROVE Delivery(u)'
  BY <1>16 DEF TypeOK, ToBackground, Detach, InForeground, Lifecycle
<1>17. ASSUME NEW t \in Tasks, NEW o \in Origin, Stop(t, o) PROVE Delivery(u)'
  BY <1>17 DEF TypeOK, Stop
<1>18. ASSUME NEW t \in Tasks, IsTerminal(t), ClaimNotification(t) PROVE Delivery(u)'
  BY <1>18 DEF TypeOK, ClaimNotification
<1>19. ASSUME NEW t \in Tasks, IsTerminal(t) \/ requested[t], Forget(t) PROVE Delivery(u)'
  BY <1>19 DEF TypeOK, Forget
<1>20. ASSUME NEW r \in UserReasons, BackgroundAllForeground(r) PROVE Delivery(u)'
  BY <1>20 DEF TypeOK, BackgroundAllForeground, Detach, InForeground, Lifecycle
<1>21. CASE StopAllBackground
  BY <1>21 DEF TypeOK, StopAllBackground, RequestKill
<1>22. CASE TakeNotifications
  <2>1. Queued' = {} /\ taken' = taken \cup Queued
    BY <1>22 DEF TakeNotifications
  <2> QED BY <1>22, <2>1 DEF TypeOK, TakeNotifications, Lifecycle
<1>23. CASE TerminateAll
  BY <1>23 DEF TypeOK, TerminateAll, RequestKill
<1>24. CASE KillAllNow
  BY <1>24 DEF TypeOK, KillAllNow, RequestKill, Running
<1>25. CASE OtherSessionStarts
  BY <1>25 DEF TypeOK, OtherSessionStarts
<1>26. CASE OtherSessionFinishes
  BY <1>26 DEF TypeOK, OtherSessionFinishes
<1>27. CASE UNCHANGED vars
  BY <1>27
<1> QED
  BY <1>1, <1>2, <1>3, <1>4, <1>5, <1>6, <1>7, <1>8, <1>9, <1>10, <1>11, <1>12, <1>13, <1>14, <1>15, <1>16, <1>17, <1>18, <1>19, <1>20, <1>21, <1>22, <1>23, <1>24, <1>25, <1>26, <1>27
     DEF Next, StartCall, Monitor, HalfDone, Caller, Session, Elsewhere

-----------------------------------------------------------------------------
LEMMA IInvariant == Spec => []IInv
<1>1. IInv /\ [Next]_vars => IInv'
  BY TypeStep, LifecycleStep, DeliveryStep DEF IInv, Tasks
<1> QED
  BY InitIInv, <1>1, PTL DEF Spec

\* Every variable keeps its type, whatever the limits.
THEOREM TypeCorrect == Spec => []TypeOK
BY IInvariant, PTL DEF IInv

\* A queued notification belongs to a finished background task nobody has claimed.
THEOREM QueueIsDeliverable == Spec => []QueuedIsDeliverable
<1>1. IInv => QueuedIsDeliverable
  BY DEF IInv, TypeOK, Notification, Lifecycle, Delivery, Queued, QueuedIsDeliverable
<1> QED BY IInvariant, <1>1, PTL

\* The completion of a background task is never lost.
THEOREM CompletionIsNotLost == Spec => []NoLostCompletion
<1>1. IInv => NoLostCompletion
  <2> SUFFICES ASSUME IInv, NEW t \in tracked
               PROVE  /\ Background(t) => notify[t]
                      /\ monitor[t] = "done" /\ notify[t] => claimed[t] \/ t \in Queued \cup taken
    BY DEF NoLostCompletion
  <2>1. t \in Tasks
    BY LimitsAssumption DEF IInv, TypeOK, Started, Tasks
  <2> QED BY <2>1 DEF IInv, Lifecycle, Delivery
<1> QED BY IInvariant, <1>1, PTL

\* Over every race of monitors, claims and drains, the queue holds what is still
\* to be told, and misses nothing of it (claim_notification, take_notifications).
THEOREM CompletionsStay == Spec => []CompletionsAreKept
<1> QED BY QueueIsDeliverable, CompletionIsNotLost, PTL DEF CompletionsAreKept

\* Eviction and pruning never touch a task that can still write or be announced.
THEOREM ReclaimIsSafe == Spec => []ReclaimableIsQuiet
<1>1. IInv => ReclaimableIsQuiet
  <2> SUFFICES ASSUME IInv, NEW t \in tracked, IsTerminal(t), claimed[t]
               PROVE  proc[t] # "running" /\ (t \in Queued => t \in unqueuing)
    BY DEF ReclaimableIsQuiet
  <2>1. t \in Tasks
    BY LimitsAssumption DEF IInv, TypeOK, Started, Tasks
  <2> QED BY <2>1 DEF IInv, Lifecycle, Delivery
<1> QED BY IInvariant, <1>1, PTL

-----------------------------------------------------------------------------
(* What a step does to a task that has left the foreground.                 *)

\* The steps that the session cannot see.
Quiet ==
    \/ Admit \/ SpawnFails \/ StopAllBackground \/ TerminateAll \/ KillAllNow \/ Elsewhere
    \/ \E t \in Tasks : \/ ProcessExits(t) \/ ObserveExit(t) \/ ObserveCancel(t) \/ DeadlineKills(t)
                        \/ EntombPruned(t) \/ EntombForgotten(t) \/ \E o \in Origin : Stop(t, o)

LEMMA QuietStep ==
    ASSUME Quiet
    PROVE  UNCHANGED <<started, tracked, status, notify, claimed, notifications, taken>>
<1> USE DEF procVars, stateVars, tableVars, queueVars, startVars
<1>1. CASE Admit \/ SpawnFails \/ StopAllBackground \/ TerminateAll \/ KillAllNow \/ Elsewhere
  BY <1>1 DEF Admit, SpawnFails, StopAllBackground, TerminateAll, KillAllNow, Elsewhere,
              OtherSessionStarts, OtherSessionFinishes
<1>2. ASSUME NEW t \in Tasks,
             ProcessExits(t) \/ ObserveExit(t) \/ ObserveCancel(t) \/ DeadlineKills(t)
      PROVE  UNCHANGED <<started, tracked, status, notify, claimed, notifications, taken>>
  BY <1>2 DEF ProcessExits, ObserveExit, ObserveCancel, DeadlineKills
<1>3. ASSUME NEW t \in Tasks,
             EntombPruned(t) \/ EntombForgotten(t) \/ \E o \in Origin : Stop(t, o)
      PROVE  UNCHANGED <<started, tracked, status, notify, claimed, notifications, taken>>
  BY <1>3 DEF EntombPruned, EntombForgotten, Stop
<1> QED BY <1>1, <1>2, <1>3 DEF Quiet

\* A step that the session does see.
Visible(t) ==
    \/ DeadlineBackgrounds(t) \/ Commit(t) \/ Announce(t) \/ DropQueued(t) \/ MarkTaken(t)
    \/ ToBackground(t, "yield") \/ (IsTerminal(t) /\ ClaimNotification(t)) \/ Forget(t)

LEMMA StepKinds ==
    ASSUME [Next]_vars
    PROVE  \/ Quiet \/ UNCHANGED vars \/ BeginStart \/ TakeNotifications
           \/ \E r \in {"foreground", "explicit"} : Spawn(r)
           \/ \E r \in UserReasons : BackgroundAllForeground(r)
           \/ \E t \in Tasks : Visible(t)
BY DEF Next, StartCall, Monitor, HalfDone, Caller, Session, Quiet, Visible

Kept(u) ==
    /\ IsTerminal(u) => status'[u] = status[u] /\ notify'[u] = notify[u]
    /\ Background(u) => status'[u] \in Terminal \cup {status[u]}
    /\ claimed[u] => claimed'[u] /\ (u \in Queued' => u \in Queued)

LEMMA TaskStep ==
    ASSUME IInv, [Next]_vars, NEW u \in Tasks
    PROVE  Kept(u)
<1>a. TypeOK /\ StartBound /\ Lifecycle(u) /\ Delivery(u)
  BY DEF IInv
<1> USE <1>a, LimitsAssumption DEF TypeOK, Tasks, Started, Reason, Terminal, IsRunning, IsTerminal, Background,
        procVars, stateVars, tableVars, queueVars, startVars, Queued, Kept
<1>1. CASE Quiet
  BY <1>1, QuietStep
<1>2. CASE UNCHANGED vars
  BY <1>2 DEF vars
<1>3. CASE BeginStart
  BY <1>3 DEF BeginStart
<1>4. CASE TakeNotifications
  BY <1>4 DEF TakeNotifications
<1>5. ASSUME NEW r \in {"foreground", "explicit"}, Spawn(r) PROVE Kept(u)
  <2>1. started \in Nat /\ status' = [status EXCEPT ![started + 1] = r]
        /\ notify' = [notify EXCEPT ![started + 1] = NotifyAtStart(r)]
        /\ claimed' = claimed /\ Queued' = Queued
    BY <1>5 DEF Spawn
  <2>2. CASE u = started + 1
    BY <2>1, <2>2 DEF Lifecycle
  <2>3. CASE u # started + 1
    BY <2>1, <2>3
  <2> QED BY <2>2, <2>3
<1>6. ASSUME NEW r \in UserReasons, BackgroundAllForeground(r) PROVE Kept(u)
  BY <1>6 DEF BackgroundAllForeground, Detach, InForeground
<1>7. ASSUME NEW t \in Tasks, DeadlineBackgrounds(t) PROVE Kept(u)
  BY <1>7 DEF DeadlineBackgrounds
<1>8. ASSUME NEW t \in Tasks, Commit(t) PROVE Kept(u)
  <2>1. IsRunning(t)
    BY <1>8 DEF Commit, IInv, Lifecycle
  <2> QED BY <1>8, <2>1 DEF Commit
<1>9. ASSUME NEW t \in Tasks, Announce(t) PROVE Kept(u)
  <2>1. UNCHANGED <<status, notify, claimed>>
    BY <1>9 DEF Announce
  <2>2. u \in Queued' => u \in Queued \/ ~claimed[u]
    BY <1>9 DEF Announce, Owed
  <2> QED BY <2>1, <2>2
<1>10. ASSUME NEW t \in Tasks, DropQueued(t) \/ MarkTaken(t) PROVE Kept(u)
  BY <1>10 DEF DropQueued, MarkTaken
<1>11. ASSUME NEW t \in Tasks, ToBackground(t, "yield") PROVE Kept(u)
  BY <1>11 DEF ToBackground, Detach, InForeground
<1>12. ASSUME NEW t \in Tasks, ClaimNotification(t) PROVE Kept(u)
  BY <1>12 DEF ClaimNotification
<1>13. ASSUME NEW t \in Tasks, Forget(t) PROVE Kept(u)
  BY <1>13 DEF Forget
<1> QED
  BY <1>1, <1>2, <1>3, <1>4, <1>5, <1>6, <1>7, <1>8, <1>9, <1>10, <1>11, <1>12, <1>13, StepKinds DEF Visible

\* A terminal status is final, whatever exit, deadline, stop and detach race.
THEOREM EndsAreFinal == Spec => TerminalIsFinal
<1>1. IInv /\ [Next]_vars =>
        [\A t \in Tasks : IsTerminal(t) => status'[t] = status[t] /\ notify'[t] = notify[t]]_vars
  BY TaskStep DEF Kept
<1> QED BY IInvariant, <1>1, PTL DEF Spec, TerminalIsFinal

\* A detached task keeps its first reason until it ends.
THEOREM DetachesStick == Spec => DetachSticks
<1>1. IInv /\ [Next]_vars =>
        [\A t \in Tasks : Background(t) => status'[t] \in Terminal \cup {status[t]}]_vars
  BY TaskStep DEF Kept
<1> QED BY IInvariant, <1>1, PTL DEF Spec, DetachSticks

\* A claimed completion stays claimed and is never queued again.
THEOREM ClaimsSilence == Spec => ClaimedStaysSilent
<1>1. IInv /\ [Next]_vars =>
        [\A t \in Tasks : claimed[t] => claimed'[t] /\ (t \in Queued' => t \in Queued)]_vars
  BY TaskStep DEF Kept
<1> QED BY IInvariant, <1>1, PTL DEF Spec, ClaimedStaysSilent

\* How a task ended, why it was detached and that its outcome was told are decided
\* once (complete, background, claim_notification).
THEOREM DecisionsStick == Spec => OutcomesStick
<1> QED BY EndsAreFinal, DetachesStick, ClaimsSilence DEF OutcomesStick

-----------------------------------------------------------------------------
(* The permits, the table and the tombstones.  A start has been admitted    *)
(* before its task is in the table, so what the checks of start found has   *)
(* to hold on until the insertion.                                          *)

PermitsOfRunning == permits = {t \in Started : IsRunning(t)}

\* There is room for the task of an admitted start.
RoomForAdmitted ==
    starting = "admitted" => Cardinality(Running) < MaxRunning /\ Cardinality(tracked) < MaxTracked

TombstonesOfStarted == \A i \in DOMAIN tombstones : tombstones[i].task \in Started

LimitsInv ==
    /\ IInv
    /\ LimitsHold
    /\ RoomForAdmitted
    /\ TombstonesOfStarted

\* A step that starts nothing and takes no permit.
OnlyReleases ==
    /\ started' = started /\ tracked' \subseteq tracked
    /\ others' \in Nat /\ others' <= others
    /\ starting' = "admitted" => starting = "admitted"
    /\ permits' \subseteq permits

LEMMA FiniteTables ==
    ASSUME TypeOK
    PROVE  /\ IsFiniteSet(Started) /\ IsFiniteSet(tracked) /\ IsFiniteSet(Running) /\ IsFiniteSet(permits)
           /\ Cardinality(tracked) \in Nat /\ Cardinality(Running) \in Nat /\ Cardinality(permits) \in Nat
<1>1. IsFiniteSet(Started)
  BY FS_Interval, LimitsAssumption DEF TypeOK, Started
<1>2. tracked \subseteq Started /\ Running \subseteq Started /\ permits \subseteq Started
  BY DEF TypeOK, Running
<1>3. IsFiniteSet(tracked) /\ IsFiniteSet(Running) /\ IsFiniteSet(permits)
  BY <1>1, <1>2, FS_Subset
<1> QED BY <1>1, <1>3, FS_CardinalityType

\* Every step either releases, or admits a start, spawns, or is another session's start.
LEMMA ReleaseStep ==
    ASSUME IInv, PermitsOfRunning, [Next]_vars,
           ~Admit, ~OtherSessionStarts, \A r \in {"foreground", "explicit"} : ~Spawn(r)
    PROVE  OnlyReleases /\ PermitsOfRunning'
<1>a. TypeOK /\ \A t \in Tasks : Lifecycle(t)
  BY DEF IInv
<1> USE <1>a, LimitsAssumption DEF TypeOK, Tasks, Started, Reason, Terminal, IsRunning,
        vars, procVars, stateVars, tableVars, queueVars, startVars, OnlyReleases, PermitsOfRunning
<1>1. CASE BeginStart
  BY <1>1 DEF BeginStart
<1>2. CASE SpawnFails
  BY <1>2 DEF SpawnFails
<1>3. ASSUME NEW t \in Tasks,
             ProcessExits(t) \/ ObserveExit(t) \/ ObserveCancel(t) \/ DeadlineKills(t)
      PROVE  OnlyReleases /\ PermitsOfRunning'
  BY <1>3 DEF ProcessExits, ObserveExit, ObserveCancel, DeadlineKills
<1>4. ASSUME NEW t \in Tasks, DeadlineBackgrounds(t) PROVE OnlyReleases /\ PermitsOfRunning'
  <2>1. \A u \in Tasks : IsRunning(u)' <=> IsRunning(u)
    BY <1>4 DEF DeadlineBackgrounds
  <2> QED BY <1>4, <2>1 DEF DeadlineBackgrounds
<1>5. ASSUME NEW t \in Tasks, Commit(t) PROVE OnlyReleases /\ PermitsOfRunning'
  <2>1. permits' = permits \ {t} /\ UNCHANGED <<started, tracked, others, starting>>
    BY <1>5 DEF Commit, ReturnPermit
  <2>2. status'[t] \in Terminal
    BY <1>5 DEF Commit
  <2>3. \A u \in Tasks \ {t} : status'[u] = status[u]
    BY <1>5 DEF Commit
  <2>4. \A u \in Tasks : IsRunning(u)' <=> IsRunning(u) /\ u # t
    BY <2>2, <2>3
  <2> QED BY <2>1, <2>4
<1>6. ASSUME NEW t \in Tasks,
             Announce(t) \/ EntombPruned(t) \/ EntombForgotten(t) \/ DropQueued(t) \/ MarkTaken(t)
      PROVE  OnlyReleases /\ PermitsOfRunning'
  <2>1. UNCHANGED <<started, tracked, status, permits, others, starting>>
    BY <1>6 DEF Announce, EntombPruned, EntombForgotten, DropQueued, MarkTaken
  <2> QED BY <2>1
<1>7. ASSUME NEW S \in SUBSET {t \in tracked : InForeground(t)}, NEW r \in Reason, Detach(S, r)
      PROVE  OnlyReleases /\ PermitsOfRunning'
  <2>1. \A u \in Tasks : IsRunning(u)' <=> IsRunning(u)
    BY <1>7 DEF Detach, InForeground
  <2> QED BY <1>7, <2>1 DEF Detach
<1>8. ASSUME NEW t \in Tasks,
             ClaimNotification(t) \/ Forget(t) \/ \E o \in Origin : Stop(t, o)
      PROVE  OnlyReleases /\ PermitsOfRunning'
  BY <1>8 DEF ClaimNotification, Forget, Stop
<1>9. CASE StopAllBackground \/ TakeNotifications \/ TerminateAll \/ KillAllNow
  BY <1>9 DEF StopAllBackground, TakeNotifications, TerminateAll, KillAllNow
<1>10. CASE OtherSessionFinishes
  BY <1>10 DEF OtherSessionFinishes
<1>11. CASE UNCHANGED vars
  BY <1>11
<1>12. ASSUME NEW t \in Tasks, ToBackground(t, "yield") PROVE OnlyReleases /\ PermitsOfRunning'
  <2>1. {t} \in SUBSET {u \in tracked : InForeground(u)} /\ Detach({t}, "yield")
    BY <1>12 DEF ToBackground
  <2> QED BY <1>7, <2>1
<1>13. ASSUME NEW r \in UserReasons, BackgroundAllForeground(r) PROVE OnlyReleases /\ PermitsOfRunning'
  <2>1. Detach({t \in tracked : InForeground(t)}, r) /\ r \in Reason
    BY <1>13 DEF BackgroundAllForeground
  <2> QED BY <1>7, <2>1
<1> QED
  BY <1>1, <1>2, <1>3, <1>4, <1>5, <1>6, <1>8, <1>9, <1>10, <1>11, <1>12, <1>13
     DEF Next, StartCall, Monitor, HalfDone, Caller, Session, Elsewhere

LEMMA PermitsStep ==
    ASSUME LimitsInv, [Next]_vars
    PROVE  PermitsConserved' /\ TableWithinLimits' /\ RoomForAdmitted'
<1>a. TypeOK /\ TypeOK' /\ PermitsOfRunning /\ PermitsInUse <= MaxGlobal
  BY TypeStep DEF LimitsInv, IInv, LimitsHold, PermitsConserved, PermitsOfRunning
<1>b. /\ Cardinality(Running) <= MaxRunning /\ Cardinality(tracked) <= MaxTracked
      /\ RoomForAdmitted /\ MaxGlobal \in Nat /\ MaxRunning \in Nat /\ MaxTracked \in Nat
      /\ others \in Nat /\ started \in Nat /\ IInv
  BY <1>a, LimitsAssumption DEF LimitsInv, LimitsHold, TableWithinLimits, TypeOK
<1>c. /\ IsFiniteSet(tracked) /\ IsFiniteSet(Running) /\ IsFiniteSet(permits)
      /\ Cardinality(tracked) \in Nat /\ Cardinality(Running) \in Nat /\ Cardinality(permits) \in Nat
  BY <1>a, FiniteTables
<1>1. ASSUME OnlyReleases, PermitsOfRunning'
      PROVE  PermitsConserved' /\ TableWithinLimits' /\ RoomForAdmitted'
  <2>1. Running' \subseteq Running
    BY <1>a, <1>1 DEF OnlyReleases, PermitsOfRunning, Running, TypeOK, Started, IsRunning
  <2>2. Cardinality(Running') <= Cardinality(Running) /\ Cardinality(Running') \in Nat
    BY <1>c, <2>1, FS_Subset, FS_CardinalityType
  <2>3. Cardinality(tracked') <= Cardinality(tracked) /\ Cardinality(tracked') \in Nat
    BY <1>c, <1>1, FS_Subset, FS_CardinalityType DEF OnlyReleases
  <2>4. Cardinality(permits') <= Cardinality(permits) /\ Cardinality(permits') \in Nat
    BY <1>c, <1>1, FS_Subset, FS_CardinalityType DEF OnlyReleases
  <2>5. PermitsInUse' <= MaxGlobal
    BY <1>a, <1>b, <1>c, <1>1, <2>4 DEF PermitsInUse, OnlyReleases
  <2>6. TableWithinLimits' /\ RoomForAdmitted'
    BY <1>b, <1>c, <1>1, <2>2, <2>3 DEF TableWithinLimits, RoomForAdmitted, OnlyReleases
  <2> QED BY <1>1, <2>5, <2>6 DEF PermitsConserved, PermitsOfRunning
<1>2. CASE Admit
  <2>1. UNCHANGED <<started, tracked, status, permits, others>> /\ starting = "pruning"
        /\ starting' = IF Admissible THEN "admitted" ELSE "idle"
    BY <1>2 DEF Admit, stateVars, tableVars
  <2>2. Running' = Running /\ PermitsOfRunning'
    BY <1>a, <2>1 DEF Running, IsRunning, PermitsOfRunning, Started
  <2>3. Running \subseteq {t \in tracked : ~IsTerminal(t)}
    BY DEF Running, IsRunning, IsTerminal, Reason, Terminal
  <2>4. IsFiniteSet({t \in tracked : ~IsTerminal(t)})
    BY <1>c, FS_Subset
  <2>5. Cardinality(Running) <= Cardinality({t \in tracked : ~IsTerminal(t)})
        /\ Cardinality({t \in tracked : ~IsTerminal(t)}) \in Nat
    BY <2>3, <2>4, FS_Subset, FS_CardinalityType
  <2>6. RoomForAdmitted'
    BY <1>b, <1>c, <2>1, <2>2, <2>5 DEF RoomForAdmitted, Admissible
  <2>7. PermitsInUse' <= MaxGlobal
    BY <1>a, <1>b, <1>c, <2>1 DEF PermitsInUse, Admissible
  <2> QED BY <1>b, <2>1, <2>2, <2>6, <2>7 DEF PermitsConserved, PermitsOfRunning, TableWithinLimits
<1>3. ASSUME NEW r \in {"foreground", "explicit"}, Spawn(r)
      PROVE  PermitsConserved' /\ TableWithinLimits' /\ RoomForAdmitted'
  <2> DEFINE n == started + 1
  <2>0. /\ starting = "admitted" /\ starting' = "idle" /\ others' = others /\ started' = n
        /\ tracked' = tracked \cup {n} /\ permits' = permits \cup {n}
        /\ status' = [status EXCEPT ![n] = r]
    BY <1>3 DEF Spawn
  <2>1. n \in Tasks /\ Started' = Started \cup {n} /\ n \notin Started
    <3>1. started < MaxTasks /\ MaxTasks \in Nat
      BY <1>b, <2>0, LimitsAssumption DEF StartBound, IInv
    <3> QED BY <1>b, <2>0, <3>1 DEF Tasks, Started
  <2> HIDE DEF n
  <2>2. n \notin tracked /\ n \notin permits /\ n \notin Running
    BY <1>a, <2>1 DEF TypeOK, Running
  <2>3. \A t \in Tasks : IsRunning(t)' <=> IsRunning(t) \/ t = n
    BY <1>a, <2>0, <2>1 DEF TypeOK, IsRunning, Reason
  <2>4. PermitsOfRunning' /\ Running' = Running \cup {n}
    <3>1. Started \subseteq Tasks /\ tracked \subseteq Tasks
      BY <1>a, LimitsAssumption DEF TypeOK, Started, Tasks
    <3> QED BY <1>a, <2>0, <2>1, <2>3, <3>1 DEF PermitsOfRunning, Running
  <2>5. Cardinality(tracked') = Cardinality(tracked) + 1 /\ Cardinality(permits') = Cardinality(permits) + 1
        /\ Cardinality(Running') = Cardinality(Running) + 1
    BY <1>c, <2>0, <2>2, <2>4, FS_AddElement
  <2>6. PermitsInUse' <= MaxGlobal
    BY <1>a, <1>b, <1>c, <2>0, <2>5 DEF PermitsInUse
  <2>7. TableWithinLimits'
    BY <1>b, <1>c, <2>0, <2>5 DEF TableWithinLimits, RoomForAdmitted
  <2> QED BY <2>0, <2>4, <2>6, <2>7 DEF PermitsConserved, PermitsOfRunning, RoomForAdmitted
<1>4. CASE OtherSessionStarts
  <2>1. UNCHANGED <<started, tracked, status, permits, starting>> /\ others' = others + 1
        /\ PermitsInUse < MaxGlobal
    BY <1>4 DEF OtherSessionStarts, stateVars, tableVars
  <2>2. Running' = Running /\ PermitsOfRunning'
    BY <1>a, <2>1 DEF Running, IsRunning, PermitsOfRunning, Started
  <2>3. PermitsInUse' <= MaxGlobal
    BY <1>a, <1>b, <1>c, <2>1 DEF PermitsInUse
  <2> QED BY <1>b, <2>1, <2>2, <2>3 DEF PermitsConserved, PermitsOfRunning, TableWithinLimits, RoomForAdmitted
<1> QED BY <1>a, <1>b, <1>1, <1>2, <1>3, <1>4, ReleaseStep

\* Taking out the entry of a task leaves the others, in their order.
LEMMA WithoutProperties ==
    ASSUME NEW s \in Seq(Tombstone), NEW t \in Tasks,
           \A i, j \in DOMAIN s : s[i].task = s[j].task => i = j
    PROVE  LET w == Without(s, t) IN
           /\ w \in Seq(Tombstone) /\ Len(w) <= Len(s)
           /\ \A i \in DOMAIN w : w[i].task # t /\ \E j \in DOMAIN s : w[i] = s[j]
           /\ \A i, j \in DOMAIN w : w[i].task = w[j].task => i = j
<1>1. CASE \E i \in DOMAIN s : s[i].task = t
  <2> DEFINE k == CHOOSE i \in DOMAIN s : s[i].task = t
  <2> DEFINE w == SubSeq(s, 1, k - 1) \o SubSeq(s, k + 1, Len(s))
  <2>1. k \in 1 .. Len(s) /\ s[k].task = t /\ Len(s) \in Nat
    BY <1>1, LenProperties
  <2>2. Without(s, t) = w
    BY <1>1 DEF Without
  <2> HIDE DEF k
  <2>3. \A i \in 1 .. Len(s) : s[i] \in Tombstone
    BY ElementOfSeq
  <2>4. /\ SubSeq(s, 1, k - 1) \in Seq(Tombstone) /\ Len(SubSeq(s, 1, k - 1)) = k - 1
        /\ \A i \in 1 .. k - 1 : SubSeq(s, 1, k - 1)[i] = s[i]
    BY <2>1, <2>3, SubSeqProperties
  <2>5. /\ SubSeq(s, k + 1, Len(s)) \in Seq(Tombstone) /\ Len(SubSeq(s, k + 1, Len(s))) = Len(s) - k
        /\ \A i \in 1 .. Len(s) - k : SubSeq(s, k + 1, Len(s))[i] = s[k + i]
    BY <2>1, <2>3, SubSeqProperties
  <2>6. /\ w \in Seq(Tombstone) /\ Len(w) = Len(s) - 1
        /\ \A i \in 1 .. Len(w) : w[i] = IF i < k THEN s[i] ELSE s[i + 1]
    <3> DEFINE a == SubSeq(s, 1, k - 1)
               b == SubSeq(s, k + 1, Len(s))
    <3>a. a \in Seq(Tombstone) /\ Len(a) = k - 1 /\ \A i \in 1 .. k - 1 : a[i] = s[i]
      BY <2>4
    <3>b. b \in Seq(Tombstone) /\ Len(b) = Len(s) - k /\ \A i \in 1 .. Len(s) - k : b[i] = s[k + i]
      BY <2>5
    <3>c. w = a \o b
      OBVIOUS
    <3> HIDE DEF a, b, w
    <3>2. /\ w \in Seq(Tombstone) /\ Len(w) = Len(s) - 1
          /\ \A i \in 1 .. Len(w) : w[i] = IF i <= Len(a) THEN a[i] ELSE b[i - Len(a)]
      <4>1. /\ w \in Seq(Tombstone) /\ Len(w) = Len(a) + Len(b)
            /\ \A i \in 1 .. Len(a) + Len(b) : w[i] = IF i <= Len(a) THEN a[i] ELSE b[i - Len(a)]
        BY <3>a, <3>b, <3>c, ConcatProperties
      <4>2. Len(a) + Len(b) = Len(s) - 1
        BY <2>1, <3>a, <3>b
      <4> QED BY <4>1, <4>2
    <3>3. ASSUME NEW i \in 1 .. Len(w) PROVE w[i] = IF i < k THEN s[i] ELSE s[i + 1]
      <4>1. CASE i < k
        BY <2>1, <3>a, <3>2, <4>1
      <4>2. CASE ~(i < k)
        <5>1. i - (k - 1) \in 1 .. Len(s) - k /\ k + (i - (k - 1)) = i + 1
          BY <2>1, <3>2, <4>2
        <5>2. w[i] = b[i - (k - 1)]
          BY <2>1, <3>a, <3>2, <4>2
        <5> QED BY <3>b, <4>2, <5>1, <5>2
      <4> QED BY <4>1, <4>2
    <3> QED BY <3>2, <3>3
  <2>7. DOMAIN w = 1 .. Len(s) - 1 /\ DOMAIN s = 1 .. Len(s)
    BY <2>6, LenProperties
  <2> HIDE DEF w
  <2>8. \A i \in DOMAIN w : LET o == IF i < k THEN i ELSE i + 1
                            IN  o \in DOMAIN s /\ o # k /\ w[i] = s[o]
    BY <2>1, <2>6, <2>7
  <2>9. \A i \in DOMAIN w : w[i].task # t /\ \E j \in DOMAIN s : w[i] = s[j]
    BY <2>1, <2>7, <2>8
  <2>10. \A i, j \in DOMAIN w : w[i].task = w[j].task => i = j
    BY <2>1, <2>7, <2>8
  <2> QED BY <2>1, <2>2, <2>6, <2>9, <2>10
<1>2. CASE ~ \E i \in DOMAIN s : s[i].task = t
  BY <1>2, LenProperties DEF Without
<1> QED BY <1>1, <1>2

LEMMA EntombedProperties ==
    ASSUME LimitsInv, NEW t \in Tasks, NEW b \in BOOLEAN, t \in Started \ tracked
    PROVE  LET e == Entombed(t, b) IN
           /\ Len(e) <= MaxTombstones
           /\ \A i \in DOMAIN e : e[i].task \in Started \ tracked
           /\ \A i, j \in DOMAIN e : e[i].task = e[j].task => i = j
<1> DEFINE r == [task |-> t, outcome |-> status[t], retained |-> b]
           w == Without(tombstones, t)
           s == Append(w, r)
<1>1. /\ tombstones \in Seq(Tombstone) /\ Len(tombstones) <= MaxTombstones
      /\ \A i \in DOMAIN tombstones : tombstones[i].task \in Started \ tracked
      /\ \A i, j \in DOMAIN tombstones : tombstones[i].task = tombstones[j].task => i = j
  BY DEF LimitsInv, LimitsHold, TombstonesOfReleased, TombstonesOfStarted, IInv, TypeOK
<1>2. r \in Tombstone /\ r.task = t
  BY DEF LimitsInv, IInv, TypeOK, Tombstone
<1>3. /\ w \in Seq(Tombstone) /\ Len(w) <= Len(tombstones)
      /\ \A i \in DOMAIN w : w[i].task # t /\ w[i].task \in Started \ tracked
      /\ \A i, j \in DOMAIN w : w[i].task = w[j].task => i = j
  BY <1>1, WithoutProperties
<1>4. Entombed(t, b) = IF Len(s) > MaxTombstones THEN Tail(s) ELSE s
  BY DEF Entombed
<1> HIDE DEF r, w
<1>5. /\ s \in Seq(Tombstone) /\ s # <<>> /\ Len(s) = Len(w) + 1 /\ s[Len(w) + 1] = r
      /\ \A i \in 1 .. Len(w) : s[i] = w[i]
  BY <1>2, <1>3, AppendProperties
<1>6. /\ DOMAIN w = 1 .. Len(w) /\ DOMAIN s = 1 .. Len(w) + 1
      /\ Len(w) \in Nat /\ Len(tombstones) \in Nat /\ MaxTombstones \in Nat
  BY <1>1, <1>3, <1>5, LenProperties, LimitsAssumption
<1> HIDE DEF s
<1>7. \A i \in DOMAIN s : s[i].task \in Started \ tracked
  BY <1>2, <1>3, <1>5, <1>6
<1>8. \A i, j \in DOMAIN s : s[i].task = s[j].task => i = j
  BY <1>2, <1>3, <1>5, <1>6
<1>9. /\ Len(Tail(s)) = Len(w) /\ DOMAIN Tail(s) = 1 .. Len(w)
      /\ \A i \in 1 .. Len(w) : Tail(s)[i] = s[i + 1]
  <2>1. Tail(s) \in Seq(Tombstone) /\ Len(Tail(s)) = Len(s) - 1
        /\ \A i \in 1 .. Len(Tail(s)) : Tail(s)[i] = s[i + 1]
    BY <1>5, HeadTailProperties
  <2> QED BY <1>5, <1>6, <2>1, LenProperties
<1>10. CASE Len(s) > MaxTombstones
  <2>1. Len(Tail(s)) <= MaxTombstones
    BY <1>1, <1>3, <1>6, <1>9
  <2>2. \A i \in DOMAIN Tail(s) : Tail(s)[i].task \in Started \ tracked
    BY <1>6, <1>7, <1>9
  <2>3. \A i, j \in DOMAIN Tail(s) : Tail(s)[i].task = Tail(s)[j].task => i = j
    <3> SUFFICES ASSUME NEW i \in 1 .. Len(w), NEW j \in 1 .. Len(w), s[i + 1].task = s[j + 1].task
                 PROVE  i = j
      BY <1>9
    <3>1. i + 1 \in DOMAIN s /\ j + 1 \in DOMAIN s
      BY <1>6
    <3>2. i + 1 = j + 1
      BY <1>8, <3>1
    <3> QED BY <3>2
  <2> QED BY <1>4, <1>10, <2>1, <2>2, <2>3
<1>11. CASE ~(Len(s) > MaxTombstones)
  BY <1>4, <1>5, <1>6, <1>7, <1>8, <1>11
<1> QED BY <1>10, <1>11

LEMMA TombstonesStep ==
    ASSUME LimitsInv, [Next]_vars
    PROVE  TombstonesOfReleased' /\ TombstonesOfStarted'
<1>a. /\ TypeOK /\ PermitsOfRunning /\ IInv /\ TombstonesOfReleased /\ TombstonesOfStarted
      /\ \A t \in Tasks : Lifecycle(t)
  BY DEF LimitsInv, IInv, LimitsHold, PermitsConserved, PermitsOfRunning
<1>1. ASSUME NEW t \in Tasks, NEW b \in BOOLEAN, reaping[t] # "no", tombstones' = Entombed(t, b),
             UNCHANGED <<started, tracked>>
      PROVE  TombstonesOfReleased' /\ TombstonesOfStarted'
  <2>1. t \in Started \ tracked
    BY <1>a, <1>1 DEF Lifecycle
  <2>2. Started' = Started
    BY <1>1 DEF Started
  <2> QED BY <1>1, <2>1, <2>2, EntombedProperties DEF TombstonesOfReleased, TombstonesOfStarted
<1>2. ASSUME tombstones' = tombstones, started' \in Nat, started <= started',
             tracked' \subseteq tracked \cup (Started' \ Started)
      PROVE  TombstonesOfReleased' /\ TombstonesOfStarted'
  <2>1. Started \subseteq Started'
    BY <1>a, <1>2 DEF Started, TypeOK
  <2> QED BY <1>a, <1>2, <2>1 DEF TombstonesOfReleased, TombstonesOfStarted
<1>3. ASSUME NEW t \in Tasks, EntombPruned(t) \/ EntombForgotten(t)
      PROVE  TombstonesOfReleased' /\ TombstonesOfStarted'
  BY <1>1, <1>3 DEF EntombPruned, EntombForgotten
<1>4. ASSUME NEW r \in {"foreground", "explicit"}, Spawn(r)
      PROVE  TombstonesOfReleased' /\ TombstonesOfStarted'
  <2>1. tombstones' = tombstones /\ started' = started + 1 /\ tracked' = tracked \cup {started + 1}
    BY <1>4 DEF Spawn
  <2>2. started \in Nat
    BY <1>a, LimitsAssumption DEF TypeOK
  <2>3. started + 1 \in Started' \ Started
    BY <2>1, <2>2 DEF Started
  <2> QED BY <1>2, <2>1, <2>2, <2>3
<1>5. ASSUME UNCHANGED started, tombstones' = tombstones, tracked' \subseteq tracked
      PROVE  TombstonesOfReleased' /\ TombstonesOfStarted'
  BY <1>a, <1>2, <1>5, LimitsAssumption DEF TypeOK
<1>6. CASE Admit \/ OtherSessionStarts \/ SpawnFails \/ BeginStart \/ UNCHANGED vars
  BY <1>5, <1>6 DEF Admit, OtherSessionStarts, SpawnFails, BeginStart, vars, tableVars
<1>7. CASE Session \/ Elsewhere
  BY <1>5, <1>7 DEF Session, Elsewhere, BackgroundAllForeground, Detach, StopAllBackground, TakeNotifications,
                    TerminateAll, KillAllNow, OtherSessionStarts, OtherSessionFinishes, tableVars
<1>8. ASSUME NEW t \in Tasks, ProcessExits(t) \/ Monitor(t)
      PROVE  TombstonesOfReleased' /\ TombstonesOfStarted'
  BY <1>5, <1>8 DEF ProcessExits, Monitor, ObserveExit, ObserveCancel, DeadlineKills, DeadlineBackgrounds,
                    Commit, Announce, tableVars
<1>9. ASSUME NEW t \in Tasks, DropQueued(t) \/ MarkTaken(t) \/ Caller(t)
      PROVE  TombstonesOfReleased' /\ TombstonesOfStarted'
  BY <1>5, <1>9 DEF DropQueued, MarkTaken, Caller, ToBackground, Detach, Stop, ClaimNotification, Forget, tableVars
<1> QED BY <1>3, <1>4, <1>6, <1>7, <1>8, <1>9 DEF Next, StartCall, HalfDone

\* A global permit is held exactly while its task runs, the table and the permits
\* stay within the limits that start checked under a lock it has let go of, and
\* only released tasks have a tombstone (start, complete, entomb).
THEOREM LimitsAreKept == Spec => []LimitsHold
<1>1. Init => LimitsInv
  <2> SUFFICES ASSUME Init PROVE LimitsInv
    OBVIOUS
  <2>1. Started = {} /\ tracked = {} /\ Running = {} /\ tombstones = <<>> /\ starting = "idle"
    BY DEF Init, Started, Running
  <2>2. Cardinality({}) = 0 /\ Len(<<>>) = 0 /\ DOMAIN <<>> = {}
    BY FS_EmptySet
  <2>3. PermitsConserved
    BY <2>1, <2>2, LimitsAssumption DEF Init, PermitsConserved, PermitsInUse
  <2>4. TableWithinLimits
    BY <2>1, <2>2, LimitsAssumption DEF TableWithinLimits
  <2>5. TombstonesOfReleased /\ TombstonesOfStarted /\ RoomForAdmitted
    BY <2>1, <2>2, LimitsAssumption DEF TombstonesOfReleased, TombstonesOfStarted, RoomForAdmitted
  <2> QED BY <2>3, <2>4, <2>5, InitIInv DEF LimitsInv, LimitsHold
<1>2. LimitsInv /\ [Next]_vars => LimitsInv'
  <2> SUFFICES ASSUME LimitsInv, [Next]_vars PROVE LimitsInv'
    OBVIOUS
  <2>1. IInv'
    BY TypeStep, LifecycleStep, DeliveryStep DEF IInv, Tasks, LimitsInv
  <2> QED BY <2>1, PermitsStep, TombstonesStep DEF LimitsInv, LimitsHold
<1>3. LimitsInv => LimitsHold
  BY DEF LimitsInv
<1> QED BY <1>1, <1>2, <1>3, PTL DEF Spec

-----------------------------------------------------------------------------
(* Shutdown.  A task that runs is in the table, where a shutdown finds it,  *)
(* or was asked to end before it was released; and terminate_all never      *)
(* falls into a start.                                                      *)

ReleasedAreAsked == \A t \in Tasks : IsRunning(t) => t \in tracked \/ requested[t]
ClosedBetweenStarts == closed = "terminated" => starting = "idle"

ShutdownInv == IInv /\ ReleasedAreAsked /\ ClosedBetweenStarts /\ ShutdownReachesAll

LEMMA ReleasedStep ==
    ASSUME ShutdownInv, Next
    PROVE  ReleasedAreAsked'
<1>a. TypeOK /\ ReleasedAreAsked /\ \A t \in Tasks : Lifecycle(t)
  BY DEF ShutdownInv, IInv
<1> SUFFICES ASSUME NEW u \in Tasks, IsRunning(u)'
             PROVE  (u \in tracked \/ requested[u])'
  BY DEF ReleasedAreAsked
<1> USE <1>a DEF TypeOK, ReleasedAreAsked, IsRunning, IsTerminal, Background, Reason, Terminal
<1>1. CASE StartCall
  <2>1. CASE BeginStart
    BY <2>1 DEF BeginStart, Prunable, stateVars
  <2>2. CASE Admit \/ SpawnFails
    BY <2>2 DEF Admit, SpawnFails, stateVars, tableVars
  <2>3. ASSUME NEW r \in {"foreground", "explicit"}, Spawn(r) PROVE (u \in tracked \/ requested[u])'
    BY <2>3 DEF Spawn
  <2> QED BY <1>1, <2>1, <2>2, <2>3 DEF StartCall
<1>2. CASE Session \/ Elsewhere
  <2>1. CASE \E r \in UserReasons : BackgroundAllForeground(r)
    BY <2>1 DEF BackgroundAllForeground, Detach, InForeground, tableVars
  <2>2. CASE StopAllBackground \/ TerminateAll \/ KillAllNow
    BY <2>2 DEF StopAllBackground, TerminateAll, KillAllNow, RequestKill, tableVars
  <2>3. CASE TakeNotifications \/ Elsewhere
    BY <2>3 DEF TakeNotifications, Elsewhere, OtherSessionStarts, OtherSessionFinishes, stateVars, tableVars
  <2> QED BY <1>2, <2>1, <2>2, <2>3 DEF Session
<1>3. ASSUME NEW t \in Tasks, ProcessExits(t) \/ Monitor(t) PROVE (u \in tracked \/ requested[u])'
  <2>1. CASE ProcessExits(t) \/ ObserveExit(t) \/ ObserveCancel(t) \/ DeadlineKills(t) \/ Announce(t)
    BY <2>1 DEF ProcessExits, ObserveExit, ObserveCancel, DeadlineKills, Announce, stateVars, tableVars
  <2>2. CASE DeadlineBackgrounds(t)
    BY <2>2 DEF DeadlineBackgrounds, tableVars
  <2>3. CASE Commit(t)
    <3>1. status'[u] = status[u] \/ u = t
      BY <2>3 DEF Commit
    <3>2. IsRunning(t)
      BY <2>3 DEF Commit, Lifecycle
    <3> QED BY <2>3, <3>1, <3>2 DEF Commit, tableVars
  <2> QED BY <1>3, <2>1, <2>2, <2>3 DEF Monitor
<1>4. ASSUME NEW t \in Tasks, HalfDone(t) \/ Caller(t) PROVE (u \in tracked \/ requested[u])'
  <2>1. CASE HalfDone(t)
    BY <2>1 DEF HalfDone, EntombPruned, EntombForgotten, DropQueued, MarkTaken, stateVars, tableVars
  <2>2. CASE ToBackground(t, "yield")
    BY <2>2 DEF ToBackground, Detach, InForeground, tableVars
  <2>3. CASE (\E o \in Origin : Stop(t, o)) \/ ClaimNotification(t)
    BY <2>3 DEF Stop, ClaimNotification, tableVars
  <2>4. CASE (IsTerminal(t) \/ requested[t]) /\ Forget(t)
    BY <2>4 DEF Forget, stateVars
  <2> QED BY <1>4, <2>1, <2>2, <2>3, <2>4 DEF Caller
<1> QED BY <1>1, <1>2, <1>3, <1>4 DEF Next

\* What no step but a start and a shutdown may do to the tasks nobody asked to end.
LEMMA UnaskedShrinks ==
    ASSUME ShutdownInv,
           Unasked' \subseteq Unasked, UNCHANGED <<closed, started>>, starting' \in {starting, "idle"}
    PROVE  (ClosedBetweenStarts /\ ShutdownReachesAll)'
BY DEF ShutdownInv, ClosedBetweenStarts, ShutdownReachesAll

LEMMA ShutdownStep ==
    ASSUME ShutdownInv, Next
    PROVE  (ClosedBetweenStarts /\ ShutdownReachesAll)'
<1>a. /\ TypeOK /\ ReleasedAreAsked /\ ClosedBetweenStarts /\ ShutdownReachesAll
      /\ \A t \in Tasks : Lifecycle(t)
  BY DEF ShutdownInv, IInv
<1>1. ASSUME \A u \in Tasks : (IsRunning(u) /\ ~requested[u])' => IsRunning(u) /\ ~requested[u]
      PROVE  Unasked' \subseteq Unasked
  BY <1>1 DEF Unasked
<1> USE <1>a DEF TypeOK, IsRunning, IsTerminal, Background, Reason, Terminal
<1>2. CASE StartCall
  <2>1. CASE BeginStart
    BY <2>1 DEF BeginStart, Accepting, ClosedBetweenStarts, ShutdownReachesAll, Unasked, stateVars
  <2>2. CASE Admit \/ SpawnFails
    <3>1. Unasked' \subseteq Unasked /\ UNCHANGED <<closed, started>> /\ starting' \in {"admitted", "idle"}
      BY <1>1, <2>2 DEF Admit, SpawnFails, stateVars, tableVars
    <3> QED BY <2>2, <3>1 DEF Admit, SpawnFails, ClosedBetweenStarts, ShutdownReachesAll
  <2>3. ASSUME NEW r \in {"foreground", "explicit"}, Spawn(r)
        PROVE  (ClosedBetweenStarts /\ ShutdownReachesAll)'
    <3>1. starting = "admitted" /\ starting' = "idle" /\ closed' = closed /\ started' = started + 1
      BY <2>3 DEF Spawn
    <3>2. closed # "terminated"
      BY <3>1 DEF ClosedBetweenStarts
    <3>3. Unasked' \subseteq Unasked \cup {started'}
      BY <2>3 DEF Spawn, Unasked
    <3> QED BY <3>1, <3>2, <3>3 DEF ClosedBetweenStarts, ShutdownReachesAll
  <2> QED BY <1>2, <2>1, <2>2, <2>3 DEF StartCall
<1>3. CASE TerminateAll \/ KillAllNow
  <2>1. Unasked' = {}
    BY <1>3 DEF TerminateAll, KillAllNow, RequestKill, Running, Unasked, ReleasedAreAsked
  <2> QED BY <1>3, <2>1 DEF TerminateAll, KillAllNow, ClosedBetweenStarts, ShutdownReachesAll
<1>4. CASE (\E r \in UserReasons : BackgroundAllForeground(r)) \/ StopAllBackground \/ TakeNotifications \/ Elsewhere
  <2>1. Unasked' \subseteq Unasked /\ UNCHANGED <<closed, started, starting>>
    BY <1>1, <1>4 DEF BackgroundAllForeground, Detach, InForeground, StopAllBackground, RequestKill, TakeNotifications,
                Elsewhere, OtherSessionStarts, OtherSessionFinishes, stateVars, tableVars, startVars
  <2> QED BY <2>1, UnaskedShrinks
<1>5. ASSUME NEW t \in Tasks, ProcessExits(t) \/ Monitor(t)
      PROVE  (ClosedBetweenStarts /\ ShutdownReachesAll)'
  <2>1. CASE ProcessExits(t) \/ ObserveExit(t) \/ ObserveCancel(t) \/ DeadlineKills(t) \/ Announce(t)
    <3>1. Unasked' \subseteq Unasked /\ UNCHANGED <<closed, started, starting>>
      BY <1>1, <2>1 DEF ProcessExits, ObserveExit, ObserveCancel, DeadlineKills, Announce, stateVars, tableVars, startVars
    <3> QED BY <3>1, UnaskedShrinks
  <2>2. CASE DeadlineBackgrounds(t)
    <3>1. Unasked' \subseteq Unasked /\ UNCHANGED <<closed, started, starting>>
      BY <1>1, <2>2 DEF DeadlineBackgrounds, tableVars, startVars
    <3> QED BY <3>1, UnaskedShrinks
  <2>3. CASE Commit(t)
    <3>1. UNCHANGED <<closed, started, starting, requested>> /\ \A u \in Tasks \ {t} : status'[u] = status[u]
      BY <2>3 DEF Commit, tableVars, startVars
    <3>2. IsRunning(t)
      BY <2>3 DEF Commit, Lifecycle
    <3>3. Unasked' \subseteq Unasked
      BY <1>1, <3>1, <3>2
    <3> QED BY <3>1, <3>3, UnaskedShrinks
  <2> QED BY <1>5, <2>1, <2>2, <2>3 DEF Monitor
<1>6. ASSUME NEW t \in Tasks, HalfDone(t) \/ Caller(t)
      PROVE  (ClosedBetweenStarts /\ ShutdownReachesAll)'
  <2>1. CASE HalfDone(t)
    <3>1. Unasked' \subseteq Unasked /\ UNCHANGED <<closed, started, starting>>
      BY <1>1, <2>1 DEF HalfDone, EntombPruned, EntombForgotten, DropQueued, MarkTaken, stateVars, tableVars, startVars
    <3> QED BY <3>1, UnaskedShrinks
  <2>2. CASE Caller(t)
    <3>1. Unasked' \subseteq Unasked /\ UNCHANGED <<closed, started, starting>>
      BY <1>1, <2>2 DEF Caller, ToBackground, Detach, InForeground, Stop, ClaimNotification, Forget,
                        stateVars, tableVars, startVars
    <3> QED BY <3>1, UnaskedShrinks
  <2> QED BY <1>6, <2>1, <2>2
<1> QED BY <1>2, <1>3, <1>4, <1>5, <1>6 DEF Next, Session

\* A shutdown reaches every task: after terminate_all no task lives on that nobody
\* asked to end, released or not; after kill_all_now at most the one whose start had
\* passed the closed check (start, terminate_all, kill_all_now, forget).
THEOREM ShutdownIsThorough == Spec => []ShutdownReachesAll
<1>1. Init => ShutdownInv
  <2> SUFFICES ASSUME Init PROVE ShutdownInv
    OBVIOUS
  <2>1. closed = "open" /\ \A t \in Tasks : ~IsRunning(t)
    BY DEF Init, IsRunning, Reason
  <2> QED BY <2>1, InitIInv DEF ShutdownInv, ReleasedAreAsked, ClosedBetweenStarts, ShutdownReachesAll
<1>2. ShutdownInv /\ [Next]_vars => ShutdownInv'
  <2> SUFFICES ASSUME ShutdownInv, [Next]_vars PROVE ShutdownInv'
    OBVIOUS
  <2>1. IInv'
    BY TypeStep, LifecycleStep, DeliveryStep DEF IInv, Tasks, ShutdownInv
  <2>2. CASE UNCHANGED vars
    <3>1. UNCHANGED <<tracked, requested, status, started, starting, closed>>
      BY <2>2 DEF vars, stateVars, tableVars, startVars
    <3>2. Unasked' = Unasked
      BY <3>1 DEF Unasked, IsRunning
    <3> QED BY <2>1, <3>1, <3>2 DEF ShutdownInv, ReleasedAreAsked, ClosedBetweenStarts, ShutdownReachesAll, IsRunning
  <2> QED BY <2>1, <2>2, ReleasedStep, ShutdownStep DEF ShutdownInv
<1>3. ShutdownInv => ShutdownReachesAll
  BY DEF ShutdownInv
<1> QED BY <1>1, <1>2, <1>3, PTL DEF Spec

-----------------------------------------------------------------------------
(* ProcessManager implements CompletionNotices, for any number of tasks and *)
(* any limits: every step of the manager is a step of the promise, or one   *)
(* that the session does not see.  The proof goes task by task: what a step *)
(* makes of the phase and of the notice of one task depends only on the     *)
(* table, the flags and the queue.                                          *)

\* Each phase, told by the table and the status alone.
PhasesAre ==
    \A t \in Tasks :
        /\ PhaseOf(t) = "new" <=> t \notin Started
        /\ PhaseOf(t) = "released" <=> t \in Started /\ t \notin tracked
        /\ PhaseOf(t) = "foreground" <=> t \in tracked /\ status[t] = "foreground"
        /\ PhaseOf(t) = "background" <=> t \in tracked /\ Background(t)
        /\ PhaseOf(t) = "ended" <=> t \in tracked /\ IsTerminal(t) /\ ~notify[t]
        /\ PhaseOf(t) = "owing" <=> t \in tracked /\ IsTerminal(t) /\ notify[t]

LEMMA Phases == IInv => PhasesAre
<1> SUFFICES ASSUME IInv, NEW t \in Tasks
             PROVE  /\ PhaseOf(t) = "new" <=> t \notin Started
                    /\ PhaseOf(t) = "released" <=> t \in Started /\ t \notin tracked
                    /\ PhaseOf(t) = "foreground" <=> t \in tracked /\ status[t] = "foreground"
                    /\ PhaseOf(t) = "background" <=> t \in tracked /\ Background(t)
                    /\ PhaseOf(t) = "ended" <=> t \in tracked /\ IsTerminal(t) /\ ~notify[t]
                    /\ PhaseOf(t) = "owing" <=> t \in tracked /\ IsTerminal(t) /\ notify[t]
  BY DEF PhasesAre
<1>1. TypeOK /\ Lifecycle(t)
  BY DEF IInv
<1>2. tracked \subseteq Started
  BY <1>1 DEF TypeOK
<1>3. t \in Started => IsRunning(t) \/ IsTerminal(t)
  <2>1. monitor[t] \in {"none", "select", "drain", "announce", "done"}
    BY <1>1 DEF TypeOK
  <2> QED BY <1>1, <2>1 DEF Lifecycle
<1> QED BY <1>2, <1>3 DEF PhaseOf, IsRunning, IsTerminal, Background, Reason, Terminal

LEMMA PhasesNext == IInv' => PhasesAre'
BY Phases, PTL

LEMMA Notices ==
    ASSUME NEW t \in Tasks
    PROVE  /\ NoticeOf(t) = "told" <=> t \in tracked /\ (claimed[t] \/ t \in taken)
           /\ NoticeOf(t) = "posted" <=> t \in tracked /\ ~claimed[t] /\ t \notin taken /\ t \in Queued
           /\ NoticeOf(t) = "none" <=> \/ t \notin tracked
                                       \/ ~claimed[t] /\ t \notin taken /\ t \notin Queued
BY DEF NoticeOf

-----------------------------------------------------------------------------
(* The promise, task by task.                                               *)

\* Tasks in S change to the phase p, the others keep theirs.
LEMMA PhasesChange ==
    ASSUME NEW S \in SUBSET Tasks, NEW p,
           \A t \in S : PhaseOf(t)' = p, \A t \in Tasks \ S : PhaseOf(t)' = PhaseOf(t)
    PROVE  absPhase' = [t \in Tasks |-> IF t \in S THEN p ELSE absPhase[t]]
BY DEF absPhase

LEMMA NoticesChange ==
    ASSUME NEW S \in SUBSET Tasks, NEW n,
           \A t \in S : NoticeOf(t)' = n, \A t \in Tasks \ S : NoticeOf(t)' = NoticeOf(t)
    PROVE  absNotice' = [t \in Tasks |-> IF t \in S THEN n ELSE absNotice[t]]
BY DEF absNotice

LEMMA PhasesStand ==
    ASSUME UNCHANGED <<started, tracked, status, notify>>
    PROVE  absPhase' = absPhase
BY DEF absPhase, PhaseOf, Started, Background, IsTerminal

LEMMA NoticesStand ==
    ASSUME UNCHANGED <<tracked, claimed, notifications, taken>>
    PROVE  absNotice' = absNotice
BY DEF absNotice, NoticeOf, Queued

-----------------------------------------------------------------------------
(* The steps of the promise.                                                *)

\* Tasks that leave the table are released.
LEMMA Releases ==
    ASSUME IInv, IInv', NEW S \in SUBSET tracked, tracked' = tracked \ S,
           UNCHANGED <<started, status, notify, claimed, notifications, taken>>
    PROVE  Promise!Release(S)
<1>1. tracked \subseteq Started /\ Started \subseteq Tasks /\ Started' = Started
  BY LimitsAssumption DEF IInv, TypeOK, Started, Tasks
<1>2. PhasesAre /\ PhasesAre'
  BY Phases, PhasesNext
<1>3. absPhase' = [t \in Tasks |-> IF t \in S THEN "released" ELSE absPhase[t]]
  <2>1. \A t \in S : PhaseOf(t)' = "released"
    BY <1>1, <1>2 DEF PhasesAre, Tasks
  <2>2. \A t \in Tasks \ S : PhaseOf(t)' = PhaseOf(t)
    BY <1>1 DEF PhaseOf, Background, IsTerminal
  <2> QED BY <1>1, <2>1, <2>2, PhasesChange
<1>4. absNotice' = [t \in Tasks |-> IF t \in S THEN "none" ELSE absNotice[t]]
  <2>1. \A t \in S : NoticeOf(t)' = "none"
    BY DEF NoticeOf
  <2>2. \A t \in Tasks \ S : NoticeOf(t)' = NoticeOf(t)
    BY DEF NoticeOf, Queued
  <2> QED BY <1>1, <2>1, <2>2, NoticesChange
<1>5. \A t \in S : absPhase[t] # "new"
  BY <1>1, <1>2 DEF PhasesAre, absPhase
<1> QED BY <1>3, <1>4, <1>5 DEF Promise!Release

\* Tasks in the foreground that get a reason are detached.
LEMMA Detaches ==
    ASSUME IInv, NEW S \in SUBSET tracked, NEW reason \in Reason, \A t \in S : status[t] = "foreground",
           status' = [t \in Tasks |-> IF t \in S THEN reason ELSE status[t]],
           notify' = [t \in Tasks |-> notify[t] \/ t \in S],
           UNCHANGED <<started, tracked, claimed, notifications, taken>>
    PROVE  Promise!Detach(S)
<1>1. tracked \subseteq Started /\ Started \subseteq Tasks /\ Started' = Started
  BY LimitsAssumption DEF IInv, TypeOK, Started, Tasks
<1>2. PhasesAre
  BY Phases
<1>3. absPhase' = [t \in Tasks |-> IF t \in S THEN "background" ELSE absPhase[t]]
  <2>1. \A t \in S : PhaseOf(t)' = "background"
    BY <1>1 DEF PhaseOf, Background, IsTerminal, Reason, Terminal
  <2>2. \A t \in Tasks \ S : PhaseOf(t)' = PhaseOf(t)
    <3> SUFFICES ASSUME NEW t \in Tasks \ S PROVE PhaseOf(t)' = PhaseOf(t)
      OBVIOUS
    <3>1. status'[t] = status[t] /\ notify'[t] = notify[t]
      BY DEF IInv, TypeOK
    <3> QED BY <1>1, <3>1 DEF PhaseOf, Background, IsTerminal
  <2> QED BY <1>1, <2>1, <2>2, PhasesChange
<1>4. \A t \in S : absPhase[t] = "foreground"
  BY <1>1, <1>2 DEF PhasesAre, absPhase
<1> QED BY <1>3, <1>4, NoticesStand DEF Promise!Detach

\* Tasks that are claimed or drained are told.
LEMMA Tells ==
    ASSUME IInv, NEW S \in SUBSET tracked, \A t \in S : IsTerminal(t),
           \A t \in S : claimed'[t] \/ t \in taken',
           \A t \in tracked \ S : NoticeOf(t)' = NoticeOf(t),
           UNCHANGED <<started, tracked, status, notify>>
    PROVE  Promise!Tell(S)
<1>1. tracked \subseteq Tasks
  BY LimitsAssumption DEF IInv, TypeOK, Started, Tasks
<1>2. PhasesAre
  BY Phases
<1>3. absNotice' = [t \in Tasks |-> IF t \in S THEN "told" ELSE absNotice[t]]
  <2>1. \A t \in S : NoticeOf(t)' = "told"
    BY DEF NoticeOf
  <2>2. \A t \in Tasks \ S : NoticeOf(t)' = NoticeOf(t)
    BY DEF NoticeOf
  <2> QED BY <1>1, <2>1, <2>2, NoticesChange
<1>4. \A t \in S : absPhase[t] \in {"ended", "owing"}
  BY <1>1, <1>2 DEF PhasesAre, absPhase
<1> QED BY <1>3, <1>4, PhasesStand DEF Promise!Tell

-----------------------------------------------------------------------------
(* Every step of the manager.                                               *)

LEMMA InitMaps == Init => Promise!Init
<1> SUFFICES ASSUME Init PROVE Promise!Init
  OBVIOUS
<1>1. Started = {} /\ tracked = {}
  BY DEF Init, Started
<1>2. \A t \in Tasks : PhaseOf(t) = "new" /\ NoticeOf(t) = "none"
  BY <1>1 DEF PhaseOf, NoticeOf
<1> QED BY <1>2 DEF Promise!Init, absPhase, absNotice

LEMMA SpawnMaps ==
    ASSUME IInv, NEW r \in {"foreground", "explicit"}, NEW t \in Tasks, t = started + 1, Spawn(r)
    PROVE  Promise!Launch(t)
<1>1. TypeOK /\ started \in Nat /\ Started' = Started \cup {t}
  <2>1. started \in Nat /\ started' = started + 1
    BY LimitsAssumption DEF IInv, TypeOK, Spawn
  <2> QED BY <2>1 DEF IInv, Started
<1>2. /\ tracked' = tracked \cup {t} /\ tracked \subseteq Started /\ t \notin Started
      /\ status' = [status EXCEPT ![t] = r] /\ \A u \in Tasks \ {t} : notify'[u] = notify[u]
      /\ UNCHANGED <<claimed, notifications, taken>>
  BY <1>1 DEF TypeOK, Spawn, Started, queueVars
<1>3. ~claimed[t] /\ t \notin taken /\ t \notin Queued
  BY <1>1, <1>2 DEF IInv, TypeOK, Lifecycle, Delivery
<1> DEFINE p == IF r = "foreground" THEN "foreground" ELSE "background"
<1>4. absPhase' = [absPhase EXCEPT ![t] = p]
  <2>1. PhaseOf(t)' = p
    <3>1. status'[t] = r /\ t \in tracked' /\ t \in Started'
      BY <1>1, <1>2 DEF TypeOK
    <3> QED BY <3>1 DEF PhaseOf, Background, IsTerminal, Reason, Terminal
  <2>2. \A u \in Tasks \ {t} : PhaseOf(u)' = PhaseOf(u)
    <3> SUFFICES ASSUME NEW u \in Tasks \ {t} PROVE PhaseOf(u)' = PhaseOf(u)
      OBVIOUS
    <3>1. status'[u] = status[u] /\ notify'[u] = notify[u]
      BY <1>1, <1>2 DEF TypeOK
    <3>2. (u \in tracked' <=> u \in tracked) /\ (u \in Started' <=> u \in Started)
      BY <1>1, <1>2
    <3> QED BY <3>1, <3>2 DEF PhaseOf, Background, IsTerminal
  <2> QED BY <2>1, <2>2 DEF absPhase
<1>5. absNotice' = absNotice
  <2>1. \A u \in Tasks : NoticeOf(u)' = NoticeOf(u)
    BY <1>1, <1>2, <1>3 DEF NoticeOf, Queued
  <2> QED BY <2>1 DEF absNotice
<1>6. absPhase[t] = "new"
  BY <1>1, <1>2, Phases DEF PhasesAre, absPhase
<1> QED BY <1>4, <1>5, <1>6 DEF Promise!Launch

LEMMA CommitMaps ==
    ASSUME IInv, NEW t \in Tasks, Commit(t)
    PROVE  Promise!End(t) \/ UNCHANGED <<absPhase, absNotice>>
<1>1. TypeOK /\ Lifecycle(t) /\ IsRunning(t)
  BY DEF IInv, Lifecycle, Commit
<1>2. /\ status'[t] \in Terminal /\ \A u \in Tasks \ {t} : status'[u] = status[u]
      /\ UNCHANGED <<started, tracked, notify, claimed, notifications, taken>>
  BY <1>1 DEF TypeOK, Commit, tableVars, queueVars, Terminal
<1>3. absNotice' = absNotice
  BY <1>2, NoticesStand
<1>4. \A u \in Tasks \ {t} : PhaseOf(u)' = PhaseOf(u)
  BY <1>2 DEF PhaseOf, Started, Background, IsTerminal
<1>5. tracked \subseteq Started
  BY <1>1 DEF TypeOK
<1>6. CASE t \notin tracked
  <2>1. PhaseOf(t)' = PhaseOf(t)
    BY <1>2, <1>6 DEF PhaseOf, Started
  <2> QED BY <1>3, <1>4, <2>1 DEF absPhase
<1>7. CASE t \in tracked
  <2> DEFINE p == IF notify[t] THEN "owing" ELSE "ended"
  <2>1. PhaseOf(t)' = p
    BY <1>2, <1>5, <1>7 DEF PhaseOf, Started, Background, IsTerminal, Reason, Terminal
  <2>2. absPhase' = [absPhase EXCEPT ![t] = p]
    BY <1>4, <2>1 DEF absPhase
  <2>3. \/ absPhase[t] = "foreground" /\ ~notify[t]
        \/ absPhase[t] = "background" /\ notify[t]
    BY <1>1, <1>7, Phases DEF Lifecycle, IsRunning, Background, PhasesAre, absPhase
  <2> QED BY <1>3, <2>2, <2>3 DEF Promise!End
<1> QED BY <1>6, <1>7

LEMMA AnnounceMaps ==
    ASSUME IInv, NEW t \in Tasks, Announce(t)
    PROVE  Promise!Post(t) \/ UNCHANGED <<absPhase, absNotice>>
<1>1. TypeOK /\ Lifecycle(t) /\ Delivery(t) /\ monitor[t] = "announce"
  BY DEF IInv, Announce
<1>2. UNCHANGED <<started, tracked, status, notify, claimed, taken>>
  BY DEF Announce, stateVars, tableVars
<1>3. absPhase' = absPhase
  BY <1>2, PhasesStand
<1>4. CASE ~Owed(t)
  <2>1. notifications' = notifications
    BY <1>4 DEF Announce
  <2> QED BY <1>2, <1>3, <2>1, NoticesStand
<1>5. CASE Owed(t)
  <2>1. Queued' = Queued \cup {t}
    <3> DEFINE e == [task |-> t, wakes |-> ~byUser[t]]
    <3>1. e.task = t /\ notifications' = notifications \cup {e}
      BY <1>5 DEF Announce
    <3> HIDE DEF e
    <3> QED BY <3>1 DEF Queued
  <2>2. \A u \in Tasks \ {t} : NoticeOf(u)' = NoticeOf(u)
    BY <1>2, <2>1 DEF NoticeOf
  <2>3. CASE t \notin tracked
    <3>1. NoticeOf(t)' = NoticeOf(t)
      BY <1>2, <2>3 DEF NoticeOf
    <3> QED BY <1>3, <2>2, <3>1 DEF absNotice
  <2>4. CASE t \in tracked
    <3>1. ~claimed[t] /\ notify[t] /\ t \notin taken /\ t \notin Queued /\ IsTerminal(t)
      BY <1>1, <1>5 DEF Owed, Delivery, Lifecycle
    <3>2. NoticeOf(t)' = "posted"
      BY <1>2, <2>1, <2>4, <3>1 DEF NoticeOf
    <3>3. absNotice' = [absNotice EXCEPT ![t] = "posted"]
      BY <2>2, <3>2 DEF absNotice
    <3>4. absPhase[t] = "owing" /\ absNotice[t] = "none"
      BY <2>4, <3>1, Phases, Notices DEF PhasesAre, absPhase, absNotice
    <3> QED BY <1>3, <3>3, <3>4 DEF Promise!Post
  <2> QED BY <2>3, <2>4
<1> QED BY <1>4, <1>5

LEMMA NextMaps == IInv /\ IInv' /\ [Next]_vars => [Promise!Next]_(Promise!vars)
<1> SUFFICES ASSUME IInv, IInv', [Next]_vars
             PROVE  Promise!Next \/ UNCHANGED <<absPhase, absNotice>>
  BY DEF Promise!vars
<1>a. tracked \subseteq Tasks /\ \A u \in Tasks : Lifecycle(u) /\ Delivery(u)
  BY LimitsAssumption DEF IInv, TypeOK, Started, Tasks
<1>b. TypeOK
  BY DEF IInv
<1>1. CASE Quiet
  BY <1>1, QuietStep, PhasesStand, NoticesStand
<1>2. CASE UNCHANGED vars
  BY <1>2, PhasesStand, NoticesStand DEF vars, stateVars, tableVars, queueVars
<1>3. CASE BeginStart
  <2>1. Prunable \subseteq tracked
    BY DEF Prunable
  <2>2. Promise!Release(Prunable)
    BY <1>3, <2>1, Releases DEF BeginStart, stateVars, queueVars
  <2> QED BY <1>a, <2>1, <2>2 DEF Promise!Next
<1>4. CASE TakeNotifications
  <2> DEFINE S == Queued \cap tracked
  <2>1. /\ taken' = taken \cup Queued /\ Queued' = {}
        /\ UNCHANGED <<started, tracked, status, notify, claimed>>
    BY <1>4 DEF TakeNotifications, Queued, stateVars, tableVars
  <2>2. \A u \in S : IsTerminal(u)
    BY <1>a DEF Lifecycle, Delivery
  <2>3. \A u \in tracked \ S : NoticeOf(u)' = NoticeOf(u)
    BY <2>1 DEF NoticeOf
  <2>4. Promise!Tell(S)
    BY <2>1, <2>2, <2>3, Tells
  <2> QED BY <1>a, <2>4 DEF Promise!Next
<1>5. ASSUME NEW r \in {"foreground", "explicit"}, Spawn(r) PROVE Promise!Next
  <2>1. started + 1 \in Tasks
    BY <1>5, <1>b, LimitsAssumption DEF IInv, TypeOK, StartBound, Spawn, Tasks
  <2>2. PICK t \in Tasks : t = started + 1
    BY <2>1
  <2> QED BY <1>5, <2>2, SpawnMaps DEF Promise!Next
<1>6. ASSUME NEW r \in UserReasons, BackgroundAllForeground(r) PROVE Promise!Next
  <2> DEFINE S == {t \in tracked : InForeground(t)}
  <2>1. Promise!Detach(S)
    BY <1>6, Detaches, LimitsAssumption
       DEF BackgroundAllForeground, Detach, InForeground, Reason, tableVars, queueVars
  <2> QED BY <1>a, <2>1 DEF Promise!Next
<1>7. ASSUME NEW t \in Tasks, ToBackground(t, "yield") PROVE Promise!Next
  <2>1. Promise!Detach({t})
    BY <1>7, Detaches DEF ToBackground, Detach, InForeground, Reason, tableVars, queueVars
  <2> QED BY <2>1 DEF Promise!Next
<1>8. ASSUME NEW t \in Tasks, DeadlineBackgrounds(t)
      PROVE  Promise!Next \/ UNCHANGED <<absPhase, absNotice>>
  <2>1. UNCHANGED <<started, tracked, claimed, notifications, taken>>
    BY <1>8 DEF DeadlineBackgrounds, tableVars, queueVars
  <2>2. CASE status[t] # "foreground"
    BY <1>8, <2>1, <2>2, PhasesStand, NoticesStand DEF DeadlineBackgrounds
  <2>3. CASE status[t] = "foreground" /\ t \in tracked
    <3>1. /\ status' = [u \in Tasks |-> IF u \in {t} THEN "timeout" ELSE status[u]]
          /\ notify' = [u \in Tasks |-> notify[u] \/ u \in {t}]
      <4>1. status' = [status EXCEPT ![t] = "timeout"] /\ notify' = [notify EXCEPT ![t] = TRUE]
        BY <1>8, <2>3 DEF DeadlineBackgrounds
      <4>2. status \in [Tasks -> Status] /\ notify \in [Tasks -> BOOLEAN]
        BY <1>b DEF TypeOK
      <4> QED BY <4>1, <4>2
    <3>2. Promise!Detach({t})
      BY <2>1, <2>3, <3>1, Detaches DEF Reason
    <3> QED BY <3>2 DEF Promise!Next
  <2>4. CASE t \notin tracked
    <3>1. \A u \in Tasks \ {t} : status'[u] = status[u] /\ notify'[u] = notify[u]
      BY <1>8, <1>b DEF DeadlineBackgrounds, TypeOK
    <3>2. \A u \in Tasks : PhaseOf(u)' = PhaseOf(u)
      BY <2>1, <2>4, <3>1 DEF PhaseOf, Started, Background, IsTerminal
    <3> QED BY <2>1, <3>2, NoticesStand DEF absPhase
  <2> QED BY <2>2, <2>3, <2>4
<1>9. ASSUME NEW t \in Tasks, Commit(t) PROVE Promise!Next \/ UNCHANGED <<absPhase, absNotice>>
  BY <1>9, CommitMaps DEF Promise!Next
<1>10. ASSUME NEW t \in Tasks, Announce(t) PROVE Promise!Next \/ UNCHANGED <<absPhase, absNotice>>
  BY <1>10, AnnounceMaps DEF Promise!Next
<1>11. ASSUME NEW t \in Tasks, DropQueued(t) PROVE UNCHANGED <<absPhase, absNotice>>
  <2>1. Queued' = Queued \ {t} /\ UNCHANGED <<started, tracked, status, notify, claimed, taken>>
    BY <1>11 DEF DropQueued, Queued, stateVars, tableVars
  <2>2. t \in tracked => claimed[t]
    BY <1>11, <1>a DEF DropQueued, Delivery
  <2>3. \A u \in Tasks : NoticeOf(u)' = NoticeOf(u)
    BY <2>1, <2>2 DEF NoticeOf
  <2> QED BY <2>1, <2>3, PhasesStand DEF absNotice
<1>12. ASSUME NEW t \in Tasks, MarkTaken(t) PROVE UNCHANGED <<absPhase, absNotice>>
  <2>1. /\ t \in taken /\ taken' = taken \ {t} /\ (t \in tracked => claimed'[t])
        /\ \A u \in Tasks \ {t} : claimed'[u] = claimed[u]
        /\ UNCHANGED <<started, tracked, status, notify, notifications>>
    BY <1>12, <1>b DEF MarkTaken, TypeOK, tableVars
  <2>2. \A u \in Tasks : NoticeOf(u)' = NoticeOf(u)
    BY <2>1 DEF NoticeOf, Queued
  <2> QED BY <2>1, <2>2, PhasesStand DEF absNotice
<1>13. ASSUME NEW t \in Tasks, IsTerminal(t), ClaimNotification(t)
       PROVE  Promise!Next \/ UNCHANGED <<absPhase, absNotice>>
  <2>1. UNCHANGED <<started, tracked, status, notify, notifications, taken>>
    BY <1>13 DEF ClaimNotification, tableVars
  <2>2. \A u \in Tasks \ {t} : claimed'[u] = claimed[u]
    BY <1>13, <1>b DEF ClaimNotification, TypeOK
  <2>3. CASE t \in tracked
    <3>1. \A u \in tracked \ {t} : NoticeOf(u)' = NoticeOf(u)
      BY <1>a, <2>1, <2>2 DEF NoticeOf, Queued
    <3>2. Promise!Tell({t})
      BY <1>13, <1>b, <2>1, <2>3, <3>1, Tells DEF ClaimNotification, TypeOK
    <3> QED BY <3>2 DEF Promise!Next
  <2>4. CASE t \notin tracked
    <3>1. \A u \in Tasks : NoticeOf(u)' = NoticeOf(u)
      BY <2>1, <2>2, <2>4 DEF NoticeOf, Queued
    <3> QED BY <2>1, <3>1, PhasesStand DEF absNotice
  <2> QED BY <2>3, <2>4
<1>14. ASSUME NEW t \in Tasks, Forget(t) PROVE Promise!Next
  <2>1. Promise!Release({t})
    BY <1>14, Releases DEF Forget, stateVars, queueVars
  <2> QED BY <2>1 DEF Promise!Next
<1> QED
  BY <1>1, <1>2, <1>3, <1>4, <1>5, <1>6, <1>7, <1>8, <1>9, <1>10, <1>11, <1>12, <1>13, <1>14,
     StepKinds DEF Visible

\* The manager keeps its promise: what ends in the background is noticed at most once,
\* after its end, and never after the session was told.
THEOREM PromiseIsKept == Spec => KeepsPromise
<1>1. Init => Promise!Init
  BY InitMaps
<1>2. IInv /\ IInv' /\ [Next]_vars => [Promise!Next]_(Promise!vars)
  BY NextMaps
<1> QED BY IInvariant, <1>1, <1>2, PTL DEF Spec, KeepsPromise, Promise!Spec

-----------------------------------------------------------------------------
(* The tools.                                                               *)

\* The steps of the manager that tools and users cause, but for Forget.
FilesGo == files' \subseteq files /\
    UNCHANGED <<procVars, stateVars, started, tracked, tombstones, reaping, queueVars, startVars>>
UserStep ==
    \/ \E t \in Tasks : \E o \in Origin : Stop(t, o)
    \/ \E r \in UserReasons : BackgroundAllForeground(r)
    \/ StopAllBackground \/ TakeNotifications
ManagerStep ==
    \/ StartCall
    \/ \E t \in Tasks : ProcessExits(t) \/ Monitor(t) \/ HalfDone(t) \/ ToBackground(t, "yield")
    \/ \E t \in Tasks : IsTerminal(t) /\ ClaimNotification(t)
    \/ UserStep
    \/ FilesGo
    \/ UNCHANGED vars

\* What no step takes from a task, and that only a new one can be in the foreground
\* that was not.
Stays(u) ==
    /\ u \in Started => u \in Started'
    /\ notify[u] => notify'[u]
    /\ claimed[u] => claimed'[u] /\ (u \in Queued' => u \in Queued)
    /\ requested[u] => requested'[u]
    /\ InForeground(u)' => InForeground(u) \/ u \notin Started

\* No step but Forget takes a task out of the table before its end is claimed.
Keeps(u) == u \in tracked => u \in tracked' \/ claimed[u]

\* A call knows its task from the spawn on, keeps it until it forgets it, and
\* hands it back only with the notice it is owed.
CallKnows(c) ==
    /\ bash[c].task \in Started \cup {0}
    /\ bash[c].pc \in {"idle", "checked", "starting", "spawning"} => bash[c].task = 0
    /\ bash[c].pc \in {"waiting", "yielding"} => bash[c].task \in Started
    /\ bash[c].answer = "background" =>
            bash[c].pc = "done" /\ bash[c].task \in Started /\ notify[bash[c].task]
    /\ bash[c].pc \in {"waiting", "yielding"} \/ bash[c].answer = "background" =>
            bash[c].task \in tracked \/ claimed[bash[c].task]

\* A query is about a task handed back, and claims its end before it reports it.
QueryKnows(q) ==
    /\ query[q].pc # "idle" => query[q].task \in HandedBack
    /\ query[q].pc = "claiming" => claimed[query[q].task]

\* No two calls have one task.
TasksApart == \A c, d \in BashCalls : bash[c].task = bash[d].task /\ bash[c].task # 0 => c = d

Places    == {"idle", "checked", "starting", "spawning", "waiting", "yielding", "formatting",
              "stopping", "releasing", "forgetting", "done"}
Answers   == {"none", "cancelled", "refused", "failed", "background", "ended"}
CallType  == [pc : Places, task : Nat, answer : Answers]
Stages    == {"idle", "registered", "watching", "rereading", "stopping", "claiming", "done"}
QueryType == [pc : Stages, task : Nat, seen : Nat]

ToolsInv ==
    /\ IInv
    /\ bash \in [BashCalls -> CallType] /\ query \in [Queries -> QueryType] /\ generation \in Nat
    /\ \A c \in BashCalls : CallKnows(c)
    /\ TasksApart
    /\ \A q \in Queries : QueryKnows(q)
    /\ answered \subseteq {t \in Tasks : claimed[t] /\ t \notin Queued}
    /\ ForegroundIsWatched

-----------------------------------------------------------------------------
(* The manager under the tools.                                             *)

LEMMA ManagerInNext == ManagerStep => [Next]_vars \/ FilesGo
BY DEF ManagerStep, UserStep, Next, Caller, Session

LEMMA ManagerKeeps ==
    ASSUME IInv, ManagerStep
    PROVE  IInv'
<1>1. CASE [Next]_vars
  BY <1>1, TypeStep, LifecycleStep, DeliveryStep DEF IInv, Tasks
<1>2. CASE FilesGo
  <2>1. UNCHANGED <<procVars, stateVars, started, tracked, tombstones, reaping, queueVars, startVars>>
        /\ files' \subseteq files
    BY <1>2 DEF FilesGo
  <2> USE <2>1 DEF procVars, stateVars, queueVars, startVars, IInv
  <2>2. TypeOK' /\ StartBound'
    BY DEF TypeOK, StartBound, Started
  <2>3. \A t \in Tasks : Lifecycle(t)'
    BY DEF Lifecycle, Started, IsRunning, IsTerminal, Background
  <2>4. \A t \in Tasks : Delivery(t)'
    BY DEF Delivery, Queued
  <2> QED BY <2>2, <2>3, <2>4
<1> QED BY <1>1, <1>2, ManagerInNext

LEMMA ForgetKeeps ==
    ASSUME IInv, NEW t \in Tasks, Forget(t)
    PROVE  IInv'
<1>1. /\ UNCHANGED <<procVars, stateVars, started, files, tombstones, queueVars, startVars>>
      /\ t \in tracked /\ tracked' = tracked \ {t} /\ reaping' = [reaping EXCEPT ![t] = "forgotten"]
  BY DEF Forget
<1> USE <1>1 DEF procVars, stateVars, queueVars, startVars, IInv
<1>2. TypeOK' /\ StartBound'
  BY DEF TypeOK, StartBound, Started
<1>3. ASSUME NEW u \in Tasks PROVE Lifecycle(u)'
  BY DEF TypeOK, Lifecycle, Started, IsRunning, IsTerminal, Background
<1>4. ASSUME NEW u \in Tasks PROVE Delivery(u)'
  BY DEF Delivery, Queued
<1> QED BY <1>2, <1>3, <1>4

LEMMA ManagerStays ==
    ASSUME IInv, ManagerStep, NEW u \in Tasks
    PROVE  Stays(u) /\ Keeps(u)
<1>a. TypeOK /\ StartBound /\ Lifecycle(u) /\ Delivery(u)
  BY DEF IInv
<1> USE <1>a, LimitsAssumption DEF TypeOK, Tasks, Started, Reason, InForeground,
        procVars, stateVars, tableVars, queueVars, startVars, Stays, Keeps
<1>1. claimed[u] => claimed'[u] /\ (u \in Queued' => u \in Queued)
  <2>1. CASE [Next]_vars
    BY <2>1, TaskStep DEF Kept
  <2>2. CASE FilesGo
    BY <2>2 DEF FilesGo, Queued
  <2> QED BY <2>1, <2>2, ManagerInNext
<1>2. CASE BeginStart
  BY <1>1, <1>2 DEF BeginStart, Prunable
<1>3. CASE Admit \/ SpawnFails \/ UNCHANGED vars
  BY <1>1, <1>3 DEF Admit, SpawnFails, vars
<1>4. ASSUME NEW r \in {"foreground", "explicit"}, Spawn(r) PROVE Stays(u) /\ Keeps(u)
  <2>0. started \in Nat
    BY <1>a
  <2>1. /\ started' = started + 1 /\ tracked' = tracked \cup {started + 1}
        /\ status' = [status EXCEPT ![started + 1] = r] /\ requested' = requested
        /\ notify' = [notify EXCEPT ![started + 1] = NotifyAtStart(r)]
    BY <1>4 DEF Spawn
  <2>2. u \in Started => u # started + 1 /\ u \in Started'
    BY <2>0, <2>1
  <2>3. CASE u \in Started
    BY <1>1, <2>1, <2>2, <2>3
  <2>4. CASE u \notin Started
    <3>1. ~notify[u] /\ u \notin tracked
      BY <2>4 DEF Lifecycle
    <3> QED BY <1>1, <2>1, <2>4, <3>1
  <2> QED BY <2>3, <2>4
<1>5. ASSUME NEW t \in Tasks,
             ProcessExits(t) \/ ObserveExit(t) \/ ObserveCancel(t) \/ DeadlineKills(t) \/ Announce(t)
      PROVE  Stays(u) /\ Keeps(u)
  <2>1. UNCHANGED <<started, tracked, status, requested, notify>>
    BY <1>5 DEF ProcessExits, ObserveExit, ObserveCancel, DeadlineKills, Announce
  <2> QED BY <1>1, <2>1
<1>6. ASSUME NEW t \in Tasks, DeadlineBackgrounds(t) PROVE Stays(u) /\ Keeps(u)
  <2>1. UNCHANGED <<started, tracked, requested>>
    BY <1>6 DEF DeadlineBackgrounds
  <2>2. \/ /\ status[t] = "foreground" /\ status' = [status EXCEPT ![t] = "timeout"]
           /\ notify' = [notify EXCEPT ![t] = TRUE]
        \/ UNCHANGED <<status, notify>>
    BY <1>6 DEF DeadlineBackgrounds
  <2>3. CASE UNCHANGED <<status, notify>>
    BY <1>1, <2>1, <2>3
  <2>4. CASE t = u /\ status[t] = "foreground" /\ status' = [status EXCEPT ![t] = "timeout"]
             /\ notify' = [notify EXCEPT ![t] = TRUE]
    BY <1>1, <2>1, <2>4
  <2>5. CASE t # u /\ status' = [status EXCEPT ![t] = "timeout"] /\ notify' = [notify EXCEPT ![t] = TRUE]
    <3>1. status'[u] = status[u] /\ notify'[u] = notify[u]
      BY <2>5
    <3> QED BY <1>1, <2>1, <3>1
  <2> QED BY <2>2, <2>3, <2>4, <2>5
<1>7. ASSUME NEW t \in Tasks, Commit(t) PROVE Stays(u) /\ Keeps(u)
  BY <1>1, <1>7 DEF Commit
<1>8. ASSUME NEW t \in Tasks, HalfDone(t) PROVE Stays(u) /\ Keeps(u)
  <2>1. UNCHANGED <<started, tracked, status, requested, notify>>
    BY <1>8 DEF HalfDone, EntombPruned, EntombForgotten, DropQueued, MarkTaken
  <2> QED BY <1>1, <2>1
<1>9. ASSUME NEW t \in Tasks, ToBackground(t, "yield") PROVE Stays(u) /\ Keeps(u)
  BY <1>1, <1>9 DEF ToBackground, Detach
<1>10. ASSUME NEW t \in Tasks, ClaimNotification(t) PROVE Stays(u) /\ Keeps(u)
  BY <1>1, <1>10 DEF ClaimNotification
<1>11. ASSUME NEW t \in Tasks, NEW o \in Origin, Stop(t, o) PROVE Stays(u) /\ Keeps(u)
  BY <1>1, <1>11 DEF Stop
<1>12. ASSUME NEW r \in UserReasons, BackgroundAllForeground(r) PROVE Stays(u) /\ Keeps(u)
  BY <1>1, <1>12 DEF BackgroundAllForeground, Detach
<1>13. CASE StopAllBackground \/ TakeNotifications
  BY <1>1, <1>13 DEF StopAllBackground, RequestKill, TakeNotifications
<1>14. CASE FilesGo
  BY <1>1, <1>14 DEF FilesGo
<1> QED
  BY <1>2, <1>3, <1>4, <1>5, <1>6, <1>7, <1>8, <1>9, <1>10, <1>11, <1>12, <1>13, <1>14
     DEF ManagerStep, UserStep, StartCall, Monitor

LEMMA ForgetStays ==
    ASSUME NEW t, Forget(t), NEW u
    PROVE  Stays(u) /\ (u # t => Keeps(u))
BY DEF Forget, Stays, Keeps, Started, stateVars, queueVars, Queued, InForeground

-----------------------------------------------------------------------------
(* What one step of one call, or of one query, does to the others.          *)

LEMMA CallStep ==
    ASSUME ToolsInv, IInv', NEW c \in BashCalls,
           bash' \in [BashCalls -> CallType], \A d \in BashCalls \ {c} : bash'[d] = bash[d],
           UNCHANGED queryOnly, bash[c].pc # "done",
           \A u \in Tasks : Stays(u),
           \A d \in BashCalls \ {c} : bash[d].task \in Tasks => Keeps(bash[d].task),
           CallKnows(c)', bash'[c].task = bash[c].task \/ bash'[c].task \notin Started,
           \A t \in Started' : InForeground(t)' =>
                \/ t \in Started /\ (t = bash[c].task => bash[c].pc \notin {"waiting", "yielding"})
                \/ requested'[t]
                \/ bash'[c].task = t /\ bash'[c].pc \in {"waiting", "yielding"}
    PROVE  ToolsInv'
<1>1. bash' \in [BashCalls -> CallType] /\ \A d \in BashCalls \ {c} : bash'[d] = bash[d]
  OBVIOUS
<1>2. 0 \notin Tasks /\ Started \subseteq Tasks /\ Started' \subseteq Tasks /\ tracked \subseteq Started
  BY LimitsAssumption DEF ToolsInv, IInv, TypeOK, Tasks, Started
<1>3. ASSUME NEW d \in BashCalls PROVE CallKnows(d)'
  <2>1. CASE d = c
    BY <2>1
  <2>2. CASE d # c
    <3>1. bash'[d] = bash[d] /\ CallKnows(d)
      BY <1>1, <2>2 DEF ToolsInv
    <3>2. CASE bash[d].task \in Started
      <4>1. bash[d].task \in Tasks /\ Stays(bash[d].task) /\ Keeps(bash[d].task)
        BY <1>2, <2>2, <3>2
      <4> QED BY <3>1, <3>2, <4>1 DEF CallKnows, Stays, Keeps
    <3>3. CASE bash[d].task \notin Started
      BY <3>1, <3>3 DEF CallKnows
    <3> QED BY <3>2, <3>3
  <2> QED BY <2>1, <2>2
<1>4. TasksApart'
  <2>1. \A d \in BashCalls : bash[d].task \in Started \cup {0}
    BY DEF ToolsInv, CallKnows
  <2> QED BY <1>1, <2>1 DEF ToolsInv, TasksApart
<1>5. HandedBack \subseteq HandedBack'
  <2> SUFFICES ASSUME NEW d \in BashCalls, bash[d].answer = "background"
               PROVE  bash[d].task \in HandedBack'
    BY DEF HandedBack, TaskOf
  <2>1. d # c
    BY DEF ToolsInv, CallKnows
  <2> QED BY <1>1, <2>1 DEF HandedBack, TaskOf
<1>6. ASSUME NEW q \in Queries PROVE QueryKnows(q)'
  <2>1. query' = query /\ QueryKnows(q)
    BY DEF ToolsInv, queryOnly
  <2>2. query[q].pc = "claiming" => query[q].task \in Tasks
    BY <1>2, <2>1 DEF QueryKnows, HandedBack, TaskOf, ToolsInv, CallKnows
  <2> QED BY <1>5, <2>1, <2>2 DEF QueryKnows, Stays
<1>7. answered' \subseteq {t \in Tasks : claimed'[t] /\ t \notin Queued'}
  BY DEF ToolsInv, queryOnly, Stays
<1>8. ForegroundIsWatched'
  <2> SUFFICES ASSUME NEW t \in Started', InForeground(t)', ~requested'[t]
               PROVE  \E d \in BashCalls : bash'[d].task = t /\ bash'[d].pc \in {"waiting", "yielding"}
    BY DEF ForegroundIsWatched, TaskOf
  <2>1. CASE bash'[c].task = t /\ bash'[c].pc \in {"waiting", "yielding"}
    BY <1>1, <2>1
  <2>2. CASE t \in Started /\ (t = bash[c].task => bash[c].pc \notin {"waiting", "yielding"})
    <3>1. InForeground(t) /\ ~requested[t]
      BY <1>2, <2>2 DEF Stays, InForeground
    <3>2. PICK d \in BashCalls : bash[d].task = t /\ bash[d].pc \in {"waiting", "yielding"}
      BY <2>2, <3>1 DEF ToolsInv, ForegroundIsWatched, TaskOf
    <3>3. d # c
      BY <2>2, <3>2
    <3> QED BY <1>1, <3>2, <3>3
  <2> QED BY <2>1, <2>2
<1> QED BY <1>1, <1>3, <1>4, <1>6, <1>7, <1>8 DEF ToolsInv, queryOnly

\* The calls stand still; a query may have moved.
LEMMA NoCallStep ==
    ASSUME ToolsInv, IInv', bash' = bash, started' = started, \A u \in Tasks : Stays(u) /\ Keeps(u)
    PROVE  /\ \A c \in BashCalls : CallKnows(c)'
           /\ TasksApart' /\ ForegroundIsWatched' /\ HandedBack' = HandedBack
<1>1. 0 \notin Tasks /\ Started \subseteq Tasks /\ Started' = Started
  BY LimitsAssumption DEF ToolsInv, IInv, TypeOK, Tasks, Started
<1>2. ASSUME NEW c \in BashCalls PROVE CallKnows(c)'
  <2>1. CallKnows(c)
    BY DEF ToolsInv
  <2>2. CASE bash[c].task \in Started
    <3>1. Stays(bash[c].task) /\ Keeps(bash[c].task)
      BY <1>1, <2>2
    <3> QED BY <2>1, <2>2, <3>1 DEF CallKnows, Stays, Keeps
  <2>3. CASE bash[c].task \notin Started
    BY <2>1, <2>3 DEF CallKnows
  <2> QED BY <2>2, <2>3
<1>3. ForegroundIsWatched'
  <2> SUFFICES ASSUME NEW t \in Started, InForeground(t)', ~requested'[t]
               PROVE  \E c \in BashCalls : bash[c].task = t /\ bash[c].pc \in {"waiting", "yielding"}
    BY <1>1 DEF ForegroundIsWatched, TaskOf
  <2>1. InForeground(t) /\ ~requested[t]
    BY <1>1 DEF Stays, InForeground
  <2> QED BY <2>1 DEF ToolsInv, ForegroundIsWatched, TaskOf
<1> QED BY <1>2, <1>3 DEF ToolsInv, TasksApart, HandedBack, TaskOf

LEMMA QueryStep ==
    ASSUME ToolsInv, IInv', bash' = bash, generation' = generation, started' = started,
           \A u \in Tasks : Stays(u) /\ Keeps(u),
           NEW q \in Queries, query' \in [Queries -> QueryType], \A p \in Queries \ {q} : query'[p] = query[p],
           query'[q].pc # "idle" => query'[q].task \in HandedBack, query'[q].pc = "claiming" => claimed'[query'[q].task],
           \A t \in answered' \ answered : t \in Tasks /\ claimed'[t] /\ t \notin Queued'
    PROVE  ToolsInv'
<1>1. query' \in [Queries -> QueryType] /\ \A p \in Queries \ {q} : query'[p] = query[p]
  OBVIOUS
<1>2. HandedBack \subseteq Tasks
  BY LimitsAssumption DEF HandedBack, TaskOf, ToolsInv, CallKnows, IInv, TypeOK, Started, Tasks
<1>3. ASSUME NEW p \in Queries PROVE QueryKnows(p)'
  <2>1. CASE p = q
    BY <1>1, <2>1, NoCallStep DEF QueryKnows
  <2>2. CASE p # q
    BY <1>1, <1>2, <2>2, NoCallStep DEF ToolsInv, QueryKnows, Stays
  <2> QED BY <2>1, <2>2
<1>4. answered' \subseteq {t \in Tasks : claimed'[t] /\ t \notin Queued'}
  BY DEF ToolsInv, Stays
<1> QED BY <1>1, <1>3, <1>4, NoCallStep DEF ToolsInv

LEMMA StillStep ==
    ASSUME ToolsInv, IInv', UNCHANGED <<bash, query, answered, started>>, generation' \in Nat,
           \A u \in Tasks : Stays(u) /\ Keeps(u)
    PROVE  ToolsInv'
<1>1. HandedBack \subseteq Tasks
  BY LimitsAssumption DEF HandedBack, TaskOf, ToolsInv, CallKnows, IInv, TypeOK, Started, Tasks
<1>2. ASSUME NEW q \in Queries PROVE QueryKnows(q)'
  BY <1>1, NoCallStep DEF ToolsInv, QueryKnows, Stays
<1>3. answered' \subseteq {t \in Tasks : claimed'[t] /\ t \notin Queued'}
  BY DEF ToolsInv, Stays
<1> QED BY <1>2, <1>3, NoCallStep DEF ToolsInv

-----------------------------------------------------------------------------
(* The steps of a bash call.                                                *)

\* What the manager's part of a call's step gives the other calls.
LEMMA StepOfManager ==
    ASSUME ToolsInv, ManagerStep
    PROVE  IInv' /\ \A u \in Tasks : Stays(u) /\ Keeps(u)
BY ManagerKeeps, ManagerStays DEF ToolsInv

\* A stop request is a step of the manager, and is made unless the task has ended.
LEMMA StopIsRequested ==
    ASSUME ToolsInv, NEW t \in Tasks, StopRequest(t)
    PROVE  ManagerStep /\ started' = started /\ (requested'[t] \/ ~InForeground(t)')
<1>1. CASE IsTerminal(t)
  BY <1>1 DEF StopRequest, ManagerStep, vars, stateVars, tableVars, InForeground, IsTerminal, Terminal
<1>2. CASE ~IsTerminal(t)
  <2>1. Stop(t, "model") /\ "model" \in Origin
    BY <1>2 DEF StopRequest, Origin
  <2>2. requested'[t] /\ started' = started
    BY <2>1 DEF Stop, tableVars, ToolsInv, IInv, TypeOK
  <2> QED BY <2>1, <2>2 DEF ManagerStep, UserStep
<1> QED BY <1>1, <1>2

\* Where a step leaves a call: at pc, with an answer, and with the task it had.
Moved(c, pc, answer) ==
    /\ bash' \in [BashCalls -> CallType] /\ \A d \in BashCalls \ {c} : bash'[d] = bash[d]
    /\ bash'[c].pc = pc /\ bash'[c].task = bash[c].task /\ bash'[c].answer = answer

LEMMA CallMoves ==
    ASSUME bash \in [BashCalls -> CallType], NEW c \in BashCalls, NEW pc \in Places, NEW answer \in Answers
    PROVE  /\ Go(c, pc) => Moved(c, pc, bash[c].answer)
           /\ Answer(c, answer) => Moved(c, "done", answer)
           /\ bash' = [bash EXCEPT ![c].pc = pc, ![c].answer = answer] => Moved(c, pc, answer)
<1> DEFINE x == [bash[c] EXCEPT !.pc = pc]
           y == [bash[c] EXCEPT !.pc = pc, !.answer = answer]
           z == [bash[c] EXCEPT !.pc = "done", !.answer = answer]
<1>1. bash[c] \in CallType
  OBVIOUS
<1>2. x \in CallType /\ x.pc = pc /\ x.task = bash[c].task /\ x.answer = bash[c].answer
  BY <1>1 DEF CallType
<1>3. y \in CallType /\ y.pc = pc /\ y.task = bash[c].task /\ y.answer = answer
  BY <1>1 DEF CallType
<1>4. z \in CallType /\ z.pc = "done" /\ z.task = bash[c].task /\ z.answer = answer
  BY <1>1 DEF CallType, Places
<1>5. Go(c, pc) => bash' = [bash EXCEPT ![c] = x]
  BY DEF Go
<1>6. Answer(c, answer) => bash' = [bash EXCEPT ![c] = z]
  BY DEF Answer
<1>7. bash' = [bash EXCEPT ![c].pc = pc, ![c].answer = answer] => bash' = [bash EXCEPT ![c] = y]
  OBVIOUS
<1> HIDE DEF x, y, z
<1> QED BY <1>2, <1>3, <1>4, <1>5, <1>6, <1>7 DEF Moved

LEMMA BashStarts ==
    ASSUME ToolsInv, NEW c \in BashCalls,
           BashCheck(c) \/ BashBegin(c) \/ BashAdmit(c) \/ BashSpawnFails(c)
    PROVE  ToolsInv'
<1>1. ManagerStep /\ started' = started /\ UNCHANGED queryOnly
  BY DEF BashCheck, BashBegin, BashAdmit, BashSpawnFails, ManagerStep, StartCall,
         BeginStart, Admit, SpawnFails, vars, tableVars
<1>2. bash[c].pc \in {"idle", "checked", "starting", "spawning"} /\ bash[c].answer # "background"
  BY DEF BashCheck, BashBegin, BashAdmit, BashSpawnFails, ToolsInv, CallKnows
<1>3. bash \in [BashCalls -> CallType] /\ bash[c].answer \in Answers
  BY DEF ToolsInv, CallType
<1>4. PICK pc \in {"checked", "starting", "spawning", "done"}, answer \in Answers \ {"background"} : Moved(c, pc, answer)
  <2>1. CASE BashCheck(c)
    BY <1>2, <1>3, <2>1, CallMoves DEF Places, Answers, BashCheck
  <2>2. CASE BashBegin(c)
    BY <1>2, <1>3, <2>2, CallMoves DEF Places, Answers, BashBegin
  <2>3. CASE BashAdmit(c)
    BY <1>2, <1>3, <2>3, CallMoves DEF Places, Answers, BashAdmit
  <2>4. CASE BashSpawnFails(c)
    BY <1>2, <1>3, <2>4, CallMoves DEF Places, Answers, BashSpawnFails
  <2> QED BY <2>1, <2>2, <2>3, <2>4
<1>5. CallKnows(c)'
  <2>1. CallKnows(c) /\ Started' = Started
    BY <1>1 DEF ToolsInv, Started
  <2> QED BY <1>2, <1>4, <2>1 DEF CallKnows, Moved
<1>6. \A t \in Started' : t \in Started
  BY <1>1 DEF Started
<1> QED BY <1>1, <1>2, <1>4, <1>5, <1>6, StepOfManager, CallStep DEF Moved

LEMMA BashSpawns ==
    ASSUME ToolsInv, NEW c \in BashCalls, BashSpawn(c)
    PROVE  ToolsInv'
<1> DEFINE r == IF c \in ExplicitCalls THEN "explicit" ELSE "foreground"
           n == started + 1
           x == [task |-> n, pc |-> IF c \in ExplicitCalls THEN "done" ELSE "waiting",
                 answer |-> IF c \in ExplicitCalls THEN "background" ELSE "none"]
<1>1. /\ Spawn(r) /\ r \in {"foreground", "explicit"} /\ bash[c].pc = "spawning" /\ UNCHANGED queryOnly
      /\ started' = n /\ tracked' = tracked \cup {n} /\ status' = [status EXCEPT ![n] = r]
      /\ notify' = [notify EXCEPT ![n] = r # "foreground"] /\ starting = "admitted"
      /\ bash' = [bash EXCEPT ![c] = x]
  BY DEF BashSpawn, Spawn, NotifyAtStart
<1>2. n \in Tasks /\ n \in Nat /\ n \notin Started /\ Started' = Started \cup {n} /\ n # 0
  <2>1. started \in Nat /\ started < MaxTasks /\ MaxTasks \in Nat
    BY <1>1, LimitsAssumption DEF ToolsInv, IInv, TypeOK, StartBound
  <2> QED BY <1>1, <2>1 DEF Tasks, Started
<1>3. /\ bash' \in [BashCalls -> CallType] /\ \A d \in BashCalls \ {c} : bash'[d] = bash[d]
      /\ bash'[c] = x
  <2>1. x \in CallType
    BY <1>2 DEF CallType, Places, Answers
  <2> QED BY <1>1, <2>1 DEF ToolsInv
<1>4. status'[n] = r /\ (c \in ExplicitCalls => notify'[n]) /\ n \in tracked'
  BY <1>1, <1>2 DEF ToolsInv, IInv, TypeOK
<1>5. ManagerStep
  BY <1>1 DEF ManagerStep, StartCall
<1>6. bash'[c].task = n /\ bash'[c].pc = (IF c \in ExplicitCalls THEN "done" ELSE "waiting")
      /\ bash'[c].answer = (IF c \in ExplicitCalls THEN "background" ELSE "none")
  BY <1>3
<1> HIDE DEF n, x
<1>7. CallKnows(c)'
  <2>1. n \in Started'
    BY <1>2
  <2> QED BY <1>4, <1>6, <2>1 DEF CallKnows
<1>8. \A t \in Started' : InForeground(t)' =>
           t \in Started \/ (bash'[c].task = t /\ bash'[c].pc \in {"waiting", "yielding"})
  BY <1>2, <1>4, <1>6 DEF InForeground
<1> QED BY <1>1, <1>2, <1>3, <1>5, <1>6, <1>7, <1>8, StepOfManager, CallStep

LEMMA BashWaits ==
    ASSUME ToolsInv, NEW c \in BashCalls,
           BashCancelled(c) \/ BashPolls(c) \/ BashYields(c) \/ BashYieldRefused(c)
    PROVE  ToolsInv'
<1>1. /\ bash[c].pc \in {"waiting", "yielding"} /\ UNCHANGED queryOnly /\ bash[c].answer # "background"
      /\ bash[c].task \in Started /\ bash[c].task \in Tasks
      /\ bash[c].task \in tracked \/ claimed[bash[c].task]
  BY LimitsAssumption
     DEF BashCancelled, BashPolls, BashYields, BashYieldRefused, ToolsInv, CallKnows, IInv, TypeOK, Started, Tasks
<1>2. bash \in [BashCalls -> CallType] /\ bash[c].answer \in Answers
  BY DEF ToolsInv, CallType
<1>3. PICK t \in Tasks : t = bash[c].task
  BY <1>1
\* Where the call may be afterwards; its task is then not left alone.
<1> DEFINE Left(pc, answer) ==
             /\ Moved(c, pc, answer) /\ pc \in {"stopping", "formatting", "yielding", "done"}
             /\ answer \in Answers
             /\ answer = "background" => pc = "done" /\ notify'[t]
             /\ requested'[t] \/ ~InForeground(t)' \/ pc = "yielding"
           Same == ManagerStep /\ started' = started
<1>4. Same /\ \E pc, answer : Left(pc, answer)
  <2>1. CASE BashCancelled(c)
    <3>1. StopRequest(t) /\ Moved(c, "stopping", bash[c].answer)
      BY <1>2, <1>3, <2>1, CallMoves DEF BashCancelled, TaskOf, Places
    <3>2. ManagerStep /\ started' = started /\ (requested'[t] \/ ~InForeground(t)')
      BY <3>1, StopIsRequested
    <3>3. Left("stopping", bash[c].answer)
      BY <1>1, <1>2, <3>1, <3>2
    <3> QED BY <3>2, <3>3
  <2>2. CASE BashPolls(c)
    <3>1. UNCHANGED vars
      BY <2>2 DEF BashPolls
    <3>2. started' = started /\ status' = status /\ notify' = notify
      BY <3>1 DEF vars, tableVars, stateVars
    <3>3. Same
      BY <3>1, <3>2 DEF ManagerStep
    <3>4. CASE IsTerminal(t) /\ Go(c, "formatting")
      <4>1. ~InForeground(t)'
        BY <3>2, <3>4 DEF InForeground, IsTerminal, Terminal
      <4>2. Moved(c, "formatting", bash[c].answer)
        BY <1>2, <3>4, CallMoves DEF Places
      <4>3. Left("formatting", bash[c].answer)
        BY <1>1, <1>2, <4>1, <4>2
      <4> QED BY <3>3, <4>3
    <3>5. CASE Background(t) /\ Answer(c, "background")
      <4>1. ~InForeground(t)'
        BY <3>2, <3>5 DEF InForeground, Background, Reason
      <4>2. Moved(c, "done", "background")
        BY <1>2, <3>5, CallMoves DEF Places, Answers
      <4>3. notify'[t]
        BY <3>2, <3>5 DEF ToolsInv, IInv, Lifecycle
      <4>4. Left("done", "background")
        BY <4>1, <4>2, <4>3 DEF Answers
      <4> QED BY <3>3, <4>4
    <3>6. CASE InForeground(t) /\ Go(c, "yielding")
      <4>1. Moved(c, "yielding", bash[c].answer)
        BY <1>2, <3>6, CallMoves DEF Places
      <4>2. Left("yielding", bash[c].answer)
        BY <1>1, <1>2, <4>1
      <4> QED BY <3>3, <4>2
    <3> QED BY <1>3, <2>2, <3>4, <3>5, <3>6 DEF BashPolls, TaskOf
  <2>3. CASE BashYields(c)
    <3>1. ToBackground(t, "yield") /\ Moved(c, "done", "background")
      BY <1>2, <1>3, <2>3, CallMoves DEF BashYields, TaskOf, Places, Answers
    <3>2. started' = started /\ notify'[t] /\ ~InForeground(t)'
      BY <3>1 DEF ToBackground, Detach, InForeground, tableVars
    <3>3. ManagerStep
      BY <3>1 DEF ManagerStep
    <3>4. Left("done", "background")
      BY <3>1, <3>2 DEF Answers
    <3> QED BY <3>2, <3>3, <3>4
  <2>4. CASE BashYieldRefused(c)
    <3>1. UNCHANGED vars /\ ~InForeground(t) /\ Moved(c, "formatting", bash[c].answer)
      BY <1>2, <1>3, <2>4, CallMoves DEF BashYieldRefused, TaskOf, Places
    <3>2. started' = started /\ ~InForeground(t)'
      BY <3>1 DEF vars, tableVars, stateVars, InForeground
    <3>3. ManagerStep
      BY <3>1 DEF ManagerStep
    <3>4. Left("formatting", bash[c].answer)
      BY <1>1, <1>2, <3>1, <3>2
    <3> QED BY <3>2, <3>3, <3>4
  <2> QED BY <2>1, <2>2, <2>3, <2>4
<1>5. PICK pc, answer : Left(pc, answer)
  BY <1>4
<1>6. IInv' /\ (\A u \in Tasks : Stays(u) /\ Keeps(u)) /\ Started' = Started
  BY <1>4, StepOfManager DEF Started
<1>7. t \in tracked' \/ claimed'[t]
  BY <1>1, <1>3, <1>6 DEF Keeps, Stays
<1>8. bash'[c].task = t /\ bash'[c].pc = pc /\ bash'[c].answer = answer
  BY <1>3, <1>5 DEF Moved
<1>9. CallKnows(c)'
  BY <1>1, <1>3, <1>5, <1>6, <1>7, <1>8 DEF CallKnows
<1>10. \A u \in Started' : InForeground(u)' =>
            \/ u \in Started /\ (u = bash[c].task => bash[c].pc \notin {"waiting", "yielding"})
            \/ requested'[u]
            \/ bash'[c].task = u /\ bash'[c].pc \in {"waiting", "yielding"}
  BY <1>3, <1>5, <1>6, <1>8
<1>11. /\ bash[c].pc # "done" /\ bash'[c].task = bash[c].task
       /\ bash' \in [BashCalls -> CallType] /\ \A d \in BashCalls \ {c} : bash'[d] = bash[d]
  BY <1>1, <1>3, <1>5, <1>8 DEF Moved
<1> HIDE DEF Left
<1> QED BY <1>1, <1>6, <1>9, <1>10, <1>11, CallStep

LEMMA BashEnds ==
    ASSUME ToolsInv, NEW c \in BashCalls,
           BashStopReturns(c) \/ BashFormats(c) \/ BashForgets(c) \/ BashReturns(c)
    PROVE  ToolsInv'
<1>1. /\ bash[c].pc \in {"stopping", "formatting", "releasing", "forgetting"}
      /\ bash[c].answer # "background" /\ UNCHANGED queryOnly /\ started' = started
  BY DEF BashStopReturns, BashFormats, BashForgets, BashReturns, ToolsInv, CallKnows, Forget, vars, tableVars
<1>2. bash \in [BashCalls -> CallType] /\ bash[c].answer \in Answers
  BY DEF ToolsInv, CallType
<1>3. PICK pc \in {"releasing", "forgetting", "done"}, answer \in Answers \ {"background"} : Moved(c, pc, answer)
  <2>1. CASE BashStopReturns(c) \/ BashFormats(c)
    BY <1>2, <2>1, CallMoves DEF Places, Answers, BashStopReturns, BashFormats
  <2>2. CASE BashForgets(c)
    BY <1>1, <1>2, <2>2, CallMoves DEF Places, Answers, BashForgets
  <2>3. CASE BashReturns(c)
    BY <1>1, <1>2, <2>3, CallMoves DEF Places, Answers, BashReturns
  <2> QED BY <2>1, <2>2, <2>3
<1>4. Started' = Started
  BY <1>1 DEF Started
<1>5. CallKnows(c)'
  BY <1>1, <1>3, <1>4 DEF ToolsInv, CallKnows, Moved
<1>6. bash' \in [BashCalls -> CallType] /\ bash'[c].task = bash[c].task
      /\ \A d \in BashCalls \ {c} : bash'[d] = bash[d]
  BY <1>3 DEF Moved
<1>7. CASE ~BashForgets(c)
  <2>1. CASE BashReturns(c)
    BY <1>1, <1>4, <1>5, <1>6, <2>1, StepOfManager, CallStep DEF BashReturns, ManagerStep
  <2>2. CASE BashStopReturns(c) \/ BashFormats(c)
    <3>1. FilesGo
      BY <2>2 DEF BashStopReturns, BashFormats, FilesGo
    <3> QED BY <1>1, <1>4, <1>5, <1>6, <3>1, StepOfManager, CallStep DEF ManagerStep, Places
  <2> QED BY <1>7, <2>1, <2>2
<1>8. CASE BashForgets(c)
  <2>1. PICK t : t = bash[c].task /\ Forget(t)
    BY <1>8 DEF BashForgets, TaskOf
  <2>2. t \in Tasks /\ t # 0
    BY <2>1, LimitsAssumption DEF Forget, ToolsInv, IInv, TypeOK, Started, Tasks
  <2>3. IInv' /\ \A u \in Tasks : Stays(u) /\ (u # t => Keeps(u))
    BY <2>1, <2>2, ForgetKeeps, ForgetStays DEF ToolsInv
  <2>4. \A d \in BashCalls \ {c} : bash[d].task # t
    BY <2>1, <2>2 DEF ToolsInv, TasksApart
  <2> QED BY <1>1, <1>4, <1>5, <1>6, <2>1, <2>3, <2>4, CallStep
<1> QED BY <1>7, <1>8

-----------------------------------------------------------------------------
(* The steps of a query.                                                    *)

Asks(q, pc, t) ==
    /\ query' \in [Queries -> QueryType] /\ \A p \in Queries \ {q} : query'[p] = query[p]
    /\ query'[q].pc = pc /\ query'[q].task = t

LEMMA QueryMoves ==
    ASSUME query \in [Queries -> QueryType], generation \in Nat,
           NEW q \in Queries, NEW pc \in Stages, NEW t \in Nat
    PROVE  /\ Await(q, pc) => Asks(q, pc, query[q].task)
           /\ query' = [query EXCEPT ![q].pc = pc, ![q].seen = generation] => Asks(q, pc, query[q].task)
           /\ query' = [query EXCEPT ![q].pc = pc, ![q].task = t] => Asks(q, pc, t)
<1> DEFINE x == [query[q] EXCEPT !.pc = pc]
           y == [query[q] EXCEPT !.pc = pc, !.seen = generation]
           z == [query[q] EXCEPT !.pc = pc, !.task = t]
<1>1. query[q] \in QueryType
  OBVIOUS
<1>2. x \in QueryType /\ x.pc = pc /\ x.task = query[q].task
  BY <1>1 DEF QueryType
<1>3. y \in QueryType /\ y.pc = pc /\ y.task = query[q].task
  BY <1>1 DEF QueryType
<1>4. z \in QueryType /\ z.pc = pc /\ z.task = t
  BY <1>1 DEF QueryType
<1>5. Await(q, pc) => query' = [query EXCEPT ![q] = x]
  BY DEF Await
<1>6. query' = [query EXCEPT ![q].pc = pc, ![q].seen = generation] => query' = [query EXCEPT ![q] = y]
  OBVIOUS
<1>7. query' = [query EXCEPT ![q].pc = pc, ![q].task = t] => query' = [query EXCEPT ![q] = z]
  OBVIOUS
<1> HIDE DEF x, y, z
<1> QED BY <1>2, <1>3, <1>4, <1>5, <1>6, <1>7 DEF Asks

\* A task that was handed back is there to be asked about, or its end is claimed.
LEMMA HandedBackIsKnown ==
    ASSUME ToolsInv, NEW t \in HandedBack
    PROVE  t \in Tasks /\ t \in Nat /\ (t \in tracked \/ claimed[t])
<1>1. PICK c \in BashCalls : bash[c].answer = "background" /\ t = bash[c].task
  BY DEF HandedBack, TaskOf
<1>2. CallKnows(c) /\ t \in Started /\ Started \subseteq Tasks
  BY <1>1, LimitsAssumption DEF ToolsInv, IInv, TypeOK, CallKnows, Started, Tasks
<1> QED BY <1>1, <1>2 DEF CallKnows, Tasks

\* A query that claims: its task has ended and was handed back.
LEMMA QueryClaims ==
    ASSUME ToolsInv, NEW q \in Queries, NEW t \in HandedBack, query[q].task = t, IsTerminal(t),
           ClaimNotification(t), Await(q, "claiming"), UNCHANGED <<bash, turnCancelled, generation, answered>>
    PROVE  ToolsInv'
<1>1. t \in Tasks /\ (t \in tracked \/ claimed[t])
  BY HandedBackIsKnown
<1>2. Asks(q, "claiming", t)
  BY QueryMoves DEF ToolsInv, Stages, QueryType
<1>3. ManagerStep
  BY <1>1 DEF ManagerStep
<1>4. started' = started /\ claimed'[t]
  BY <1>1 DEF ClaimNotification, tableVars, ToolsInv, IInv, TypeOK
<1> QED BY <1>2, <1>3, <1>4, StepOfManager, QueryStep DEF Asks

LEMMA QueryWaits ==
    ASSUME ToolsInv, NEW q \in Queries, NEW t \in HandedBack, NEW pc \in Stages \ {"claiming"},
           Asks(q, pc, t), ManagerStep, started' = started,
           UNCHANGED <<bash, turnCancelled, generation, answered>>
    PROVE  ToolsInv'
BY StepOfManager, QueryStep DEF Asks

LEMMA QuerySteps ==
    ASSUME ToolsInv, NEW q \in Queries, Query(q)
    PROVE  ToolsInv'
<1>1. query \in [Queries -> QueryType] /\ generation \in Nat /\ query[q].task \in Nat
  BY DEF ToolsInv, QueryType
<1>2. UNCHANGED vars => ManagerStep /\ started' = started
  BY DEF vars, tableVars, ManagerStep
<1>3. query[q].pc # "idle" => query[q].task \in HandedBack
  BY DEF ToolsInv, QueryKnows
<1>4. ASSUME NEW t \in Tasks, WatchRegisters(q, t) PROVE ToolsInv'
  <2>1. t \in HandedBack /\ t \in Nat /\ Asks(q, "registered", t)
    BY <1>1, <1>4, HandedBackIsKnown, QueryMoves DEF WatchRegisters, Stages
  <2> QED BY <1>2, <1>4, <2>1, QueryWaits DEF WatchRegisters, Stages
<1>5. ASSUME NEW t \in Tasks, StopCalled(q, t) PROVE ToolsInv'
  <2>1. t \in HandedBack /\ t \in Nat /\ Asks(q, "stopping", t)
    BY <1>1, <1>5, HandedBackIsKnown, QueryMoves DEF StopCalled, Stages
  <2>2. ManagerStep /\ started' = started
    BY <1>5, StopIsRequested DEF StopCalled
  <2> QED BY <1>5, <2>1, <2>2, QueryWaits DEF StopCalled, Stages
<1>6. CASE WatchCaptures(q)
  <2>1. Asks(q, "watching", query[q].task)
    BY <1>1, <1>6, QueryMoves DEF WatchCaptures, Stages
  <2> QED BY <1>2, <1>3, <1>6, <2>1, QueryWaits DEF WatchCaptures, Stages
<1>7. CASE WatchGivesUp(q)
  <2>1. Asks(q, "done", query[q].task)
    BY <1>1, <1>7, QueryMoves DEF WatchGivesUp, Stages
  <2> QED BY <1>2, <1>3, <1>7, <2>1, QueryWaits DEF WatchGivesUp, Stages
<1>8. CASE WatchStalls(q)
  <2>1. Asks(q, "rereading", query[q].task)
    BY <1>1, <1>8, QueryMoves DEF WatchStalls, Stages
  <2> QED BY <1>2, <1>3, <1>8, <2>1, QueryWaits DEF WatchStalls, Stages
<1>9. CASE WatchRereads(q)
  <2>1. CASE IsTerminal(query[q].task)
    BY <1>3, <1>9, <2>1, QueryClaims DEF WatchRereads
  <2>2. CASE ~IsTerminal(query[q].task)
    <3>1. Asks(q, "done", query[q].task)
      BY <1>1, <1>9, <2>2, QueryMoves DEF WatchRereads, Stages
    <3> QED BY <1>2, <1>3, <1>9, <2>2, <3>1, QueryWaits DEF WatchRereads, Stages
  <2> QED BY <2>1, <2>2
<1>10. CASE WatchFinishes(q)
  BY <1>3, <1>10, QueryClaims DEF WatchFinishes
<1>11. CASE StopReturns(q)
  <2>1. CASE IsTerminal(query[q].task) /\ ClaimNotification(query[q].task) /\ Await(q, "claiming")
    BY <1>3, <1>11, <2>1, QueryClaims DEF StopReturns
  <2>2. CASE UNCHANGED vars /\ Await(q, "done")
    <3>1. Asks(q, "done", query[q].task)
      BY <1>1, <2>2, QueryMoves DEF Stages
    <3> QED BY <1>2, <1>3, <1>11, <2>2, <3>1, QueryWaits DEF StopReturns, Stages
  <2> QED BY <1>11, <2>1, <2>2 DEF StopReturns
<1>12. CASE QueryAnswers(q)
  <2>1. PICK t \in HandedBack : t = query[q].task
    BY <1>3, <1>12 DEF QueryAnswers
  <2>2. t \in Tasks /\ claimed[t] /\ t \notin unqueuing /\ answered' = answered \cup {t}
    BY <1>12, <2>1, HandedBackIsKnown DEF QueryAnswers, ToolsInv, QueryKnows
  <2>3. t \notin Queued
    BY <2>2 DEF ToolsInv, IInv, Delivery
  <2>4. Asks(q, "done", t) /\ UNCHANGED <<bash, generation>> /\ UNCHANGED vars
    BY <1>1, <1>12, <2>1, QueryMoves DEF QueryAnswers, Stages
  <2>5. claimed' = claimed /\ Queued' = Queued
    BY <2>4 DEF vars, stateVars, queueVars, Queued
  <2> QED BY <1>2, <2>1, <2>2, <2>3, <2>4, <2>5, StepOfManager, QueryStep DEF Asks
<1> QED
  BY <1>4, <1>5, <1>6, <1>7, <1>8, <1>9, <1>10, <1>11, <1>12 DEF Query

-----------------------------------------------------------------------------
(* All steps, and what follows.                                             *)

LEMMA ManagerAlone ==
    ASSUME ToolsInv, Manager \/ UserReleases \/ UserCancels
    PROVE  ToolsInv'
<1>1. ManagerStep /\ started' = started
  <2>1. CASE UserReleases \/ UserCancels
    BY <2>1 DEF UserReleases, UserCancels, ManagerStep, vars, tableVars
  <2>2. CASE UserDetaches \/ UserStops \/ DrainNotices
    <3>1. tracked \subseteq Tasks
      BY LimitsAssumption DEF ToolsInv, IInv, TypeOK, Started, Tasks
    <3>2. UserStep
      BY <2>2, <3>1 DEF UserDetaches, UserStops, DrainNotices, UserStep, Origin
    <3>3. started' = started
      BY <2>2 DEF UserDetaches, UserStops, DrainNotices, BackgroundAllForeground, Detach, Stop,
                  StopAllBackground, TakeNotifications, tableVars
    <3> QED BY <3>2, <3>3 DEF ManagerStep
  <2>3. ASSUME NEW t \in Tasks, ProcessExits(t) \/ Monitor(t) \/ HalfDone(t)
        PROVE  ManagerStep /\ started' = started
    BY <2>3 DEF ManagerStep, ProcessExits, Monitor, HalfDone, ObserveExit, ObserveCancel, DeadlineKills,
                DeadlineBackgrounds, Commit, Announce, EntombPruned, EntombForgotten, DropQueued, MarkTaken, tableVars
  <2> QED BY <2>1, <2>2, <2>3 DEF Manager
<1>2. generation' \in Nat /\ UNCHANGED <<bash, query, answered>>
  BY DEF Manager, UserReleases, UserCancels, toolVars, queryOnly, ToolsInv
<1> QED BY <1>1, <1>2, StepOfManager, StillStep

LEMMA ToolsInvariant == ToolsSpec => []ToolsInv
<1>1. ToolsInit => ToolsInv
  <2> SUFFICES ASSUME ToolsInit PROVE ToolsInv
    OBVIOUS
  <2>1. IInv /\ Started = {} /\ started = 0
    BY InitIInv DEF ToolsInit, Init, Started
  <2>2. bash \in [BashCalls -> CallType] /\ query \in [Queries -> QueryType]
    BY DEF ToolsInit, CallType, QueryType, Places, Answers, Stages
  <2>3. \A c \in BashCalls : bash[c].pc = "idle" /\ bash[c].task = 0 /\ bash[c].answer = "none"
    BY DEF ToolsInit
  <2>4. (\A c \in BashCalls : CallKnows(c)) /\ TasksApart
    BY <2>3 DEF CallKnows, TasksApart
  <2>5. \A q \in Queries : QueryKnows(q)
    BY DEF ToolsInit, QueryKnows
  <2> QED BY <2>1, <2>2, <2>4, <2>5 DEF ToolsInit, ToolsInv, ForegroundIsWatched
<1>2. ToolsInv /\ [ToolsNext]_allVars => ToolsInv'
  <2> SUFFICES ASSUME ToolsInv, [ToolsNext]_allVars PROVE ToolsInv'
    OBVIOUS
  <2>1. ASSUME NEW c \in BashCalls, Bash(c) PROVE ToolsInv'
    BY <2>1, BashStarts, BashSpawns, BashWaits, BashEnds DEF Bash
  <2>2. ASSUME NEW q \in Queries, Query(q) PROVE ToolsInv'
    BY <2>2, QuerySteps
  <2>3. CASE UNCHANGED allVars
    <3>1. ManagerStep /\ started' = started /\ UNCHANGED <<bash, query, answered, generation>>
      BY <2>3 DEF allVars, toolVars, vars, tableVars, ManagerStep
    <3> QED BY <3>1, StepOfManager, StillStep DEF ToolsInv
  <2> QED BY <2>1, <2>2, <2>3, ManagerAlone DEF ToolsNext
<1> QED BY <1>1, <1>2, PTL DEF ToolsSpec

\* A task handed back to the model as running owes its notice, and stays in the
\* table until its end is claimed; and a command in the foreground has a call that
\* watches it, or its end was asked for (tools/bash.rs, manager.rs).
THEOREM WaitsStayKept == ToolsSpec => []WaitsAreKept
<1>1. ToolsInv => WaitsAreKept
  BY DEF ToolsInv, WaitsAreKept, HandedBackIsKept, CallKnows, TaskOf
<1> QED BY <1>1, ToolsInvariant, PTL

\* Once task_output or task_stop has reported an end, no notice of it is queued
\* again: the claim was made, and carried out, first (task_output.rs, task_stop.rs).
THEOREM AnswersAreSilent == ToolsSpec => []AnsweredIsSilent
<1>1. ToolsInv => AnsweredIsSilent
  BY DEF ToolsInv, AnsweredIsSilent
<1> QED BY <1>1, ToolsInvariant, PTL
=============================================================================

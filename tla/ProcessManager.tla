--------------------------- MODULE ProcessManager ---------------------------
(***************************************************************************)
(* The background process manager of the engine                           *)
(* (src/src/engine/src/tools/process/manager.rs): the task table of one    *)
(* session, the monitor task that watches each child process, the queue of *)
(* completion notifications and the tombstones of released tasks.          *)
(*                                                                         *)
(* A call that takes one lock is one action.  A call that gives up a lock  *)
(* between two effects is one action per critical section, because         *)
(* monitors and other callers run in between: start (admission, spawn),    *)
(* claim_notification (flag, queue), take_notifications (queue, flag),     *)
(* forget (table, tombstone, queue).                                       *)
(*                                                                         *)
(* Task ids are uuids; here a task is numbered by its start, which is also *)
(* the started_at order that pruning uses.                                 *)
(***************************************************************************)
EXTENDS Integers, Sequences, FiniteSets

CONSTANTS
    MaxTasks,        \* bound: how many tasks the session ever starts
    KillOnTimeout,   \* tasks requested with background_on_timeout = false
    MaxOthers,       \* bound: permits the other sessions take at once
    UserReasons,     \* with which reasons the user's detach key is wired
    MaxRunning,      \* MAX_RUNNING_TASKS
    MaxGlobal,       \* MAX_GLOBAL_RUNNING_TASKS, shared with other sessions
    MaxTracked,      \* MAX_TRACKED_TASKS
    MaxRetained,     \* MAX_RETAINED_TERMINAL_TASKS
    MaxTombstones    \* MAX_TOMBSTONES

ASSUME LimitsAssumption ==
    /\ MaxTasks \in Nat
    /\ KillOnTimeout \subseteq 1 .. MaxTasks
    /\ UserReasons \subseteq {"user", "message"}
    /\ {MaxOthers, MaxRunning, MaxGlobal, MaxTracked, MaxRetained} \subseteq Nat
    /\ MaxTombstones \in Nat \ {0}

Tasks == 1 .. MaxTasks

Reason     == {"explicit", "yield", "timeout", "user", "message"}
Terminal   == {"completed", "failed", "timed_out", "killed"}
Status     == {"unstarted", "foreground"} \cup Reason \cup Terminal
Origin     == {"model", "user"}

VARIABLES
    started,        \* how many tasks have been inserted so far
    tracked,        \* keys of the task table
    status,         \* ProcessState.status; a Reason stands for RunningBackground
    requested,      \* requested_status is Some(Killed) and the token is cancelled
    notify,         \* notify_on_completion
    claimed,        \* notification_claimed
    byUser,         \* stopped_by_user
    permits,        \* tasks holding a global permit
    proc,           \* the child: none, running, its exit code, or reaped
    monitor,        \* what the monitor task does next
    forced,         \* the monitor's forced_status
    timedOut,       \* the monitor's timed_out flag
    files,          \* tasks whose output file exists
    notifications,  \* queued completion notifications
    tombstones,     \* outcomes of released tasks, oldest first
    closed,         \* whether the manager admits tasks, and which call closed it
    starting,       \* what the start call holding the lifecycle lock does next
    others,         \* global permits held by other sessions
    reaping,        \* records out of the table and not yet entombed
    unqueuing,      \* tasks whose queued notifications a caller still has to drop
    taken           \* drained notifications not yet marked claimed

procVars  == <<proc, monitor, forced, timedOut>>
stateVars == <<status, requested, notify, claimed, byUser, permits>>
tableVars == <<started, tracked, files, tombstones, reaping>>
queueVars == <<notifications, unqueuing, taken>>
startVars == <<closed, starting, others>>
vars == <<procVars, stateVars, tableVars, queueVars, startVars>>

Started      == 1 .. started
Background(t) == status[t] \in Reason
IsTerminal(t) == status[t] \in Terminal
IsRunning(t)  == status[t] \in Reason \cup {"foreground"}

Notification == [task : Tasks, wakes : BOOLEAN]
Tombstone    == [task : Tasks, outcome : Status, retained : BOOLEAN]
Queued       == {n.task : n \in notifications}

Init ==
    /\ started = 0
    /\ tracked = {}
    /\ status = [t \in Tasks |-> "unstarted"]
    /\ requested = [t \in Tasks |-> FALSE]
    /\ notify = [t \in Tasks |-> FALSE]
    /\ claimed = [t \in Tasks |-> FALSE]
    /\ byUser = [t \in Tasks |-> FALSE]
    /\ permits = {}
    /\ proc = [t \in Tasks |-> "none"]
    /\ monitor = [t \in Tasks |-> "none"]
    /\ forced = [t \in Tasks |-> "none"]
    /\ timedOut = [t \in Tasks |-> FALSE]
    /\ files = {}
    /\ notifications = {}
    /\ tombstones = <<>>
    /\ closed = "open"
    /\ starting = "idle"
    /\ others = 0
    /\ reaping = [t \in Tasks |-> "no"]
    /\ unqueuing = {}
    /\ taken = {}

-----------------------------------------------------------------------------
(* start: under the lifecycle lock, prune, check the limits, take a global  *)
(* permit, spawn the child and insert its record.                           *)

PermitsInUse == Cardinality(permits) + others + (IF starting = "admitted" THEN 1 ELSE 0)

\* The claimed terminal records beyond the retention limit, oldest first.
Prunable ==
    LET terminal   == {t \in tracked : IsTerminal(t)}
        candidates == {t \in terminal : claimed[t]}
    IN  {t \in candidates :
            Cardinality({u \in candidates : u < t}) < Cardinality(terminal) - MaxRetained}

Accepting == closed = "open"

BeginStart ==
    /\ starting = "idle"
    /\ Accepting
    /\ started < MaxTasks
    /\ starting' = "pruning"
    /\ tracked' = tracked \ Prunable
    /\ reaping' = [t \in Tasks |-> IF t \in Prunable THEN "pruned" ELSE reaping[t]]
    /\ UNCHANGED <<procVars, stateVars, started, files, tombstones, queueVars, closed, others>>

Without(s, t) ==
    IF \E i \in DOMAIN s : s[i].task = t
    THEN LET i == CHOOSE i \in DOMAIN s : s[i].task = t
         IN  SubSeq(s, 1, i - 1) \o SubSeq(s, i + 1, Len(s))
    ELSE s

\* entomb: replace an older tombstone of the task, drop the oldest beyond the cap.
Entombed(t, retained) ==
    LET s == Append(Without(tombstones, t),
                    [task |-> t, outcome |-> status[t], retained |-> retained])
    IN  IF Len(s) > MaxTombstones THEN Tail(s) ELSE s

EntombPruned(t) ==
    /\ reaping[t] = "pruned"
    /\ \A u \in Tasks : reaping[u] = "pruned" => t <= u
    /\ reaping' = [reaping EXCEPT ![t] = "no"]
    /\ tombstones' = Entombed(t, FALSE)
    /\ files' = files \ {t}
    /\ UNCHANGED <<procVars, stateVars, started, tracked, queueVars, startVars>>

Admissible ==
    /\ Cardinality({t \in tracked : ~IsTerminal(t)}) < MaxRunning
    /\ Cardinality(tracked) < MaxTracked
    /\ PermitsInUse < MaxGlobal

Admit ==
    /\ starting = "pruning"
    /\ \A t \in Tasks : reaping[t] # "pruned"
    /\ starting' = IF Admissible THEN "admitted" ELSE "idle"
    /\ UNCHANGED <<procVars, stateVars, tableVars, queueVars, closed, others>>

SpawnFails ==
    /\ starting = "admitted"
    /\ starting' = "idle"
    /\ UNCHANGED <<procVars, stateVars, tableVars, queueVars, closed, others>>

NotifyOnlyOnDetach(reason) == FALSE
NotifyAtStart(reason) == reason # "foreground"

\* A start with a background reason is background, and notifies, from its first moment.
Spawn(reason) ==
    LET t == started + 1 IN
    /\ starting = "admitted"
    /\ starting' = "idle"
    /\ started' = t
    /\ tracked' = tracked \cup {t}
    /\ status' = [status EXCEPT ![t] = reason]
    /\ notify' = [notify EXCEPT ![t] = NotifyAtStart(reason)]
    /\ permits' = permits \cup {t}
    /\ proc' = [proc EXCEPT ![t] = "running"]
    /\ monitor' = [monitor EXCEPT ![t] = "select"]
    /\ files' = files \cup {t}
    /\ UNCHANGED <<requested, claimed, byUser, forced, timedOut,
                   tombstones, reaping, queueVars, closed, others>>

-----------------------------------------------------------------------------
(* The child and its monitor task.  tokio::select! takes any branch that is *)
(* ready, so an exit, a cancellation and the deadline race.                 *)

ProcessExits(t) ==
    /\ proc[t] = "running"
    /\ \E code \in {"zero", "nonzero"} : proc' = [proc EXCEPT ![t] = code]
    /\ UNCHANGED <<monitor, forced, timedOut, stateVars, tableVars, queueVars, startVars>>

ObserveExit(t) ==
    /\ monitor[t] = "select"
    /\ proc[t] # "running"
    /\ monitor' = [monitor EXCEPT ![t] = "drain"]
    /\ UNCHANGED <<proc, forced, timedOut, stateVars, tableVars, queueVars, startVars>>

DrainWithoutKill(t, outcome) ==
    /\ monitor' = [monitor EXCEPT ![t] = "drain"]
    /\ forced' = [forced EXCEPT ![t] = outcome]
    /\ UNCHANGED proc

\* child.kill() then child.wait(): a process already gone keeps its exit code.
KillThenDrain(t, outcome) ==
    /\ proc' = [proc EXCEPT ![t] = IF @ = "running" THEN "nonzero" ELSE @]
    /\ monitor' = [monitor EXCEPT ![t] = "drain"]
    /\ forced' = [forced EXCEPT ![t] = outcome]

ObserveCancelAfterExit(t) ==
    /\ monitor[t] = "select"
    /\ requested[t] /\ proc[t] # "running"
    /\ KillThenDrain(t, "killed")
    /\ UNCHANGED <<timedOut, stateVars, tableVars, queueVars, startVars>>

ObserveCancel(t) ==
    /\ monitor[t] = "select"
    /\ requested[t]
    /\ KillThenDrain(t, "killed")
    /\ UNCHANGED <<timedOut, stateVars, tableVars, queueVars, startVars>>

DeadlineKills(t) ==
    /\ monitor[t] = "select"
    /\ ~timedOut[t]
    /\ t \in KillOnTimeout
    /\ timedOut' = [timedOut EXCEPT ![t] = TRUE]
    /\ KillThenDrain(t, "timed_out")
    /\ UNCHANGED <<stateVars, tableVars, queueVars, startVars>>

DeadlineBackgrounds(t) ==
    /\ monitor[t] = "select"
    /\ ~timedOut[t]
    /\ t \notin KillOnTimeout
    /\ timedOut' = [timedOut EXCEPT ![t] = TRUE]
    /\ IF status[t] = "foreground"
       THEN /\ status' = [status EXCEPT ![t] = "timeout"]
            /\ notify' = [notify EXCEPT ![t] = TRUE]
       ELSE UNCHANGED <<status, notify>>
    /\ UNCHANGED <<proc, monitor, forced, requested, claimed, byUser, permits,
                   tableVars, queueVars, startVars>>

ReturnPermitIfExited(t) == permits' = IF requested[t] THEN permits ELSE permits \ {t}
ReturnPermit(t) == permits' = permits \ {t}

\* After the output is drained: the terminal status, and the permit back.  The
\* monitor's locals and the exit code are not read again.
Commit(t) ==
    /\ monitor[t] = "drain"
    /\ monitor' = [monitor EXCEPT ![t] = "announce"]
    /\ status' = [status EXCEPT ![t] =
                    CASE forced[t] # "none" -> forced[t]
                      [] forced[t] = "none" /\ requested[t] -> "killed"
                      [] OTHER -> IF proc[t] = "zero" THEN "completed" ELSE "failed"]
    /\ ReturnPermit(t)
    /\ proc' = [proc EXCEPT ![t] = IF @ = "running" THEN @ ELSE "reaped"]
    /\ forced' = [forced EXCEPT ![t] = "none"]
    /\ timedOut' = [timedOut EXCEPT ![t] = FALSE]
    /\ UNCHANGED <<requested, notify, claimed, byUser,
                   tableVars, queueVars, startVars>>

OwedToClaimed(t) == notify[t]
OwedInForeground(t) == ~claimed[t]
OwedUnlessStopped(t) == notify[t] /\ ~claimed[t] /\ ~byUser[t]
Owed(t) == notify[t] /\ ~claimed[t]

\* A critical section of its own: notifications, then state.
Announce(t) ==
    /\ monitor[t] = "announce"
    /\ monitor' = [monitor EXCEPT ![t] = "done"]
    /\ notifications' = IF Owed(t)
                        THEN notifications \cup {[task |-> t, wakes |-> ~byUser[t]]}
                        ELSE notifications
    /\ UNCHANGED <<proc, forced, timedOut, stateVars, tableVars, unqueuing, taken, startVars>>

-----------------------------------------------------------------------------
(* What callers do to a task: detach, stop, read its notification, release. *)

NotYetDetached(t) == ~Background(t)
InForeground(t) == status[t] = "foreground"

Detach(S, reason) ==
    /\ status' = [t \in Tasks |-> IF t \in S THEN reason ELSE status[t]]
    /\ notify' = [t \in Tasks |-> notify[t] \/ t \in S]
    /\ UNCHANGED <<procVars, requested, claimed, byUser, permits,
                   tableVars, queueVars, startVars>>

ToBackground(t, reason) ==
    /\ t \in tracked
    /\ InForeground(t)
    /\ Detach({t}, reason)

BackgroundAllForeground(reason) ==
    LET S == {t \in tracked : InForeground(t)} IN
    /\ S # {}
    /\ Detach(S, reason)

\* Every caller requests Killed and then cancels the token, so one flag stands
\* for both: the monitor may take either branch when both are ready.
\* The last stop decides the attribution.
Stop(t, origin) ==
    /\ t \in tracked
    /\ IsRunning(t)
    /\ requested' = [requested EXCEPT ![t] = TRUE]
    /\ byUser' = [byUser EXCEPT ![t] = origin = "user"]
    /\ UNCHANGED <<procVars, status, notify, claimed, permits,
                   tableVars, queueVars, startVars>>

RequestKill(S) == requested' = [t \in Tasks |-> requested[t] \/ t \in S]

StopAllBackground ==
    LET S == {t \in tracked : Background(t)} IN
    /\ S # {}
    /\ RequestKill(S)
    /\ byUser' = [t \in Tasks |-> byUser[t] \/ t \in S]
    /\ UNCHANGED <<procVars, status, notify, claimed, permits,
                   tableVars, queueVars, startVars>>

ClaimNotification(t) ==
    /\ t \in Started
    /\ claimed' = [claimed EXCEPT ![t] = @ \/ t \in tracked]
    /\ unqueuing' = unqueuing \cup {t}
    /\ UNCHANGED <<procVars, status, requested, notify, byUser, permits,
                   tableVars, notifications, taken, startVars>>

DropQueued(t) ==
    /\ t \in unqueuing
    /\ unqueuing' = unqueuing \ {t}
    /\ notifications' = {n \in notifications : n.task # t}
    /\ UNCHANGED <<procVars, stateVars, tableVars, taken, startVars>>

TakeNotifications ==
    /\ notifications # {}
    /\ taken' = taken \cup Queued
    /\ notifications' = {}
    /\ UNCHANGED <<procVars, stateVars, tableVars, unqueuing, startVars>>

MarkTakenUnclaimed(t) ==
    /\ t \in taken
    /\ taken' = taken \ {t}
    /\ UNCHANGED <<procVars, stateVars, tableVars, notifications, unqueuing, startVars>>

MarkTaken(t) ==
    /\ t \in taken
    /\ taken' = taken \ {t}
    /\ claimed' = [claimed EXCEPT ![t] = @ \/ t \in tracked]
    /\ UNCHANGED <<procVars, status, requested, notify, byUser, permits,
                   tableVars, notifications, unqueuing, startVars>>

Forget(t) ==
    /\ t \in tracked
    /\ tracked' = tracked \ {t}
    /\ reaping' = [reaping EXCEPT ![t] = "forgotten"]
    /\ UNCHANGED <<procVars, stateVars, started, files, tombstones, queueVars, startVars>>

EntombForgotten(t) ==
    /\ reaping[t] = "forgotten"
    /\ reaping' = [reaping EXCEPT ![t] = "no"]
    /\ tombstones' = Entombed(t, TRUE)
    /\ unqueuing' = unqueuing \cup {t}
    /\ UNCHANGED <<procVars, stateVars, started, tracked, files, notifications, taken, startVars>>

-----------------------------------------------------------------------------
(* Shutdown, and the other sessions that share the global permits.          *)

Running == {t \in tracked : IsRunning(t)}

TerminateWhileStarting ==
    /\ closed' = "terminated"
    /\ RequestKill(Running)
    /\ UNCHANGED <<procVars, status, notify, claimed, byUser, permits,
                   tableVars, queueVars, starting, others>>

\* It takes the lifecycle lock: no start is under way.
TerminateAll ==
    /\ starting = "idle"
    /\ closed' = "terminated"
    /\ RequestKill(Running)
    /\ UNCHANGED <<procVars, status, notify, claimed, byUser, permits,
                   tableVars, queueVars, starting, others>>

\* Exit paths: no lifecycle lock, and the process groups are signalled here.
KillAllNow ==
    /\ closed' = IF closed = "terminated" THEN closed ELSE "killed"
    /\ RequestKill(Running)
    /\ proc' = [t \in Tasks |-> IF t \in Running /\ proc[t] = "running"
                                THEN "nonzero" ELSE proc[t]]
    /\ UNCHANGED <<monitor, forced, timedOut, status, notify, claimed, byUser, permits,
                   tableVars, queueVars, starting, others>>

OtherSessionStarts ==
    /\ PermitsInUse < MaxGlobal
    /\ others < MaxOthers
    /\ others' = others + 1
    /\ UNCHANGED <<procVars, stateVars, tableVars, queueVars, closed, starting>>

OtherSessionFinishesTwice ==
    /\ others' = others - 1
    /\ UNCHANGED <<procVars, stateVars, tableVars, queueVars, closed, starting>>

OtherSessionFinishes ==
    /\ others > 0
    /\ others' = others - 1
    /\ UNCHANGED <<procVars, stateVars, tableVars, queueVars, closed, starting>>

-----------------------------------------------------------------------------
StartCall   == BeginStart \/ Admit \/ SpawnFails \/ \E r \in {"foreground", "explicit"} : Spawn(r)
Monitor(t)  == \/ ObserveExit(t) \/ ObserveCancel(t) \/ DeadlineKills(t)
               \/ DeadlineBackgrounds(t) \/ Commit(t) \/ Announce(t)
HalfDone(t) == EntombPruned(t) \/ EntombForgotten(t) \/ DropQueued(t) \/ MarkTaken(t)
Caller(t)   == \/ ToBackground(t, "yield")
               \/ \E o \in Origin : Stop(t, o)
               \/ IsTerminal(t) /\ ClaimNotification(t)
               \/ (IsTerminal(t) \/ requested[t]) /\ Forget(t)
Session     == \/ \E r \in UserReasons : BackgroundAllForeground(r)
               \/ StopAllBackground \/ TakeNotifications \/ TerminateAll \/ KillAllNow
Elsewhere   == OtherSessionStarts \/ OtherSessionFinishes

Next ==
    \/ StartCall
    \/ \E t \in Tasks : ProcessExits(t) \/ Monitor(t) \/ HalfDone(t) \/ Caller(t)
    \/ Session
    \/ Elsewhere

Spec == Init /\ [][Next]_vars

-----------------------------------------------------------------------------
(* Properties                                                               *)

TypeOK ==
    /\ started \in 0 .. MaxTasks
    /\ tracked \subseteq Started
    /\ status \in [Tasks -> Status]
    /\ requested \in [Tasks -> BOOLEAN]
    /\ notify \in [Tasks -> BOOLEAN]
    /\ claimed \in [Tasks -> BOOLEAN]
    /\ byUser \in [Tasks -> BOOLEAN]
    /\ timedOut \in [Tasks -> BOOLEAN]
    /\ permits \subseteq Started
    /\ proc \in [Tasks -> {"none", "running", "zero", "nonzero", "reaped"}]
    /\ monitor \in [Tasks -> {"none", "select", "drain", "announce", "done"}]
    /\ forced \in [Tasks -> {"none", "killed", "timed_out"}]
    /\ files \subseteq Started
    /\ notifications \subseteq Notification
    /\ tombstones \in Seq(Tombstone)
    /\ closed \in {"open", "terminated", "killed"}
    /\ starting \in {"idle", "pruning", "admitted"}
    /\ others \in Nat
    /\ reaping \in [Tasks -> {"no", "pruned", "forgotten"}]
    /\ unqueuing \subseteq Started
    /\ taken \subseteq Started

\* A permit is held exactly while its task has no terminal status, whichever of
\* exit, kill and deadline ends it, and sessions together stay within the limit.
PermitsConserved ==
    /\ permits = {t \in Started : IsRunning(t)}
    /\ PermitsInUse <= MaxGlobal

\* The checks of start still hold when the task is inserted, after the read lock
\* they were made under is gone.
TableWithinLimits ==
    /\ Cardinality(Running) <= MaxRunning
    /\ Cardinality(tracked) <= MaxTracked

\* A queued notification belongs to a finished background task nobody has claimed,
\* except while a caller that claimed it is about to drop it.
QueuedIsDeliverable ==
    \A n \in notifications :
        /\ IsTerminal(n.task) /\ notify[n.task]
        /\ claimed[n.task] => n.task \in unqueuing

\* The completion of a tracked background task is never lost: whatever detached it,
\* it owes a notice, and once the monitor is done that notice is queued, in the
\* hands of a drainer, or already claimed.
NoLostCompletion ==
    \A t \in tracked :
        /\ Background(t) => notify[t]
        /\ monitor[t] = "done" /\ notify[t] => claimed[t] \/ t \in Queued \cup taken

\* The queue of notices holds what is still to be told, and misses nothing of it.
CompletionsAreKept == QueuedIsDeliverable /\ NoLostCompletion

\* What eviction and pruning rely on: a claimed terminal task has no process that
\* could still write its output file and no notification that will be delivered.
ReclaimableIsQuiet ==
    \A t \in tracked : IsTerminal(t) /\ claimed[t] =>
        /\ proc[t] # "running"
        /\ t \in Queued => t \in unqueuing

\* Only released tasks have a tombstone, at most one each.
TombstonesOfReleased ==
    /\ Len(tombstones) <= MaxTombstones
    /\ \A i, j \in DOMAIN tombstones :
          /\ tombstones[i].task \notin tracked
          /\ tombstones[i].task = tombstones[j].task => i = j

\* The permits, the table and the tombstones stay within their limits.
LimitsHold == PermitsConserved /\ TableWithinLimits /\ TombstonesOfReleased

\* A terminal status is final: a detach, a deadline or a stop that raced the exit
\* never moves the task again.
TerminalIsFinal ==
    [][\A t \in Tasks : IsTerminal(t) => status'[t] = status[t] /\ notify'[t] = notify[t]]_vars

\* A detached task stays detached for its first reason until it ends: the deadline
\* does not undo what the user did, and no second detach relabels it.
DetachSticks ==
    [][\A t \in Tasks : Background(t) => status'[t] \in Terminal \cup {status[t]}]_vars

\* A delivered or queried completion is never queued again.
ClaimedStaysSilent ==
    [][\A t \in Tasks : claimed[t] => claimed'[t] /\ (t \in Queued' => t \in Queued)]_vars

\* What was decided of a task stays decided: how it ended, why it was detached, and
\* that its outcome was told.
OutcomesStick == TerminalIsFinal /\ DetachSticks /\ ClaimedStaysSilent

\* Tasks whose process lives, in the table or out of it, and nobody told to end.
Unasked == {t \in Tasks : IsRunning(t) /\ ~requested[t]}

\* A shutdown reaches every task, also one whose start it raced and one that was
\* released while it ran: after terminate_all none lives on unasked, and after
\* kill_all_now, which does not wait for a start, at most the one task whose start
\* had passed the closed check.
ShutdownReachesAll ==
    /\ closed = "terminated" => Unasked = {}
    /\ closed = "killed" => /\ Unasked \subseteq {started}
                            /\ starting # "idle" => Unasked = {}

\* A stopped task ends and returns its permit, even if its process ignores us.
StopTakesEffect == \A t \in Tasks : requested[t] ~> IsTerminal(t) /\ t \notin permits

-----------------------------------------------------------------------------
(* The promise of CompletionNotices.  A drained notification counts as told *)
(* from the drain on, before its task is marked claimed.                    *)

PhaseOf(t) ==
    CASE t \notin Started                        -> "new"
      [] t \in Started \ tracked                -> "released"
      [] t \in tracked /\ status[t] = "foreground" -> "foreground"
      [] t \in tracked /\ Background(t)         -> "background"
      [] OTHER                                  -> IF notify[t] THEN "owing" ELSE "ended"

NoticeOf(t) ==
    CASE t \notin tracked                                -> "none"
      [] t \in tracked /\ (claimed[t] \/ t \in taken)   -> "told"
      [] OTHER -> IF t \in Queued THEN "posted" ELSE "none"

absPhase  == [t \in Tasks |-> PhaseOf(t)]
absNotice == [t \in Tasks |-> NoticeOf(t)]

Promise == INSTANCE CompletionNotices WITH phase <- absPhase, notice <- absNotice

\* Every behaviour of the manager keeps the promise.
KeepsPromise == Promise!Spec

\* ... and posts every notice it owes, unless it is told first or released.
PostsWhatItOwes == Promise!FairSpec

=============================================================================

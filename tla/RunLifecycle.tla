----------------------------- MODULE RunLifecycle -----------------------------
(***************************************************************************)
(* The runs of one session inside one Agent (src/src/app/src/agent): how   *)
(* requests start, stop and wait for runs under the session's lifecycle    *)
(* gate (agent.rs, run_manager.rs), the registry of the active run         *)
(* (run/registry.rs), the control plane that an abort and the installation *)
(* of an engine share (run/control.rs), and the life of a run from its     *)
(* spawning to its completion callback (run/runtime.rs).                   *)
(*                                                                         *)
(* A step ends at an await or where a lock is given up.  Who holds a gate  *)
(* is read off the program counters.  What a run says is one message, the  *)
(* run itself; a context is a set of runs.  The process managers of the    *)
(* session are told apart by the run that made them.                       *)
(***************************************************************************)
EXTENDS Integers, FiniteSets, TLC

CONSTANTS
    Channels,   \* clients that come through RunManager::send
    Direct,     \* clients that call the Agent: HTTP, terminal
    MaxRuns     \* bound: runs ever started

ASSUME LifecycleAssumption ==
    /\ Channels \cap Direct = {}
    /\ MaxRuns \in Nat

Clients == Channels \cup Direct
Runs    == 1 .. MaxRuns
None    == 0

VARIABLES
    pc,        \* where the request of a client is
    op,        \* what it is
    target,    \* the run it waits for, or has spawned
    seen,      \* the context its Session object has loaded
    run,       \* the phase of run_loop
    engine,    \* the engine of a run; told: its cancellation token is cancelled
    attached,  \* runs whose RunControl has an engine installed
    cancelled, \* runs whose RunControl is cancelled
    stopping,  \* runs whose abort has not reached the engine's lock yet
    listener,  \* who consumes the events of a run: takes, lags (the queue is full), gone
    active,    \* the run the registry has for the session
    ofChannel, \* runs that a channel started
    mem,       \* the context in the Session object a run was started with
    disk,      \* the context in the transcript
    manager,   \* the process manager registered for the session
    tools      \* the one that the tools of a run hold

clientVars == <<pc, op, target, seen>>
runVars    == <<run, engine, attached, tools, listener>>
vars == <<clientVars, runVars, cancelled, stopping, active, ofChannel, mem, disk, manager>>

\* clear: /clear, or the deletion of the session, which take the same steps here.
Operation == {"send", "clear", "fork", "compact"}

Init ==
    /\ pc = [c \in Clients |-> "idle"]
    /\ op = [c \in Clients |-> "send"]
    /\ target = [c \in Clients |-> None]
    /\ seen = [c \in Clients |-> {}]
    /\ run = [r \in Runs |-> "unborn"]
    /\ engine = [r \in Runs |-> "none"]
    /\ attached = {}
    /\ cancelled = {}
    /\ stopping = {}
    /\ listener = [r \in Runs |-> "takes"]
    /\ active = None
    /\ ofChannel = {}
    /\ mem = [r \in Runs |-> {}]
    /\ disk = {}
    /\ manager = None
    /\ tools = [r \in Runs |-> None]

Spawned   == {r \in Runs : run[r] # "unborn"}
Completed == {r \in Runs : run[r] \in {"completed", "over"}}
Live      == Spawned \ Completed

\* Spawned, and not yet in the registry or with its consumer.
BeingRegistered == {target[c] : c \in {d \in Clients : pc[d] = "register"}}

Goto(c, l) == pc' = [pc EXCEPT ![c] = l]

\* The request is answered: what it held is dropped.
Answered(c) ==
    /\ Goto(c, "idle")
    /\ op' = [op EXCEPT ![c] = "send"]
    /\ target' = [target EXCEPT ![c] = None]
    /\ seen' = [seen EXCEPT ![c] = {}]

AbortEngineOnly(r) == stopping' = stopping \cup {r} /\ UNCHANGED cancelled
\* RunControl::abort, up to the lock of the engine.
Abort(r) == cancelled' = cancelled \cup {r} /\ stopping' = stopping \cup {r}

-----------------------------------------------------------------------------
(* Requests.                                                                *)

\* What comes through a channel is handled one at a time.
ConversingUntilDecided == {c \in Channels : pc[c] = "deciding"}
Conversing == {c \in Channels : pc[c] # "idle"}

\* A /compact waits for the run to stop without the lifecycle gate.
GateTakenLate(c) == pc[c] \in {"wait", "acting", "register", "erasing"} /\ op[c] # "compact"
HoldsGate(c) ==
    /\ pc[c] \in {"interrupt", "wait", "acting", "register", "erasing"}
    /\ op[c] # "compact"

\* Runs that have been asked for.
Sending == {c \in Clients : pc[c] \notin {"idle", "register"} /\ op[c] = "send"}
MayStartRun == Cardinality(Spawned) + Cardinality(Sending) < MaxRuns

\* The Session is opened from disk before any gate of the Agent is taken.
Send(c) ==
    /\ pc[c] = "idle"
    /\ MayStartRun
    /\ c \in Channels => Conversing = {}
    /\ seen' = [seen EXCEPT ![c] = disk]
    /\ Goto(c, IF c \in Channels THEN "deciding" ELSE "gate")
    /\ UNCHANGED <<op, target, runVars, cancelled, stopping, active, ofChannel, mem, disk, manager>>

Behind(o) == IF o = "compact" THEN "interrupt" ELSE "gate"

Ask(c, o) ==
    /\ pc[c] = "idle"
    /\ c \in Channels => Conversing = {} /\ o \in {"clear", "compact"}
    /\ op' = [op EXCEPT ![c] = o]
    /\ Goto(c, IF c \in Channels THEN "deciding" ELSE Behind(o))
    /\ UNCHANGED <<target, seen, runVars, cancelled, stopping, active, ofChannel, mem, disk, manager>>

\* has_active_run drops an entry that is completed.
NothingActive == active \in {None} \cup Completed
Forgotten == IF active \in Completed THEN None ELSE active

\* try_steer: the message goes to a run that is neither stopped nor completed.
Steerable == ~NothingActive /\ active \notin cancelled

\* A message of a channel is steered into the run; a command is refused while one
\* is active; what is neither goes on like any other request.
Decides(c) ==
    /\ pc[c] = "deciding"
    /\ IF IF op[c] = "send" THEN Steerable ELSE ~NothingActive
       THEN Answered(c)
       ELSE Goto(c, Behind(op[c])) /\ UNCHANGED <<op, target, seen>>
    /\ active' = Forgotten
    /\ UNCHANGED <<runVars, cancelled, stopping, ofChannel, mem, disk, manager>>

TakeGateWhenQuiet(c) ==
    /\ pc[c] = "gate"
    /\ Live = {} /\ ~\E d \in Clients : HoldsGate(d)
    /\ Goto(c, "interrupt")
    /\ UNCHANGED <<op, target, seen, runVars, cancelled, stopping, active, ofChannel, mem, disk, manager>>

TakeGate(c) ==
    /\ pc[c] = "gate"
    /\ ~\E d \in Clients : HoldsGate(d)
    /\ Goto(c, "interrupt")
    /\ UNCHANGED <<op, target, seen, runVars, cancelled, stopping, active, ofChannel, mem, disk, manager>>

\* A fork refuses a session that runs; everybody else aborts the active run and
\* waits.  Behind the gate nothing is registered between the look and the abort.  A
\* /compact may abort an entry that has completed already, which touches nothing.
FindsNothing(c) ==
    /\ NothingActive
    /\ IF op[c] = "compact"
       THEN Answered(c) /\ UNCHANGED active
       ELSE Goto(c, "acting") /\ active' = Forgotten /\ UNCHANGED <<op, target, seen>>
    /\ UNCHANGED <<cancelled, stopping>>

RefusesFork(c) ==
    /\ ~NothingActive /\ op[c] = "fork"
    /\ Answered(c)
    /\ UNCHANGED <<cancelled, stopping, active>>

AbortsActive(c) ==
    /\ ~NothingActive /\ op[c] # "fork"
    /\ Abort(active)
    /\ target' = [target EXCEPT ![c] = active]
    /\ Goto(c, "wait")
    /\ UNCHANGED <<op, seen, active>>

Interrupt(c) ==
    /\ pc[c] = "interrupt"
    /\ FindsNothing(c) \/ RefusesFork(c) \/ AbortsActive(c)
    /\ UNCHANGED <<runVars, ofChannel, mem, disk, manager>>

Stopped(c) ==
    /\ pc[c] = "wait"
    /\ target[c] \in Completed
    /\ IF op[c] = "compact" THEN Answered(c)
       ELSE Goto(c, "acting") /\ target' = [target EXCEPT ![c] = None] /\ UNCHANGED <<op, seen>>
    /\ UNCHANGED <<runVars, cancelled, stopping, active, ofChannel, mem, disk, manager>>

TimeoutCountsAsStopped(c) ==
    /\ pc[c] = "wait"
    /\ Goto(c, "acting") /\ target' = [target EXCEPT ![c] = None]
    /\ UNCHANGED <<op, seen, runVars, cancelled, stopping, active, ofChannel, mem, disk, manager>>

TimesOut(c) ==
    /\ pc[c] = "wait"
    /\ Answered(c)
    /\ UNCHANGED <<runVars, cancelled, stopping, active, ofChannel, mem, disk, manager>>

\* start_run: the selection of the model is saved, and if it has changed a record of
\* the change brings the memory of the Session up to date; then run_loop is spawned.
Start(c) ==
  \E r \in Runs :
    /\ pc[c] = "acting" /\ op[c] = "send"
    /\ run[r] = "unborn" /\ \A s \in Runs : s < r => run[s] # "unborn"
    /\ run' = [run EXCEPT ![r] = "spawned"]
    /\ \E context \in {seen[c], disk} : mem' = [mem EXCEPT ![r] = context]
    /\ ofChannel' = IF c \in Channels THEN ofChannel \cup {r} ELSE ofChannel
    /\ target' = [target EXCEPT ![c] = r]
    /\ seen' = [seen EXCEPT ![c] = {}]
    /\ Goto(c, "register")
    /\ UNCHANGED <<op, engine, attached, tools, cancelled, stopping, active, disk, manager, listener>>

StartFails(c) ==
    /\ pc[c] = "acting" /\ op[c] = "send"
    /\ Answered(c)
    /\ UNCHANGED <<runVars, cancelled, stopping, active, ofChannel, mem, disk, manager>>

\* A run may have completed before it is registered.
Register(c) ==
    /\ pc[c] = "register"
    /\ active' = IF target[c] \in Completed THEN active ELSE target[c]
    /\ Answered(c)
    /\ UNCHANGED <<runVars, cancelled, stopping, ofChannel, mem, disk, manager>>

\* /clear and the deletion of the session: its processes first, then the transcript.
Retire(c) ==
    /\ pc[c] = "acting" /\ op[c] = "clear"
    /\ manager' = None
    /\ Goto(c, "erasing")
    /\ UNCHANGED <<op, target, seen, runVars, cancelled, stopping, active, ofChannel, mem, disk>>

Erase(c) ==
    /\ pc[c] = "erasing"
    /\ disk' \in {{}, disk}
    /\ Answered(c)
    /\ UNCHANGED <<runVars, cancelled, stopping, active, ofChannel, mem, manager>>

Copy(c) ==
    /\ pc[c] = "acting" /\ op[c] = "fork"
    /\ Answered(c)
    /\ UNCHANGED <<runVars, cancelled, stopping, active, ofChannel, mem, disk, manager>>

-----------------------------------------------------------------------------
(* The run.                                                                 *)

Phase(r, from, to) == run[r] = from /\ run' = [run EXCEPT ![r] = to]

Begins(r) ==
    /\ Phase(r, "spawned", IF r \in cancelled THEN "closing" ELSE "building")
    /\ UNCHANGED <<clientVars, engine, attached, tools, cancelled, stopping, active, ofChannel,
                   mem, disk, manager, listener>>

BuildUnregistered(r) ==
    /\ Phase(r, "building", "submitting")
    /\ tools' = [tools EXCEPT ![r] = r]
    /\ mem' = [mem EXCEPT ![r] = {}]
    /\ UNCHANGED <<clientVars, engine, attached, cancelled, stopping, active, ofChannel, disk,
                   manager, listener>>

\* The turn is built: the session's process manager, or a fresh one in place of one
\* that is idle and that no other run refers to, and the context in memory.
\* A headless run gets no manager.
Build(r) ==
    /\ Phase(r, "building", "submitting")
    /\ \/ /\ manager' \in {r, manager} \ {None}
          /\ tools' = [tools EXCEPT ![r] = manager']
       \/ UNCHANGED <<manager, tools>>
    /\ mem' = [mem EXCEPT ![r] = {}]
    /\ UNCHANGED <<clientVars, engine, attached, cancelled, stopping, active, ofChannel, disk, listener>>

BuildFails(r) ==
    /\ Phase(r, "building", "closing")
    /\ mem' = [mem EXCEPT ![r] = {}]
    /\ UNCHANGED <<clientVars, engine, attached, tools, cancelled, stopping, active, ofChannel,
                   disk, manager, listener>>

Submit(r) ==
    /\ Phase(r, "submitting", "installing")
    /\ engine' = [engine EXCEPT ![r] = "going"]
    /\ UNCHANGED <<clientVars, attached, tools, cancelled, stopping, active, ofChannel, mem,
                   disk, manager, listener>>

Told(r) == engine' = [engine EXCEPT ![r] = IF @ = "going" THEN "told" ELSE @]

InstallUnchecked(r) ==
    /\ Phase(r, "installing", "driving")
    /\ attached' = attached \cup {r}
    /\ UNCHANGED <<clientVars, engine, tools, cancelled, stopping, active, ofChannel, mem, disk,
                   manager, listener>>

\* install_engine looks at the token under the lock that abort takes after it.
Install(r) ==
    /\ Phase(r, "installing", "driving")
    /\ attached' = attached \cup {r}
    /\ IF r \in cancelled THEN Told(r) ELSE UNCHANGED engine
    /\ UNCHANGED <<clientVars, tools, cancelled, stopping, active, ofChannel, mem, disk, manager, listener>>

\* The rest of RunControl::abort.
ReachEngine(r) ==
    /\ r \in stopping
    /\ stopping' = stopping \ {r}
    /\ IF r \in attached THEN Told(r) ELSE UNCHANGED engine
    /\ UNCHANGED <<clientVars, run, attached, tools, cancelled, active, ofChannel, mem, disk,
                   manager, listener>>

\* The engine comes to its end, by itself or because it was told.
EngineEnds(r) ==
    /\ engine[r] \in {"going", "told"}
    /\ engine' = [engine EXCEPT ![r] = "ended"]
    /\ UNCHANGED <<clientVars, run, attached, tools, cancelled, stopping, active, ofChannel, mem,
                   disk, manager, listener>>

\* The loop waits while more than the budget is queued for a listener that is there;
\* neither an abort nor the engine ends that wait.
Reads(r) == listener[r] # "lags"

Lags(r) ==
    /\ run[r] = "driving" /\ listener[r] = "takes"
    /\ listener' = [listener EXCEPT ![r] = "lags"]
    /\ UNCHANGED <<clientVars, run, engine, attached, tools, cancelled, stopping, active, ofChannel,
                   mem, disk, manager>>

CatchesUp(r) ==
    /\ listener[r] = "lags"
    /\ listener' = [listener EXCEPT ![r] = "takes"]
    /\ UNCHANGED <<clientVars, run, engine, attached, tools, cancelled, stopping, active, ofChannel,
                   mem, disk, manager>>

Flush(r) ==
    /\ run[r] = "driving" /\ Reads(r)
    /\ r \notin disk
    /\ disk' = disk \cup {r}
    /\ UNCHANGED <<clientVars, runVars, cancelled, stopping, active, ofChannel, mem, manager>>

FlushFailsSilently(r) ==
    /\ Phase(r, "driving", "detaching") /\ Reads(r)
    /\ UNCHANGED <<clientVars, engine, attached, tools, cancelled, stopping, active, ofChannel,
                   mem, disk, manager, listener>>

\* The run stops its own engine and does not wait for it.
FlushFails(r) ==
    /\ Phase(r, "driving", "detaching") /\ Reads(r)
    /\ cancelled' = cancelled \cup {r}
    /\ Told(r)
    /\ UNCHANGED <<clientVars, attached, tools, stopping, active, ofChannel, mem, disk, manager, listener>>

FinalFlush(r) ==
    /\ engine[r] = "ended" /\ Reads(r)
    /\ Phase(r, "driving", "detaching")
    /\ disk' = disk \cup {r}
    /\ UNCHANGED <<clientVars, engine, attached, tools, cancelled, stopping, active, ofChannel,
                   mem, manager, listener>>

\* From here on nothing is done of the loop that looks at the listener.
DetachEngine(r) ==
    /\ Phase(r, "detaching", "closing")
    /\ attached' = attached \ {r}
    /\ listener' = [listener EXCEPT ![r] = "takes"]
    /\ UNCHANGED <<clientVars, engine, tools, cancelled, stopping, active, ofChannel, mem, disk, manager>>

\* Statistics and metadata are written; then the completion token is cancelled,
\* before the registry is asked.
Complete(r) ==
    /\ Phase(r, "closing", "completed")
    /\ tools' = [tools EXCEPT ![r] = None]
    /\ UNCHANGED <<clientVars, engine, attached, cancelled, stopping, active, ofChannel, mem,
                   disk, manager, listener>>

UnregisterAny(r) ==
    /\ Phase(r, "completed", "over")
    /\ active' = None
    /\ UNCHANGED <<clientVars, engine, attached, tools, cancelled, stopping, ofChannel, mem,
                   disk, manager, listener>>

Unregister(r) ==
    /\ Phase(r, "completed", "over")
    /\ active' = IF active = r THEN None ELSE active
    /\ UNCHANGED <<clientVars, engine, attached, tools, cancelled, stopping, ofChannel, mem,
                   disk, manager, listener>>

\* A stop by id or by handle.
Stop(r) ==
    /\ r \in Live \ BeingRegistered
    /\ r \notin cancelled
    /\ Abort(r)
    /\ UNCHANGED <<clientVars, runVars, active, ofChannel, mem, disk, manager>>

\* The consumer of the events drops the Run, which aborts it and closes the queue; once
\* the engine is detached that is no more than a stop.
Leaves(r) ==
    /\ r \in Live \ BeingRegistered
    /\ run[r] # "closing" /\ listener[r] # "gone"
    /\ Abort(r)
    /\ listener' = [listener EXCEPT ![r] = "gone"]
    /\ UNCHANGED <<clientVars, run, engine, attached, tools, active, ofChannel, mem, disk, manager>>

-----------------------------------------------------------------------------
Request(c) ==
    \/ Decides(c) \/ Interrupt(c) \/ Stopped(c) \/ TimesOut(c)
    \/ Start(c) \/ StartFails(c) \/ Register(c) \/ Retire(c) \/ Erase(c) \/ Copy(c)

RunLoop(r) ==
    \/ Begins(r) \/ Build(r) \/ BuildFails(r) \/ Submit(r) \/ Install(r)
    \/ FinalFlush(r) \/ DetachEngine(r) \/ Complete(r) \/ Unregister(r)

Listens(r) == Lags(r) \/ CatchesUp(r) \/ Leaves(r)

Next ==
    \/ \E c \in Clients :
          \/ Send(c) \/ TakeGate(c) \/ Request(c)
          \/ \E o \in Operation \ {"send"} : Ask(c, o)
    \/ \E r \in Runs :
          \/ RunLoop(r) \/ Flush(r) \/ FlushFails(r)
          \/ ReachEngine(r) \/ EngineEnds(r)
          \/ Stop(r) \/ Listens(r)

\* Tasks are scheduled; the gate is a fair lock; an engine that is told to stop
\* does, unless the loop has stopped to read what it sends.  An engine that was told
\* sends only so much more and the loop reads something after each wait, hence the
\* strong fairness.  Nothing obliges an engine to end that is not told, a write to
\* fail, or a listener to catch up or to leave.
Fairness ==
    /\ \A c \in Clients : WF_vars(Request(c)) /\ SF_vars(TakeGate(c))
    /\ \A r \in Runs :
          /\ WF_vars(RunLoop(r))
          /\ WF_vars(ReachEngine(r))
          /\ SF_vars(engine[r] = "told" /\ Reads(r) /\ EngineEnds(r))
          /\ SF_vars(FinalFlush(r))

Spec     == Init /\ [][Next]_vars
FairSpec == Spec /\ Fairness

-----------------------------------------------------------------------------
(* Properties                                                               *)

TypeOK ==
    /\ pc \in [Clients -> {"idle", "deciding", "gate", "interrupt", "wait", "acting",
                           "register", "erasing"}]
    /\ op \in [Clients -> Operation]
    /\ target \in [Clients -> Runs \cup {None}]
    /\ seen \in [Clients -> SUBSET Runs]
    /\ run \in [Runs -> {"unborn", "spawned", "building", "submitting", "installing", "driving",
                         "detaching", "closing", "completed", "over"}]
    /\ engine \in [Runs -> {"none", "going", "told", "ended"}]
    /\ attached \subseteq Runs
    /\ cancelled \subseteq Runs
    /\ stopping \subseteq cancelled
    /\ listener \in [Runs -> {"takes", "lags", "gone"}]
    /\ active \in Runs \cup {None}
    /\ ofChannel \subseteq Runs
    /\ mem \in [Runs -> SUBSET Runs]
    /\ disk \subseteq Runs
    /\ manager \in Runs \cup {None}
    /\ tools \in [Runs -> Runs \cup {None}]

\* Whatever requests race, at most one run of the session has not completed.
OneRunAtATime == \A r, s \in Live : r = s

\* A run that has been handed out can be reached through the registry until it has
\* completed: no late cleanup of an earlier run takes its entry away.
LiveRunIsRegistered == \A r \in Live \ BeingRegistered : active = r

\* A run that is over leaves no entry behind, even if it ended before it was entered.
NothingOverIsRegistered == active = None \/ run[active] # "over"

\* The registry holds the live run and nothing else.
RegistryIsRight == LiveRunIsRegistered /\ NothingOverIsRegistered

\* Clearing, deleting and copying a session happen while no run of it is alive.
QuietUnderGate == \A c \in Clients : pc[c] \in {"acting", "erasing"} => Live = {}

\* Nothing that needs the session for itself, a run or a change of its history,
\* ever happens beside a run.
RunsAreAlone == OneRunAtATime /\ QuietUnderGate

\* An abort and the installation of an engine may come in either order, and the
\* engine of a stopped run is stopped.
AbortReachesEngine == \A r \in (cancelled \cap attached) \ stopping : engine[r] # "going"

\* A run that has completed leaves no engine behind that nobody has told to stop.
NoLooseEngine == \A r \in Completed : engine[r] # "going"

\* No engine works on for a run that was stopped or is over.
EnginesAreHeld == AbortReachesEngine /\ NoLooseEngine

\* The processes that a live run starts are those that the user can see and stop:
\* its tools hold the manager that is registered for the session.
ToolsShareTheManager == \A r \in Live : tools[r] # None => tools[r] = manager

\* Two messages that come through channels do not abort each other's run: the
\* second is steered into it, unless a client that bypasses channels interferes.
ChannelsDoNotInterrupt ==
    [][\A c \in Channels :
        op[c] = "send" /\ pc[c] = "interrupt" /\ pc'[c] = "wait"
            => target'[c] \notin ofChannel \/ target'[c] \in cancelled]_vars

\* Every request is answered, whatever the run it interrupts is doing.
RequestsAreAnswered == \A c \in Clients : pc[c] # "idle" ~> pc[c] = "idle"

\* A listener always catches up in the end, or leaves.
ListenerLives(r) == []<>(listener[r] # "lags")

\* A run that is stopped, or whose listener leaves, at whatever moment, completes and
\* is unregistered, unless its listener stays and from some moment takes no event.
StoppedRunsEnd ==
    \A r \in Runs : ListenerLives(r) => (r \in cancelled ~> run[r] = "over" /\ active # r)

-----------------------------------------------------------------------------
(* What a comment says of the turn, and the code does not keep              *)

\* A turn is built from the latest history.
HistoryIsLatest == \A r \in Runs : run[r] = "building" => mem[r] = disk

-----------------------------------------------------------------------------
(* What a stop does not reach.                                              *)

\* A run that is stopped ends, whatever its listener does.
StopsReachEveryRun == \A r \in Runs : r \in cancelled ~> run[r] = "over"

\* The channels of a session are alike.
AnyChannel == Permutations(Channels)
=============================================================================

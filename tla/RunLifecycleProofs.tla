-------------------------- MODULE RunLifecycleProofs --------------------------
(***************************************************************************)
(* Theorems about RunLifecycle, for any clients and any number of runs.    *)
(* The invariant says what the holder of the lifecycle gate knows at each  *)
(* of its steps about the runs that are alive; that nobody else starts one *)
(* follows from the gate, and that none escapes it from the registry.      *)
(***************************************************************************)
EXTENDS RunLifecycle, TLAPS

GateIsExclusive == \A c, e \in Clients : HoldsGate(c) /\ HoldsGate(e) => c = e

\* What each step of a request knows of the runs that are alive.
HolderKnows(c) ==
    /\ pc[c] \in {"idle", "register"} => op[c] = "send"
    /\ pc[c] \in {"gate", "acting", "erasing", "register"} => op[c] # "compact"
    /\ pc[c] = "wait" /\ op[c] # "compact" => Live \subseteq {target[c]}
    /\ pc[c] \in {"acting", "erasing"} => Live = {}
    /\ pc[c] = "register" => target[c] \in Spawned /\ Live \subseteq {target[c]}

RegistryKnows == LiveRunIsRegistered /\ NothingOverIsRegistered

\* An engine exists from its submission on, and goes on untold only while attached
\* or about to be.
EngineInPhase(r) ==
    /\ r \in attached => run[r] \in {"driving", "detaching"}
    /\ run[r] \in {"unborn", "spawned", "building", "submitting"} => engine[r] = "none"
    /\ run[r] \in {"detaching", "closing", "completed", "over"} => engine[r] # "going"
    /\ run[r] = "unborn" => tools[r] = None

\* A channel that goes to the gate with a message has found nothing to steer.
OneConversation ==
    /\ \A c, e \in Channels : pc[c] # "idle" /\ pc[e] # "idle" => c = e
    /\ ofChannel \subseteq Spawned
    /\ \A c \in Clients : pc[c] = "register" /\ target[c] \in ofChannel => c \in Channels
    /\ \A c \in Channels : op[c] = "send" /\ pc[c] \in {"gate", "interrupt"}
                              => Live \cap ofChannel \subseteq cancelled

GateInv ==
    /\ TypeOK
    /\ GateIsExclusive
    /\ \A c \in Clients : HolderKnows(c)
    /\ RegistryKnows

IInv ==
    /\ GateInv
    /\ \A r \in Runs : EngineInPhase(r)
    /\ AbortReachesEngine
    /\ ToolsShareTheManager
    /\ OneConversation

\* What a run and its engine do, as opposed to a request.
RunStep(r) ==
    RunLoop(r) \/ Flush(r) \/ FlushFails(r) \/ ReachEngine(r) \/ EngineEnds(r) \/ Stop(r)
    \/ Listens(r)

LifeGoesOn == Live' \subseteq Live /\ Spawned' = Spawned /\ Completed \subseteq Completed'

-----------------------------------------------------------------------------
LEMMA InitIInv == Init => IInv
<1> SUFFICES ASSUME Init PROVE IInv
  OBVIOUS
<1>1. GateInv
  BY LifecycleAssumption DEF Init, GateInv, TypeOK, GateIsExclusive, HoldsGate, HolderKnows, RegistryKnows,
     LiveRunIsRegistered, NothingOverIsRegistered, Live, Spawned, Completed, Runs, None, Clients, Operation
<1>2. \A r \in Runs : EngineInPhase(r)
  BY DEF Init, EngineInPhase
<1>3. AbortReachesEngine /\ ToolsShareTheManager
  BY DEF Init, AbortReachesEngine, ToolsShareTheManager, Live, Spawned
<1>4. OneConversation
  BY DEF Init, OneConversation, Clients
<1> QED BY <1>1, <1>2, <1>3, <1>4 DEF IInv

\* Every action keeps the types.
LEMMA TypeStep ==
    ASSUME TypeOK, [Next]_vars
    PROVE  TypeOK'
<1> USE LifecycleAssumption DEF TypeOK, Clients, Runs, None, Goto, Answered, clientVars, runVars
<1>1. ASSUME NEW c \in Clients, Send(c) PROVE TypeOK'
  BY <1>1 DEF Send
<1>2. ASSUME NEW c \in Clients, TakeGate(c) PROVE TypeOK'
  BY <1>2 DEF TakeGate
<1>3. ASSUME NEW c \in Clients, Decides(c) PROVE TypeOK'
  <2>1. active' \in Runs \cup {None}
    BY <1>3 DEF Decides, Forgotten
  <2>2. CASE Answered(c)
    BY <1>3, <2>1, <2>2 DEF Decides, Operation
  <2>3. CASE Goto(c, Behind(op[c])) /\ UNCHANGED <<op, target, seen>>
    BY <1>3, <2>1, <2>3 DEF Decides, Behind
  <2> QED BY <1>3, <2>2, <2>3 DEF Decides
<1>4. ASSUME NEW c \in Clients, Interrupt(c) PROVE TypeOK'
  <2>1. CASE FindsNothing(c)
    <3>1. active' \in Runs \cup {None}
      BY <2>1 DEF FindsNothing, Forgotten
    <3>2. CASE op[c] = "compact"
      BY <1>4, <2>1, <3>1, <3>2 DEF Interrupt, FindsNothing, Operation
    <3>3. CASE op[c] # "compact"
      BY <1>4, <2>1, <3>1, <3>3 DEF Interrupt, FindsNothing
    <3> QED BY <3>2, <3>3
  <2>2. CASE RefusesFork(c)
    BY <1>4, <2>2 DEF Interrupt, RefusesFork, Operation
  <2>3. CASE AbortsActive(c)
    BY <1>4, <2>3 DEF Interrupt, AbortsActive, NothingActive, Completed, Abort
  <2> QED BY <1>4, <2>1, <2>2, <2>3 DEF Interrupt
<1>5. ASSUME NEW c \in Clients, Stopped(c) PROVE TypeOK'
  <2>1. CASE op[c] = "compact"
    BY <1>5, <2>1 DEF Stopped, Operation
  <2>2. CASE op[c] # "compact"
    BY <1>5, <2>2 DEF Stopped
  <2> QED BY <2>1, <2>2
<1>6. ASSUME NEW c \in Clients, TimesOut(c) PROVE TypeOK'
  BY <1>6 DEF TimesOut, Operation
<1>7. ASSUME NEW c \in Clients, Start(c) PROVE TypeOK'
  BY <1>7 DEF Start
<1>8. ASSUME NEW c \in Clients, StartFails(c) PROVE TypeOK'
  BY <1>8 DEF StartFails, Operation
<1>9. ASSUME NEW c \in Clients, Register(c) PROVE TypeOK'
  BY <1>9 DEF Register, Operation
<1>10. ASSUME NEW c \in Clients, Retire(c) PROVE TypeOK'
  BY <1>10 DEF Retire
<1>11. ASSUME NEW c \in Clients, Erase(c) PROVE TypeOK'
  BY <1>11 DEF Erase, Operation
<1>12. ASSUME NEW c \in Clients, Copy(c) PROVE TypeOK'
  BY <1>12 DEF Copy, Operation
<1>13. ASSUME NEW c \in Clients, NEW o \in Operation \ {"send"}, Ask(c, o) PROVE TypeOK'
  BY <1>13 DEF Ask, Behind, Operation
<1>14. ASSUME NEW r \in Runs, Begins(r) PROVE TypeOK'
  BY <1>14 DEF Begins, Phase
<1>15. ASSUME NEW r \in Runs, Build(r) PROVE TypeOK'
  BY <1>15 DEF Build, Phase
<1>16. ASSUME NEW r \in Runs, BuildFails(r) PROVE TypeOK'
  BY <1>16 DEF BuildFails, Phase
<1>17. ASSUME NEW r \in Runs, Submit(r) PROVE TypeOK'
  BY <1>17 DEF Submit, Phase
<1>18. ASSUME NEW r \in Runs, Install(r) PROVE TypeOK'
  BY <1>18 DEF Install, Phase, Told
<1>19. ASSUME NEW r \in Runs, FinalFlush(r) PROVE TypeOK'
  BY <1>19 DEF FinalFlush, Phase
<1>20. ASSUME NEW r \in Runs, DetachEngine(r) PROVE TypeOK'
  BY <1>20 DEF DetachEngine, Phase
<1>21. ASSUME NEW r \in Runs, Complete(r) PROVE TypeOK'
  BY <1>21 DEF Complete, Phase
<1>22. ASSUME NEW r \in Runs, Unregister(r) PROVE TypeOK'
  BY <1>22 DEF Unregister, Phase
<1>23. ASSUME NEW r \in Runs, Flush(r) PROVE TypeOK'
  BY <1>23 DEF Flush
<1>24. ASSUME NEW r \in Runs, FlushFails(r) PROVE TypeOK'
  BY <1>24 DEF FlushFails, Phase, Told
<1>25. ASSUME NEW r \in Runs, ReachEngine(r) PROVE TypeOK'
  <2>1. engine' \in [Runs -> {"none", "going", "told", "ended"}]
    BY <1>25 DEF ReachEngine, Told
  <2> QED BY <1>25, <2>1 DEF ReachEngine
<1>26. ASSUME NEW r \in Runs, EngineEnds(r) PROVE TypeOK'
  BY <1>26 DEF EngineEnds
<1>27. ASSUME NEW r \in Runs, Stop(r) PROVE TypeOK'
  BY <1>27 DEF Stop, Live, Spawned, Completed, Abort
<1>28. ASSUME NEW r \in Runs, Listens(r) PROVE TypeOK'
  BY <1>28 DEF Listens, Lags, CatchesUp, Leaves, Live, Spawned, Completed, Abort
<1>29. CASE UNCHANGED vars
  BY <1>29 DEF vars
<1> QED
  BY <1>1, <1>2, <1>3, <1>4, <1>5, <1>6, <1>7, <1>8, <1>9, <1>10, <1>11, <1>12, <1>13, <1>14,
     <1>15, <1>16, <1>17, <1>18, <1>19, <1>20, <1>21, <1>22, <1>23, <1>24, <1>25, <1>26, <1>27,
     <1>28, <1>29 DEF Next, Request, RunLoop

LEMMA RunsStand == run' = run => Live' = Live /\ Spawned' = Spawned /\ Completed' = Completed
  BY DEF Live, Spawned, Completed

\* A run and its engine leave the requests alone and bring no run to life.
LEMMA RunsOnlyEnd ==
    ASSUME TypeOK, NEW r \in Runs, RunStep(r)
    PROVE  /\ UNCHANGED clientVars /\ LifeGoesOn
           /\ ofChannel' = ofChannel /\ cancelled \subseteq cancelled'
           /\ Unregister(r) \/ (active' = active /\ \A s \in Runs : run'[s] = "over" => run[s] = "over")
<1> USE DEF LifeGoesOn, Live, Spawned, Completed, TypeOK, runVars, clientVars, Abort
<1>1. CASE Begins(r)
  BY <1>1 DEF Begins, Phase
<1>2. CASE Build(r)
  BY <1>2 DEF Build, Phase
<1>3. CASE BuildFails(r)
  BY <1>3 DEF BuildFails, Phase
<1>4. CASE Submit(r)
  BY <1>4 DEF Submit, Phase
<1>5. CASE Install(r)
  BY <1>5 DEF Install, Phase
<1>6. CASE FinalFlush(r)
  BY <1>6 DEF FinalFlush, Phase
<1>7. CASE DetachEngine(r)
  BY <1>7 DEF DetachEngine, Phase
<1>8. CASE Complete(r)
  BY <1>8 DEF Complete, Phase
<1>9. CASE Unregister(r)
  <2>1. UNCHANGED clientVars /\ LifeGoesOn
    BY <1>9 DEF Unregister, Phase
  <2>2. ofChannel' = ofChannel /\ cancelled' = cancelled
    BY <1>9 DEF Unregister
  <2> QED BY <1>9, <2>1, <2>2
<1>10. CASE Flush(r)
  BY <1>10 DEF Flush
<1>11. CASE FlushFails(r)
  BY <1>11 DEF FlushFails, Phase
<1>12. CASE ReachEngine(r)
  BY <1>12 DEF ReachEngine
<1>13. CASE EngineEnds(r)
  BY <1>13 DEF EngineEnds
<1>14. CASE Stop(r)
  BY <1>14 DEF Stop
<1>15. CASE Listens(r)
  BY <1>15 DEF Listens, Lags, CatchesUp, Leaves
<1> QED
  BY <1>1, <1>2, <1>3, <1>4, <1>5, <1>6, <1>7, <1>8, <1>9, <1>10, <1>11, <1>12, <1>13, <1>14, <1>15
     DEF RunStep, RunLoop

\* Nobody takes the gate while another holds it.
LEMMA GateStep ==
    ASSUME TypeOK, GateIsExclusive, [Next]_vars
    PROVE  GateIsExclusive'
<1> USE DEF GateIsExclusive, HoldsGate, TypeOK, Goto, Answered, clientVars
<1>1. ASSUME NEW c \in Clients, Send(c) PROVE GateIsExclusive'
  BY <1>1 DEF Send
<1>2. ASSUME NEW c \in Clients, TakeGate(c) PROVE GateIsExclusive'
  BY <1>2 DEF TakeGate
<1>3. ASSUME NEW c \in Clients, Decides(c) PROVE GateIsExclusive'
  BY <1>3 DEF Decides, Behind
<1>4. ASSUME NEW c \in Clients, Interrupt(c) PROVE GateIsExclusive'
  BY <1>4 DEF Interrupt, FindsNothing, RefusesFork, AbortsActive
<1>5. ASSUME NEW c \in Clients, Stopped(c) PROVE GateIsExclusive'
  BY <1>5 DEF Stopped
<1>6. ASSUME NEW c \in Clients, TimesOut(c) PROVE GateIsExclusive'
  BY <1>6 DEF TimesOut
<1>7. ASSUME NEW c \in Clients, Start(c) PROVE GateIsExclusive'
  BY <1>7 DEF Start
<1>8. ASSUME NEW c \in Clients, StartFails(c) PROVE GateIsExclusive'
  BY <1>8 DEF StartFails
<1>9. ASSUME NEW c \in Clients, Register(c) PROVE GateIsExclusive'
  BY <1>9 DEF Register
<1>10. ASSUME NEW c \in Clients, Retire(c) PROVE GateIsExclusive'
  BY <1>10 DEF Retire
<1>11. ASSUME NEW c \in Clients, Erase(c) PROVE GateIsExclusive'
  BY <1>11 DEF Erase
<1>12. ASSUME NEW c \in Clients, Copy(c) PROVE GateIsExclusive'
  BY <1>12 DEF Copy
<1>13. ASSUME NEW c \in Clients, NEW o \in Operation \ {"send"}, Ask(c, o) PROVE GateIsExclusive'
  BY <1>13 DEF Ask, Behind
<1>14. ASSUME NEW r \in Runs, RunStep(r) PROVE GateIsExclusive'
  BY <1>14, RunsOnlyEnd
<1>15. CASE UNCHANGED vars
  BY <1>15 DEF vars
<1> QED
  BY <1>1, <1>2, <1>3, <1>4, <1>5, <1>6, <1>7, <1>8, <1>9, <1>10, <1>11, <1>12, <1>13, <1>14,
     <1>15 DEF Next, Request, RunStep

\* Behind the gate the registry tells the whole truth.
LEMMA HolderSeesAll ==
    ASSUME GateInv, NEW c \in Clients, HoldsGate(c), pc[c] # "register"
    PROVE  Live \subseteq {active} /\ (NothingActive => Live = {})
<1>1. BeingRegistered = {}
  BY DEF GateInv, GateIsExclusive, HoldsGate, HolderKnows, BeingRegistered
<1>2. \A r \in Live : r = active
  BY <1>1 DEF GateInv, RegistryKnows, LiveRunIsRegistered
<1>3. None \notin Live
  BY LifecycleAssumption DEF Live, Spawned, Runs, None
<1> QED BY <1>2, <1>3 DEF NothingActive, Live

LEMMA StartIsAlone ==
    ASSUME GateInv, NEW c \in Clients, Start(c)
    PROVE  /\ \A d \in Clients : HoldsGate(d) => d = c
           /\ target'[c] \in Spawned' /\ Live' = {target'[c]} /\ Completed' = Completed
           /\ run[target'[c]] = "unborn" /\ Spawned' = Spawned \cup {target'[c]}
<1>1. TypeOK /\ HoldsGate(c) /\ Live = {}
  BY DEF GateInv, Start, HoldsGate, HolderKnows
<1>2. PICK r \in Runs : /\ run[r] = "unborn" /\ run' = [run EXCEPT ![r] = "spawned"]
                        /\ target' = [target EXCEPT ![c] = r]
  BY DEF Start
<1>3. target'[c] = r
  BY <1>1, <1>2 DEF TypeOK
<1>4. Spawned' = Spawned \cup {r} /\ Completed' = Completed
  BY <1>1, <1>2 DEF TypeOK, Spawned, Completed
<1>5. r \notin Completed
  BY <1>2 DEF Completed
<1> QED BY <1>1, <1>2, <1>3, <1>4, <1>5 DEF Live, GateInv, GateIsExclusive

\* A request learns that nothing is alive, and nothing is started before it acts.
LEMMA HolderStep ==
    ASSUME GateInv, [Next]_vars
    PROVE  \A c \in Clients : HolderKnows(c)'
<1> SUFFICES ASSUME NEW d \in Clients PROVE HolderKnows(d)'
  OBVIOUS
<1>a. TypeOK /\ HolderKnows(d)
  BY DEF GateInv
<1> USE <1>a, RunsStand DEF HolderKnows, TypeOK, Goto, Answered, clientVars, runVars
<1>1. ASSUME NEW c \in Clients, Send(c) PROVE HolderKnows(d)'
  <2>1. CASE c = d
    BY <1>1, <2>1 DEF Send
  <2>2. CASE c # d
    BY <1>1, <2>2 DEF Send
  <2> QED BY <2>1, <2>2
<1>2. ASSUME NEW c \in Clients, TakeGate(c) PROVE HolderKnows(d)'
  BY <1>2 DEF TakeGate
<1>3. ASSUME NEW c \in Clients, Decides(c) PROVE HolderKnows(d)'
  BY <1>3 DEF Decides, Behind
<1>4. ASSUME NEW c \in Clients, Interrupt(c) PROVE HolderKnows(d)'
  <2>1. op[c] # "compact" => (NothingActive => Live = {}) /\ Live \subseteq {active}
    BY <1>4, HolderSeesAll DEF Interrupt, HoldsGate
  <2>2. CASE FindsNothing(c)
    BY <1>4, <2>1, <2>2 DEF Interrupt, FindsNothing
  <2>3. CASE RefusesFork(c)
    BY <1>4, <2>3 DEF Interrupt, RefusesFork
  <2>4. CASE AbortsActive(c)
    BY <1>4, <2>1, <2>4 DEF Interrupt, AbortsActive
  <2> QED BY <1>4, <2>2, <2>3, <2>4 DEF Interrupt
<1>5. ASSUME NEW c \in Clients, Stopped(c) PROVE HolderKnows(d)'
  <2>1. CASE op[c] = "compact"
    BY <1>5, <2>1 DEF Stopped
  <2>2. CASE op[c] # "compact" /\ c = d
    BY <1>5, <2>2 DEF Stopped, Live
  <2>3. CASE op[c] # "compact" /\ c # d
    BY <1>5, <2>3 DEF Stopped
  <2> QED BY <2>1, <2>2, <2>3
<1>6. ASSUME NEW c \in Clients, TimesOut(c) PROVE HolderKnows(d)'
  BY <1>6 DEF TimesOut
<1>7. ASSUME NEW c \in Clients, Start(c) PROVE HolderKnows(d)'
  <2>1. CASE d = c
    <3>1. pc'[c] = "register" /\ op'[c] = "send"
      BY <1>7 DEF Start
    <3> QED BY <2>1, <3>1, <1>7, StartIsAlone
  <2>2. CASE d # c
    <3>1. pc'[d] = pc[d] /\ op'[d] = op[d] /\ target'[d] = target[d]
      BY <1>7, <2>2 DEF Start
    <3>2. ~HoldsGate(d)
      BY <1>7, <2>2, StartIsAlone
    <3> QED BY <3>1, <3>2 DEF HoldsGate
  <2> QED BY <2>1, <2>2
<1>8. ASSUME NEW c \in Clients, StartFails(c) PROVE HolderKnows(d)'
  BY <1>8 DEF StartFails
<1>9. ASSUME NEW c \in Clients, Register(c) PROVE HolderKnows(d)'
  BY <1>9 DEF Register
<1>10. ASSUME NEW c \in Clients, Retire(c) PROVE HolderKnows(d)'
  BY <1>10 DEF Retire
<1>11. ASSUME NEW c \in Clients, Erase(c) PROVE HolderKnows(d)'
  BY <1>11 DEF Erase
<1>12. ASSUME NEW c \in Clients, Copy(c) PROVE HolderKnows(d)'
  BY <1>12 DEF Copy
<1>13. ASSUME NEW c \in Clients, NEW o \in Operation \ {"send"}, Ask(c, o) PROVE HolderKnows(d)'
  BY <1>13 DEF Ask, Behind
<1>14. ASSUME NEW r \in Runs, RunStep(r) PROVE HolderKnows(d)'
  BY <1>14, RunsOnlyEnd DEF LifeGoesOn
<1>15. CASE UNCHANGED vars
  BY <1>15 DEF vars
<1> QED
  BY <1>1, <1>2, <1>3, <1>4, <1>5, <1>6, <1>7, <1>8, <1>9, <1>10, <1>11, <1>12, <1>13, <1>14,
     <1>15 DEF Next, Request, RunStep

LEMMA RegisteringStands ==
    ASSUME TypeOK, NEW c \in Clients, pc[c] # "register", pc'[c] # "register",
           \A d \in Clients \ {c} : pc'[d] = pc[d] /\ target'[d] = target[d]
    PROVE  BeingRegistered' = BeingRegistered
<1>1. \A d \in Clients : pc'[d] = "register" <=> pc[d] = "register"
  OBVIOUS
<1>2. \A d \in Clients : pc[d] = "register" => target'[d] = target[d]
  OBVIOUS
<1> QED BY <1>1, <1>2 DEF BeingRegistered

\* An entry that is dropped because it has completed hides no run that is alive.
LEMMA RegistryStands ==
    ASSUME TypeOK, RegistryKnows, BeingRegistered' = BeingRegistered, run' = run,
           active' \in {active, Forgotten}
    PROVE  RegistryKnows'
<1>1. LiveRunIsRegistered'
  BY RunsStand DEF RegistryKnows, LiveRunIsRegistered, Forgotten, Live
<1>2. NothingOverIsRegistered'
  BY DEF RegistryKnows, NothingOverIsRegistered, Forgotten
<1> QED BY <1>1, <1>2 DEF RegistryKnows

\* The entry of a run that is alive is neither overwritten nor removed.
LEMMA RegistryStep ==
    ASSUME GateInv, [Next]_vars
    PROVE  RegistryKnows'
<1>a. TypeOK /\ RegistryKnows
  BY DEF GateInv
<1> USE <1>a
<1>1. ASSUME NEW c \in Clients, Send(c) PROVE RegistryKnows'
  <2>1. /\ pc[c] # "register" /\ pc'[c] # "register" /\ run' = run
        /\ \A d \in Clients \ {c} : pc'[d] = pc[d] /\ target'[d] = target[d]
        /\ active' \in {active, Forgotten}
    BY <1>1 DEF Send, TypeOK, Goto, Answered, runVars
  <2> QED BY <2>1, RegisteringStands, RegistryStands
<1>2. ASSUME NEW c \in Clients, TakeGate(c) PROVE RegistryKnows'
  <2>1. /\ pc[c] # "register" /\ pc'[c] # "register" /\ run' = run
        /\ \A d \in Clients \ {c} : pc'[d] = pc[d] /\ target'[d] = target[d]
        /\ active' \in {active, Forgotten}
    BY <1>2 DEF TakeGate, TypeOK, Goto, Answered, runVars
  <2> QED BY <2>1, RegisteringStands, RegistryStands
<1>3. ASSUME NEW c \in Clients, Decides(c) PROVE RegistryKnows'
  <2>1. /\ pc[c] # "register" /\ pc'[c] # "register" /\ run' = run
        /\ \A d \in Clients \ {c} : pc'[d] = pc[d] /\ target'[d] = target[d]
        /\ active' \in {active, Forgotten}
    BY <1>3 DEF Decides, Behind, TypeOK, Goto, Answered, runVars
  <2> QED BY <2>1, RegisteringStands, RegistryStands
<1>4. ASSUME NEW c \in Clients, Interrupt(c) PROVE RegistryKnows'
  <2>1. /\ pc[c] # "register" /\ pc'[c] # "register" /\ run' = run
        /\ \A d \in Clients \ {c} : pc'[d] = pc[d] /\ target'[d] = target[d]
        /\ active' \in {active, Forgotten}
    BY <1>4 DEF Interrupt, FindsNothing, RefusesFork, AbortsActive, TypeOK, Goto, Answered, runVars
  <2> QED BY <2>1, RegisteringStands, RegistryStands
<1>5. ASSUME NEW c \in Clients, Stopped(c) PROVE RegistryKnows'
  <2>1. /\ pc[c] # "register" /\ pc'[c] # "register" /\ run' = run
        /\ \A d \in Clients \ {c} : pc'[d] = pc[d] /\ target'[d] = target[d]
        /\ active' \in {active, Forgotten}
    BY <1>5 DEF Stopped, TypeOK, Goto, Answered, runVars
  <2> QED BY <2>1, RegisteringStands, RegistryStands
<1>6. ASSUME NEW c \in Clients, TimesOut(c) PROVE RegistryKnows'
  <2>1. /\ pc[c] # "register" /\ pc'[c] # "register" /\ run' = run
        /\ \A d \in Clients \ {c} : pc'[d] = pc[d] /\ target'[d] = target[d]
        /\ active' \in {active, Forgotten}
    BY <1>6 DEF TimesOut, TypeOK, Goto, Answered, runVars
  <2> QED BY <2>1, RegisteringStands, RegistryStands
<1>7. ASSUME NEW c \in Clients, Start(c) PROVE RegistryKnows'
  <2>1. pc'[c] = "register" /\ active' = active
    BY <1>7 DEF Start, TypeOK, Goto
  <2>2. LiveRunIsRegistered'
    BY <1>7, <2>1, StartIsAlone DEF LiveRunIsRegistered, BeingRegistered
  <2>3. NothingOverIsRegistered'
    BY <1>7, <2>1 DEF Start, RegistryKnows, NothingOverIsRegistered, TypeOK
  <2> QED BY <2>2, <2>3 DEF RegistryKnows
<1>8. ASSUME NEW c \in Clients, StartFails(c) PROVE RegistryKnows'
  <2>1. /\ pc[c] # "register" /\ pc'[c] # "register" /\ run' = run
        /\ \A d \in Clients \ {c} : pc'[d] = pc[d] /\ target'[d] = target[d]
        /\ active' \in {active, Forgotten}
    BY <1>8 DEF StartFails, TypeOK, Goto, Answered, runVars
  <2> QED BY <2>1, RegisteringStands, RegistryStands
<1>9. ASSUME NEW c \in Clients, Register(c) PROVE RegistryKnows'
  <2>1. /\ run' = run /\ target[c] \in Runs /\ Live \subseteq {target[c]}
        /\ active' = IF target[c] \in Completed THEN active ELSE target[c]
    BY <1>9 DEF Register, GateInv, HolderKnows, runVars, Spawned
  <2>2. LiveRunIsRegistered'
    BY <2>1, RunsStand DEF LiveRunIsRegistered, Live
  <2>3. NothingOverIsRegistered'
    BY <2>1 DEF RegistryKnows, NothingOverIsRegistered, Completed
  <2> QED BY <2>2, <2>3 DEF RegistryKnows
<1>10. ASSUME NEW c \in Clients, Retire(c) PROVE RegistryKnows'
  <2>1. /\ pc[c] # "register" /\ pc'[c] # "register" /\ run' = run
        /\ \A d \in Clients \ {c} : pc'[d] = pc[d] /\ target'[d] = target[d]
        /\ active' \in {active, Forgotten}
    BY <1>10 DEF Retire, TypeOK, Goto, Answered, runVars
  <2> QED BY <2>1, RegisteringStands, RegistryStands
<1>11. ASSUME NEW c \in Clients, Erase(c) PROVE RegistryKnows'
  <2>1. /\ pc[c] # "register" /\ pc'[c] # "register" /\ run' = run
        /\ \A d \in Clients \ {c} : pc'[d] = pc[d] /\ target'[d] = target[d]
        /\ active' \in {active, Forgotten}
    BY <1>11 DEF Erase, TypeOK, Goto, Answered, runVars
  <2> QED BY <2>1, RegisteringStands, RegistryStands
<1>12. ASSUME NEW c \in Clients, Copy(c) PROVE RegistryKnows'
  <2>1. /\ pc[c] # "register" /\ pc'[c] # "register" /\ run' = run
        /\ \A d \in Clients \ {c} : pc'[d] = pc[d] /\ target'[d] = target[d]
        /\ active' \in {active, Forgotten}
    BY <1>12 DEF Copy, TypeOK, Goto, Answered, runVars
  <2> QED BY <2>1, RegisteringStands, RegistryStands
<1>13. ASSUME NEW c \in Clients, NEW o \in Operation \ {"send"}, Ask(c, o) PROVE RegistryKnows'
  <2>1. /\ pc[c] # "register" /\ pc'[c] # "register" /\ run' = run
        /\ \A d \in Clients \ {c} : pc'[d] = pc[d] /\ target'[d] = target[d]
        /\ active' \in {active, Forgotten}
    BY <1>13 DEF Ask, Behind, TypeOK, Goto, Answered, runVars
  <2> QED BY <2>1, RegisteringStands, RegistryStands
<1>14. ASSUME NEW r \in Runs, RunStep(r) PROVE RegistryKnows'
  <2>1. UNCHANGED clientVars /\ LifeGoesOn
    BY <1>14, RunsOnlyEnd
  <2>2. BeingRegistered' = BeingRegistered
    BY <2>1 DEF BeingRegistered, clientVars
  <2>3. CASE Unregister(r)
    <3>1. r \in Completed /\ run' = [run EXCEPT ![r] = "over"]
          /\ active' = IF active = r THEN None ELSE active
      BY <2>3 DEF Unregister, Phase, Completed
    <3>2. LiveRunIsRegistered'
      BY <2>1, <2>2, <3>1 DEF LifeGoesOn, RegistryKnows, LiveRunIsRegistered, Live
    <3>3. NothingOverIsRegistered'
      BY <3>1 DEF RegistryKnows, NothingOverIsRegistered, TypeOK
    <3> QED BY <3>2, <3>3 DEF RegistryKnows
  <2>4. CASE ~Unregister(r)
    <3>1. active' = active
          /\ \A s \in Runs : run'[s] = "over" => run[s] = "over"
      BY <1>14, <2>4, RunsOnlyEnd
    <3>2. LiveRunIsRegistered'
      BY <2>1, <2>2, <3>1 DEF LifeGoesOn, RegistryKnows, LiveRunIsRegistered
    <3>3. NothingOverIsRegistered'
      BY <3>1 DEF RegistryKnows, NothingOverIsRegistered, TypeOK
    <3> QED BY <3>2, <3>3 DEF RegistryKnows
  <2> QED BY <2>3, <2>4
<1>15. CASE UNCHANGED vars
  BY <1>15, RegistryStands DEF vars, clientVars, runVars, BeingRegistered
<1> QED
  BY <1>1, <1>2, <1>3, <1>4, <1>5, <1>6, <1>7, <1>8, <1>9, <1>10, <1>11, <1>12, <1>13, <1>14,
     <1>15 DEF Next, Request, RunStep

\* An engine and the phase of its run go together.
LEMMA EngineStep ==
    ASSUME TypeOK, \A r \in Runs : EngineInPhase(r), [Next]_vars
    PROVE  \A r \in Runs : EngineInPhase(r)'
<1> SUFFICES ASSUME NEW s \in Runs PROVE EngineInPhase(s)'
  OBVIOUS
<1>a. TypeOK /\ EngineInPhase(s)
  OBVIOUS
<1> USE <1>a DEF EngineInPhase, TypeOK, clientVars, runVars
<1>1. ASSUME NEW c \in Clients, Start(c) PROVE EngineInPhase(s)'
  BY <1>1 DEF Start
<1>2. ASSUME NEW c \in Clients,
           \/ Send(c) \/ TakeGate(c) \/ Decides(c) \/ Interrupt(c) \/ Stopped(c)
           \/ TimesOut(c) \/ StartFails(c) \/ Register(c) \/ Retire(c) \/ Erase(c)
           \/ Copy(c) \/ \E o \in Operation \ {"send"} : Ask(c, o)
    PROVE  EngineInPhase(s)'
  BY <1>2 DEF Send, Ask, Decides, TakeGate, Interrupt, Stopped, TimesOut, StartFails, Register,
     Retire, Erase, Copy
<1>3. ASSUME NEW r \in Runs, Begins(r) PROVE EngineInPhase(s)'
  BY <1>3 DEF Begins, Phase
<1>4. ASSUME NEW r \in Runs, Build(r) PROVE EngineInPhase(s)'
  BY <1>4 DEF Build, Phase
<1>5. ASSUME NEW r \in Runs, BuildFails(r) PROVE EngineInPhase(s)'
  BY <1>5 DEF BuildFails, Phase
<1>6. ASSUME NEW r \in Runs, Submit(r) PROVE EngineInPhase(s)'
  BY <1>6 DEF Submit, Phase
<1>7. ASSUME NEW r \in Runs, Install(r) PROVE EngineInPhase(s)'
  BY <1>7 DEF Install, Phase, Told
<1>8. ASSUME NEW r \in Runs, FinalFlush(r) PROVE EngineInPhase(s)'
  BY <1>8 DEF FinalFlush, Phase
<1>9. ASSUME NEW r \in Runs, DetachEngine(r) PROVE EngineInPhase(s)'
  BY <1>9 DEF DetachEngine, Phase
<1>10. ASSUME NEW r \in Runs, Complete(r) PROVE EngineInPhase(s)'
  BY <1>10 DEF Complete, Phase
<1>11. ASSUME NEW r \in Runs, Unregister(r) PROVE EngineInPhase(s)'
  BY <1>11 DEF Unregister, Phase
<1>12. ASSUME NEW r \in Runs, Flush(r) PROVE EngineInPhase(s)'
  BY <1>12 DEF Flush
<1>13. ASSUME NEW r \in Runs, FlushFails(r) PROVE EngineInPhase(s)'
  BY <1>13 DEF FlushFails, Phase, Told
<1>14. ASSUME NEW r \in Runs, ReachEngine(r) PROVE EngineInPhase(s)'
  BY <1>14 DEF ReachEngine, Told
<1>15. ASSUME NEW r \in Runs, EngineEnds(r) PROVE EngineInPhase(s)'
  BY <1>15 DEF EngineEnds
<1>16. ASSUME NEW r \in Runs, Stop(r) PROVE EngineInPhase(s)'
  BY <1>16 DEF Stop
<1>17. ASSUME NEW r \in Runs, Listens(r) PROVE EngineInPhase(s)'
  BY <1>17 DEF Listens, Lags, CatchesUp, Leaves
<1>18. CASE UNCHANGED vars
  BY <1>18 DEF vars
<1> QED
  BY <1>1, <1>2, <1>3, <1>4, <1>5, <1>6, <1>7, <1>8, <1>9, <1>10, <1>11, <1>12, <1>13, <1>14,
     <1>15, <1>16, <1>17, <1>18 DEF Next, Request, RunLoop

\* An abort that misses the engine is seen when the engine is installed.
LEMMA AbortStep ==
    ASSUME TypeOK, AbortReachesEngine, \A r \in Runs : EngineInPhase(r), [Next]_vars
    PROVE  AbortReachesEngine'
<1> USE DEF AbortReachesEngine, EngineInPhase, TypeOK, clientVars, runVars
<1>1. ASSUME NEW c \in Clients, Interrupt(c) PROVE AbortReachesEngine'
  BY <1>1 DEF Interrupt, FindsNothing, RefusesFork, AbortsActive, Abort, NothingActive
<1>2. ASSUME NEW c \in Clients, Start(c) PROVE AbortReachesEngine'
  BY <1>2 DEF Start
<1>3. ASSUME NEW c \in Clients,
           \/ Send(c) \/ TakeGate(c) \/ Decides(c) \/ Stopped(c) \/ TimesOut(c)
           \/ StartFails(c) \/ Register(c) \/ Retire(c) \/ Erase(c) \/ Copy(c)
           \/ \E o \in Operation \ {"send"} : Ask(c, o)
    PROVE  AbortReachesEngine'
  BY <1>3 DEF Send, Ask, Decides, TakeGate, Stopped, TimesOut, StartFails, Register, Retire,
     Erase, Copy
<1>4. ASSUME NEW r \in Runs, Begins(r) PROVE AbortReachesEngine'
  BY <1>4 DEF Begins, Phase
<1>5. ASSUME NEW r \in Runs, Build(r) PROVE AbortReachesEngine'
  BY <1>5 DEF Build, Phase
<1>6. ASSUME NEW r \in Runs, BuildFails(r) PROVE AbortReachesEngine'
  BY <1>6 DEF BuildFails, Phase
<1>7. ASSUME NEW r \in Runs, Submit(r) PROVE AbortReachesEngine'
  BY <1>7 DEF Submit, Phase
<1>8. ASSUME NEW r \in Runs, Install(r) PROVE AbortReachesEngine'
  BY <1>8 DEF Install, Phase, Told
<1>9. ASSUME NEW r \in Runs, FinalFlush(r) PROVE AbortReachesEngine'
  BY <1>9 DEF FinalFlush, Phase
<1>10. ASSUME NEW r \in Runs, DetachEngine(r) PROVE AbortReachesEngine'
  BY <1>10 DEF DetachEngine, Phase
<1>11. ASSUME NEW r \in Runs, Complete(r) PROVE AbortReachesEngine'
  BY <1>11 DEF Complete, Phase
<1>12. ASSUME NEW r \in Runs, Unregister(r) PROVE AbortReachesEngine'
  BY <1>12 DEF Unregister, Phase
<1>13. ASSUME NEW r \in Runs, Flush(r) PROVE AbortReachesEngine'
  BY <1>13 DEF Flush
<1>14. ASSUME NEW r \in Runs, FlushFails(r) PROVE AbortReachesEngine'
  BY <1>14 DEF FlushFails, Phase, Told
<1>15. ASSUME NEW r \in Runs, ReachEngine(r) PROVE AbortReachesEngine'
  BY <1>15 DEF ReachEngine, Told
<1>16. ASSUME NEW r \in Runs, EngineEnds(r) PROVE AbortReachesEngine'
  BY <1>16 DEF EngineEnds
<1>17. ASSUME NEW r \in Runs, Stop(r) PROVE AbortReachesEngine'
  BY <1>17 DEF Stop, Abort
<1>18. ASSUME NEW r \in Runs, Listens(r) PROVE AbortReachesEngine'
  BY <1>18 DEF Listens, Lags, CatchesUp, Leaves, Abort
<1>19. CASE UNCHANGED vars
  BY <1>19 DEF vars
<1> QED
  BY <1>1, <1>2, <1>3, <1>4, <1>5, <1>6, <1>7, <1>8, <1>9, <1>10, <1>11, <1>12, <1>13, <1>14,
     <1>15, <1>16, <1>17, <1>18, <1>19 DEF Next, Request, RunLoop

\* A run that is alive is registered, or being registered by one who knows of no other.
LEMMA GateInvGivesOneRun == GateInv => OneRunAtATime
<1> SUFFICES ASSUME GateInv, NEW r \in Live, NEW s \in Live PROVE r = s
  BY DEF OneRunAtATime
<1>1. CASE r \in BeingRegistered \/ s \in BeingRegistered
  BY <1>1 DEF BeingRegistered, GateInv, HolderKnows
<1>2. CASE r \notin BeingRegistered /\ s \notin BeingRegistered
  BY <1>2 DEF GateInv, RegistryKnows, LiveRunIsRegistered
<1> QED BY <1>1, <1>2

\* The manager is exchanged for the only run that is alive, or for none.
LEMMA ToolsStep ==
    ASSUME GateInv, ToolsShareTheManager, \A r \in Runs : EngineInPhase(r), [Next]_vars
    PROVE  ToolsShareTheManager'
<1>a. TypeOK
  BY DEF GateInv
<1> USE <1>a
<1>1. ASSUME NEW c \in Clients, Start(c) PROVE ToolsShareTheManager'
  <2>1. tools' = tools /\ Live' = {target'[c]} /\ target'[c] \in Runs /\ run[target'[c]] = "unborn"
    BY <1>1, StartIsAlone DEF Start, Spawned
  <2>2. tools[target'[c]] = None
    BY <2>1 DEF EngineInPhase
  <2> QED BY <2>1, <2>2 DEF ToolsShareTheManager
<1>2. ASSUME NEW c \in Clients, Retire(c) PROVE ToolsShareTheManager'
  <2>1. Live' = {}
    BY <1>2, RunsStand DEF Retire, GateInv, HolderKnows, runVars
  <2> QED BY <2>1 DEF ToolsShareTheManager
<1>3. ASSUME NEW c \in Clients,
           \/ Send(c) \/ TakeGate(c) \/ Decides(c) \/ Interrupt(c) \/ Stopped(c)
           \/ TimesOut(c) \/ StartFails(c) \/ Register(c) \/ Erase(c) \/ Copy(c)
           \/ \E o \in Operation \ {"send"} : Ask(c, o)
    PROVE  ToolsShareTheManager'
  <2>1. run' = run /\ tools' = tools /\ manager' = manager
    BY <1>3 DEF Send, Ask, Decides, TakeGate, Interrupt, Stopped, TimesOut, StartFails, Register, Erase, Copy, runVars
  <2> QED BY <2>1, RunsStand DEF ToolsShareTheManager
<1>4. ASSUME NEW r \in Runs, Begins(r) PROVE ToolsShareTheManager'
  <2>1. LifeGoesOn
    BY <1>4, RunsOnlyEnd DEF RunStep, RunLoop
  <2>2. manager' = manager /\ \A s \in Runs : tools'[s] \in {tools[s], None}
    BY <1>4 DEF Begins, Phase, TypeOK, runVars
  <2> QED BY <2>1, <2>2 DEF LifeGoesOn, ToolsShareTheManager, Live, Spawned
<1>5. ASSUME NEW r \in Runs, Build(r) PROVE ToolsShareTheManager'
  <2>1. LifeGoesOn
    BY <1>5, RunsOnlyEnd DEF RunStep, RunLoop
  <2>2. r \in Live
    BY <1>5 DEF Build, Phase, Live, Spawned, Completed
  <2>3. Live' \subseteq {r}
    BY <2>1, <2>2, GateInvGivesOneRun DEF OneRunAtATime, LifeGoesOn
  <2>4. tools'[r] = manager' \/ (tools' = tools /\ manager' = manager)
    BY <1>5 DEF Build, TypeOK
  <2> QED BY <2>2, <2>3, <2>4 DEF ToolsShareTheManager
<1>6. ASSUME NEW r \in Runs, BuildFails(r) PROVE ToolsShareTheManager'
  <2>1. LifeGoesOn
    BY <1>6, RunsOnlyEnd DEF RunStep, RunLoop
  <2>2. manager' = manager /\ \A s \in Runs : tools'[s] \in {tools[s], None}
    BY <1>6 DEF BuildFails, Phase, TypeOK, runVars
  <2> QED BY <2>1, <2>2 DEF LifeGoesOn, ToolsShareTheManager, Live, Spawned
<1>7. ASSUME NEW r \in Runs, Submit(r) PROVE ToolsShareTheManager'
  <2>1. LifeGoesOn
    BY <1>7, RunsOnlyEnd DEF RunStep, RunLoop
  <2>2. manager' = manager /\ \A s \in Runs : tools'[s] \in {tools[s], None}
    BY <1>7 DEF Submit, Phase, TypeOK, runVars
  <2> QED BY <2>1, <2>2 DEF LifeGoesOn, ToolsShareTheManager, Live, Spawned
<1>8. ASSUME NEW r \in Runs, Install(r) PROVE ToolsShareTheManager'
  <2>1. LifeGoesOn
    BY <1>8, RunsOnlyEnd DEF RunStep, RunLoop
  <2>2. manager' = manager /\ \A s \in Runs : tools'[s] \in {tools[s], None}
    BY <1>8 DEF Install, Phase, TypeOK, runVars
  <2> QED BY <2>1, <2>2 DEF LifeGoesOn, ToolsShareTheManager, Live, Spawned
<1>9. ASSUME NEW r \in Runs, FinalFlush(r) PROVE ToolsShareTheManager'
  <2>1. LifeGoesOn
    BY <1>9, RunsOnlyEnd DEF RunStep, RunLoop
  <2>2. manager' = manager /\ \A s \in Runs : tools'[s] \in {tools[s], None}
    BY <1>9 DEF FinalFlush, Phase, TypeOK, runVars
  <2> QED BY <2>1, <2>2 DEF LifeGoesOn, ToolsShareTheManager, Live, Spawned
<1>10. ASSUME NEW r \in Runs, DetachEngine(r) PROVE ToolsShareTheManager'
  <2>1. LifeGoesOn
    BY <1>10, RunsOnlyEnd DEF RunStep, RunLoop
  <2>2. manager' = manager /\ \A s \in Runs : tools'[s] \in {tools[s], None}
    BY <1>10 DEF DetachEngine, Phase, TypeOK, runVars
  <2> QED BY <2>1, <2>2 DEF LifeGoesOn, ToolsShareTheManager, Live, Spawned
<1>11. ASSUME NEW r \in Runs, Complete(r) PROVE ToolsShareTheManager'
  <2>1. LifeGoesOn
    BY <1>11, RunsOnlyEnd DEF RunStep, RunLoop
  <2>2. manager' = manager /\ \A s \in Runs : tools'[s] \in {tools[s], None}
    BY <1>11 DEF Complete, Phase, TypeOK, runVars
  <2> QED BY <2>1, <2>2 DEF LifeGoesOn, ToolsShareTheManager, Live, Spawned
<1>12. ASSUME NEW r \in Runs, Unregister(r) PROVE ToolsShareTheManager'
  <2>1. LifeGoesOn
    BY <1>12, RunsOnlyEnd DEF RunStep, RunLoop
  <2>2. manager' = manager /\ \A s \in Runs : tools'[s] \in {tools[s], None}
    BY <1>12 DEF Unregister, Phase, TypeOK, runVars
  <2> QED BY <2>1, <2>2 DEF LifeGoesOn, ToolsShareTheManager, Live, Spawned
<1>13. ASSUME NEW r \in Runs, Flush(r) PROVE ToolsShareTheManager'
  <2>1. LifeGoesOn
    BY <1>13, RunsOnlyEnd DEF RunStep, RunLoop
  <2>2. manager' = manager /\ \A s \in Runs : tools'[s] \in {tools[s], None}
    BY <1>13 DEF Flush, TypeOK, runVars
  <2> QED BY <2>1, <2>2 DEF LifeGoesOn, ToolsShareTheManager, Live, Spawned
<1>14. ASSUME NEW r \in Runs, FlushFails(r) PROVE ToolsShareTheManager'
  <2>1. LifeGoesOn
    BY <1>14, RunsOnlyEnd DEF RunStep, RunLoop
  <2>2. manager' = manager /\ \A s \in Runs : tools'[s] \in {tools[s], None}
    BY <1>14 DEF FlushFails, Phase, TypeOK, runVars
  <2> QED BY <2>1, <2>2 DEF LifeGoesOn, ToolsShareTheManager, Live, Spawned
<1>15. ASSUME NEW r \in Runs, ReachEngine(r) PROVE ToolsShareTheManager'
  <2>1. LifeGoesOn
    BY <1>15, RunsOnlyEnd DEF RunStep, RunLoop
  <2>2. manager' = manager /\ \A s \in Runs : tools'[s] \in {tools[s], None}
    BY <1>15 DEF ReachEngine, TypeOK, runVars
  <2> QED BY <2>1, <2>2 DEF LifeGoesOn, ToolsShareTheManager, Live, Spawned
<1>16. ASSUME NEW r \in Runs, EngineEnds(r) PROVE ToolsShareTheManager'
  <2>1. LifeGoesOn
    BY <1>16, RunsOnlyEnd DEF RunStep, RunLoop
  <2>2. manager' = manager /\ \A s \in Runs : tools'[s] \in {tools[s], None}
    BY <1>16 DEF EngineEnds, TypeOK, runVars
  <2> QED BY <2>1, <2>2 DEF LifeGoesOn, ToolsShareTheManager, Live, Spawned
<1>17. ASSUME NEW r \in Runs, Stop(r) PROVE ToolsShareTheManager'
  <2>1. LifeGoesOn
    BY <1>17, RunsOnlyEnd DEF RunStep, RunLoop
  <2>2. manager' = manager /\ \A s \in Runs : tools'[s] \in {tools[s], None}
    BY <1>17 DEF Stop, TypeOK, runVars
  <2> QED BY <2>1, <2>2 DEF LifeGoesOn, ToolsShareTheManager, Live, Spawned
<1>18. ASSUME NEW r \in Runs, Listens(r) PROVE ToolsShareTheManager'
  <2>1. LifeGoesOn
    BY <1>18, RunsOnlyEnd DEF RunStep
  <2>2. manager' = manager /\ tools' = tools
    BY <1>18 DEF Listens, Lags, CatchesUp, Leaves
  <2> QED BY <2>1, <2>2 DEF LifeGoesOn, ToolsShareTheManager, Live, Spawned
<1>19. CASE UNCHANGED vars
  BY <1>19, RunsStand DEF vars, runVars, ToolsShareTheManager
<1> QED
  BY <1>1, <1>2, <1>3, <1>4, <1>5, <1>6, <1>7, <1>8, <1>9, <1>10, <1>11, <1>12, <1>13, <1>14,
     <1>15, <1>16, <1>17, <1>18, <1>19 DEF Next, Request, RunLoop

\* A request moves alone, and none becomes another before it is answered.
LEMMA RequestsMoveAlone ==
    ASSUME TypeOK, NEW c \in Clients, Request(c) \/ TakeGate(c)
    PROVE  /\ pc[c] # "idle"
           /\ \A d \in Clients \ {c} : pc'[d] = pc[d] /\ op'[d] = op[d] /\ target'[d] = target[d]
           /\ pc'[c] = "register" => Start(c)
           /\ pc'[c] \in {"gate", "interrupt"} => op'[c] = op[c] /\ pc[c] \in {"deciding", "gate"}
<1> USE DEF TypeOK, Goto, Answered, clientVars
<1>1. CASE TakeGate(c)
  BY <1>1 DEF TakeGate
<1>2. CASE Decides(c)
  <2>1. CASE Answered(c)
    BY <1>2, <2>1 DEF Decides
  <2>2. CASE Goto(c, Behind(op[c])) /\ UNCHANGED <<op, target, seen>>
    BY <1>2, <2>2 DEF Decides, Behind
  <2> QED BY <1>2, <2>1, <2>2 DEF Decides
<1>3. CASE Interrupt(c)
  <2>1. CASE FindsNothing(c)
    BY <1>3, <2>1 DEF Interrupt, FindsNothing
  <2>2. CASE RefusesFork(c)
    BY <1>3, <2>2 DEF Interrupt, RefusesFork
  <2>3. CASE AbortsActive(c)
    BY <1>3, <2>3 DEF Interrupt, AbortsActive
  <2> QED BY <1>3, <2>1, <2>2, <2>3 DEF Interrupt
<1>4. CASE Stopped(c)
  <2>1. CASE op[c] = "compact"
    BY <1>4, <2>1 DEF Stopped
  <2>2. CASE op[c] # "compact"
    BY <1>4, <2>2 DEF Stopped
  <2> QED BY <2>1, <2>2
<1>5. CASE TimesOut(c)
  BY <1>5 DEF TimesOut
<1>6. CASE Start(c)
  <2>1. /\ pc[c] = "acting" /\ pc' = [pc EXCEPT ![c] = "register"] /\ op' = op
        /\ \E r \in Runs : target' = [target EXCEPT ![c] = r]
    BY <1>6 DEF Start
  <2> QED BY <1>6, <2>1
<1>7. CASE StartFails(c)
  BY <1>7 DEF StartFails
<1>8. CASE Register(c)
  BY <1>8 DEF Register
<1>9. CASE Retire(c)
  BY <1>9 DEF Retire
<1>10. CASE Erase(c)
  BY <1>10 DEF Erase
<1>11. CASE Copy(c)
  BY <1>11 DEF Copy
<1> QED
  BY <1>1, <1>2, <1>3, <1>4, <1>5, <1>6, <1>7, <1>8, <1>9, <1>10, <1>11 DEF Request

\* A channel that has found nothing to steer interrupts no run of a channel.
LEMMA ConversationStep ==
    ASSUME GateInv, OneConversation, [Next]_vars
    PROVE  OneConversation'
<1>a. TypeOK /\ OneConversation
  BY DEF GateInv
<1> USE <1>a, LifecycleAssumption
<1>1. ASSUME NEW c \in Clients, Send(c) PROVE OneConversation'
  <2>1. ofChannel' = ofChannel /\ run' = run /\ cancelled' = cancelled
    BY <1>1 DEF Send, runVars
  <2>2. /\ \A d \in Clients \ {c} : pc'[d] = pc[d] /\ op'[d] = op[d] /\ target'[d] = target[d]
        /\ pc'[c] # "register" /\ (c \in Channels => pc'[c] = "deciding" /\ Conversing = {})
    BY <1>1 DEF Send, TypeOK, Goto
  <2> QED BY <2>1, <2>2, RunsStand DEF OneConversation, Conversing, Clients
<1>2. ASSUME NEW c \in Clients, TakeGate(c) PROVE OneConversation'
  <2>1. ofChannel' = ofChannel /\ run' = run /\ cancelled \subseteq cancelled'
    BY <1>2 DEF TakeGate, runVars
  <2>2. ~Start(c) /\ pc[c] # "deciding"
    BY <1>2 DEF TakeGate, Start, TypeOK, Goto, Answered
  <2> QED BY <1>2, <2>1, <2>2, RequestsMoveAlone, RunsStand DEF OneConversation, Request, Clients
<1>3. ASSUME NEW c \in Clients, Decides(c) PROVE OneConversation'
  <2>1. ofChannel' = ofChannel /\ run' = run /\ cancelled' = cancelled /\ c \in Clients
        /\ ~Start(c) /\ pc[c] = "deciding"
    BY <1>3 DEF Decides, runVars, Start
  <2>2. ASSUME c \in Channels, op[c] = "send", pc'[c] \in {"gate", "interrupt"}
        PROVE  Live \cap ofChannel \subseteq cancelled
    <3>1. ~Steerable
      BY <1>3, <2>2 DEF Decides, TypeOK, Goto, Answered
    <3>2. BeingRegistered \cap ofChannel = {}
      BY <2>1, <2>2 DEF BeingRegistered, OneConversation
    <3>3. \A r \in Live \cap ofChannel : r = active
      BY <3>2 DEF GateInv, RegistryKnows, LiveRunIsRegistered
    <3>4. active \in Live => active \in cancelled
      BY <3>1 DEF Steerable, NothingActive, Live, Spawned, Runs, None
    <3> QED BY <3>3, <3>4
  <2>3. /\ \A d \in Clients \ {c} : pc'[d] = pc[d] /\ op'[d] = op[d] /\ target'[d] = target[d]
        /\ pc'[c] # "register" /\ (pc'[c] \in {"gate", "interrupt"} => op'[c] = op[c])
    BY <1>3, <2>1, RequestsMoveAlone DEF Request
  <2> QED BY <2>1, <2>2, <2>3, RunsStand DEF OneConversation, Clients
<1>4. ASSUME NEW c \in Clients, Interrupt(c) PROVE OneConversation'
  <2>1. ofChannel' = ofChannel /\ run' = run /\ cancelled \subseteq cancelled'
    BY <1>4 DEF Interrupt, FindsNothing, RefusesFork, AbortsActive, Abort, runVars
  <2>2. ~Start(c) /\ pc[c] # "deciding"
    BY <1>4 DEF Interrupt, Start, TypeOK, Goto, Answered
  <2> QED BY <1>4, <2>1, <2>2, RequestsMoveAlone, RunsStand DEF OneConversation, Request, Clients
<1>5. ASSUME NEW c \in Clients, Stopped(c) PROVE OneConversation'
  <2>1. ofChannel' = ofChannel /\ run' = run /\ cancelled \subseteq cancelled'
    BY <1>5 DEF Stopped, runVars
  <2>2. ~Start(c) /\ pc[c] # "deciding"
    BY <1>5 DEF Stopped, Start, TypeOK, Goto, Answered
  <2> QED BY <1>5, <2>1, <2>2, RequestsMoveAlone, RunsStand DEF OneConversation, Request, Clients
<1>6. ASSUME NEW c \in Clients, TimesOut(c) PROVE OneConversation'
  <2>1. ofChannel' = ofChannel /\ run' = run /\ cancelled \subseteq cancelled'
    BY <1>6 DEF TimesOut, runVars
  <2>2. ~Start(c) /\ pc[c] # "deciding"
    BY <1>6 DEF TimesOut, Start, TypeOK, Goto, Answered
  <2> QED BY <1>6, <2>1, <2>2, RequestsMoveAlone, RunsStand DEF OneConversation, Request, Clients
<1>7. ASSUME NEW c \in Clients, Start(c) PROVE OneConversation'
  <2>0. PICK r \in Runs :
          /\ run[r] = "unborn" /\ target' = [target EXCEPT ![c] = r]
          /\ ofChannel' = IF c \in Channels THEN ofChannel \cup {r} ELSE ofChannel
    BY <1>7 DEF Start
  <2>1. /\ r = target'[c] /\ run[r] = "unborn"
        /\ ofChannel' = IF c \in Channels THEN ofChannel \cup {r} ELSE ofChannel
    BY <2>0 DEF TypeOK
  <2>2. /\ pc' = [pc EXCEPT ![c] = "register"] /\ op' = op /\ pc[c] = "acting"
        /\ cancelled' = cancelled
    BY <1>7 DEF Start, Goto
  <2>3. /\ r \notin ofChannel /\ Spawned' = Spawned \cup {r} /\ Live' = {r}
        /\ \A d \in Clients : HoldsGate(d) => d = c
    BY <1>7, <2>1, StartIsAlone DEF OneConversation, Spawned
  <2>4. \A d, e \in Channels : pc'[d] # "idle" /\ pc'[e] # "idle" => d = e
    BY <2>2 DEF OneConversation, TypeOK, Clients
  <2>5. ofChannel' \subseteq Spawned'
    BY <2>1, <2>3 DEF OneConversation
  <2>6. ASSUME NEW d \in Clients, pc'[d] = "register", target'[d] \in ofChannel' PROVE d \in Channels
    <3>1. d = c
      BY <2>2, <2>3, <2>6 DEF TypeOK, HoldsGate, GateInv, HolderKnows
    <3> QED BY <2>1, <2>3, <2>6, <3>1
  <2>7. ASSUME NEW d \in Channels, op'[d] = "send", pc'[d] \in {"gate", "interrupt"}
        PROVE  Live' \cap ofChannel' \subseteq cancelled'
    <3>1. d # c /\ pc[d] # "idle"
      BY <2>2, <2>7 DEF TypeOK, Clients
    <3>2. c \notin Channels
      BY <2>2, <3>1 DEF OneConversation
    <3> QED BY <2>1, <2>3, <3>2
  <2> QED BY <2>4, <2>5, <2>6, <2>7 DEF OneConversation
<1>8. ASSUME NEW c \in Clients, StartFails(c) PROVE OneConversation'
  <2>1. ofChannel' = ofChannel /\ run' = run /\ cancelled \subseteq cancelled'
    BY <1>8 DEF StartFails, runVars
  <2>2. pc[c] = "acting" /\ pc'[c] = "idle"
    BY <1>8 DEF StartFails, TypeOK, Goto, Answered
  <2>3. ~Start(c)
    BY <2>2 DEF Start, TypeOK, Goto
  <2> QED BY <1>8, <2>1, <2>2, <2>3, RequestsMoveAlone, RunsStand DEF OneConversation, Request, Clients
<1>9. ASSUME NEW c \in Clients, Register(c) PROVE OneConversation'
  <2>1. ofChannel' = ofChannel /\ run' = run /\ cancelled \subseteq cancelled'
    BY <1>9 DEF Register, runVars
  <2>2. ~Start(c) /\ pc[c] # "deciding"
    BY <1>9 DEF Register, Start, TypeOK, Goto, Answered
  <2> QED BY <1>9, <2>1, <2>2, RequestsMoveAlone, RunsStand DEF OneConversation, Request, Clients
<1>10. ASSUME NEW c \in Clients, Retire(c) PROVE OneConversation'
  <2>1. ofChannel' = ofChannel /\ run' = run /\ cancelled \subseteq cancelled'
    BY <1>10 DEF Retire, runVars
  <2>2. ~Start(c) /\ pc[c] # "deciding"
    BY <1>10 DEF Retire, Start, TypeOK, Goto, Answered
  <2> QED BY <1>10, <2>1, <2>2, RequestsMoveAlone, RunsStand DEF OneConversation, Request, Clients
<1>11. ASSUME NEW c \in Clients, Erase(c) PROVE OneConversation'
  <2>1. ofChannel' = ofChannel /\ run' = run /\ cancelled \subseteq cancelled'
    BY <1>11 DEF Erase, runVars
  <2>2. ~Start(c) /\ pc[c] # "deciding"
    BY <1>11 DEF Erase, Start, TypeOK, Goto, Answered
  <2> QED BY <1>11, <2>1, <2>2, RequestsMoveAlone, RunsStand DEF OneConversation, Request, Clients
<1>12. ASSUME NEW c \in Clients, Copy(c) PROVE OneConversation'
  <2>1. ofChannel' = ofChannel /\ run' = run /\ cancelled \subseteq cancelled'
    BY <1>12 DEF Copy, runVars
  <2>2. ~Start(c) /\ pc[c] # "deciding"
    BY <1>12 DEF Copy, Start, TypeOK, Goto, Answered
  <2> QED BY <1>12, <2>1, <2>2, RequestsMoveAlone, RunsStand DEF OneConversation, Request, Clients
<1>13. ASSUME NEW c \in Clients, NEW o \in Operation \ {"send"}, Ask(c, o) PROVE OneConversation'
  <2>1. ofChannel' = ofChannel /\ run' = run /\ cancelled' = cancelled
    BY <1>13 DEF Ask, runVars
  <2>2. /\ \A d \in Clients \ {c} : pc'[d] = pc[d] /\ op'[d] = op[d] /\ target'[d] = target[d]
        /\ pc'[c] # "register" /\ (c \in Channels => pc'[c] = "deciding" /\ Conversing = {})
    BY <1>13 DEF Ask, Behind, TypeOK, Goto
  <2> QED BY <2>1, <2>2, RunsStand DEF OneConversation, Conversing, Clients
<1>14. ASSUME NEW r \in Runs, RunStep(r) PROVE OneConversation'
  BY <1>14, RunsOnlyEnd DEF OneConversation, LifeGoesOn, clientVars
<1>15. CASE UNCHANGED vars
  BY <1>15, RunsStand DEF OneConversation, vars, clientVars, runVars
<1> QED
  BY <1>1, <1>2, <1>3, <1>4, <1>5, <1>6, <1>7, <1>8, <1>9, <1>10, <1>11, <1>12, <1>13, <1>14,
     <1>15 DEF Next, Request, RunStep

\* What a channel aborts is no run of a channel, or a run that is stopped already.
LEMMA ChannelStep ==
    ASSUME GateInv, OneConversation, [Next]_vars, NEW c \in Channels,
           op[c] = "send", pc[c] = "interrupt", pc'[c] = "wait"
    PROVE  target'[c] \notin ofChannel \/ target'[c] \in cancelled
<1>1. TypeOK /\ c \in Clients
  BY DEF GateInv, Clients
<1>2. Interrupt(c)
  <2>1. \A d \in Clients : Request(d) \/ TakeGate(d) => pc'[c] = pc[c] \/ d = c
    BY <1>1, RequestsMoveAlone
  <2>2. \A d \in Clients : Send(d) \/ (\E o \in Operation : Ask(d, o)) => pc'[c] = pc[c] \/ d = c
    BY <1>1 DEF Send, Ask, Goto, TypeOK
  <2>3. \A r \in Runs : RunStep(r) => pc'[c] = pc[c]
    BY <1>1, RunsOnlyEnd DEF clientVars
  <2>4. Request(c) \/ TakeGate(c) \/ Send(c) \/ \E o \in Operation : Ask(c, o)
    BY <2>1, <2>2, <2>3 DEF Next, RunStep, vars, clientVars
  <2> QED BY <2>4 DEF Request, Decides, Stopped, TimesOut, Start, StartFails, Register, Retire, Erase,
             Copy, TakeGate, Send, Ask
<1>3. AbortsActive(c)
  BY <1>1, <1>2 DEF Interrupt, FindsNothing, RefusesFork, AbortsActive, Goto, Answered, TypeOK
<1>4. target'[c] = active /\ active \in Runs /\ active \notin Completed
  BY <1>1, <1>3 DEF AbortsActive, NothingActive, TypeOK
<1>5. active \in ofChannel => active \in Live
  BY <1>4 DEF OneConversation, Live
<1> QED BY <1>4, <1>5 DEF OneConversation

-----------------------------------------------------------------------------
\* The inductive invariant holds in every behaviour.
THEOREM Invariance == Spec => []IInv
<1>1. Init => IInv
  BY InitIInv
<1>2. IInv /\ [Next]_vars => IInv'
  <2> SUFFICES ASSUME IInv, [Next]_vars PROVE IInv'
    OBVIOUS
  <2>a. /\ GateInv /\ TypeOK /\ GateIsExclusive /\ OneConversation /\ AbortReachesEngine
        /\ ToolsShareTheManager /\ \A r \in Runs : EngineInPhase(r)
    BY DEF IInv, GateInv
  <2>1. GateInv'
    BY <2>a, TypeStep, GateStep, HolderStep, RegistryStep DEF GateInv
  <2>2. \A r \in Runs : EngineInPhase(r)'
    BY <2>a, EngineStep
  <2>3. AbortReachesEngine' /\ ToolsShareTheManager'
    BY <2>a, AbortStep, ToolsStep
  <2>4. OneConversation'
    BY <2>a, ConversationStep
  <2> QED BY <2>1, <2>2, <2>3, <2>4 DEF IInv
<1> QED BY <1>1, <1>2, PTL DEF Spec

\* Every variable keeps its type.
THEOREM TypeCorrect == Spec => []TypeOK
<1>1. IInv => TypeOK
  BY DEF IInv, GateInv
<1> QED BY <1>1, Invariance, PTL

\* However requests race, time out and are answered, at most one run of a session
\* is alive (start_run, abort_run_and_wait).
THEOREM OneRun == Spec => []OneRunAtATime
<1>1. IInv => OneRunAtATime
  BY GateInvGivesOneRun DEF IInv
<1> QED BY <1>1, Invariance, PTL

\* The entry of a run that is alive stays in the registry (RunRegistry::complete).
THEOREM LiveRunsStayRegistered == Spec => []LiveRunIsRegistered
<1>1. IInv => LiveRunIsRegistered
  BY DEF IInv, GateInv, RegistryKnows
<1> QED BY <1>1, Invariance, PTL

\* A run that is over has no entry, even if it ended first (RunRegistry::register).
THEOREM EndedRunsAreForgotten == Spec => []NothingOverIsRegistered
<1>1. IInv => NothingOverIsRegistered
  BY DEF IInv, GateInv, RegistryKnows
<1> QED BY <1>1, Invariance, PTL

\* The registry holds the live run and nothing else (RunRegistry).
THEOREM RegistryHoldsTheLiveRun == Spec => []RegistryIsRight
<1> QED BY LiveRunsStayRegistered, EndedRunsAreForgotten, PTL DEF RegistryIsRight

\* Clearing, deleting and forking happen while no run of the session is alive.
THEOREM GateIsQuiet == Spec => []QuietUnderGate
<1>1. IInv => QuietUnderGate
  BY DEF IInv, GateInv, HolderKnows, QuietUnderGate
<1> QED BY <1>1, Invariance, PTL

\* Neither a run nor a change of the history happens beside a run of the session
\* (start_run, clear, delete, fork).
THEOREM RunsStayAlone == Spec => []RunsAreAlone
<1> QED BY OneRun, GateIsQuiet, PTL DEF RunsAreAlone

\* The engine of a stopped run is stopped, in whatever order the abort and the
\* installation come (RunControl::abort, install_engine).
THEOREM AbortsReachEngines == Spec => []AbortReachesEngine
<1>1. IInv => AbortReachesEngine
  BY DEF IInv
<1> QED BY <1>1, Invariance, PTL

\* A run that has completed leaves no engine that nobody told to stop, even if it
\* broke off because a flush failed (drive_one_turn).
THEOREM NoEngineIsLeft == Spec => []NoLooseEngine
<1>1. IInv => NoLooseEngine
  BY DEF IInv, EngineInPhase, NoLooseEngine, Completed
<1> QED BY <1>1, Invariance, PTL

\* No engine works on for a run that was stopped or is over.
THEOREM EnginesStayHeld == Spec => []EnginesAreHeld
<1> QED BY AbortsReachEngines, NoEngineIsLeft, PTL DEF EnginesAreHeld

\* The tools of a live run hold the manager that the session's user sees
\* (ProcessRegistry::acquire, retire).
THEOREM ToolsHoldTheManager == Spec => []ToolsShareTheManager
<1>1. IInv => ToolsShareTheManager
  BY DEF IInv
<1> QED BY <1>1, Invariance, PTL

\* A message of a channel does not abort the run of another (RunManager::send).
THEOREM ChannelsSpareEachOther == Spec => ChannelsDoNotInterrupt
<1> DEFINE Spares ==
      \A c \in Channels : op[c] = "send" /\ pc[c] = "interrupt" /\ pc'[c] = "wait"
          => target'[c] \notin ofChannel \/ target'[c] \in cancelled
<1>1. IInv /\ [Next]_vars => Spares
  BY ChannelStep DEF IInv
<1>2. IInv /\ [Next]_vars => [Spares]_vars
  BY <1>1
<1> HIDE DEF Spares
<1>3. Spec => [][Spares]_vars
  BY <1>2, Invariance, PTL DEF Spec
<1> QED BY <1>3 DEF Spares, ChannelsDoNotInterrupt
=============================================================================

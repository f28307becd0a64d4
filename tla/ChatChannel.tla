---------------------------- MODULE ChatChannel -----------------------------
(***************************************************************************)
(* A chat channel: the supervisor that keeps one transport running for the *)
(* settings on disk (gateway/supervisor.rs), the transport's connections,  *)
(* which put the frames of a message together, acknowledge it and filter   *)
(* it (channels/feishu/adapter.rs, ws.rs, message.rs), and the handlers    *)
(* they spawn, which route a message to a run and answer it.               *)
(*                                                                         *)
(* The platform is external: it sends the frames of a message in any order *)
(* and again until it has its acknowledgement.  Revisions of the settings  *)
(* share their credentials and differ in what their filters let through.   *)
(***************************************************************************)
EXTENDS Naturals, Sequences, FiniteSets, SequencesExt

CONSTANTS
    Revisions,      \* of the channel's settings
    Messages,
    Frames,         \* how many frames each message comes in
    Heeded,         \* the messages each revision's filters let through
    MaxConnections, \* bound: connections made
    MaxFaults,      \* bound: failures of the network
    MaxEdits        \* bound: edits of the settings

Off       == "off"
NoMessage == "no message"

VARIABLES
    wanted,         \* the settings on disk: a revision, or Off
    running,        \* what the supervisor has started
    next,           \* what it starts once the old transport has ended
    supervisor,     \* idle or stopping
    transport,      \* of each revision: none, starting, connecting, open, busy, resting
    health,         \* the status shown for the credentials
    serial,         \* connections made so far
    cache,          \* frames of incomplete messages, on the open connection
    seen,           \* messages that connection has parsed
    taking,         \* the message being handled before its handler is spawned
    handlers,       \* every handler spawned so far
    acked,          \* messages the platform need not send again
    dropped,        \* history: messages refused by the filters, or held by a stopped transport
    linkFaults, settingsEdits

chatVars == <<wanted, running, next, supervisor, transport, health, serial, cache, seen,
              taking, handlers, acked, dropped, linkFaults, settingsEdits>>
supervisorVars == <<wanted, running, next, supervisor, settingsEdits>>
linkVars       == <<serial, cache, seen, taking, handlers, acked, dropped>>

Empty == [m \in Messages |-> {}]

ChatInit ==
    /\ wanted \in Revisions
    /\ running = Off /\ next = Off
    /\ supervisor = "idle"
    /\ transport = [r \in Revisions |-> "none"]
    /\ health = "stopped"
    /\ serial = 0
    /\ cache = Empty /\ seen = {} /\ taking = NoMessage
    /\ handlers = <<>>
    /\ acked = {} /\ dropped = {}
    /\ linkFaults = 0 /\ settingsEdits = 0

-----------------------------------------------------------------------------
(* The supervisor.                                                           *)

EditSettings ==
    /\ settingsEdits < MaxEdits
    /\ settingsEdits' = settingsEdits + 1
    /\ wanted' \in Revisions \cup {Off}
    /\ UNCHANGED <<running, next, supervisor, transport, health, linkFaults>>
    /\ UNCHANGED linkVars

\* Settings that do not load change nothing.
Reload ==
    /\ supervisor = "idle"
    /\ running # wanted
    /\ next' = wanted
    /\ supervisor' = "stopping"
    /\ UNCHANGED <<wanted, running, transport, health, linkFaults, settingsEdits>>
    /\ UNCHANGED linkVars

\* shutdown cancels the old transport and waits for its task.
Replace ==
    /\ supervisor' = "idle"
    /\ running' = next
    /\ transport' = IF next = Off THEN transport ELSE [transport EXCEPT ![next] = "starting"]
    /\ health' = IF next = Off THEN health ELSE "connecting"
    /\ UNCHANGED <<wanted, next, linkFaults, settingsEdits>>
    /\ UNCHANGED linkVars

StartNext ==
    /\ supervisor = "stopping"
    /\ \A r \in Revisions : transport[r] = "none"
    /\ Replace

Cancelled(r) == supervisor = "stopping" /\ running = r

\* The run is dropped wherever it is; handlers it has spawned go on.
Stop(r) ==
    /\ Cancelled(r)
    /\ transport[r] # "none"
    /\ transport' = [transport EXCEPT ![r] = "none"]
    /\ health' = "stopped"
    /\ cache' = Empty /\ seen' = {}
    /\ taking' = NoMessage
    /\ dropped' = dropped \cup ({taking} \ {NoMessage})
    /\ UNCHANGED <<serial, handlers, acked, linkFaults>>
    /\ UNCHANGED supervisorVars

-----------------------------------------------------------------------------
(* Connections.                                                              *)

Move(r, from, to) ==
    /\ transport[r] = from
    /\ transport' = [transport EXCEPT ![r] = to]

\* The bot's id is fetched once; failures are retried for ever.
Initialise(r) ==
    /\ \/ Move(r, "starting", "connecting") /\ UNCHANGED <<health, linkFaults>>
       \/ /\ linkFaults < MaxFaults /\ linkFaults' = linkFaults + 1
          /\ transport[r] = "starting"
          /\ health' = "retrying"
          /\ UNCHANGED transport
    /\ UNCHANGED linkVars
    /\ UNCHANGED supervisorVars

Rested(r) ==
    /\ Move(r, "resting", "connecting")
    /\ UNCHANGED <<health, linkFaults>>
    /\ UNCHANGED linkVars
    /\ UNCHANGED supervisorVars

Connect(r) ==
    /\ serial < MaxConnections
    /\ Move(r, "connecting", "open")
    /\ serial' = serial + 1
    /\ health' = "connected"
    /\ cache' = Empty /\ seen' = {}
    /\ UNCHANGED <<taking, handlers, acked, dropped, linkFaults>>
    /\ UNCHANGED supervisorVars

\* A refused handshake, a read error, a missed heartbeat.
Fail(r) ==
    /\ linkFaults < MaxFaults /\ linkFaults' = linkFaults + 1
    /\ \/ Move(r, "connecting", "resting")
       \/ Move(r, "open", "resting") /\ serial < MaxConnections
    /\ health' = "retrying"
    /\ cache' = Empty /\ seen' = {}
    /\ UNCHANGED <<serial, taking, handlers, acked, dropped>>
    /\ UNCHANGED supervisorVars

\* The status is left as it is.
Close(r) ==
    /\ linkFaults < MaxFaults /\ linkFaults' = linkFaults + 1
    /\ serial < MaxConnections
    /\ Move(r, "open", "resting")
    /\ cache' = Empty /\ seen' = {}
    /\ UNCHANGED <<health, serial, taking, handlers, acked, dropped>>
    /\ UNCHANGED supervisorVars

-----------------------------------------------------------------------------
(* Frames.  Only the frame that completes a message is acknowledged, before  *)
(* the message is looked at; what was seen on this connection or does not    *)
(* pass the filters ends there.                                              *)

Whole(m) == 1 .. Frames[m]

\* What is left of the frames of m when frame i has come: none once it is whole.
Completes(m, i) == cache[m] \cup {i} = Whole(m)

AckEveryFrame(m, i) == acked' \in {acked, acked \cup {m}}

Acknowledge(m, i) ==
    IF Completes(m, i) THEN acked' \in {acked, acked \cup {m}} ELSE UNCHANGED acked

Refuse(r, m) == dropped' = IF m \in Heeded[r] THEN dropped ELSE dropped \cup {m}

Parse(r, m) ==
    /\ Refuse(r, m)
    /\ seen' = seen \cup {m}
    /\ IF m \in Heeded[r] /\ m \notin seen
       THEN taking' = m /\ transport' = [transport EXCEPT ![r] = "busy"]
       ELSE UNCHANGED <<taking, transport>>

Receive(r, m, i) ==
    /\ transport[r] = "open"
    /\ m \notin acked /\ i \in Whole(m)
    /\ cache' = [cache EXCEPT ![m] = IF Completes(m, i) THEN {} ELSE @ \cup {i}]
    /\ Acknowledge(m, i)
    /\ IF Completes(m, i) THEN Parse(r, m) ELSE UNCHANGED <<seen, taking, transport, dropped>>
    /\ UNCHANGED <<health, serial, handlers, linkFaults>>
    /\ UNCHANGED supervisorVars

\* Parts older than five minutes.
Expire(m) ==
    /\ linkFaults < MaxFaults /\ linkFaults' = linkFaults + 1
    /\ cache[m] # {}
    /\ cache' = [cache EXCEPT ![m] = {}]
    /\ UNCHANGED <<transport, health, serial, seen, taking, handlers, acked, dropped>>
    /\ UNCHANGED supervisorVars

\* handle_message looks up a missing thread id before it spawns the handler.
Spawn(r) ==
    /\ transport[r] = "busy"
    /\ handlers' = Append(handlers, [of |-> taking, over |-> serial, done |-> FALSE])
    /\ taking' = NoMessage
    /\ transport' = [transport EXCEPT ![r] = "open"]
    /\ UNCHANGED <<health, serial, cache, seen, acked, dropped, linkFaults>>
    /\ UNCHANGED supervisorVars

-----------------------------------------------------------------------------
(* Handlers.  A message that is only images nobody could fetch is not routed *)
(* at all; a steered one is answered by the run it went to.                  *)

Handle(h) ==
    /\ ~handlers[h].done
    /\ handlers' = [handlers EXCEPT ![h].done = TRUE]
    /\ UNCHANGED <<transport, health, serial, cache, seen, taking, acked, dropped, linkFaults>>
    /\ UNCHANGED supervisorVars

ChatNext ==
    \/ EditSettings \/ Reload \/ StartNext
    \/ \E r \in Revisions :
          \/ Stop(r) \/ Initialise(r) \/ Rested(r) \/ Connect(r) \/ Fail(r) \/ Close(r) \/ Spawn(r)
          \/ \E m \in Messages : \E i \in Whole(m) : Receive(r, m, i)
    \/ \E m \in Messages : Expire(m)
    \/ \E h \in DOMAIN handlers : Handle(h)

\* Waits end, tasks run, and the platform sends what it has no
\* acknowledgement for.
ChatFairness ==
    /\ WF_chatVars(Reload) /\ WF_chatVars(StartNext)
    /\ \A r \in Revisions :
          /\ WF_chatVars(Stop(r)) /\ WF_chatVars(Initialise(r)) /\ WF_chatVars(Rested(r))
          /\ WF_chatVars(Connect(r)) /\ WF_chatVars(Spawn(r))
    /\ \A m \in Messages : \A i \in Whole(m) : WF_chatVars(\E r \in Revisions : Receive(r, m, i))
ChatSpec == ChatInit /\ [][ChatNext]_chatVars /\ ChatFairness

-----------------------------------------------------------------------------
(* Properties.                                                               *)

\* However the settings change, one transport runs at a time, it is the one the
\* supervisor knows of, the status shown is that transport's, and no connection
\* hands a message over twice (ChannelSupervisor::reconcile, MessageDedup).
OneTransportAtATime ==
    /\ \A r \in Revisions : transport[r] # "none" => running = r
    /\ \A r \in Revisions : transport[r] \in {"open", "busy"} => health = "connected"
    /\ health = "stopped" => \A r \in Revisions : transport[r] = "none"
    /\ \A g, h \in DOMAIN handlers :
          handlers[g].of = handlers[h].of /\ handlers[g].over = handlers[h].over => g = h

\* A message is taken up in the end, whatever becomes of its frames, of the
\* connections and of its acknowledgement, unless the settings of the time refused
\* it or the transport that held it was stopped for new ones (decode_frame,
\* parse_event, run).
MessagesAreTaken ==
    \A m \in Messages :
        <>[](wanted # Off /\ m \in Heeded[wanted])
            => <>(m \in dropped \/ \E h \in DOMAIN handlers : handlers[h].of = m)
=============================================================================

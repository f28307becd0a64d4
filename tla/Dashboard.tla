------------------------------ MODULE Dashboard ------------------------------
(***************************************************************************)
(* The HTTP console: chat streams that own runs, the cached session list, *)
(* batch deletes and the sweep of forgotten drafts.  Handlers run          *)
(* concurrently; a session is entered through its lifecycle gate.          *)
(***************************************************************************)
EXTENDS Naturals, Sequences, FiniteSets

CONSTANTS Sessions,   \* session ids a client may name
          Requests,   \* list, delete and new-chat requests in flight
          Chats,      \* chat streams in flight
          MaxCrashes  \* how often the process is restarted

\* "free" is nobody.
ASSUME DashboardAssumption == "free" \notin Requests \cup Chats /\ MaxCrashes \in Nat

VARIABLES meta,     \* session.json: "none", "draft", "forgotten" or "kept"
          entries,  \* the transcript: "none", "stats" alone, or somebody's "words"
          run,      \* the registered run of a session and its chat
          gate,     \* who holds the lifecycle gate of a session
          rows,     \* recent_cache
          request,  \* the handlers of list, delete and new
          chat,     \* the tasks behind chat streams
          sure,     \* sessions whose removal no running listing can have missed
          crashes

dashboardVars == <<meta, entries, run, gate, rows, request, chat, sure, crashes>>

Free == "free"
NoRun == [at |-> "none", by |-> Free, told |-> FALSE]
NoRows == [fresh |-> FALSE, of |-> {}]
IdleRequest == [stage |-> "idle", left |-> {}, removed |-> {}, hit |-> FALSE, shown |-> {}]
IdleChat == [stage |-> "idle", session |-> Free, known |-> "none", gone |-> FALSE, sent |-> <<>>]

DashboardTypeOK == /\ meta \in [Sessions -> {"none", "draft", "forgotten", "kept"}]
          /\ entries \in [Sessions -> {"none", "stats", "words"}]
          /\ run \in [Sessions -> [at : {"none", "live", "stopping"},
                                   by : Chats \cup {Free}, told : BOOLEAN]]
          /\ gate \in [Sessions -> Chats \cup Requests \cup {Free}]
          /\ rows \in [fresh : BOOLEAN, of : SUBSET Sessions]
          /\ sure \subseteq Sessions
          /\ crashes \in 0 .. MaxCrashes

DashboardInit == /\ meta \in [Sessions -> {"none", "kept"}]
        /\ entries = [s \in Sessions |-> IF meta[s] = "kept" THEN "words" ELSE "none"]
        /\ run = [s \in Sessions |-> NoRun]
        /\ gate = [s \in Sessions |-> Free]
        /\ rows = NoRows
        /\ request = [r \in Requests |-> IdleRequest]
        /\ chat = [c \in Chats |-> IdleChat]
        /\ sure = {}
        /\ crashes = 0

-----------------------------------------------------------------------------
(* Sessions and runs as the handlers reach them.                           *)

Active(s) == run[s].at # "none"
Aborted(r, s) == IF r[s].at = "live" THEN [r EXCEPT ![s].at = "stopping"] ELSE r

(* A draft has no turn, no title and no entry.                             *)
IsDraft(s) == meta[s] \in {"draft", "forgotten"} /\ entries[s] = "none"
Visible == {s \in Sessions : meta[s] # "none" /\ ~IsDraft(s)}

(* The run writes the prompt or an answer to the transcript.               *)
Persist(s) == /\ Active(s)
              /\ entries' = [entries EXCEPT ![s] = "words"]
              /\ run' = [run EXCEPT ![s].told = TRUE]
              /\ UNCHANGED <<meta, gate, rows, request, chat, sure, crashes>>

(* The run ends by itself or because it was told to: it appends its        *)
(* statistics, saves the metadata and leaves the registry.                 *)
Finish(s) == /\ Active(s)
             /\ entries' = [entries EXCEPT ![s] = IF @ = "none" THEN "stats" ELSE @]
             /\ meta' = [meta EXCEPT ![s] = IF run[s].told \/ meta[s] = "kept"
                                              THEN "kept" ELSE "draft"]
             /\ run' = [run EXCEPT ![s] = NoRun]
             /\ UNCHANGED <<gate, rows, request, chat, sure, crashes>>

(* A day passes over a draft.                                              *)
Forget(s) == /\ meta[s] = "draft"
             /\ meta' = [meta EXCEPT ![s] = "forgotten"]
             /\ UNCHANGED <<entries, run, gate, rows, request, chat, sure, crashes>>

-----------------------------------------------------------------------------
(* The session list.                                                       *)

(* A fresh snapshot answers at once; otherwise the directory is read.      *)
ReadRows(r) ==
    /\ request[r].stage = "idle"
    /\ request' = [request EXCEPT ![r] =
                      IF rows.fresh THEN [IdleRequest EXCEPT !.shown = rows.of]
                      ELSE [IdleRequest EXCEPT !.stage = "listing", !.shown = Visible]]
    /\ UNCHANGED <<meta, entries, run, gate, rows, chat, sure, crashes>>

StoreRows(r) ==
    /\ request[r].stage = "listing"
    /\ rows' = [fresh |-> TRUE, of |-> request[r].shown]
    /\ request' = [request EXCEPT ![r].stage = "idle"]
    /\ UNCHANGED <<meta, entries, run, gate, chat, sure, crashes>>

Expire == /\ rows.fresh
          /\ rows' = [rows EXCEPT !.fresh = FALSE]
          /\ UNCHANGED <<meta, entries, run, gate, request, chat, sure, crashes>>

Invalidated(r) ==
    /\ rows' = NoRows
    /\ sure' = IF \E q \in Requests : request[q].stage = "listing" THEN sure
               ELSE sure \cup {s \in request[r].removed : meta[s] = "none"}

-----------------------------------------------------------------------------
(* Removing sessions: a batch named by a client, or forgotten drafts.      *)

Delete(r, ids) ==
    /\ request[r].stage = "idle"
    /\ request' = [request EXCEPT ![r] = [IdleRequest EXCEPT !.stage = "deleting", !.left = ids]]
    /\ UNCHANGED <<meta, entries, run, gate, rows, chat, sure, crashes>>

(* New chat sweeps first: the drafts of more than a day that nothing runs. *)
Stale == {s \in Sessions : meta[s] = "forgotten" /\ ~Active(s)}
NewChat(r) ==
    /\ request[r].stage = "idle"
    /\ request' = [request EXCEPT ![r] = [IdleRequest EXCEPT !.stage = "sweeping",
                                              !.left = Stale, !.hit = Stale # {}]]
    /\ UNCHANGED <<meta, entries, run, gate, rows, chat, sure, crashes>>

Removing(r) == request[r].stage \in {"deleting", "sweeping"}

(* The delete handler aborts the run before it queues for the gate.        *)
AbortFirst(r, s) ==
    /\ request[r].stage = "deleting"
    /\ s \in request[r].left /\ gate[s] # r /\ run[s].at = "live"
    /\ run' = Aborted(run, s)
    /\ UNCHANGED <<meta, entries, gate, rows, request, chat, sure, crashes>>

EnterDelete(r, s) ==
    /\ Removing(r)
    /\ s \in request[r].left
    /\ \A t \in Sessions : gate[t] # r
    /\ gate[s] = Free
    /\ gate' = [gate EXCEPT ![s] = r]
    /\ run' = Aborted(run, s)
    /\ UNCHANGED <<meta, entries, rows, request, chat, sure, crashes>>

Removed(r, s) ==
    /\ meta' = [meta EXCEPT ![s] = "none"]
    /\ entries' = [entries EXCEPT ![s] = "none"]
    /\ gate' = [gate EXCEPT ![s] = Free]
    /\ request' = [request EXCEPT ![r].left = @ \ {s},
                                  ![r].removed = @ \cup {s},
                                  ![r].hit = @ \/ meta[s] # "none"]

(* In error: the run is told to stop and not waited for.                   *)
DeleteAtOnce(r, s) ==
    /\ Removing(r) /\ gate[s] = r
    /\ Removed(r, s)
    /\ UNCHANGED <<run, rows, chat, sure, crashes>>

(* Once the run has left the registry the directory is removed.            *)
DeleteSession(r, s) ==
    /\ Removing(r) /\ gate[s] = r
    /\ ~Active(s)
    /\ Removed(r, s)
    /\ UNCHANGED <<run, rows, chat, sure, crashes>>

(* In error: the snapshot survives a delete.                               *)
EndQuietly(r) ==
    /\ request[r].stage = "deleting" /\ request[r].left = {}
    /\ request' = [request EXCEPT ![r] = IdleRequest]
    /\ sure' = IF \E q \in Requests : request[q].stage = "listing" THEN sure
               ELSE sure \cup {s \in request[r].removed : meta[s] = "none"}
    /\ UNCHANGED rows
    /\ UNCHANGED <<meta, entries, run, gate, chat, crashes>>

(* The run did not stop in time: this id fails, the others go on.          *)
DeleteFails(r, s) ==
    /\ Removing(r) /\ gate[s] = r /\ Active(s)
    /\ gate' = [gate EXCEPT ![s] = Free]
    /\ request' = [request EXCEPT ![r].left = @ \ {s}]
    /\ UNCHANGED <<meta, entries, run, rows, chat, sure, crashes>>

EndDelete(r) ==
    /\ request[r].stage = "deleting" /\ request[r].left = {}
    /\ request' = [request EXCEPT ![r] = IdleRequest]
    /\ IF request[r].hit THEN Invalidated(r) ELSE UNCHANGED <<rows, sure>>
    /\ UNCHANGED <<meta, entries, run, gate, chat, crashes>>

EndSweep(r) ==
    /\ request[r].stage = "sweeping" /\ request[r].left = {}
    /\ request' = [request EXCEPT ![r].stage = "creating"]
    /\ IF request[r].hit THEN Invalidated(r) ELSE UNCHANGED <<rows, sure>>
    /\ UNCHANGED <<meta, entries, run, gate, chat, crashes>>

CreateSession(r, s) ==
    /\ request[r].stage = "creating"
    /\ meta[s] = "none" /\ entries[s] = "none" /\ ~Active(s)
    /\ meta' = [meta EXCEPT ![s] = "draft"]
    /\ rows' = NoRows
    /\ sure' = sure \ {s}
    /\ request' = [request EXCEPT ![r] = IdleRequest]
    /\ UNCHANGED <<entries, run, gate, chat, crashes>>

-----------------------------------------------------------------------------
(* Chat streams.                                                           *)

Sends(c, node) == IF chat[c].gone THEN chat[c].sent
                  ELSE IF chat[c].sent # <<>> /\ chat[c].sent[Len(chat[c].sent)] = node
                         THEN chat[c].sent
                         ELSE Append(chat[c].sent, node)
Closing(c, node) == [chat[c] EXCEPT !.stage = "over",
                                    !.sent = IF chat[c].gone THEN @ ELSE @ \o <<node, "done">>]

(* The session is loaded, or created under the id, and its model saved.    *)
OpenChat(c, s) ==
    /\ chat[c].stage \in {"idle", "over"}
    /\ LET known == IF meta[s] = "kept" THEN "kept" ELSE "draft" IN
         /\ chat' = [chat EXCEPT ![c] = [IdleChat EXCEPT !.stage = "resolved",
                                             !.session = s, !.known = known]]
         /\ meta' = [meta EXCEPT ![s] = known]
    /\ sure' = sure \ {s}
    /\ UNCHANGED <<entries, run, gate, rows, request, crashes>>

(* An unknown model, or a command: a message and the end, without a run.   *)
AnswerOnly(c) ==
    /\ chat[c].stage = "resolved"
    /\ chat' = [chat EXCEPT ![c] = Closing(c, "text")]
    /\ UNCHANGED <<meta, entries, run, gate, rows, request, sure, crashes>>

EnterRun(c) ==
    LET s == chat[c].session IN
    /\ chat[c].stage = "resolved"
    /\ gate[s] = Free
    /\ gate' = [gate EXCEPT ![s] = c]
    /\ run' = Aborted(run, s)
    /\ chat' = [chat EXCEPT ![c].stage = "starting"]
    /\ UNCHANGED <<meta, entries, rows, request, sure, crashes>>

StartFails(c) ==
    LET s == chat[c].session IN
    /\ chat[c].stage = "starting" /\ Active(s)
    /\ gate' = [gate EXCEPT ![s] = Free]
    /\ chat' = [chat EXCEPT ![c] = Closing(c, "text")]
    /\ UNCHANGED <<meta, entries, run, rows, request, sure, crashes>>

(* The old run has gone: the metadata is saved as this task knows it.      *)
StartRun(c) ==
    LET s == chat[c].session IN
    /\ chat[c].stage = "starting" /\ ~Active(s)
    /\ meta' = [meta EXCEPT ![s] = IF @ = "kept" THEN "kept" ELSE chat[c].known]
    /\ sure' = sure \ {s}
    /\ run' = [run EXCEPT ![s] = [at |-> "live", by |-> c, told |-> FALSE]]
    /\ gate' = [gate EXCEPT ![s] = Free]
    /\ chat' = [chat EXCEPT ![c].stage = "opening"]
    /\ UNCHANGED <<entries, rows, request, crashes>>

Mine(c) == run[chat[c].session].by = c
AbortMine(c) == IF Mine(c) THEN Aborted(run, chat[c].session) ELSE run

(* The session node comes first; nobody to read it stops the run.          *)
SendSession(c) ==
    /\ chat[c].stage = "opening"
    /\ IF chat[c].gone
         THEN /\ run' = AbortMine(c)
              /\ chat' = [chat EXCEPT ![c].stage = "over"]
         ELSE /\ chat' = [chat EXCEPT ![c].stage = "draining", ![c].sent = Sends(c, "session")]
              /\ UNCHANGED run
    /\ UNCHANGED <<meta, entries, gate, rows, request, sure, crashes>>

SendNode(c) ==
    /\ chat[c].stage = "draining" /\ Mine(c) /\ ~chat[c].gone
    /\ chat' = [chat EXCEPT ![c].sent = Sends(c, "node")]
    /\ UNCHANGED <<meta, entries, run, gate, rows, request, sure, crashes>>

(* In error: the task ends and leaves the run to itself.                   *)
DropAlone(c) ==
    /\ chat[c].stage = "draining" /\ chat[c].gone
    /\ chat' = [chat EXCEPT ![c].stage = "over"]
    /\ UNCHANGED <<meta, entries, run, gate, rows, request, sure, crashes>>

(* The client is gone: the task aborts the run and ends.                   *)
DropRun(c) ==
    /\ chat[c].stage = "draining" /\ chat[c].gone
    /\ run' = AbortMine(c)
    /\ chat' = [chat EXCEPT ![c].stage = "over"]
    /\ UNCHANGED <<meta, entries, gate, rows, request, sure, crashes>>

(* The run has no more events: the stream ends with a done node.           *)
EndChat(c) ==
    /\ chat[c].stage = "draining" /\ ~Mine(c)
    /\ chat' = [chat EXCEPT ![c].stage = "over",
                            ![c].sent = IF chat[c].gone THEN @ ELSE Append(@, "done")]
    /\ UNCHANGED <<meta, entries, run, gate, rows, request, sure, crashes>>

Leave(c) == /\ chat[c].stage \notin {"idle", "over"} /\ ~chat[c].gone
            /\ chat' = [chat EXCEPT ![c].gone = TRUE]
            /\ UNCHANGED <<meta, entries, run, gate, rows, request, sure, crashes>>

-----------------------------------------------------------------------------
(* The process is restarted: what was in memory is gone, and with it every *)
(* run, before its last save.                                              *)
Crash == /\ crashes < MaxCrashes
         /\ crashes' = crashes + 1
         /\ run' = [s \in Sessions |-> NoRun]
         /\ gate' = [s \in Sessions |-> Free]
         /\ rows' = NoRows
         /\ request' = [r \in Requests |-> IdleRequest]
         /\ chat' = [c \in Chats |-> IdleChat]
         /\ UNCHANGED <<meta, entries, sure>>

DashboardNext ==
    \/ \E s \in Sessions : Persist(s) \/ Finish(s) \/ Forget(s)
    \/ Expire
    \/ Crash
    \/ \E r \in Requests :
         \/ ReadRows(r) \/ StoreRows(r) \/ NewChat(r) \/ EndDelete(r) \/ EndSweep(r)
         \/ \E ids \in SUBSET Sessions \ {{}} : Delete(r, ids)
         \/ \E s \in Sessions : \/ AbortFirst(r, s) \/ EnterDelete(r, s)
                                \/ DeleteSession(r, s) \/ DeleteFails(r, s)
                                \/ CreateSession(r, s)
    \/ \E c \in Chats :
         \/ \E s \in Sessions : OpenChat(c, s)
         \/ AnswerOnly(c) \/ EnterRun(c) \/ StartFails(c) \/ StartRun(c)
         \/ SendSession(c) \/ SendNode(c) \/ DropRun(c) \/ EndChat(c) \/ Leave(c)

DashboardSpec == DashboardInit /\ [][DashboardNext]_dashboardVars

-----------------------------------------------------------------------------
(* A run that nobody told to stop has its stream still at work: a dropped  *)
(* browser never leaves the model or tools running without a client, and   *)
(* a stream that was read to the end was framed by a session and a done.   *)
NoRunWithoutClient ==
    /\ \A s \in Sessions : run[s].at = "live" =>
         chat[run[s].by].session = s /\ chat[run[s].by].stage \in {"opening", "draining"}
    /\ \A c \in Chats : chat[c].stage = "over" /\ ~chat[c].gone =>
         chat[c].sent \in {<<"text", "done">>, <<"session", "done">>, <<"session", "node", "done">>}

(* A deleted session leaves nothing behind that still writes to it: what   *)
(* has no metadata has no transcript and no run.                           *)
DeletesLeaveNothing ==
    \A s \in Sessions : meta[s] = "none" => entries[s] = "none" /\ run[s].at = "none"

(* A session removed while no listing was being read is shown by no later  *)
(* list: deletes and sweeps invalidate the snapshot.                       *)
DeletedRowsDisappear ==
    /\ rows.fresh => rows.of \cap sure = {}
    /\ \A r \in Requests : request[r].stage = "listing" => request[r].shown \cap sure = {}

(* What the console promises of its sessions (http/server.rs).             *)
SessionsAreAccountedFor == NoRunWithoutClient /\ DeletesLeaveNothing /\ DeletedRowsDisappear

(* The comment of the sweep says it removes forgotten New-chat drafts, and *)
(* the one of the list that a run can have durable entries before its      *)
(* final turns and title are saved: what holds somebody's words is not a   *)
(* draft, and no sweep should choose it.                                   *)
OnlyDraftsAreSwept ==
    [][\A r \in Requests :
          request[r].stage = "idle" /\ request'[r].stage = "sweeping" =>
             \A s \in request'[r].left : entries[s] # "words"]_dashboardVars
=============================================================================

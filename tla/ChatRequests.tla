---------------------------- MODULE ChatRequests ----------------------------
(***************************************************************************)
(* Requests to the chat platform and the access token they share           *)
(* (channels/feishu/token.rs, delivery.rs).  A request takes the cached    *)
(* token or fetches one, and when the platform refuses it drops the cached *)
(* one and tries once more.  Tokens are numbered in the order the platform *)
(* issues them; all but the newest have expired.                           *)
(***************************************************************************)
EXTENDS Naturals, FiniteSets

CONSTANTS
    Callers,        \* the tasks that share the cache, one request each
    MaxTokens,      \* bound: tokens the platform issues
    MaxPages,       \* bound: pages of a topic
    MaxNetFaults    \* bound: requests the network loses

VARIABLES
    issued,         \* the newest token
    cached,         \* TokenCache: a token, or 0
    request,        \* of each caller: its kind, its stage, the token it uses, pages read
    disturbed,      \* history: tokens changed under it: an expiry, or an old token stored
    netFaults

requestVars == <<issued, cached, request, disturbed, netFaults>>

\* How a kind of request answers to a token error: once more, or not at all;
\* a topic comes in pages.
SendText           == [again |-> TRUE, paged |-> FALSE]
ReplyText          == [again |-> TRUE, paged |-> FALSE]
EditText           == [again |-> TRUE, paged |-> FALSE]
FetchThread        == [again |-> TRUE, paged |-> TRUE]
FetchHistory       == [again |-> TRUE, paged |-> FALSE]
FetchMessage       == [again |-> TRUE, paged |-> FALSE]
FetchThreadId      == [again |-> TRUE, paged |-> FALSE]
DownloadImage      == [again |-> TRUE, paged |-> FALSE]
AddReaction        == [again |-> FALSE, paged |-> FALSE]
RequestKinds == {SendText, ReplyText, EditText, FetchThread, FetchHistory, FetchMessage,
                 FetchThreadId, DownloadImage, AddReaction}

Idle == [kind |-> SendText, stage |-> "idle", second |-> FALSE, token |-> 0, pages |-> 0]

RequestsInit ==
    /\ issued = 1
    /\ cached \in 0 .. 1
    /\ request = [c \in Callers |-> Idle]
    /\ disturbed = {}
    /\ netFaults = 0

Running == {c \in Callers : request[c].stage \notin {"idle", "ok", "failed"}}

At(c, stage) == request[c].stage = stage
To(c, stage) == request' = [request EXCEPT ![c].stage = stage]

Begin(c) ==
    /\ At(c, "idle")
    /\ \E k \in RequestKinds : request' = [request EXCEPT ![c].kind = k, ![c].stage = "token"]
    /\ UNCHANGED <<issued, cached, disturbed, netFaults>>

\* get_token: the cached one, unless it is past its time to live.
GetToken(c) ==
    /\ At(c, "token")
    /\ \/ /\ cached # 0
          /\ request' = [request EXCEPT ![c].stage = "sending", ![c].token = cached]
       \/ To(c, "fetching")
    /\ UNCHANGED <<issued, cached, disturbed, netFaults>>

FetchToken(c) ==
    /\ At(c, "fetching")
    /\ request' = [request EXCEPT ![c].stage = "storing", ![c].token = issued]
    /\ UNCHANGED <<issued, cached, disturbed, netFaults>>

\* An old token may be stored over a new one, or after it was dropped.
StoreToken(c) ==
    /\ At(c, "storing")
    /\ cached' = request[c].token
    /\ disturbed' = IF request[c].token < issued THEN disturbed \cup (Running \ {c}) ELSE disturbed
    /\ To(c, "sending")
    /\ UNCHANGED <<issued, netFaults>>

Accepted(c) ==
    /\ At(c, "sending")
    /\ request[c].token = issued
    /\ IF request[c].kind.paged /\ request[c].pages < MaxPages
       THEN \/ To(c, "ok")
            \/ request' = [request EXCEPT ![c].stage = "token", ![c].second = FALSE, ![c].pages = @ + 1]
       ELSE To(c, "ok")
    /\ UNCHANGED <<issued, cached, disturbed, netFaults>>

KeepToken == UNCHANGED cached

Invalidate == cached' = 0

Refused(c) ==
    /\ At(c, "sending")
    /\ request[c].token # issued
    /\ IF request[c].kind.again /\ ~request[c].second
       THEN Invalidate /\ request' = [request EXCEPT ![c].stage = "token", ![c].second = TRUE]
       ELSE To(c, "failed") /\ UNCHANGED cached
    /\ UNCHANGED <<issued, disturbed, netFaults>>

\* A request lost on the way is not repeated.
Lost(c) ==
    /\ At(c, "sending") \/ At(c, "fetching")
    /\ netFaults < MaxNetFaults /\ netFaults' = netFaults + 1
    /\ To(c, "failed")
    /\ disturbed' = disturbed \cup {c}
    /\ UNCHANGED <<issued, cached>>

Issue ==
    /\ issued < MaxTokens
    /\ issued' = issued + 1
    /\ disturbed' = disturbed \cup Running
    /\ UNCHANGED <<cached, request, netFaults>>

RequestsNext ==
    \/ Issue
    \/ \E c \in Callers :
          \/ Begin(c) \/ GetToken(c) \/ FetchToken(c) \/ StoreToken(c)
          \/ Accepted(c) \/ Refused(c) \/ Lost(c)
RequestsSpec == RequestsInit /\ [][RequestsNext]_requestVars

-----------------------------------------------------------------------------
(* Properties.                                                               *)

\* An expired token in the cache fails no request, however many callers drop it
\* and fetch another at once: the second try succeeds unless a token expired, or
\* an old one was stored by another caller, while the request ran.  A reaction is
\* tried once (is_token_error, TokenCache::invalidate).
StaleTokensHeal ==
    \A c \in Callers :
        At(c, "failed") => c \in disturbed \/ ~request[c].kind.again
=============================================================================

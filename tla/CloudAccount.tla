---------------------------- MODULE CloudAccount ----------------------------
(***************************************************************************)
(* The cloud login and its keys.  auth.json holds the login, the models    *)
(* cache the scoped key minted for it.  Model calls whose key was revoked  *)
(* repair it under a lock that every process shares; terminals and the     *)
(* dashboard sign in, sync, patch the cache and sign out without it.       *)
(***************************************************************************)
EXTENDS Naturals, Sequences

CONSTANTS Calls,      \* model calls under way
          Terminals,  \* processes that sign in, sync or sign out
          MaxLogins, MaxKeys, MaxOutages

\* "free" is nobody; there is a login and its key to begin with.
ASSUME AccountAssumption ==
    /\ "free" \notin Calls
    /\ {MaxLogins, MaxKeys} \subseteq Nat \ {0} /\ MaxOutages \in Nat

VARIABLES auth,     \* the login on disk, or 0
          cache,    \* the key in the models cache, or 0
          pending,  \* the code of the dashboard's device login, or 0
          codes,    \* what became of each code handed out
          keys,     \* the login each minted key belongs to
          revoked,  \* the keys the gateway no longer takes
          dead,     \* the logins the server refuses
          refresh,  \* who holds the refresh lock
          call,     \* the model calls
          job,      \* what each terminal is doing
          foreign,  \* whether anything but a recovery has written the cache
          outages

accountVars == <<auth, cache, pending, codes, keys, revoked, dead, refresh, call, job, foreign, outages>>
server == <<codes, keys, revoked, dead>>

None == 0
Unlocked == "free"
IdleCall == [stage |-> "idle", key |-> None, tries |-> 0, login |-> None, got |-> None,
             passed |-> FALSE]
IdleJob == [stage |-> "idle", kind |-> "none", login |-> None, got |-> None]

AccountTypeOK == /\ auth \in 0 .. MaxLogins /\ cache \in 0 .. MaxKeys
          /\ pending \in 0 .. MaxLogins
          /\ keys \in Seq(1 .. MaxLogins) /\ Len(keys) <= MaxKeys
          /\ revoked \subseteq 1 .. MaxKeys /\ dead \subseteq 1 .. MaxLogins
          /\ refresh \in Calls \cup {Unlocked}

AccountInit == /\ auth = 1 /\ cache = 1 /\ pending = None
        /\ codes = <<"approved">> /\ keys = <<1>>
        /\ revoked = {} /\ dead = {}
        /\ refresh = Unlocked
        /\ call = [c \in Calls |-> IdleCall]
        /\ job = [t \in Terminals |-> IdleJob]
        /\ foreign = FALSE /\ outages = 0

(* A login was replaced or cleared: whoever waits for an answer under it   *)
(* has been passed by, until the same login is back.                       *)
Passed(new) == [c \in Calls |-> [call[c] EXCEPT !.passed =
                  IF call[c].stage \in {"fetching", "checking"} THEN call[c].login # new ELSE @]]
LoginBecomes(l) == auth' = l /\ call' = Passed(l)

-----------------------------------------------------------------------------
(* The server: it mints a key with every catalogue it serves, revokes keys *)
(* and ends logins with their keys.                                        *)

RevokeKey(k) == /\ k \notin revoked
                /\ revoked' = revoked \cup {k}
                /\ UNCHANGED <<auth, cache, pending, codes, keys, dead, refresh, call, job, foreign, outages>>
EndLogin(l) == /\ l \notin dead
               /\ dead' = dead \cup {l}
               /\ revoked' = revoked \cup {k \in DOMAIN keys : keys[k] = l}
               /\ UNCHANGED <<auth, cache, pending, codes, keys, refresh, call, job, foreign, outages>>
Decide(l, how) == /\ codes[l] = "waiting"
                  /\ codes' = [codes EXCEPT ![l] = how]
                  /\ UNCHANGED <<auth, cache, pending, keys, revoked, dead, refresh, call, job, foreign, outages>>

Minted(l) == /\ Len(keys) < MaxKeys
             /\ keys' = Append(keys, l)
             /\ UNCHANGED <<codes, revoked, dead, outages>>
Outage == /\ outages < MaxOutages
          /\ outages' = outages + 1
          /\ UNCHANGED server

-----------------------------------------------------------------------------
(* A model call and the recovery of its key.                               *)

Begin(c) == /\ call[c].stage = "idle" /\ cache # None
            /\ call' = [call EXCEPT ![c] = [IdleCall EXCEPT !.stage = "calling", !.key = cache]]
            /\ UNCHANGED <<auth, cache, pending, server, refresh, job, foreign, outages>>

(* The gateway's answer: only a revoked key, and only once, is repaired.   *)
Answer(c) ==
    /\ call[c].stage = "calling"
    /\ call' = [call EXCEPT ![c] = IF call[c].key \in revoked /\ call[c].tries = 0
                                     THEN [@ EXCEPT !.stage = "waiting", !.tries = 1]
                                     ELSE IdleCall]
    /\ UNCHANGED <<auth, cache, pending, server, refresh, job, foreign, outages>>

(* In error: nobody waits for a refresh under way.                         *)
EnterAnyway(c) == /\ call[c].stage = "waiting"
                  /\ refresh' = c
                  /\ call' = [call EXCEPT ![c].stage = "inside"]
                  /\ UNCHANGED <<auth, cache, pending, server, job, foreign, outages>>
Enter(c) == /\ call[c].stage = "waiting" /\ refresh = Unlocked
            /\ refresh' = c
            /\ call' = [call EXCEPT ![c].stage = "inside"]
            /\ UNCHANGED <<auth, cache, pending, server, job, foreign, outages>>
Leaves(c, to) == /\ refresh' = IF refresh = c THEN Unlocked ELSE refresh
                 /\ call' = [call EXCEPT ![c] = to]

(* In error: the cache is not read again under the lock.                   *)
NothingShared(c) == FALSE
(* Somebody else has replaced the key meanwhile.                           *)
Shared(c) == cache # None /\ cache # call[c].key
Reuse(c) ==
    /\ call[c].stage = "inside" /\ Shared(c)
    /\ Leaves(c, [call[c] EXCEPT !.stage = "calling", !.key = cache])
    /\ UNCHANGED <<auth, cache, pending, server, job, foreign, outages>>

Ask(c) ==
    /\ call[c].stage = "inside" /\ ~Shared(c)
    /\ IF auth = None THEN Leaves(c, IdleCall)
       ELSE /\ call' = [call EXCEPT ![c].stage = "fetching", ![c].login = auth, ![c].passed = FALSE]
            /\ UNCHANGED refresh
    /\ UNCHANGED <<auth, cache, pending, server, job, foreign, outages>>

Fetched(c) ==
    /\ call[c].stage = "fetching"
    /\ \/ /\ call[c].login \in dead
          /\ Leaves(c, IdleCall) /\ UNCHANGED <<server, outages>>
       \/ /\ call[c].login \notin dead /\ Minted(call[c].login)
          /\ call' = [call EXCEPT ![c].stage = "checking", ![c].got = Len(keys')]
          /\ UNCHANGED refresh
       \/ Outage /\ Leaves(c, IdleCall)
    /\ UNCHANGED <<auth, cache, pending, job, foreign>>

(* In error: the answer is taken whoever is signed in by now.              *)
StillSigned(c) == TRUE
StillCurrent(c) == auth = call[c].login
Compare(c) ==
    /\ call[c].stage = "checking"
    /\ IF StillCurrent(c) THEN call' = [call EXCEPT ![c].stage = "saving"] /\ UNCHANGED refresh
       ELSE Leaves(c, IdleCall)
    /\ UNCHANGED <<auth, cache, pending, server, job, foreign, outages>>

SaveKey(c) ==
    /\ call[c].stage = "saving"
    /\ cache' = call[c].got
    /\ Leaves(c, [call[c] EXCEPT !.stage = "calling", !.key = call[c].got])
    /\ UNCHANGED <<auth, pending, server, job, foreign, outages>>

(* The run is cancelled: the refresh is dropped with its locks.            *)
Cancel(c) ==
    /\ call[c].stage # "idle"
    /\ Leaves(c, IdleCall)
    /\ UNCHANGED <<auth, cache, pending, server, job, foreign, outages>>

-----------------------------------------------------------------------------
(* Terminals and the dashboard.                                            *)

Work(t, stage, kind, login, got) ==
    job' = [job EXCEPT ![t] = [stage |-> stage, kind |-> kind, login |-> login, got |-> got]]
Done(t) == job' = [job EXCEPT ![t] = IdleJob]

StartLogin(t) ==
    /\ job[t].stage = "idle" /\ Len(codes) < MaxLogins
    /\ codes' = Append(codes, "waiting")
    /\ pending' = Len(codes')
    /\ UNCHANGED <<auth, cache, keys, revoked, dead, refresh, call, job, foreign, outages>>

(* A poll asks about the code it found; its answer settles whatever code   *)
(* is pending by then.                                                     *)
Poll(t) ==
    /\ job[t].stage = "idle" /\ pending # None
    /\ Work(t, "polling", "login", pending, None)
    /\ UNCHANGED <<auth, cache, pending, server, refresh, call, foreign, outages>>
Polled(t) ==
    /\ job[t].stage = "polling"
    /\ CASE codes[job[t].login] = "waiting" -> Done(t) /\ UNCHANGED <<auth, call, pending>>
         [] codes[job[t].login] = "refused" ->
              Done(t) /\ pending' = None /\ UNCHANGED <<auth, call>>
         [] OTHER -> /\ pending' = None
                     /\ LoginBecomes(job[t].login)
                     /\ Work(t, "fetching", "login", job[t].login, None)
    /\ UNCHANGED <<cache, server, refresh, foreign, outages>>

(* A catalogue sync, or the repair the terminal offers: both read the      *)
(* login, ask, and save what they are given.                               *)
StartSync(t, kind) ==
    /\ job[t].stage = "idle" /\ auth # None
    /\ Work(t, "fetching", kind, auth, None)
    /\ UNCHANGED <<auth, cache, pending, server, refresh, call, foreign, outages>>
Synced(t) ==
    /\ job[t].stage = "fetching"
    /\ \/ /\ job[t].login \notin dead /\ Minted(job[t].login)
          /\ Work(t, "saving", job[t].kind, job[t].login, Len(keys'))
       \/ /\ job[t].login \in dead
          /\ IF job[t].kind = "repair" THEN Work(t, "clearing", "repair", None, None) ELSE Done(t)
          /\ UNCHANGED <<server, outages>>
       \/ Outage /\ Done(t)
    /\ UNCHANGED <<auth, cache, pending, refresh, call, foreign>>
SaveCatalogue(t) ==
    /\ job[t].stage = "saving"
    /\ cache' = job[t].got /\ foreign' = TRUE
    /\ Done(t)
    /\ UNCHANGED <<auth, pending, server, refresh, call, outages>>

(* Notices and the pinned model are patched into a copy of the cache.      *)
ReadCache(t) ==
    /\ job[t].stage = "idle" /\ cache # None
    /\ Work(t, "saving", "patch", None, cache)
    /\ UNCHANGED <<auth, cache, pending, server, refresh, call, foreign, outages>>

StartLogout(t) ==
    /\ job[t].stage = "idle"
    /\ Work(t, "clearing", "logout", None, None)
    /\ UNCHANGED <<auth, cache, pending, server, refresh, call, foreign, outages>>
ClearAuth(t) ==
    /\ job[t].stage = "clearing"
    /\ LoginBecomes(None)
    /\ Work(t, "emptying", job[t].kind, None, None)
    /\ UNCHANGED <<cache, pending, server, refresh, foreign, outages>>
RemoveCache(t) ==
    /\ job[t].stage = "emptying"
    /\ cache' = None /\ foreign' = TRUE
    /\ Done(t)
    /\ UNCHANGED <<auth, pending, server, refresh, call, outages>>

AccountNext ==
    \/ \E k \in DOMAIN keys : RevokeKey(k)
    \/ \E l \in DOMAIN codes : EndLogin(l) \/ \E how \in {"approved", "refused"} : Decide(l, how)
    \/ \E c \in Calls : \/ Begin(c) \/ Answer(c) \/ Enter(c) \/ Reuse(c) \/ Ask(c) \/ Fetched(c)
                        \/ Compare(c) \/ SaveKey(c) \/ Cancel(c)
    \/ \E t \in Terminals : \/ StartLogin(t) \/ Poll(t) \/ Polled(t)
                            \/ \E kind \in {"sync", "repair"} : StartSync(t, kind)
                            \/ Synced(t) \/ SaveCatalogue(t) \/ ReadCache(t)
                            \/ StartLogout(t) \/ ClearAuth(t) \/ RemoveCache(t)

AccountSpec == AccountInit /\ [][AccountNext]_accountVars

-----------------------------------------------------------------------------
(* One mint is reused by all: while nobody else writes the cache, a        *)
(* recovery about to publish finds no other key that still works, so the   *)
(* calls of every process end on the same one.                             *)
MintsAreShared ==
    ~foreign => \A c \in Calls : call[c].stage \in {"checking", "saving"} =>
                    cache \in revoked \cup {None} /\ refresh = c

(* An answer whose login was replaced or cleared while it was on its way   *)
(* is not written over what the new login has cached.  A login that        *)
(* changes between that comparison and the write (recovery.rs:139-149) is  *)
(* not noticed, and this says nothing of it.                               *)
PassedAnswersAreDropped == \A c \in Calls : call[c].stage = "saving" => ~call[c].passed

(* What a recovery promises of the key it publishes (auth/recovery.rs).    *)
KeysAreShared == MintsAreShared /\ PassedAnswersAreDropped

(* The repair says it clears the dead credential: a login it removes is    *)
(* one the server refuses.                                                 *)
OnlyDeadLoginsAreCleared ==
    [][\A t \in Terminals :
          job[t].stage = "clearing" /\ job[t].kind = "repair" /\ job'[t].stage = "emptying" =>
             auth \in dead \cup {None}]_accountVars
=============================================================================

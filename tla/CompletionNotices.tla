-------------------------- MODULE CompletionNotices --------------------------
(***************************************************************************)
(* What a process manager promises its session about completions, without  *)
(* queues, locks and flags.  A task runs in the foreground, may be         *)
(* detached, ends, and may be released at any time.  A task that ended in  *)
(* the background owes one notice.  The notice is posted at most once,     *)
(* never before the end and never after the session was told, and a        *)
(* session that was told stays told.  Nothing is promised about a task     *)
(* that has been released.                                                 *)
(***************************************************************************)
CONSTANT Tasks

VARIABLES
    phase,      \* where each task is in its life
    notice      \* what the session knows of its completion

vars == <<phase, notice>>

Phase  == {"new", "foreground", "background", "ended", "owing", "released"}
Notice == {"none", "posted", "told"}

Init == /\ phase = [t \in Tasks |-> "new"]
        /\ notice = [t \in Tasks |-> "none"]

Launch(t) ==
    /\ phase[t] = "new"
    /\ \E p \in {"foreground", "background"} : phase' = [phase EXCEPT ![t] = p]
    /\ UNCHANGED notice

Detach(S) ==
    /\ \A t \in S : phase[t] = "foreground"
    /\ phase' = [t \in Tasks |-> IF t \in S THEN "background" ELSE phase[t]]
    /\ UNCHANGED notice

\* A foreground task ends with nobody owed a notice; a background task owes one.
End(t) ==
    /\ \/ phase[t] = "foreground" /\ phase' = [phase EXCEPT ![t] = "ended"]
       \/ phase[t] = "background" /\ phase' = [phase EXCEPT ![t] = "owing"]
    /\ UNCHANGED notice

Post(t) ==
    /\ phase[t] = "owing"
    /\ notice[t] = "none"
    /\ notice' = [notice EXCEPT ![t] = "posted"]
    /\ UNCHANGED phase

Tell(S) ==
    /\ \A t \in S : phase[t] \in {"ended", "owing"}
    /\ notice' = [t \in Tasks |-> IF t \in S THEN "told" ELSE notice[t]]
    /\ UNCHANGED phase

Release(S) ==
    /\ \A t \in S : phase[t] # "new"
    /\ phase' = [t \in Tasks |-> IF t \in S THEN "released" ELSE phase[t]]
    /\ notice' = [t \in Tasks |-> IF t \in S THEN "none" ELSE notice[t]]

Next ==
    \/ \E t \in Tasks : Launch(t) \/ End(t) \/ Post(t)
    \/ \E S \in SUBSET Tasks : Detach(S) \/ Tell(S) \/ Release(S)

Spec     == Init /\ [][Next]_vars
FairSpec == Spec /\ \A t \in Tasks : WF_vars(Post(t))
=============================================================================

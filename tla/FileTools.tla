------------------------------ MODULE FileTools ------------------------------
(***************************************************************************)
(* The write and edit calls of a batch run at the same time; a lock for    *)
(* each file keeps those of one file apart (tools/file/mutex.rs, edit.rs,  *)
(* write.rs, tool_exec.rs execute_batch).  The lock is found by the name   *)
(* the file really has; a file that does not exist yet has only the name   *)
(* it was asked for by.  A lock nobody wants is dropped from the table     *)
(* when the last of its holders leaves.                                    *)
(*                                                                         *)
(* There is one file, which may be named in two ways.  What it holds is    *)
(* the calls whose text is in it.                                          *)
(***************************************************************************)
EXTENDS Naturals, Sequences, FiniteSets, SequencesExt

CONSTANTS
    Edits, Writes,  \* the calls of the batch
    Asked,          \* the name each call was given
    TheName         \* the name the file really has

Jobs == Edits \cup Writes

VARIABLES
    text,       \* what the file holds: <<>> if it is not there, << <<calls>> >> if it is
    table,      \* FILE_MUTEXES: the lock for each name, 0 if there is none
    owner,      \* the call that holds a lock
    line,       \* the calls that wait for a lock, in order
    at,         \* where a call is
    key, mutex, \* its FileLockGuard
    seen,       \* what an edit has read
    done,       \* the calls that answered that they changed the file, with what it then held
    stopped     \* the run has been cancelled

toolVars == <<text, table, owner, line, at, key, mutex, seen, done, stopped>>

-----------------------------------------------------------------------------
None == "none"
Names == {Asked[j] : j \in Jobs} \cup {TheName}
Locks == 1..Cardinality(Jobs)
There == text # <<>>

ToolsInit ==
    /\ text \in {<<>>, << <<>> >>}
    /\ table = [n \in Names |-> 0]
    /\ owner = [m \in Locks |-> None]
    /\ line = [m \in Locks |-> <<>>]
    /\ at = [j \in Jobs |-> "start"]
    /\ key = [j \in Jobs |-> None]
    /\ mutex = [j \in Jobs |-> 0]
    /\ seen = [j \in Jobs |-> <<>>]
    /\ done = {}
    /\ stopped = FALSE

Goto(j, where) == at' = [at EXCEPT ![j] = where]

\* The run is cancelled; a call notices it before and after it waits for its lock.
Stop ==
    /\ ~stopped /\ stopped' = TRUE
    /\ UNCHANGED <<text, table, owner, line, at, key, mutex, seen, done>>

\* resolve_mutex_key: the name the file really has, if it is there.
ResolveKey(j) ==
    /\ at[j] = "start"
    /\ IF stopped
       THEN Goto(j, "end") /\ UNCHANGED key
       ELSE /\ key' = [key EXCEPT ![j] = IF There THEN TheName ELSE Asked[j]]
            /\ Goto(j, "find")
    /\ UNCHANGED <<text, table, owner, line, mutex, seen, done, stopped>>

\* acquire_file_lock: the lock of that name, a new one if there is none, and a place in its line.
FindLock(j) ==
    /\ at[j] = "find"
    /\ LET unused == {m \in Locks : /\ \A i \in Jobs : mutex[i] # m \/ at[i] \in {"start", "end"}
                                    /\ \A n \in Names : table[n] # m}
           m == IF table[key[j]] # 0 THEN table[key[j]] ELSE CHOOSE u \in unused : \A v \in unused : u <= v
       IN /\ table' = [table EXCEPT ![key[j]] = m]
          /\ mutex' = [mutex EXCEPT ![j] = m]
          /\ line' = [line EXCEPT ![m] = Append(@, j)]
    /\ Goto(j, "wait")
    /\ UNCHANGED <<text, owner, key, seen, done, stopped>>

\* The lock is free, and the call is first in line.
Lock(j) ==
    LET m == mutex[j]
    IN /\ at[j] = "wait"
       /\ owner[m] = None /\ line[m][1] = j
       /\ owner' = [owner EXCEPT ![m] = j]
       /\ line' = [line EXCEPT ![m] = Tail(@)]
       /\ Goto(j, IF stopped THEN "leave" ELSE "read")
       /\ UNCHANGED <<text, table, key, mutex, seen, done, stopped>>

\* The file is read: an edit is made of what it says, and cannot be of a file that is not there.
ReadOld(j) ==
    /\ at[j] = "read"
    /\ IF j \in Edits /\ ~There
       THEN Goto(j, "leave") /\ UNCHANGED seen
       ELSE /\ seen' = [seen EXCEPT ![j] = IF j \in Edits THEN text[1] ELSE <<>>]
            /\ Goto(j, "open")
    /\ UNCHANGED <<text, table, owner, line, key, mutex, done, stopped>>

\* tokio::fs::write makes the file empty and then fills it.
Truncate(j) ==
    /\ at[j] = "open"
    /\ text' = << <<>> >>
    /\ Goto(j, "fill")
    /\ UNCHANGED <<table, owner, line, key, mutex, seen, done, stopped>>

Fill(j) ==
    /\ at[j] = "fill"
    /\ text' = << Append(seen[j], j) >>
    /\ done' = done \cup {<<j, Append(seen[j], j)>>}
    /\ Goto(j, "leave")
    /\ UNCHANGED <<table, owner, line, key, mutex, seen, stopped>>

\* The references to a lock: the table's, the holder's and those of the calls in line.
References(m) ==
    Cardinality({n \in Names : table[n] = m}) + Cardinality({j \in Jobs : owner[m] = j}) + Len(line[m])

\* Mutant: whoever leaves takes the lock out of the table.
AnyReferences(m) == TRUE

Unwanted(m) == References(m) <= 2

\* FileLockGuard::drop looks twice, as it lets go of the table in between.
LookOnce(j) ==
    /\ at[j] = "leave"
    /\ Goto(j, IF table[key[j]] # 0 /\ Unwanted(table[key[j]]) THEN "evict" ELSE "release")
    /\ UNCHANGED <<text, table, owner, line, key, mutex, seen, done, stopped>>

Evict(j) ==
    /\ at[j] = "evict"
    /\ table' = IF table[key[j]] # 0 /\ Unwanted(table[key[j]]) THEN [table EXCEPT ![key[j]] = 0] ELSE table
    /\ Goto(j, "release")
    /\ UNCHANGED <<text, owner, line, key, mutex, seen, done, stopped>>

\* Only then is the lock itself let go.
ReleaseLock(j) ==
    /\ at[j] = "release"
    /\ owner' = [owner EXCEPT ![mutex[j]] = None]
    /\ Goto(j, "end")
    /\ UNCHANGED <<text, table, line, key, mutex, seen, done, stopped>>

\* execute_batch: join_all.
BatchDone == (\A j \in Jobs : at[j] = "end") /\ UNCHANGED toolVars

ToolsNext ==
    \/ Stop \/ BatchDone
    \/ \E j \in Jobs : \/ ResolveKey(j) \/ FindLock(j) \/ Lock(j) \/ ReadOld(j) \/ Truncate(j) \/ Fill(j)
                       \/ LookOnce(j) \/ Evict(j) \/ ReleaseLock(j)

ToolsSpec == ToolsInit /\ [][ToolsNext]_toolVars

-----------------------------------------------------------------------------
\* The calls that had the file to work on.
Inside == {j \in Jobs : at[j] \in {"read", "open", "fill"}}

\* An edit that was made is still there, unless a write replaced all of the file after it.
Standing(j, held) ==
    \/ j \in ToSet(text[1])
    \/ \E w \in Writes : \E other \in done : other[1] = w /\ w \in ToSet(text[1]) /\ w \notin ToSet(held)

\* The calls that name one file by one name never work on it at the same time, and no edit of theirs is lost:
\* each was made of a whole file that held every change made before (mutex.rs:19-22, 39-87).
EditsAreNotLost ==
    (\A j \in Jobs : key[j] \in {None, TheName}) =>
        /\ Cardinality(Inside) <= 1
        /\ There /\ Inside = {} => \A d \in done : Standing(d[1], d[2])

\* "Operations on different files proceed concurrently; operations on the same file are serialized."
\* (mutex.rs:19-20).  A file that is being created has two keys.
SameFileIsSerialised == Cardinality(Inside) <= 1
=============================================================================

--------------------------- MODULE TranscriptStore ---------------------------
(***************************************************************************)
(* What a storage backend promises of the transcript of one session, as    *)
(* the backend in memory does it (storage/in_memory.rs): entries are       *)
(* numbered from one, without a gap, and a batch is appended as a whole by *)
(* whoever has seen all that is there; nobody changes what was appended.   *)
(***************************************************************************)
EXTENDS Naturals, Sequences

CONSTANT MaxBatch    \* bound: entries of a batch

VARIABLE contents   \* the entries of the session

\* The numbers start at one and have no gap.
Numbered(entries) == \A i \in 1..Len(entries) : entries[i].seq = i

StoreInit == Numbered(contents)

\* compare_and_append_entries: the batch goes behind what is there, and its numbers say so.
CompareAndAppend(old, batch) ==
    /\ Len(batch) \in 1..MaxBatch
    /\ Numbered(old \o batch)
    /\ contents' = old \o batch

StoreNext ==
    LET old == contents
        new == contents'
    IN CompareAndAppend(old, SubSeq(new, Len(old) + 1, Len(new)))

StoreSpec == StoreInit /\ [][StoreNext]_contents
=============================================================================

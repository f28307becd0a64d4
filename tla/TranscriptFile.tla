---------------------------- MODULE TranscriptFile ----------------------------
(***************************************************************************)
(* The transcript of a session on disk (storage/fs/storage.rs, migrate.rs):*)
(* one line for each batch, appended under an exclusive file lock by the   *)
(* processes that have the session open.  A process may die between any    *)
(* two writes, which leaves part of a line, part of a backup, or an old    *)
(* file not yet rewritten; whoever takes the lock next repairs what it     *)
(* finds.                                                                  *)
(*                                                                         *)
(* A line is kept as its brackets, its entries and its newline, each one   *)
(* a cell, in place of bytes.  TranscriptStore says what all this is for.  *)
(***************************************************************************)
EXTENDS Integers, Sequences, FiniteSets, SequencesExt

CONSTANTS
    Writers,    \* processes
    Originals,  \* what the file may hold at first: legacy lines
    Window,     \* ACTIVE_TAIL_INITIAL_BYTES, in cells
    MaxWrites,  \* bound: batches
    MaxDeaths   \* bound: deaths of a process

VARIABLES
    file,       \* the cells of transcript.jsonl
    contents,   \* what the file says; kept beside it, for the refinement
    original,   \* what it held at first
    backup,     \* transcript.jsonl.v1.bak: <<>> or <<cells>>
    lock,       \* who holds transcript.lock, or nobody
    at,         \* where a process is: idle, locked, backup, rename, ready, written
    known,      \* the last sequence number a process knows of, -1 before it has read the file
    batch,      \* what a process is about to append; nothing for a reader
    kept,       \* entries that were acknowledged
    writes, deaths

fileVars == <<file, contents, original, backup, lock, at, known, batch, kept, writes, deaths>>

-----------------------------------------------------------------------------
(* Lines.                                                                  *)

Nobody == "nobody"
Open   == [cell |-> "["]
Close  == [cell |-> "]"]
Line   == [cell |-> "newline"]
Entry(e)  == [cell |-> "entry", entry |-> e]
Object(e) == [cell |-> "object", entry |-> e]       \* a legacy line: one entry, no brackets

\* An entry: its number and what it says; a legacy compaction names the first entry it keeps.
Say(id) == [kind |-> "say", id |-> id, from |-> 0, messages |-> <<>>]
Summary == Say("summary")

Controls == {"compact", "clear"}

BatchLine(entries) ==
    <<Open>> \o [i \in 1..Len(entries) |-> Entry(entries[i])] \o <<Close, Line>>

LastLine(cells) ==
    LET ends == {i \in 1..Len(cells) : cells[i] = Line}
    IN IF ends = {} THEN 0 ELSE CHOOSE i \in ends : \A j \in ends : j <= i

\* The lines of the cells, without their newlines and without the blank ones.
LinesOf(cells) ==
    LET ends == SetToSortSeq({i \in 1..Len(cells) : cells[i] = Line}, <)
        from(i) == IF i = 1 THEN 1 ELSE ends[i - 1] + 1
        line(i) == IF i > Len(ends) THEN SubSeq(cells, from(i), Len(cells)) ELSE SubSeq(cells, from(i), ends[i] - 1)
    IN SelectSeq([i \in 1..(Len(ends) + 1) |-> line(i)], LAMBDA l : l # <<>>)

IsBatch(line) ==
    /\ Len(line) > 2 /\ line[1] = Open /\ Last(line) = Close
    /\ \A i \in 2..(Len(line) - 1) : line[i].cell = "entry"

EntriesIn(line) == [i \in 1..(Len(line) - 2) |-> line[i + 1].entry]

Contiguous(entries) == \A i \in 1..(Len(entries) - 1) : entries[i + 1].seq = entries[i].seq + 1

Unreadable == <<[seq |-> 0, item |-> Say("unreadable")]>>

\* parse_current_transcript, and what the readers of a part of the file do with its lines.
Parse(cells) ==
    LET lines   == LinesOf(cells)
        entries == FlattenSeq([i \in 1..Len(lines) |-> EntriesIn(lines[i])])
    IN IF \A i \in 1..Len(lines) : IsBatch(lines[i])
       THEN IF Contiguous(entries) THEN entries ELSE Unreadable
       ELSE Unreadable

-----------------------------------------------------------------------------
(* Old files.                                                              *)

IsLegacy(cells) ==
    \E i \in 1..Len(cells) : cells[i] # Line /\ cells[i] # Open /\ \A j \in 1..(i - 1) : cells[j] = Line

ContextOf(entries) ==
    LET controls == {i \in 1..Len(entries) : entries[i].item.kind \in Controls}
        last == IF controls = {} THEN 0 ELSE CHOOSE i \in controls : \A j \in controls : j <= i
        said == [i \in 1..(Len(entries) - last) |-> entries[last + i].item]
    IN IF last = 0 THEN said ELSE entries[last].item.messages \o said

\* decode_legacy_compact: the summary, and the entries from the first it keeps.
Decoded(e, previous) ==
    IF e.item.kind = "compact" /\ e.item.from > 0
    THEN LET held == SelectSeq(previous, LAMBDA p : p.seq >= e.item.from /\ p.seq < e.seq /\ p.item.kind = "say")
         IN [e EXCEPT !.item.messages = <<Summary>> \o [i \in 1..Len(held) |-> held[i].item], !.item.from = 0]
    ELSE e

\* reset_batch_offset: a batch that starts over is moved behind what is there.
Offset(entries, previous) ==
    LET last == FoldLeft(LAMBDA m, p : IF p.seq > m THEN p.seq ELSE m, 0, previous)
    IN IF previous # <<>> /\ entries[1].seq <= last THEN last + 1 - entries[1].seq ELSE 0

\* decode_legacy_transcript: lines that cannot be read are left out.
DecodeLine(previous, line) ==
    IF IsBatch(line)
    THEN LET entries == EntriesIn(line)
             moved == Offset(entries, previous)
         IN previous \o [i \in 1..Len(entries) |-> [entries[i] EXCEPT !.seq = @ + moved]]
    ELSE IF Len(line) = 1 /\ line[1].cell = "object"
         THEN Append(previous, Decoded(line[1].entry, previous))
         ELSE previous

Decode(cells) == FoldLeft(DecodeLine, <<>>, LinesOf(cells))

Renumbered(items) == [i \in 1..Len(items) |-> [seq |-> i, item |-> items[i]]]

\* migrate_if_needed: one batch with the context the old file resolves to.
Migrated(cells) ==
    LET items == ContextOf(Decode(cells))
    IN IF items = <<>> THEN <<>> ELSE BatchLine(Renumbered(items))

-----------------------------------------------------------------------------
(* Reading from the end.                                                   *)

\* Mutant: a line cut short stays.
TornTailStays(cells) == cells

\* truncate_incomplete_tail.
Truncated(cells) == SubSeq(cells, 1, LastLine(cells))

Longer(window, cells) == IF 2 * window > Len(cells) THEN Len(cells) ELSE 2 * window

\* read_current_tail_seq: the last line in the shortest window that holds all of it.
TailSeq(cells) ==
    LET read[window \in 0..Len(cells)] ==
            LET start == Len(cells) - window
                part  == SubSeq(cells, start + 1, Len(cells))
                ends  == {i \in 1..Len(part) : part[i] # Line}
                end   == IF ends = {} THEN 0 ELSE CHOOSE i \in ends : \A j \in ends : j <= i
                from  == LastLine(SubSeq(part, 1, end))
                line  == SubSeq(part, from + 1, end)
            IN IF end > 0 /\ (from > 0 \/ start = 0)
               THEN IF IsBatch(line) /\ Contiguous(EntriesIn(line)) THEN Last(EntriesIn(line)).seq ELSE -1
               ELSE IF start = 0 THEN 0 ELSE read[Longer(window, cells)]
    IN IF cells = <<>> THEN 0 ELSE read[IF Window > Len(cells) THEN Len(cells) ELSE Window]

\* Mutant: the window is taken to begin with a line.
AnyStart(part, readStart) == 0

\* The first whole line of a window that begins one cell early.
FirstWhole(part, readStart) ==
    LET ends == {i \in 1..Len(part) : part[i] = Line}
    IN IF readStart = 0 THEN 0
       ELSE IF ends = {} THEN Len(part) ELSE CHOOSE i \in ends : \A j \in ends : i <= j

FromLastControl(entries) ==
    LET controls == {i \in 1..Len(entries) : entries[i].item.kind \in Controls}
        last == CHOOSE i \in controls : \A j \in controls : j <= i
    IN IF controls = {} THEN entries ELSE SubSeq(entries, last, Len(entries))

\* read_current_active_tail: from the last control point, in windows that grow until one holds it.
ActiveTail(cells) ==
    LET read[window \in 0..Len(cells)] ==
            LET offset == Len(cells) - window
                start  == IF offset = 0 THEN 0 ELSE offset - 1
                part   == SubSeq(cells, start + 1, Len(cells))
                entries == Parse(SubSeq(part, FirstWhole(part, start) + 1, Len(part)))
            IN IF entries = Unreadable THEN Unreadable
               ELSE IF offset = 0 \/ \E i \in 1..Len(entries) : entries[i].item.kind \in Controls
                    THEN FromLastControl(entries)
                    ELSE read[Longer(window, cells)]
    IN IF cells = <<>> THEN <<>> ELSE read[IF Window > Len(cells) THEN Len(cells) ELSE Window]

\* What cells say: an old file, the context it resolves to.
Says(cells) == IF IsLegacy(cells) THEN Renumbered(ContextOf(Decode(cells))) ELSE Parse(Truncated(cells))

-----------------------------------------------------------------------------
(* The processes.                                                          *)

FileInit ==
    /\ original \in Originals /\ file = original /\ contents = Says(file)
    /\ backup = <<>>
    /\ lock = Nobody
    /\ at = [w \in Writers |-> "idle"]
    /\ known = [w \in Writers |-> -1]
    /\ batch = [w \in Writers |-> <<>>]
    /\ kept = {}
    /\ writes = 0 /\ deaths = 0

\* The batches a process may want to append: one or two messages, or a compaction.
NewItems(id) ==
    {<<Say(id)>>, <<Say(id), Say(id)>>, <<[kind |-> "compact", id |-> id, from |-> 0, messages |-> <<Summary>>]>>}

\* append_transcript_batch: the lock.  A process that has read the file may append after what it knows.
LockToAppend(w) ==
    /\ at[w] = "idle" /\ lock = Nobody
    /\ known[w] >= 0
    /\ writes < MaxWrites
    /\ \E items \in NewItems(writes + 1) :
          batch' = [batch EXCEPT ![w] = [i \in 1..Len(items) |-> [seq |-> known[w] + i, item |-> items[i]]]]
    /\ writes' = writes + 1
    /\ lock' = w
    /\ at' = [at EXCEPT ![w] = "locked"]
    /\ UNCHANGED <<file, contents, original, backup, known, kept, deaths>>

\* read_active_transcript: the lock.
LockToRead(w) ==
    /\ at[w] = "idle" /\ lock = Nobody
    /\ batch' = [batch EXCEPT ![w] = <<>>]
    /\ lock' = w
    /\ at' = [at EXCEPT ![w] = "locked"]
    /\ UNCHANGED <<file, contents, original, backup, known, kept, writes, deaths>>

Put(cells) == file' = cells /\ contents' = Says(cells)

Release(w) ==
    /\ lock' = Nobody
    /\ at' = [at EXCEPT ![w] = "idle"]

\* ensure_current_transcript_format, truncate_incomplete_tail.
Prepare(w) ==
    /\ at[w] = "locked"
    /\ IF ~IsLegacy(file)
       THEN /\ Put(Truncated(file))
            /\ at' = [at EXCEPT ![w] = "ready"]
            /\ UNCHANGED <<backup, lock>>
       ELSE /\ UNCHANGED <<file, contents>>
            /\ IF Decode(file) = <<>>
               THEN Release(w) /\ UNCHANGED backup
               ELSE /\ at' = [at EXCEPT ![w] = IF backup = <<>> THEN "backup" ELSE "rename"]
                    /\ backup' = IF backup = <<>> THEN << <<>> >> ELSE backup
                    /\ UNCHANGED lock
    /\ UNCHANGED <<original, known, batch, kept, writes, deaths>>

\* write_migration: the backup is there, and is filled.
WriteBackup(w) ==
    /\ at[w] = "backup"
    /\ backup' = <<file>>
    /\ at' = [at EXCEPT ![w] = "rename"]
    /\ UNCHANGED <<file, contents, original, lock, known, batch, kept, writes, deaths>>

\* The new file replaces the old one at once.
Rename(w) ==
    /\ at[w] = "rename"
    /\ Put(Migrated(file))
    /\ at' = [at EXCEPT ![w] = "ready"]
    /\ UNCHANGED <<original, backup, lock, known, batch, kept, writes, deaths>>

\* Mutant: nobody else has appended.
AcceptsAll(w) == TailSeq(file) >= 0

Accepts(w) == TailSeq(file) = known[w] /\ batch[w][1].seq = known[w] + 1

\* The batch goes in, or the caller learns that the file has moved on.
Write(w) ==
    /\ at[w] = "ready" /\ batch[w] # <<>>
    /\ IF Accepts(w)
       THEN /\ Put(file \o BatchLine(batch[w]))
            /\ at' = [at EXCEPT ![w] = "written"]
            /\ UNCHANGED <<lock, known>>
       ELSE /\ Release(w)
            /\ known' = [known EXCEPT ![w] = -1]
            /\ UNCHANGED <<file, contents>>
    /\ UNCHANGED <<original, backup, batch, kept, writes, deaths>>

Acknowledge(w) ==
    /\ at[w] = "written"
    /\ kept' = kept \cup ToSet(batch[w])
    /\ known' = [known EXCEPT ![w] = Last(batch[w]).seq]
    /\ Release(w)
    /\ UNCHANGED <<file, contents, original, backup, batch, writes, deaths>>

Read(w) ==
    /\ at[w] = "ready" /\ batch[w] = <<>>
    /\ ActiveTail(file) # Unreadable
    /\ known' = [known EXCEPT ![w] = IF ActiveTail(file) = <<>> THEN 0 ELSE Last(ActiveTail(file)).seq]
    /\ Release(w)
    /\ UNCHANGED <<file, contents, original, backup, batch, kept, writes, deaths>>

\* A process dies: the lock is free, and a line it was writing may be there in part.
Die(w) ==
    /\ lock = w
    /\ deaths < MaxDeaths
    /\ deaths' = deaths + 1
    /\ \/ UNCHANGED <<file, contents>>
       \/ /\ at[w] = "ready" /\ batch[w] # <<>> /\ Accepts(w)
          /\ \E n \in 1..(Len(BatchLine(batch[w])) - 1) : Put(file \o SubSeq(BatchLine(batch[w]), 1, n))
    /\ Release(w)
    /\ known' = [known EXCEPT ![w] = -1]
    /\ UNCHANGED <<original, backup, batch, kept, writes>>

FileNext ==
    \E w \in Writers :
        \/ LockToAppend(w) \/ LockToRead(w) \/ Prepare(w) \/ WriteBackup(w) \/ Rename(w)
        \/ Write(w) \/ Acknowledge(w) \/ Read(w) \/ Die(w)

FileSpec == FileInit /\ [][FileNext]_fileVars

-----------------------------------------------------------------------------
Store == INSTANCE TranscriptStore WITH MaxBatch <- 2

\* Whatever dies, the file is a transcript store: a batch is appended as a whole and once, by a process
\* that knew all that was there; a line cut short and the rewriting of an old file change nothing.
IsAStore == Store!StoreSpec

\* What was acknowledged stays, and the two readers that start from the end find, whatever the size of
\* their window, what a reader of the whole file finds (storage.rs:310-435).
ReadersAgree ==
    /\ ~IsLegacy(file) =>
          LET whole == Truncated(file)
          IN /\ contents # Unreadable
             /\ TailSeq(whole) = IF contents = <<>> THEN 0 ELSE Last(contents).seq
             /\ ActiveTail(whole) = FromLastControl(contents)
    /\ kept \subseteq ToSet(contents)

\* "Rewrite an old or mixed transcript once, preserving the original as a backup" (migrate.rs:34).
OriginalIsKept == file # original /\ IsLegacy(original) /\ ~IsLegacy(file) => backup = <<original>>
=============================================================================

------------------------------ MODULE FileReads ------------------------------
(***************************************************************************)
(* What the read tool shows of a file (tools/file/read.rs).  A file is     *)
(* shown in pages: an answer is cut at a number of lines and of bytes, or  *)
(* at the limit that was asked for, and then says where to go on.  A large *)
(* file is read line by line instead.  A read that would say again what an *)
(* earlier one said is answered with a reference to it; the conversation   *)
(* may have dropped that answer since.                                     *)
(***************************************************************************)
EXTENDS Integers, Sequences, FiniteSets, SequencesExt

CONSTANTS
    Texts,      \* what the file may hold: sequences of lines, each with its size
    Limits,     \* limits that are asked for, and None
    MaxLines,   \* MAX_READ_LINES
    MaxBytes,   \* MAX_READ_BYTES
    MaxFile,    \* ReadFileTool.max_bytes
    MaxReads,   \* bound: reads
    MaxChanges  \* bound: changes of the file, and losses of the conversation

VARIABLES
    lines,      \* the file
    lastReads,  \* the last answer for each request: ReadFileTool.last_reads
    dialogue,   \* the answers the conversation holds
    page,       \* a reader that goes from page to page: where it is, its limit, what it was shown
    stub,       \* the answer that the last one refers to, if it does
    reads, changes

readVars == <<lines, lastReads, dialogue, page, stub, reads, changes>>

-----------------------------------------------------------------------------
None == 0     \* offsets and limits that are given are positive: optional_positive_usize

Size(text) == FoldLeft(LAMBDA sum, l : sum + l.size + 1, 0, text)

\* What is shown of a file: lines from start + 1 to end, and where to go on, if anywhere.
Page(text, start, end, next) == [from |-> start + 1, said |-> SubSeq(text, start + 1, end), next |-> next]

Least(x, y) == IF x < y THEN x ELSE y

\* truncate_selected: where the page ends, at least one line on.
CutAt(text, start, end) ==
    LET fits == {i \in start..end : Size(SubSeq(text, start + 1, i)) <= MaxBytes}
        most == CHOOSE i \in fits : \A j \in fits : j <= i
    IN IF end - start > MaxLines THEN start + MaxLines
       ELSE IF most = start /\ end > start THEN start + 1 ELSE most

\* Mutant: only a page that was cut says where to go on.
SilentLimit(text, offset, limit) ==
    LET total == Len(text)
        start == IF offset = None THEN 0 ELSE Least(offset - 1, total)
        end   == IF limit = None THEN total ELSE Least(start + limit, total)
        cut   == CutAt(text, start, end)
    IN Page(text, start, cut, IF cut < end THEN cut + 1 ELSE None)

\* ReadFileTool::execute: a file that is read as a whole.
InMemory(text, offset, limit) ==
    LET total == Len(text)
        start == IF offset = None THEN 0 ELSE Least(offset - 1, total)
        end   == IF limit = None THEN total ELSE Least(start + limit, total)
        cut   == CutAt(text, start, end)
    IN Page(text, start, cut, IF cut < end \/ (limit # None /\ cut < total) THEN cut + 1 ELSE None)

\* read_lines_streaming: the line behind the last one shown has been taken when the rest is counted.
Streamed(text, offset, limit) ==
    LET start == offset - 1
        end   == Least(start + limit, Len(text))
        taken == Least(start + limit + 1, Len(text))
        rest  == IF Len(text) >= start + limit THEN Len(text) - taken ELSE 0
    IN Page(text, start, end, IF rest > 0 THEN end + 1 ELSE None)

IsLarge(text) == Size(text) > MaxFile

Key(offset, limit) == <<offset, limit>>

ReadsInit ==
    /\ lines \in Texts
    /\ lastReads = << >>
    /\ dialogue = {}
    /\ page = [offset |-> None, limit |-> None, shown |-> <<>>, ended |-> FALSE]
    /\ stub = {}
    /\ reads = 0 /\ changes = 0

\* What the reader does with a page: it keeps it, and goes on where the page says.
Turn(p, limit) ==
    page' = [offset |-> p.next, limit |-> limit, shown |-> page.shown \o p.said, ended |-> p.next = None]

\* Mutant: the reader of a file is answered with a reference whatever the file says now.
StubForKey(key, p) == key \in DOMAIN lastReads

\* The fingerprint of the answer is the one of the last answer to the same request.
Repeats(key, p) == key \in DOMAIN lastReads /\ lastReads[key] = p

Remember(key, p) == [k \in DOMAIN lastReads \cup {key} |-> IF k = key THEN p ELSE lastReads[k]]

\* An answer of the tool.  A page that was asked for and answered before is referred to.
Answered(key, p, limit) ==
    /\ Turn(p, limit)
    /\ IF Repeats(key, p)
       THEN stub' = {<<key, lastReads[key]>>} /\ UNCHANGED <<lastReads, dialogue>>
       ELSE /\ stub' = {}
            /\ lastReads' = Remember(key, p)
            /\ dialogue' = dialogue \cup {<<key, p>>}

Read(offset, limit) ==
    IF IsLarge(lines)
    THEN /\ limit # None
         /\ LET p == Streamed(lines, IF offset = None THEN 1 ELSE offset, limit)
            IN Turn(p, limit) /\ dialogue' = dialogue \cup {<<Key(offset, limit), p>>}
         /\ stub' = {} /\ UNCHANGED lastReads
    ELSE Answered(Key(offset, limit), InMemory(lines, offset, limit), limit)

\* The first page, and the one the last answer names.
Open(limit) ==
    /\ reads < MaxReads /\ reads' = reads + 1
    /\ page.offset = None /\ page.shown = <<>>
    /\ Read(None, limit)
    /\ UNCHANGED <<lines, changes>>

Continue ==
    /\ reads < MaxReads /\ reads' = reads + 1
    /\ page.offset # None
    /\ Read(page.offset, page.limit)
    /\ UNCHANGED <<lines, changes>>

\* The model begins again, from the first line.
StartOver ==
    /\ page.shown # <<>>
    /\ page' = [offset |-> None, limit |-> None, shown |-> <<>>, ended |-> FALSE]
    /\ UNCHANGED <<lines, lastReads, dialogue, stub, reads, changes>>

\* Another tool changes the file.
Change ==
    /\ changes < MaxChanges /\ changes' = changes + 1
    /\ \E text \in Texts : text # lines /\ lines' = text
    /\ page' = [offset |-> None, limit |-> None, shown |-> <<>>, ended |-> FALSE]
    /\ stub' = {}
    /\ UNCHANGED <<lastReads, dialogue, reads>>

\* A compaction or a prune of the conversation takes old answers out of it, in the middle of a run.
Forget ==
    /\ changes < MaxChanges /\ changes' = changes + 1
    /\ dialogue # {}
    /\ dialogue' = {}
    /\ stub' = {}
    /\ UNCHANGED <<lines, lastReads, page, reads>>

ReadsNext == Continue \/ StartOver \/ Change \/ Forget \/ \E limit \in Limits : Open(limit)

ReadsSpec == ReadsInit /\ [][ReadsNext]_readVars

-----------------------------------------------------------------------------
\* A reader that follows the answers to the last page has seen every line, once and in order, however the lines
\* fall into pages; and a reference is to an answer that says what the file says now (read.rs:268-328, 412-443).
PagesShowEverything ==
    /\ page.ended /\ ~IsLarge(lines) => page.shown = lines
    /\ \A s \in stub : s[2].said = SubSeq(lines, s[2].from, s[2].from + Len(s[2].said) - 1)

\* "[{remaining} more lines in file. Use offset={next_offset} to continue.]" (read.rs:398): a page without it is
\* the last one.  For a large file it is not: the line behind the page is not counted.
LargeFilesShowEverything == page.ended /\ IsLarge(lines) => page.shown = lines

\* "The content from the earlier read result in this conversation is still current" (read.rs:59-61): there is
\* such a result in the conversation.
StubsPointAtContent == stub \subseteq dialogue
=============================================================================

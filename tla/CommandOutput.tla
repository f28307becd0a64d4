--------------------------- MODULE CommandOutput ---------------------------
(* What is kept and shown of a command's output: the rolling tail and the    *)
(* file that ProcessOutput fills as two readers append to it, and the result *)
(* that a foreground bash call makes of them.  A byte is plain ("a"), the    *)
(* end of a line ("n"), or one of the two bytes of a character ("h", "t").   *)
EXTENDS ByteText

CONSTANTS Chunks,      \* what one read may return
          TailBytes,   \* tail_bytes, half of what the tail may hold: more than a display and a line
          MaxFile,     \* MAX_OUTPUT_FILE_BYTES
          MaxBytes, MaxLines, MaxLine,   \* what a result displays, and of one line
          MaxReads     \* bound: reads of a run

VARIABLES all,       \* every byte that was read, for the properties
          tail, file, \* the rolling tail and what the file holds
          writing,   \* the file takes more bytes
          capped,    \* file_truncated
          newlines, openLine,
          reads, shown    \* the result: [status, text, saved], or none

outputVars == <<all, tail, file, writing, capped, newlines, openLine, reads, shown>>

NotShown == [status |-> "running", text |-> <<>>, saved |-> TRUE]

OutputInit ==
    /\ all = <<>> /\ tail = <<>> /\ file = <<>> /\ writing = TRUE /\ capped = FALSE
    /\ newlines = 0 /\ openLine = FALSE /\ reads = 0 /\ shown = NotShown

Ends(s)       == {i \in DOMAIN s : s[i] = "n"}

-----------------------------------------------------------------------------
(* ProcessOutput.                                                            *)

ToFile(bytes, written) ==
    /\ file' = file \o Take(bytes, written)
    /\ newlines' = newlines + Cardinality(Ends(bytes))
    /\ openLine' = (Last(bytes) # "n")
    /\ all' = all \o bytes
    /\ reads' = reads + 1

\* A tail of more than twice its size is cut to it, after the next end of a line.
Drained(t) ==
    LET target == Len(t) - TailBytes
        ends   == {i \in Ends(t) : i > target}
    IN  IF Len(t) <= 2 * TailBytes THEN t
        ELSE From(t, IF ends = {} THEN target ELSE Min(ends))

\* mutant: a file that takes no more is not marked
Unmarked(bytes) ==
    LET room == MaxFile - Len(file)
    IN  /\ ToFile(bytes, IF writing THEN room ELSE 0)
        /\ UNCHANGED capped

Persist(bytes) ==
    LET room == MaxFile - Len(file)
    IN  /\ ToFile(bytes, IF writing THEN room ELSE 0)
        /\ capped' = (capped \/ (writing /\ room < Len(bytes)) \/ Len(file) >= MaxFile)

Receive(bytes) ==
    /\ reads < MaxReads /\ shown = NotShown
    /\ Persist(bytes)
    /\ tail' = Drained(tail \o bytes)
    /\ UNCHANGED <<writing, shown>>

\* The write fails after some of the bytes.
WriteFails(bytes) ==
    /\ reads < MaxReads /\ shown = NotShown
    /\ writing /\ Len(file) < MaxFile
    /\ \E written \in 0 .. Len(bytes) - 1 :
          ToFile(bytes, IF written < MaxFile - Len(file) THEN written ELSE MaxFile - Len(file) - 1)
    /\ capped' = TRUE /\ writing' = FALSE
    /\ tail' = Drained(tail \o bytes)
    /\ UNCHANGED shown

-----------------------------------------------------------------------------
(* The text of a tail: a byte that is no character is replaced by one of     *)
(* three bytes.                                                              *)

CharAt(b, i) ==
    IF b[i] = "h" /\ i < Len(b) /\ b[i + 1] = "t" THEN "e"
    ELSE IF b[i] \in {"h", "t"} THEN "?" ELSE b[i]

Lossy(b) ==
    LET starts == SelectSeq([i \in DOMAIN b |-> i],
                            LAMBDA i : ~(b[i] = "t" /\ i > 1 /\ b[i - 1] = "h"))
    IN  [k \in DOMAIN starts |-> CharAt(b, starts[k])]

\* split('\n') and lines().
Split(t) ==
    LET ends == SelectSeq([i \in DOMAIN t |-> i], LAMBDA i : t[i] = "n")
        cuts == <<0>> \o ends \o <<Len(t) + 1>>
    IN  [i \in 1 .. Len(cuts) - 1 |-> SubSeq(t, cuts[i] + 1, cuts[i + 1] - 1)]
Lines(t) == IF t = <<>> \/ Last(Split(t)) # <<>> THEN SelectSeq(Split(t), LAMBDA l : t # <<>>)
            ELSE Front(Split(t))
Joined(lines) == FlattenSeq([i \in DOMAIN lines |-> IF i = 1 THEN lines[i] ELSE <<"n">> \o lines[i]])

\* The middle of a long line gives way to a note.
TruncateLongLines(t) ==
    Joined([i \in DOMAIN Split(t) |->
              LET line == Split(t)[i]
              IN  IF Bytes(line) <= MaxLine THEN line
                  ELSE Floor(line, MaxLine \div 2) \o <<"*">> \o Ceil(line, MaxLine \div 2)])

\* The last lines that fit.
TailTruncate(t) ==
    LET lines == Lines(t)
        kept(n) == From(lines, Len(lines) - n)
        size(n) == FoldLeft(LAMBDA s, l : s + Bytes(l) + 1, 0, kept(n))
        fits    == {n \in 0 .. Len(lines) : size(n) <= MaxBytes /\ n <= MaxLines}
    IN  IF Bytes(t) <= MaxBytes /\ Len(lines) <= MaxLines THEN t ELSE Joined(kept(Max(fits)))

TotalLines == newlines + IF openLine THEN 1 ELSE 0

\* mutant: only the size of the text is compared
CutBySize == capped \/ Bytes(Lossy(tail)) > MaxBytes

WasTruncated == capped \/ Bytes(Lossy(tail)) > MaxBytes \/ TotalLines > MaxLines

\* completed_result, format_terminal_result: the file of what is shown is removed.
End(status) ==
    /\ shown = NotShown
    /\ shown' = [status |-> status,
                 text   |-> IF status = "killed" THEN <<>> ELSE TailTruncate(TruncateLongLines(Lossy(tail))),
                 saved  |-> status # "killed" /\ WasTruncated]
    /\ UNCHANGED <<all, tail, file, writing, capped, newlines, openLine, reads>>

OutputNext ==
    \/ \E bytes \in Chunks : Receive(bytes) \/ WriteFails(bytes)
    \/ \E status \in {"ended", "timedout", "killed"} : End(status)

OutputSpec == OutputInit /\ [][OutputNext]_outputVars

-----------------------------------------------------------------------------
(* Properties.                                                               *)

\* The tail is the end of the output, of bounded size, and starts a line once it was
\* cut at one; the file is its beginning, and is complete unless it is marked; lines
\* are counted over everything, whatever was dropped.
TailAndFileMeet ==
    /\ IsSuffix(tail, all) /\ Len(tail) <= 2 * TailBytes
    /\ IsPrefix(file, all) /\ Len(file) <= MaxFile
    /\ capped \/ file = all
    /\ TotalLines = Len(Lines(all))
    /\ (tail # all /\ Len(tail) < TailBytes) => all[Len(all) - Len(tail)] = "n"

Whole(t) == \A i \in DOMAIN Split(t) : Bytes(Split(t)[i]) <= MaxLine

\* A result that does not show all of an output, but for the middle of long lines, names
\* a file with the rest, complete or marked as capped: whether the tail was cut or not,
\* as one that was cut at the end of a line still overflows the display.  Only not after
\* a cut when a line is over-long (SpillIsComplete).
WhatIsCutIsSaved ==
    shown.status \in {"ended", "timedout"} /\ (tail = all \/ Whole(Lossy(all))) =>
        shown.text = TruncateLongLines(Lossy(all)) \/ (shown.saved /\ (capped \/ file = all))

\* What should hold of every output whose tail was cut, and does not: where a line nearly
\* fills the tail, the cut at its end leaves so little that the result seems to show
\* everything, and the file is removed without a word.  The output file remains complete
\* (tools/bash.rs:53), even when it far exceeds the tail (tests/tools/bash.rs:475).
SpillIsComplete == shown.status \in {"ended", "timedout"} /\ tail # all => shown.saved
=============================================================================

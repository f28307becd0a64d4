---------------------------- MODULE ToolResults ----------------------------
(* What becomes of the result of a tool before the model sees it: an output  *)
(* that is too large is written to a file and shown as a preview, or cut in  *)
(* the middle; the search tools cap their own output.  A block is a text or  *)
(* an image.                                                                 *)
EXTENDS ByteText

CONSTANTS Contents,    \* results: sequences of blocks
          MaxResult,   \* MAX_TOOL_RESULT_BYTES, and the threshold of the spill
          MaxPreview,  \* preview_bytes, PREVIEW_CAP
          MaxSearch    \* MAX_OUTPUT_BYTES of the search tools

VARIABLES result,    \* what the tool returned
          given,     \* what the model is given
          spilled,   \* what the file holds, <<>> when there is none
          from       \* who processed it: "none", "runner", "search"

resultVars == <<result, given, spilled, from>>

ResultsInit == result = <<>> /\ given = <<>> /\ spilled = <<>> /\ from = "none"

IsTextBlock(b) == b.kind = "text"
TextBlock(t)   == [kind |-> "text", text |-> t]
Texts(c)       == SelectSeq(c, IsTextBlock)
Images(c)      == SelectSeq(c, LAMBDA b : ~IsTextBlock(b))
Total(c)       == FoldLeft(LAMBDA n, b : n + Bytes(b.text), 0, Texts(c))

\* merge_text_blocks: a line end between texts, once there is one before.
Merged(c) ==
    FoldLeft(LAMBDA t, b : (IF t = <<>> THEN t ELSE Append(t, "n")) \o b.text, <<>>, Texts(c))

\* mutant: the tail starts where the head may still be
WholeEnds(t, max) == IF Bytes(t) <= max THEN t ELSE Floor(t, max) \o <<"*">> \o Ceil(t, max)

\* truncate_tool_text, truncate_error: head and tail, and a note between them.
TruncateToolText(t, max) ==
    IF Bytes(t) <= max THEN t ELSE Floor(t, max \div 2) \o <<"*">> \o Ceil(t, max \div 2)

\* mutant: the blocks after the text that is cut are dropped
CapText(c) ==
    IF Total(c) <= MaxResult THEN c ELSE <<TextBlock(TruncateToolText(Merged(c), MaxResult))>>

\* All texts become one, in the place of the first.
CapToolResultContent(c) ==
    IF Total(c) <= MaxResult THEN c
    ELSE LET first == Min({i \in DOMAIN c : IsTextBlock(c[i])})
         IN  Images(Take(c, first)) \o <<TextBlock(TruncateToolText(Merged(c), MaxResult))>>
             \o Images(From(c, first))

LineEnds(t) == {i \in DOMAIN t : t[i] = "n"}
\* rfind('\\n'): up to the last end of a line, or all of it.
ToLineEnd(t) == IF LineEnds(t) = {} THEN t ELSE Take(t, Max(LineEnds(t)) - 1)

MakePreview(t) == IF Bytes(t) <= MaxPreview THEN t ELSE ToLineEnd(Floor(t, MaxPreview))

\* process_result: errors and small results are not spilled; without a spill, or when
\* it fails, the text is cut.
ProcessResult(c, isError, spillWorks) ==
    LET whole == Merged(c)
        spill == ~isError /\ spillWorks /\ Bytes(whole) > MaxResult
    IN  /\ result' = c
        /\ from' = "runner"
        /\ spilled' = IF spill THEN whole ELSE <<>>
        /\ given' = IF spill THEN <<TextBlock(MakePreview(whole) \o <<"*">>)>> \o Images(c)
                    ELSE CapToolResultContent(c)

\* cap_to_line_boundary: the window is sliced at a byte, which must not be inside of a
\* character.
Slices(t, n)  == Bytes(Floor(t, n)) = n
CapToLine(t)  == IF Bytes(t) <= MaxSearch THEN t ELSE ToLineEnd(Floor(t, MaxSearch))

\* finalize_output of a text the tool found; without a file the rest is gone.
FinalizeOutput(t, spillWorks) ==
    /\ Bytes(t) > MaxSearch => Slices(t, MaxSearch)
    /\ result' = <<TextBlock(t)>>
    /\ from' = "search"
    /\ spilled' = IF Bytes(t) > MaxSearch /\ spillWorks THEN t ELSE <<>>
    /\ given' = <<TextBlock(IF Bytes(t) <= MaxSearch THEN t ELSE CapToLine(t) \o <<"*">>)>>

\* The tool panics in the middle of a slice.
FinalizePanics(t) ==
    /\ Bytes(t) > MaxSearch /\ ~Slices(t, MaxSearch)
    /\ result' = <<TextBlock(t)>> /\ from' = "panic" /\ spilled' = <<>> /\ given' = <<>>

ResultsNext ==
    /\ from = "none"
    /\ \E c \in Contents :
          \/ \E isError, spillWorks \in BOOLEAN : ProcessResult(c, isError, spillWorks)
          \/ /\ Len(c) = 1 /\ IsTextBlock(c[1])
             /\ \/ \E spillWorks \in BOOLEAN : FinalizeOutput(c[1].text, spillWorks)
                \/ FinalizePanics(c[1].text)

ResultsSpec == ResultsInit /\ [][ResultsNext]_resultVars

-----------------------------------------------------------------------------
(* Properties.                                                               *)

\* t is shown in s: as it is, or a beginning and an end of it that do not overlap.
ShowsEndsOf(s, t) ==
    \/ s = t
    \/ \E i \in DOMAIN s :
          /\ s[i] = "*"
          /\ IsPrefix(Take(s, i - 1), t) /\ IsSuffix(From(s, i), t)
          /\ Len(s) - 1 < Len(t)

\* Whatever a tool returns, the model gets every image in order, no more text than the
\* limit, all of it or its ends; and what is shown as a preview is whole in its file.
ResultsFit ==
    from \in {"runner", "search"} =>
        /\ Images(given) = Images(result)
        /\ Total(given) <= MaxResult
        /\ Total(result) <= MaxSearch => given = result
        /\ given # result =>
              \/ /\ spilled = Merged(result) /\ IsPrefix(Front(Texts(given)[1].text), spilled)
              \/ ShowsEndsOf(Merged(given), Merged(result))

\* The cap falls back to the boundary of a character when a line exceeds it, and never
\* cuts inside of one (walk.rs:74-75, walk.rs:92-93).
CappingNeverPanics == from # "panic"
=============================================================================

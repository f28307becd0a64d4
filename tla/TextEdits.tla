------------------------------ MODULE TextEdits ------------------------------
(***************************************************************************)
(* What the edit tool makes of a file (tools/file/edit.rs, snippet.rs).    *)
(* Every oldText is looked for in the text as it was read, exactly and     *)
(* then by four looser comparisons; each must be found once, none may      *)
(* overlap, and all are put in place together.  The byte order mark and    *)
(* the line endings of the file are kept, and the answer shows the lines   *)
(* that changed.                                                           *)
(*                                                                         *)
(* A character is one of a few: a letter, a blank, a quote that is         *)
(* straight or curly, a wide form, the two parts of a line ending, the     *)
(* byte order mark.                                                        *)
(***************************************************************************)
EXTENDS Integers, Sequences, FiniteSets, SequencesExt

CONSTANTS
    Files,      \* what the file may hold
    Calls,      \* the edits of a call: sequences of records old, new
    Margin,     \* REGION_CONTEXT
    MaxCalls    \* bound: calls, one after the other

VARIABLES
    raw,        \* the file
    before,     \* the file before the last call, and what that call asked for
    answer,     \* what the last call answered
    calls

editVars == <<raw, before, answer, calls>>

-----------------------------------------------------------------------------
(* Characters.                                                             *)

LF == "lf"
CR == "cr"
BOM == "bom"
Blank == " "
Straight == "quote"
CurlyOpen == "open quote"
CurlyClose == "close quote"
Wide == "wide"          \* a compatibility form of the two letters a, b

Curly == {CurlyOpen, CurlyClose}

\* normalize_unicode: one character for one.
Fold(text) == [i \in 1..Len(text) |-> IF text[i] \in Curly THEN Straight ELSE text[i]]

Spaces == {Blank, CR, LF}

\* trim_end.
TrimEnd(text) ==
    LET solid == {i \in 1..Len(text) : text[i] \notin Spaces}
    IN IF solid = {} THEN <<>> ELSE SubSeq(text, 1, CHOOSE i \in solid : \A j \in solid : j <= i)

\* normalize_nfkc_line: compatibility forms may be longer than what they stand for.
Compatible(text) ==
    TrimEnd(Fold(FlattenSeq([i \in 1..Len(text) |-> IF text[i] = Wide THEN <<"a", "b">> ELSE <<text[i]>>])))

Count(text, c) == Cardinality({i \in 1..Len(text) : text[i] = c})

CrLfs(text) == Cardinality({i \in 1..(Len(text) - 1) : text[i] = CR /\ text[i + 1] = LF})

\* detect_line_ending: the one that is used more often.
EndsInCrLf(text) == CrLfs(text) > Count(text, LF) - CrLfs(text)

\* normalize_to_lf.
ToLf(text) ==
    FlattenSeq([i \in 1..Len(text) |->
        IF text[i] = CR THEN IF i < Len(text) /\ text[i + 1] = LF THEN <<>> ELSE <<LF>> ELSE <<text[i]>>])

\* Mutant: the endings are not put back.
KeepLf(text, crlf) == text

\* restore_line_endings.
RestoreEndings(text, crlf) ==
    FlattenSeq([i \in 1..Len(text) |-> IF text[i] = LF /\ crlf THEN <<CR, LF>> ELSE <<text[i]>>])

HasMark(text) == text # <<>> /\ text[1] = BOM
Unmarked(text) == IF HasMark(text) THEN Tail(text) ELSE text

-----------------------------------------------------------------------------
(* Lines.                                                                  *)

\* The start of each line and the end of what it says, when the line feeds are at these places.
SpansBetween(feeds, n) ==
    [k \in 1..(Len(feeds) + 1) |->
        [start      |-> IF k = 1 THEN 1 ELSE feeds[k - 1] + 1,
         contentEnd |-> IF k > Len(feeds) THEN n ELSE feeds[k] - 1,
         end        |-> IF k > Len(feeds) THEN n ELSE feeds[k]]]

\* split on line feeds.
LineSpans(text) == SpansBetween(SetToSortSeq({i \in 1..Len(text) : text[i] = LF}, <), Len(text))

Said(text, span) == SubSeq(text, span.start, span.contentEnd)

\* str::lines: a feed at the end begins no line.
LinesIn(text, spans) ==
    [k \in 1..(Len(spans) - IF text = <<>> \/ Last(text) = LF THEN 1 ELSE 0) |-> Said(text, spans[k])]

Lines(text) == LinesIn(text, LineSpans(text))

\* snippet::line_at.
LineAt(text, at) == 1 + Count(SubSeq(text, 1, at - 1), LF)

LineCount(text) == Len(LineSpans(text)) - (IF text # <<>> /\ Last(text) = LF THEN 1 ELSE 0)

-----------------------------------------------------------------------------
(* Matching: where a text is found.  A region is its first position and    *)
(* the one behind its last.                                                *)

NotFound  == [found |-> "none"]
NotUnique == [found |-> "many"]
Found(start, end, kind) == [found |-> "one", start |-> start, end |-> end, kind |-> kind]

At(text, part, i) == i + Len(part) - 1 <= Len(text) /\ SubSeq(text, i, i + Len(part) - 1) = part

\* str::matches: each search goes on behind the last match.
Matches(text, part) ==
    LET search[i \in 1..(Len(text) + 1)] ==
            IF i > Len(text) THEN {}
            ELSE IF At(text, part, i)
                 THEN {i} \cup (IF i + Len(part) <= Len(text) THEN search[i + Len(part)] ELSE {})
                 ELSE search[i + 1]
    IN search[1]

The(set) == CHOOSE x \in set : TRUE

Unique(places, region(_)) ==
    IF Cardinality(places) > 1 THEN NotUnique ELSE IF places = {} THEN NotFound ELSE region(The(places))

Exact(text, old) ==
    LET region(i) == Found(i, i + Len(old), "exact")
    IN Unique(Matches(text, old), region)

\* try_unicode_normalized.
Folded(text, old) ==
    LET region(i) == Found(i, i + Len(old), "unicode")
    IN IF Fold(text) = text /\ Fold(old) = old THEN NotFound
       ELSE Unique({i \in 1..Len(text) : At(Fold(text), Fold(old), i)}, region)

\* The three comparisons by lines, and line_match_byte_range.
LinePlaces(text, spans, oldLines, Form(_)) ==
    IF oldLines = <<>> THEN {}
    ELSE {i \in 1..(Len(spans) - Len(oldLines) + 1) :
             \A j \in 1..Len(oldLines) : Form(Said(text, spans[i + j - 1])) = Form(oldLines[j])}

LineRegion(spans, n, i, ended, kind) ==
    Found(spans[i].start, 1 + (IF ended THEN spans[i + n - 1].end ELSE spans[i + n - 1].contentEnd), kind)

BySpans(text, spans, old, oldLines, kind, Form(_)) ==
    LET region(i) == LineRegion(spans, Len(oldLines), i, Last(old) = LF, kind)
    IN Unique(LinePlaces(text, spans, oldLines, Form), region)

ByLines(text, old, kind, Form(_)) == BySpans(text, LineSpans(text), old, Lines(old), kind, Form)

TrimmedFold(text) == TrimEnd(Fold(text))

Tiers(text, old) ==
    << Exact(text, old), Folded(text, old),
       ByLines(text, old, "blanks", TrimEnd),
       ByLines(text, old, "full", TrimmedFold),
       ByLines(text, old, "nfkc", Compatible) >>

\* resolve_unique_match: the first comparison that finds anything.
FirstFound(tiers) ==
    LET some == {t \in 1..Len(tiers) : tiers[t] # NotFound}
    IN IF some = {} THEN NotFound ELSE tiers[CHOOSE t \in some : \A u \in some : t <= u]

Resolve(text, old) == FirstFound(Tiers(text, old))

\* is_opening_context, apply_curly_double_quotes, preserve_quote_style.
Styled(old, actual, new) ==
    LET opening(i) == i = 1 \/ new[i - 1] \in {Blank, LF, CR}
    IN IF old = actual \/ \A i \in 1..Len(actual) : actual[i] \notin Curly THEN new
       ELSE [i \in 1..Len(new) |->
                IF new[i] # Straight THEN new[i] ELSE IF opening(i) THEN CurlyOpen ELSE CurlyClose]

-----------------------------------------------------------------------------
(* The tool.                                                               *)

Failed(why) == [ok |-> FALSE, why |-> why, spans |-> <<>>, shown |-> <<>>]

ResolvedAs(text, edit, match) ==
    [start |-> match.start, end |-> match.end, old |-> edit.old,
     new |-> IF match.kind \in {"unicode", "full", "nfkc"}
             THEN Styled(edit.old, SubSeq(text, match.start, match.end - 1), edit.new)
             ELSE edit.new]

Resolved(text, edit) == ResolvedAs(text, edit, Resolve(text, edit.old))

InOrder(edits) == SortSeq(edits, LAMBDA x, y : x.start < y.start)

Overlap(edits) == \E i \in 1..(Len(edits) - 1) : edits[i].end > edits[i + 1].start

\* replace_range.
Replaced(text, e) == SubSeq(text, 1, e.start - 1) \o e.new \o SubSeq(text, e.end, Len(text))

\* Mutant: the first edit goes first, and the places of the others are no longer theirs.
FirstFirst(text, edits) == FoldLeft(Replaced, text, edits)

\* The last edit goes first, so that the places of the others stay.
Apply(text, edits) == FoldLeft(Replaced, text, Reverse(edits))

\* Mutant: the shift of one edit is forgotten by the next.
SpansUnshifted(edits) == [i \in 1..Len(edits) |-> [start |-> edits[i].start, end |-> edits[i].start + Len(edits[i].new)]]

\* Where the new texts are in the new file.
NewSpans(edits) ==
    LET shift[i \in 1..Len(edits)] ==
            IF i = 1 THEN 0 ELSE shift[i - 1] + Len(edits[i - 1].new) - (edits[i - 1].end - edits[i - 1].start)
    IN [i \in 1..Len(edits) |-> [start |-> edits[i].start + shift[i],
                                  end |-> edits[i].start + shift[i] + Len(edits[i].new)]]

\* range_of_span, LineRange::widen.
RangeOf(text, span) ==
    LET last == IF span.end > span.start THEN span.end - 1 ELSE span.start
        top == LineAt(text, span.start) - Margin
        end == LineAt(text, last) + Margin
        total == LineCount(text)
    IN [start |-> IF top < 1 THEN 1 ELSE top, end |-> IF end > total THEN total ELSE end]

\* merge_ranges, with no gap.
Merge(ranges, r) ==
    IF ranges # <<>> /\ r.start <= Last(ranges).end + 1
    THEN Append(Front(ranges), [Last(ranges) EXCEPT !.end = IF r.end > @ THEN r.end ELSE @])
    ELSE Append(ranges, r)

\* changed_regions.
ChangedRegions(text, spans) ==
    FoldLeft(Merge, <<>>, SortSeq([i \in 1..Len(spans) |-> RangeOf(text, spans[i])],
                                   LAMBDA x, y : x.start < y.start))

\* parse_edits: what is refused before the file is looked at.
Refused(edits) ==
    \/ edits = <<>>
    \/ \E i \in 1..Len(edits) : edits[i].old = <<>> \/ edits[i].old = edits[i].new

ToLfEdits(edits) == [i \in 1..Len(edits) |-> [old |-> ToLf(edits[i].old), new |-> ToLf(edits[i].new)]]

EditInit ==
    /\ raw \in Files
    /\ before = [raw |-> raw, edits |-> <<>>]
    /\ answer = Failed("nothing was asked")
    /\ calls = 0

Answer(result, file) == answer' = result /\ raw' = file

\* The new text goes to the file with the mark and the line endings of the old one.
Put(body, text, resolved, new) ==
    IF new = text THEN Answer(Failed("no change"), raw)
    ELSE Answer([ok |-> TRUE, why |-> "", spans |-> NewSpans(resolved),
                 shown |-> ChangedRegions(new, NewSpans(resolved))],
                (IF HasMark(raw) THEN <<BOM>> ELSE <<>>) \o RestoreEndings(new, EndsInCrLf(body)))

Place(body, text, resolved) ==
    IF Overlap(resolved) THEN Answer(Failed("overlap"), raw) ELSE Put(body, text, resolved, Apply(text, resolved))

Attempt(body, text, edits) ==
    IF \E i \in 1..Len(edits) : Resolve(text, edits[i].old).found # "one" THEN Answer(Failed("match"), raw)
    ELSE Place(body, text, InOrder([i \in 1..Len(edits) |-> Resolved(text, edits[i])]))

\* EditFileTool::execute, under the lock of the file.
Edit(asked) ==
    /\ calls < MaxCalls
    /\ calls' = calls + 1
    /\ before' = [raw |-> raw, edits |-> ToLfEdits(asked)]
    /\ IF Refused(ToLfEdits(asked)) THEN Answer(Failed("refused"), raw)
       ELSE Attempt(Unmarked(raw), ToLf(Unmarked(raw)), ToLfEdits(asked))

EditNext == \E asked \in Calls : Edit(asked)

EditSpec == EditInit /\ [][EditNext]_editVars

-----------------------------------------------------------------------------
\* Nothing but what differs in quotes, blanks at the end of a line and wide forms.
SameText(x, y) ==
    LET form(text) == LET lines == Lines(text) IN [i \in 1..Len(lines) |-> Compatible(lines[i])]
    IN form(x) = form(y)

\* One kind of line ending.
Uniform(text, crlf) == Count(text, CR) = CrLfs(text) /\ CrLfs(text) = IF crlf THEN Count(text, LF) ELSE 0

\* The lines an answer shows are apart, in order, and hold every place that changed.
ShownIsWhatChanged(new) ==
    /\ \A i \in 1..(Len(answer.shown) - 1) : answer.shown[i].end + 1 < answer.shown[i + 1].start
    /\ \A i \in 1..Len(answer.spans) : \A at \in answer.spans[i].start..(answer.spans[i].end - 1) :
          \E k \in 1..Len(answer.shown) : LineAt(new, at) \in answer.shown[k].start..answer.shown[k].end

\* When the file uses one kind of line ending, the old file is pieces that stay and texts that were asked to go,
\* and the new one the same pieces and, where the answer says, the new texts: nothing outside the edits changes,
\* line endings and byte order mark included, and the lines shown hold all that does (edit.rs:170-262, snippet.rs).
EditsAreLocal ==
    \A crlf \in BOOLEAN :
    answer.ok /\ Uniform(before.raw, crlf) =>
        LET old == ToLf(Unmarked(before.raw))
            new == ToLf(Unmarked(raw))
            n == Len(answer.spans)
            spans == answer.spans
            kept == [i \in 1..(n + 1) |->
                        SubSeq(new, IF i = 1 THEN 1 ELSE spans[i - 1].end, IF i > n THEN Len(new) ELSE spans[i].start - 1)]
        IN /\ HasMark(raw) = HasMark(before.raw)
           /\ Uniform(raw, crlf /\ CrLfs(before.raw) > 0)
           /\ ShownIsWhatChanged(new)
           /\ \E order \in Permutations(1..n), cuts \in [1..n -> 0..Len(old)] :
                 LET start(i) == IF i = 1 THEN Len(kept[1]) + 1 ELSE cuts[i - 1] + Len(kept[i]) + 1
                 IN /\ \A i \in 1..n :
                         /\ start(i) <= cuts[i] + 1
                         /\ SubSeq(old, start(i) - Len(kept[i]), start(i) - 1) = kept[i]
                         /\ SameText(SubSeq(old, start(i), cuts[i]), before.edits[order[i]].old)
                         /\ Fold(SubSeq(new, spans[i].start, spans[i].end - 1)) = Fold(before.edits[order[i]].new)
                    /\ SubSeq(old, cuts[n] + 1, Len(old)) = kept[n + 1]

\* "Every edits[].oldText must match a unique, non-overlapping region of the original file" (edit.rs:67).
UniqueMeansUnique ==
    answer.ok =>
        LET old == ToLf(Unmarked(before.raw))
        IN \A i \in 1..Len(before.edits) :
              Cardinality({at \in 1..Len(old) : At(old, before.edits[i].old, at)}) <= 1
=============================================================================

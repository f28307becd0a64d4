---------------------------- MODULE SearchTools ----------------------------
(* The grep and glob tools: a walk by several workers finds files in any     *)
(* order, and the answer orders, caps and pages what was found.  A file is   *)
(* its place in the order of paths.                                          *)
EXTENDS Naturals, Sequences, FiniteSets, SequencesExt

CONSTANTS Trees,       \* trees: each a sequence of files, [lines, time]: the
                       \* numbers of the lines that match, and the time of change
          Context,     \* lines shown around a match
          PerFile,     \* PER_FILE_MATCHES
          MaxMatches,  \* MAX_MATCHES
          MaxResults,  \* max_results of a glob
          LastLine     \* lines of a file

VARIABLES tree,      \* what is searched
          tool,      \* "grep", "list" (files_with_matches), "glob"
          single,    \* the root is one file
          stage,     \* "idle", "walking", "done", "failed"
          found,     \* files in the order the workers pushed them
          stopped,   \* the walk was told to stop: "no", "timeout", "caller"
          skip,      \* the page asked for
          shown,     \* the lines of all pages so far
          note       \* what the last page says: "capped", "timed out"

searchVars == <<tree, tool, single, stage, found, stopped, skip, shown, note>>

SearchInit ==
    /\ tree \in Trees /\ tool \in {"grep", "list", "glob"}
    /\ single \in {s \in BOOLEAN : s => tool = "grep"}
    /\ stage = "idle" /\ found = <<>> /\ stopped = "no"
    /\ skip = 0 /\ shown = <<>> /\ note = {}

Matching == {f \in DOMAIN tree : tree[f].lines # {} /\ (single => f = 1)}

-----------------------------------------------------------------------------
(* The walk: parallel_collect, search_one_file, builtin_walk.                *)

Begin == /\ stage = "idle" /\ stopped # "caller"
         /\ stage' = "walking" /\ found' = <<>> /\ stopped' = "no"
         /\ UNCHANGED <<tree, tool, single, skip, shown, note>>

\* Overlapping roots of a glob yield a file more than once.
Visit(f) ==
    /\ stage = "walking" /\ stopped = "no"
    /\ f \in Matching
    /\ Cardinality({i \in DOMAIN found : found[i] = f}) < (IF tool = "glob" THEN 2 ELSE 1)
    /\ found' = Append(found, f)
    /\ UNCHANGED <<tree, tool, single, stage, stopped, skip, shown, note>>

\* The timer of a glob cancels the walk alone; the caller cancels all of it.
StopWalk(why) ==
    /\ stage = "walking" /\ stopped = "no"
    /\ why = "timeout" => tool = "glob"
    /\ stopped' = why
    /\ UNCHANGED <<tree, tool, single, stage, found, skip, shown, note>>

WalkEnds == stopped # "no" \/ Matching \subseteq ToSet(found)

-----------------------------------------------------------------------------
(* grep.                                                                     *)

Entry(f, l, kind) == [file |-> f, line |-> l, kind |-> kind]

\* GrepSink::push for every line the searcher hands over, until the file's cap;
\* a gap is marked between blocks of context.
FileHits(f) ==
    LET lines == {l \in 1 .. LastLine : \E m \in tree[f].lines : l <= m + Context /\ m <= l + Context}
        order == SetToSortSeq(lines, <)
        kept  == SubSeq(order, 1, IF Len(order) < PerFile THEN Len(order) ELSE PerFile)
        lineOf(i) == Entry(f, kept[i], IF kept[i] \in tree[f].lines THEN "match" ELSE "context")
    IN  FlattenSeq([i \in DOMAIN kept |->
            IF Context > 0 /\ i > 1 /\ kept[i] > kept[i - 1] + 1
            THEN <<Entry(f, 0, "gap"), lineOf(i)>> ELSE <<lineOf(i)>>])

ByArrival(files) == files   \* mutant: files are shown as the workers found them

\* per_file.sort_by
InOrder(files) == SetToSortSeq(ToSet(files), <)

\* What may be paged: lines of the files, or their paths.
Listing == IF tool = "list" THEN [i \in DOMAIN InOrder(found) |-> Entry(InOrder(found)[i], 0, "path")]
           ELSE FlattenSeq([i \in DOMAIN InOrder(found) |-> FileHits(InOrder(found)[i])])

\* render_matches, render_file_list: the page after "skip", and whether more follows.
\* The separators between files are left out.
RenderPage ==
    LET rest == SubSeq(Listing, skip + 1, Len(Listing))
        page == SubSeq(rest, 1, IF Len(rest) < MaxMatches THEN Len(rest) ELSE MaxMatches)
    IN  /\ shown' = shown \o page
        /\ IF Len(rest) > MaxMatches
           THEN /\ stage' = "idle" /\ skip' = skip + MaxMatches /\ note' = {"capped"}
           ELSE /\ stage' = "done" /\ note' = {} /\ UNCHANGED skip

\* A search the caller cancelled answers what was found, and says nothing of it.
AnswerGrep ==
    /\ stage = "walking" /\ tool # "glob" /\ WalkEnds
    /\ RenderPage
    /\ UNCHANGED <<tree, tool, single, found, stopped>>

-----------------------------------------------------------------------------
(* glob: newest first, each path once, the cap and the timeout told.         *)

\* mutant: the cap is applied to what was found first
CapFirst(files) ==
    LET kept == SubSeq(files, 1, IF Len(files) < MaxResults THEN Len(files) ELSE MaxResults)
    IN  SetToSortSeq(ToSet(kept), LAMBDA f, g : \/ tree[f].time > tree[g].time
                                                \/ tree[f].time = tree[g].time /\ f < g)

FormatHits(files) ==
    LET order == SetToSortSeq(ToSet(files), LAMBDA f, g : \/ tree[f].time > tree[g].time
                                                          \/ tree[f].time = tree[g].time /\ f < g)
    IN  SubSeq(order, 1, IF Len(order) < MaxResults THEN Len(order) ELSE MaxResults)

FlagIfEmpty == IF stopped = "timeout" /\ found = <<>> THEN {"timed out"} ELSE {}   \* mutant
TimedOut    == IF stopped = "timeout" THEN {"timed out"} ELSE {}

AnswerGlob ==
    /\ stage = "walking" /\ tool = "glob" /\ WalkEnds
    /\ IF stopped = "caller" THEN stage' = "failed" /\ UNCHANGED <<shown, note>>
       ELSE /\ stage' = "done"
            /\ shown' = [i \in DOMAIN FormatHits(found) |-> Entry(FormatHits(found)[i], 0, "path")]
            /\ note' = TimedOut \cup (IF Cardinality(ToSet(found)) > MaxResults THEN {"capped"} ELSE {})
    /\ UNCHANGED <<tree, tool, single, found, stopped, skip>>

SearchNext ==
    \/ Begin \/ AnswerGrep \/ AnswerGlob
    \/ \E f \in DOMAIN tree : Visit(f)
    \/ \E why \in {"timeout", "caller"} : StopWalk(why)

SearchSpec == SearchInit /\ [][SearchNext]_searchVars

-----------------------------------------------------------------------------
(* Properties.                                                               *)

ShownOf(f) == SelectSeq(shown, LAMBDA e : e.file = f)

\* Every page is a walk of its own, in an order of its own, and yet following "skip"
\* shows every file's lines once, in order, and every match of a file within its cap.
PagesAreTheWhole ==
    stage = "done" /\ tool # "glob" /\ stopped = "no" =>
        /\ \A i, j \in DOMAIN shown : i < j => shown[i].file <= shown[j].file
        /\ tool = "list" => \A f \in Matching : Len(ShownOf(f)) = 1
        /\ tool = "grep" => \A f \in Matching :
              /\ ShownOf(f) = FileHits(f)
              /\ Cardinality(tree[f].lines) * (2 * Context + 1) <= PerFile =>
                    \A l \in tree[f].lines : Entry(f, l, "match") \in ToSet(shown)

\* A glob shows the newest files, each once, newest first: of all that match, unless it
\* says that it was cut short; and it says so whenever a file is missing.
NewestAreShown ==
    stage = "done" /\ tool = "glob" =>
        LET paths == {shown[i].file : i \in DOMAIN shown}
            of    == IF "timed out" \in note THEN ToSet(found) ELSE Matching
        IN  /\ Cardinality(paths) = Len(shown) /\ paths \subseteq of
            /\ \A i, j \in DOMAIN shown : i < j => tree[shown[i].file].time >= tree[shown[j].file].time
            /\ \A f \in of \ paths : /\ "capped" \in note
                                     /\ \A g \in paths : tree[g].time >= tree[f].time

\* Searches of a single file bypass the cap of a file (grep.rs:17).
SingleFilesAreWhole ==
    stage = "done" /\ single /\ stopped = "no" => \A l \in tree[1].lines : Entry(1, l, "match") \in ToSet(shown)
=============================================================================

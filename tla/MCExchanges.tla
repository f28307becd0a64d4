---------------------------- MODULE MCExchanges ----------------------------
(* What passes between the agent, its tools, the model and the chats, for   *)
(* TLC: the file tools, the output of commands, the searches, the results   *)
(* and arguments of tools, the requests to a model and its answers, and the *)
(* messages of a chat.  They share no state, so a behaviour is about one of *)
(* them, its part; the rest stay at their initial states, in which every    *)
(* property below holds.  ChatReply and ChatRequests are extended, so that   *)
(* the run checks the very formulas that are proved.                        *)
EXTENDS Integers, Sequences, FiniteSets, SequencesExt, TLC, ChatReply, ChatRequests

CONSTANTS
    Bodies, EditCalls,              \* what an edited file holds, and the edits of a call
    FileTexts,                      \* what a file that is read page by page holds
    CallNames,                      \* the name each call gives the one file
    Chunks,                         \* what a command writes at once
    Trees,                          \* what is searched
    Contents,                       \* results of tools
    Schema, Aliases, Inputs,        \* the schema of a tool and the arguments it is sent
    Prompts, Answers, Outputs,      \* what users, models and tools may say
    Talk,                           \* messages of a chat, with those around them
    MaxReads, MaxChunks, MaxMessages, MaxItems  \* bounds

VARIABLES
    part,
    raw, before, answer, calls,
    lines, lastReads, dialogue, page, stub, reads, changes,
    body, table, owner, line, at, key, mutex, seen, done, stopped,
    all, tail, file, writing, capped, newlines, openLine, chunks, output,
    tree, tool, single, stage, found, halted, skip, pages, note,
    result, given, spilled, from,
    args, passed,
    history, blocks,
    protocol, sent, open, reason, content, slot, told, stop, terminal, decoded,
    event, others, broken, contents, taken

-----------------------------------------------------------------------------
(* The components.                                                          *)

Editing  == INSTANCE TextEdits WITH Files <- Bodies, Calls <- EditCalls, Margin <- 0, MaxCalls <- 1
Reading  == INSTANCE FileReads WITH
                Texts <- FileTexts, Limits <- {1, 3, 0}, MaxLines <- 2, MaxBytes <- 4, MaxFile <- 14, MaxChanges <- 1
Locking  == INSTANCE FileTools WITH
                text <- body, Edits <- {"e1", "e2"}, Writes <- {"w1"}, Asked <- CallNames, TheName <- "f"
Command  == INSTANCE CommandOutput WITH
                reads <- chunks, shown <- output,
                TailBytes <- 13, MaxFile <- 32, MaxBytes <- 7, MaxLines <- 6, MaxLine <- 4, MaxReads <- MaxChunks
Search   == INSTANCE SearchTools WITH
                stopped <- halted, shown <- pages,
                Context <- 1, PerFile <- 4, MaxMatches <- 3, MaxResults <- 2, LastLine <- 5
Results  == INSTANCE ToolResults WITH MaxResult <- 5, MaxPreview <- 3, MaxSearch <- 4
Sent     == INSTANCE ToolInput
Requests == INSTANCE ProviderRequests
Streams  == INSTANCE StreamDecode WITH shown <- told, result <- decoded, MaxSize <- 1
Messages == INSTANCE ChatMessages WITH MaxTexts <- 2, MaxImages <- 1, MaxHistory <- 2, Cases <- Talk

Parts == {"edits", "reads", "locks", "output", "search", "results", "input", "requests", "answers",
          "messages", "reply", "platform"}

-----------------------------------------------------------------------------
(* What they are given.                                                     *)

\* It is written with the components' own operators.
Edited == INSTANCE TextEdits WITH Files <- {}, Calls <- {}, Margin <- 0, MaxCalls <- 0
Result == INSTANCE ToolResults WITH Contents <- {}, MaxResult <- 0, MaxPreview <- 0, MaxSearch <- 0
Input  == INSTANCE ToolInput WITH Schema <- {}, Aliases <- {}, Inputs <- {}
Chat   == INSTANCE ChatMessages WITH Cases <- {}, MaxTexts <- 0, MaxImages <- 0, MaxHistory <- 0

Strings(letters, sizes) == UNION {[1 .. n -> letters] : n \in sizes}

\* Files with either kind of line end, a byte order mark, quotes of both
\* kinds and wide letters; edits that match once, twice, nowhere, through the
\* tolerant tiers only, next to each other and inside each other.
SomeBodies ==
    LET letters == {"a", "b", Edited!Blank, Edited!CurlyOpen, Edited!Wide, Edited!LF}
        short   == Strings(letters, 1 .. 3)
    IN short
       \cup Strings({"a", Edited!Blank, Edited!CurlyOpen, Edited!LF}, {4})
       \cup {<<Edited!BOM>> \o Edited!RestoreEndings(b, TRUE) : b \in {c \in short : Len(c) = 3}}
       \cup {<<"a", Edited!CR, Edited!LF, "b", Edited!LF, Edited!Straight, "a">>,
             <<Edited!BOM, "a", Edited!CR, Edited!LF, "b", Edited!CR, Edited!LF>>}
SomeEdits ==
    LET E(old, new) == [old |-> old, new |-> new]
        quote == Edited!Straight
        end   == Edited!LF
    IN {<<E(<<"a">>, <<"b", "b">>)>>,
        <<E(<<"a", "b">>, <<>>)>>,
        <<E(<<"a">>, <<end>>), E(<<"b">>, <<"a", "a">>)>>,
        <<E(<<quote>>, <<quote, "a", quote>>)>>,
        <<E(<<"a", end>>, <<"b", Edited!CR, end>>)>>,
        <<E(<<"a", "b">>, <<"b">>), E(<<"b">>, <<"a">>)>>,
        <<E(<<quote, end, "a">>, <<quote, Edited!Blank, quote>>), E(<<"b">>, <<>>)>>,
        <<E(<<"a">>, <<"a">>)>>,
        <<E(<<"a", "a">>, <<>>)>>}

\* Files of up to four lines, one of them too long for a page at most, and a file
\* whose every line differs from theirs.
SomeTexts ==
    LET Sized(n, big) == [i \in 1 .. n |-> [text |-> i, size |-> IF i \in big THEN 5 ELSE 1]]
    IN {Sized(n, big) : n \in 0 .. 4, big \in {{}, {2}, {1, 3}}}
       \cup {[i \in 1 .. 3 |-> [text |-> -i, size |-> 1]]}

\* One call spells the file in its own way.
SomeNames == [j \in {"e1", "e2", "w1"} |-> IF j = "e2" THEN "link/f" ELSE "f"]

SomeChunks ==
    {<<"a", "h">>, <<"t", "n">>, [i \in 1 .. 7 |-> "n"], [i \in 1 .. 9 |-> "a"],
     [i \in 1 .. 10 |-> IF i \in {5, 10} THEN "n" ELSE "a"]}

Found(at_, time) == [lines |-> at_, time |-> time]
OneFile   == <<Found({1, 3, 5}, 1)>>
SomeTrees ==
    {OneFile,
     <<Found({1, 2, 5}, 2), Found({}, 1), Found({3}, 2), Found({4}, 3)>>,
     <<Found({2}, 1), Found({1, 5}, 2)>>,
     <<Found({1, 2, 4}, 1), Found({4, 5}, 3), Found({1}, 2)>>}

SomeContents ==
    LET Image(i) == [kind |-> "image", text |-> <<i>>]
        Said(t)  == Result!TextBlock(t)
        short    == Strings({"a", "e"}, {0, 2, 3})
    IN {<<>>, <<Image("i")>>}
       \cup {<<Said(t)>> : t \in Strings({"a", "n", "e"}, 0 .. 5)}
       \cup {<<Image("i"), Said(t), Image("j")>> : t \in short}
       \cup {<<Said(t), Image("i"), Said(u), Image("j")>> : t, u \in short}

-----------------------------------------------------------------------------
(* A tool with an aliased path, a list of edits, a list of strings, a       *)
(* number, an enumeration and a flag, and arguments right and wrong.        *)

Str(n) == Input!Plain("string", n)
Num(n) == Input!Plain("integer", n)
EditSchema ==
    [Input!Typed("object") EXCEPT
        !.props = "oldText" :> Input!Typed("string") @@ "newText" :> Input!Typed("string"),
        !.required = {"oldText", "newText"}]
SomeSchema ==
    [Input!Typed("object") EXCEPT
        !.props = "path"  :> Input!Typed("string")
               @@ "edits" :> [Input!Typed("array") EXCEPT !.items = <<EditSchema>>]
               @@ "tags"  :> [Input!Typed("array") EXCEPT !.items = <<Input!Typed("string")>>]
               @@ "limit" :> [Input!Typed("integer") EXCEPT !.minimum = 1]
               @@ "kind"  :> [Input!Typed("") EXCEPT !.enum = {Str(1), Str(2)}]
               @@ "deep"  :> Input!Typed("boolean"),
        !.required = {"path", "edits"}]
SomeAliases == <<[name |-> "path", others |-> <<"file_path", "file">>]>>
SomeInputs ==
    LET entries == {Input!Fields("oldText" :> Str(1) @@ "newText" :> Str(2)),
                    Input!Fields("old_string" :> Str(3) @@ "old_text" :> Str(5) @@ "newText" :> Str(4)),
                    Input!Fields("oldText" :> Str(1) @@ "newText" :> Input!Null),
                    Str(1)}
        lists   == {Input!Items(<<>>)} \cup {Input!Items(<<e>>) : e \in entries}
                   \cup {Input!Items(<<e, f>>) : e, f \in entries}
        Maybe(name, values) == {<<>>} \cup {name :> v : v \in values}
        paths   == {"path" :> Str(9), "file_path" :> Str(8) @@ "file" :> Str(9), <<>>}
        singles == {<<>>, "old_text" :> Str(6) @@ "newText" :> Str(7), "oldText" :> Str(6)}
        many    == Maybe("edits", lists \cup {Input!Json(l) : l \in lists} \cup
                          {Str(1), Input!Fields("oldText" :> Str(1) @@ "newText" :> Str(2))})
        rest    == Maybe("tags", {Str(1), Input!Json(Input!Items(<<Num(1)>>)), Input!Items(<<Input!Json(Num(1))>>)})
                   \cup Maybe("limit", {Num(0), Input!Plain("float", 2), Input!Plain("half", 2),
                                        Input!Json(Input!Plain("float", 3)), Input!Null})
                   \cup Maybe("kind", {Str(1), Num(1)})
                   \cup Maybe("deep", {Input!Json(Input!Plain("boolean", 1)), Str(1)})
    IN {Input!Fields(p @@ e @@ s @@ r) : p \in paths, e \in many, s \in singles, r \in rest}
       \cup {Input!Items(<<>>), Str(1)}

-----------------------------------------------------------------------------
(* Conversations and chats.                                                 *)

SomePrompts == {<<"text">>, <<"image">>}
SomeAnswers == {<<>>, <<"signed">>, <<"dots">>, <<"legacy">>, <<"signed", "text", "call">>,
                <<"call", "loose", "call">>, <<"native", "text">>, <<"call", "blank", "text">>}
SomeOutputs == {<<"text">>, <<"image">>, <<"image", "text">>, <<"text", "text">>}

Plainly == [kind |-> "text", elements |-> <<"text">>, chat |-> "topic", at |-> 2,
            allowed |-> TRUE, mentioned |-> TRUE, mentionOnly |-> TRUE]
SomeTalk ==
    LET Said(who, images) == [from : who, at : 1 .. 3, text : BOOLEAN, images : images]
        Talks(said)  == {[i \in DOMAIN s |-> [id |-> i, from |-> s[i].from, at |-> s[i].at,
                                              text |-> s[i].text, images |-> s[i].images]]
                           : s \in Strings(said, 0 .. 3)}
    IN [event : [kind : Chat!Kinds, elements : SeqOf(Chat!Tags, 2), chat : Chat!Chats, at : {2},
                 allowed : BOOLEAN, mentioned : BOOLEAN, mentionOnly : BOOLEAN],
        others : {<<>>}]
       \cup [event : {Plainly}, others : Talks(Said({"user"}, 0 .. 1))]
       \cup [event : {[Plainly EXCEPT !.chat = "group"]}, others : Talks(Said({"user", Chat!Bot}, {0}))]

-----------------------------------------------------------------------------
(* One part at a time.                                                      *)

editVars    == <<raw, before, answer, calls>>
readVars    == <<lines, lastReads, dialogue, page, stub, reads, changes>>
lockVars    == <<body, table, owner, line, at, key, mutex, seen, done, stopped>>
outputVars  == <<all, tail, file, writing, capped, newlines, openLine, chunks, output>>
searchVars  == <<tree, tool, single, stage, found, halted, skip, pages, note>>
resultVars  == <<result, given, spilled, from>>
inputVars   == <<args, passed>>
historyVars == <<history, blocks>>
streamVars  == <<protocol, sent, open, reason, content, slot, told, stop, terminal, decoded>>
messageVars == <<event, others, broken, contents, taken>>
vars == <<part, editVars, readVars, lockVars, outputVars, searchVars, resultVars, inputVars, historyVars,
          streamVars, messageVars, replyVars, requestVars>>

Is(p)   == part = p
Only(p) ==
    /\ UNCHANGED part
    /\ IF p = "edits" THEN TRUE ELSE UNCHANGED editVars
    /\ IF p = "reads" THEN TRUE ELSE UNCHANGED readVars
    /\ IF p = "locks" THEN TRUE ELSE UNCHANGED lockVars
    /\ IF p = "output" THEN TRUE ELSE UNCHANGED outputVars
    /\ IF p = "search" THEN TRUE ELSE UNCHANGED searchVars
    /\ IF p = "results" THEN TRUE ELSE UNCHANGED resultVars
    /\ IF p = "input" THEN TRUE ELSE UNCHANGED inputVars
    /\ IF p = "requests" THEN TRUE ELSE UNCHANGED historyVars
    /\ IF p = "answers" THEN TRUE ELSE UNCHANGED streamVars
    /\ IF p = "messages" THEN TRUE ELSE UNCHANGED messageVars
    /\ IF p = "reply" THEN TRUE ELSE UNCHANGED replyVars
    /\ IF p = "platform" THEN TRUE ELSE UNCHANGED requestVars
Unless(p, start) == IF Is(p) THEN TRUE ELSE start

ExchangesInit ==
    /\ part \in Parts
    /\ Unless("edits", raw = <<"a">>)
    /\ Unless("reads", lines = <<>>)
    /\ Unless("locks", body = <<>>)
    /\ Unless("search", tree = OneFile /\ tool = "glob")
    /\ Unless("answers", protocol = "json")
    /\ Unless("messages", event = Plainly /\ others = <<>> /\ broken = {})
    /\ Unless("reply", editable = TRUE /\ replyTo = "nothing")
    /\ Unless("platform", cached = 0)
    /\ Editing!EditInit /\ Reading!ReadsInit /\ Locking!ToolsInit /\ Command!OutputInit
    /\ Search!SearchInit /\ Results!ResultsInit /\ Sent!InputInit /\ Requests!RequestsInit
    /\ Streams!Init /\ Messages!MessagesInit /\ ReplyInit /\ RequestsInit

ExchangesNext ==
    \/ Is("edits") /\ Editing!EditNext /\ Only("edits")
    \/ Is("reads") /\ Reading!ReadsNext /\ Only("reads")
    \/ Is("locks") /\ Locking!ToolsNext /\ Only("locks")
    \/ Is("output") /\ Command!OutputNext /\ Only("output")
    \/ Is("search") /\ Search!SearchNext /\ Only("search")
    \/ Is("results") /\ Results!ResultsNext /\ Only("results")
    \/ Is("input") /\ Sent!InputNext /\ Only("input")
    \/ Is("requests") /\ Requests!RequestsNext /\ Only("requests")
    \/ Is("answers") /\ Streams!Next /\ Only("answers")
    \/ Is("messages") /\ Messages!MessagesNext /\ Only("messages")
    \/ Is("reply") /\ ReplyNext /\ Only("reply")
    \/ Is("platform") /\ RequestsNext /\ Only("platform")

ExchangesSpec == ExchangesInit /\ [][ExchangesNext]_vars

-----------------------------------------------------------------------------
(* What each of them promises.                                              *)

\* An edit changes what it names and nothing else, a reader who goes from page
\* to page sees the file, no call of a batch undoes the change of another, and what
\* the tail, a page or a cap leaves out of an output is kept in a file or said to be
\* missing, unless its tail was cut at the end of an over-long line (tools/file/edit.rs, read.rs, mutex.rs, bash.rs, grep.rs, glob.rs,
\* tool_exec.rs).
ToolsTellTheTruth ==
    /\ Is("edits") => Editing!EditsAreLocal
    /\ Is("reads") => Reading!PagesShowEverything
    /\ Is("locks") => Locking!EditsAreNotLost
    /\ Is("output") => Command!TailAndFileMeet /\ Command!WhatIsCutIsSaved
    /\ Is("search") => Search!PagesAreTheWhole /\ Search!NewestAreShown
    /\ Is("results") => Results!ResultsFit

\* What passes between a run and a model: a chat's message brings its newest
\* context; the arguments a tool is given are those that were sent, settled; the
\* request tells the history, but for the later texts of a result, and begins with
\* what the last one asked to be cached; the events of an answer tell its message,
\* and a broken answer is an error
\* (feishu/adapter.rs, validation.rs, the requests and decoders of the providers).
ModelIsUnderstood ==
    /\ [](Is("messages") => Messages!ContextIsRecent)
    /\ [](Is("input") => Sent!ArgumentsAreSettled /\ Sent!EditsSurvive)
    /\ [](Is("requests") => Requests!RequestsAreAccepted /\ Requests!RequestsTellTheHistory)
    /\ [](Is("answers") => Streams!EventsTellTheMessage /\ Streams!BrokenAnswersAreErrors)
    /\ Requests!CachedPrefixIsStable
=============================================================================

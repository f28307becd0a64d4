---------------------------- MODULE ChatMessages ----------------------------
(***************************************************************************)
(* What a chat message becomes: the filters an event passes, the parts of  *)
(* a rich text (channels/feishu/message.rs), and the context gathered      *)
(* around it, the replies of its topic or the talk of its group before it  *)
(* (channels/feishu/adapter.rs, delivery.rs).                              *)
(*                                                                         *)
(* A text is the name of who wrote it; a download may fail.                *)
(***************************************************************************)
EXTENDS Naturals, Sequences, FiniteSets, SequencesExt

CONSTANTS
    MaxTexts,       \* replies of a topic that are kept: 50 in the code
    MaxImages,      \* images of a topic that are kept: 10 in the code
    MaxHistory,     \* messages of a group fetched as its history: 30 in the code
    Cases           \* the messages that may come, with what was said around them

Bot     == "bot"
Tags    == {"text", "at bot", "at other", "img", "blank"}
Kinds   == {"text", "post", "image", "other"}
Chats   == {"topic", "group", "p2p"}

VARIABLES
    event,          \* the message: its kind, elements, chat, sender, mentions, time
    others,         \* the other messages of the chat, in the order the platform lists them
    broken,         \* whose images cannot be fetched
    contents,       \* what is sent to the run
    taken           \* todo, refused, nothing, sent

messageVars == <<event, others, broken, contents, taken>>

Event == [kind : Kinds, elements : Seq(Tags), chat : Chats, at : Nat,
          allowed : BOOLEAN, mentioned : BOOLEAN, mentionOnly : BOOLEAN]
Other == [id : Nat, from : {Bot, "user"}, at : Nat, text : BOOLEAN, images : Nat]

MessagesInit ==
    /\ \E c \in Cases : event = c.event /\ others = c.others
    /\ broken \in SUBSET {"own", "others"}
    /\ contents = <<>>
    /\ taken = "todo"

-----------------------------------------------------------------------------
(* parse_event.                                                              *)

\* Names of people mentioned are text of the message, the blank texts too.
PostParts ==
    LET Part(tag) == IF tag = "img" THEN <<"image", "own">> ELSE <<"text", tag>>
    IN  [i \in DOMAIN event.elements |-> Part(event.elements[i])]

\* A text message is one text, without the placeholders of the mentions.
TextParts ==
    IF \E i \in DOMAIN event.elements : event.elements[i] = "text" THEN <<<<"text", "text">>>> ELSE <<>>

Parts == CASE event.kind = "text"  -> TextParts
           [] event.kind = "post"  -> PostParts
           [] event.kind = "image" -> <<<<"image", "own">>>>
           [] OTHER                -> <<>>

ShouldRespond ==
    \/ event.chat = "p2p"
    \/ ~event.mentionOnly
    \/ event.mentioned
    \/ event.kind = "post" /\ \E i \in DOMAIN event.elements : event.elements[i] = "at bot"

Accepted == event.allowed /\ ShouldRespond /\ Parts # <<>>

-----------------------------------------------------------------------------
(* Context.                                                                  *)

Sorted(s)     == SortSeq(s, LAMBDA a, b : a.at < b.at)
Oldest(s, n)  == IF Len(s) > n THEN SubSeq(s, 1, n) ELSE s
Newest(s, n)  == IF Len(s) > n THEN SubSeq(s, Len(s) - n + 1, Len(s)) ELSE s
Images(s)     == FoldSeq(LAMBDA r, n : n + r.images, 0, s)

\* Every reply the topic lists, in the order of time, the message itself and the
\* later ones left out.
Replies == Newest(SelectSeq(Sorted(others), LAMBDA r : r.at <= event.at), MaxTexts)

\* The images of the oldest replies are left out when there are too many.
SkippedImages(s) == IF Images(s) > MaxImages THEN Images(s) - MaxImages ELSE 0

ReplyContents(s, i) ==
    LET before  == Images(SubSeq(s, 1, i - 1))
        text    == IF s[i].text THEN <<<<"text", s[i].id>>>> ELSE <<>>
        Fetched == {k \in 1 .. s[i].images : before + k > SkippedImages(s) /\ "others" \notin broken}
    IN  text \o [k \in 1 .. Cardinality(Fetched) |-> <<"image", s[i].id>>]

\* The root of the topic comes first, with all its images, and again as a reply.
RootContents ==
    LET root    == Head(Sorted(others))
        text    == IF root.text THEN <<<<"root", root.id>>>> ELSE <<>>
        Fetched == {k \in 1 .. root.images : "others" \notin broken}
    IN  text \o [k \in 1 .. Cardinality(Fetched) |-> <<"root image", root.id>>]

TopicContext ==
    IF others = <<>> THEN <<>>
    ELSE RootContents \o FlattenSeq([i \in DOMAIN Replies |-> ReplyContents(Replies, i)])

\* The platform gives the newest messages up to the time of this one; what the
\* bot itself said is left out, and images are not fetched.
History ==
    SelectSeq(Sorted(Newest(Sorted(SelectSeq(others, LAMBDA m : m.at <= event.at)), MaxHistory)),
              LAMBDA m : m.from # Bot)

GroupContext ==
    LET Said(m) == IF m.text THEN <<<<"text", m.id>>>> ELSE <<>>
    IN  FlattenSeq([i \in DOMAIN History |-> Said(History[i])])

Context == CASE event.chat = "topic" -> TopicContext
             [] event.chat = "group" -> GroupContext
             [] OTHER                -> <<>>

\* Blank texts go, and images that cannot be fetched.
OwnContents ==
    SelectSeq(Parts, LAMBDA p : p # <<"text", "blank">> /\ ~(p[1] = "image" /\ "own" \in broken))

Take ==
    /\ taken = "todo"
    /\ IF ~Accepted
       THEN taken' = "refused" /\ UNCHANGED contents
       ELSE /\ contents' = Context \o OwnContents
            /\ taken' = IF contents' = <<>> THEN "nothing" ELSE "sent"
    /\ UNCHANGED <<event, others, broken>>

MessagesNext == Take
MessagesSpec == MessagesInit /\ [][MessagesNext]_messageVars

-----------------------------------------------------------------------------
(* Properties.                                                               *)

\* Of what was said before, the run is told in the order it was said, and all of
\* it when it was little; what is left out is older than what is told, and of the
\* images too the newest come; nothing the bot said in a group and nothing said
\* later is told; and the message's own parts come last, each once and in order
\* (handle_message).
ContextIsRecent ==
    taken = "sent" =>
      LET own   == Len(OwnContents)
          told  == SubSeq(contents, 1, Len(contents) - own)
          ids   == {told[i][2] : i \in DOMAIN told}
          Of(k) == {m \in ToSet(others) : <<k, m.id>> \in ToSet(told)}
          limit == IF event.chat = "topic" THEN MaxTexts ELSE MaxHistory
      IN  /\ \A m \in Of("text") \cup Of("image") : m.at <= event.at
          /\ event.chat # "topic" => \A m \in Of("text") : m.from # Bot
          /\ \A i, j \in DOMAIN told : i < j =>
                \A m, n \in ToSet(others) : m.id = told[i][2] /\ n.id = told[j][2] => m.at <= n.at
          /\ \A m \in Of("text"), n \in ToSet(others) \ Of("text") :
                n.text /\ n.at <= event.at /\ (event.chat # "topic" => n.from # Bot) => n.at <= m.at
          /\ \A m \in Of("image"), n \in ToSet(others) \ Of("image") :
                n.images > 0 /\ n.at <= event.at => n.at <= m.at
          /\ Cardinality(Of("text")) <= limit
          /\ Len(others) <= limit /\ event.chat # "p2p" =>
                \A m \in ToSet(others) : m.text /\ m.at <= event.at /\ m.from # Bot => m \in Of("text")
          /\ Len(SelectSeq(told, LAMBDA p : p[1] = "image")) <= MaxImages
          /\ event.kind = "post" =>
                SelectSeq(PostParts, LAMBDA p : p \in ToSet(OwnContents)) = SubSeq(contents, Len(told) + 1, Len(contents))
=============================================================================

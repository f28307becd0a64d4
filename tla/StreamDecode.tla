---------------------------- MODULE StreamDecode ----------------------------
(***************************************************************************)
(* The decoders of streamed model answers, one per protocol: Anthropic     *)
(* messages, OpenAI completions and OpenAI responses, and the answers that *)
(* come as one JSON body (provider/*/sse_decode.rs, json_fallback.rs,      *)
(* stream/fallback.rs).  A decoder shows each event as it comes and keeps  *)
(* the message that goes into the history.                                 *)
(*                                                                         *)
(* The service is not in this repository: it sends items, piece by piece,  *)
(* then a reason and a terminal event; it may fail, and the connection may *)
(* close anywhere.  A gateway may swallow an item, or send one whole.      *)
(***************************************************************************)
EXTENDS Naturals, Sequences

CONSTANTS
    MaxItems,       \* bound: items of an answer
    MaxSize         \* bound: pieces of an item

VARIABLES
    protocol,       \* anthropic, completions, responses or json
    sent,           \* the items the service sent: kind, pieces
    open,           \* the items it has not closed
    reason,         \* why it stopped
    content,        \* the blocks of the message
    slot,           \* which block an item goes to (slots, tool_call_buffers)
    shown,          \* per block: what the events told of it
    stop,           \* the stop reason of the message
    terminal,       \* whether the terminal event was seen
    result          \* message, or the error

service    == <<protocol, sent, open, reason>>
message    == <<content, slot, shown, stop>>
decodeVars == <<service, message, terminal, result>>

Items   == 1 .. MaxItems
Nothing == 0

Block(kind, i) == [kind |-> kind, size |-> 0, item |-> i]
EmptyText      == Block("text", Nothing)
Unshown        == [size |-> 0, starts |-> 0, ends |-> 0, item |-> Nothing, args |-> 0]

Init ==
    /\ protocol \in {"anthropic", "completions", "responses", "json"}
    /\ sent = <<>> /\ open = {} /\ reason = ""
    /\ content = <<>>
    /\ slot = [i \in Items |-> Nothing]
    /\ shown = [b \in Items |-> Unshown]
    /\ stop = "stop"
    /\ terminal = FALSE
    /\ result = ""

-----------------------------------------------------------------------------
(* What the service does, and what a decoder does with it.                   *)

Calls          == {i \in DOMAIN sent : sent[i].kind = "tool"}
Streams(p)     == protocol = p /\ result = "" /\ reason = ""
Extend(k, n)   == Len(sent) < MaxItems /\ sent' = Append(sent, [kind |-> k, size |-> n])
NewItem(k, n)  == /\ Extend(k, n)
                  /\ open' = open \cup {Len(sent')}
                  /\ UNCHANGED <<protocol, reason>>
Piece(i)       == /\ i \in open
                  /\ sent[i].size < MaxSize
                  /\ sent' = [sent EXCEPT ![i].size = @ + 1]
                  /\ UNCHANGED <<protocol, open, reason>>
Close(i)       == /\ i \in open
                  /\ open' = open \ {i}
                  /\ UNCHANGED <<protocol, sent, reason>>
Reason         == /\ reason' \in {"length", "refused", IF Calls = {} THEN "stop" ELSE "tools"}
                  /\ UNCHANGED <<protocol, sent>>

Push(k, i, n)  == content' = Append(content, [kind |-> k, size |-> n, item |-> i])
Grow(b)        == content' = [content EXCEPT ![b].size = @ + 1]
Show(b)        == shown' = [shown EXCEPT ![b].size = @ + 1]
Started(s, b, i)    == [s EXCEPT ![b].starts = @ + 1, ![b].item = i]
\* The event that ends a call carries its arguments, repaired if need be.
Ended(s, b, i, n)   == [s EXCEPT ![b].ends = @ + 1, ![b].item = i, ![b].args = n]

-----------------------------------------------------------------------------
(* Anthropic: an item has the place its index says, one is open at a time.   *)

FilledByClones(n) == content \o [i \in 1 .. n - Len(content) |-> [EmptyText EXCEPT !.kind = "tool"]]

\* The places of items that never came hold empty texts.
Filled(n) == content \o [i \in 1 .. n - Len(content) |-> EmptyText]

BlockStart(k) ==
    /\ Streams("anthropic") /\ open = {}
    /\ NewItem(k, 0)
    /\ LET i == Len(sent') IN
          /\ content' = Append(Filled(i - 1), [EmptyText EXCEPT !.kind = IF k = "other" THEN "text" ELSE k,
                                                                !.item = i])
          /\ shown' = IF k = "tool" THEN Started(shown, i, i) ELSE shown
    /\ UNCHANGED <<slot, stop, terminal, result>>

BlockSwallowed ==
    /\ Streams("anthropic") /\ open = {}
    /\ Extend("other", 0)
    /\ UNCHANGED <<protocol, open, reason, message, terminal, result>>

BlockDelta(i) ==
    /\ Streams("anthropic")
    /\ Piece(i)
    /\ IF sent[i].kind = "other" THEN UNCHANGED <<content, shown>> ELSE Grow(i) /\ Show(i)
    /\ UNCHANGED <<slot, stop, terminal, result>>

BlockStop(i) ==
    /\ Streams("anthropic")
    /\ Close(i)
    /\ shown' = IF content[i].kind = "tool" THEN Ended(shown, i, i, content[i].size) ELSE shown
    /\ UNCHANGED <<content, slot, stop, terminal, result>>

MessageDelta ==
    /\ Streams("anthropic") /\ open = {}
    /\ Reason
    /\ stop' = IF reason' = "refused" THEN "error" ELSE reason'
    /\ UNCHANGED <<open, content, slot, shown, terminal, result>>

MessageStop ==
    /\ protocol = "anthropic" /\ result = "" /\ reason # ""
    /\ terminal' = TRUE
    /\ UNCHANGED <<service, message, result>>

-----------------------------------------------------------------------------
(* Completions: text goes to a text at the end, reasoning to reasoning; a    *)
(* call keeps the place where its first piece came, until all end at once.   *)

ChunkText(k) ==
    /\ Streams("completions")
    /\ IF content # <<>> /\ content[Len(content)].kind = k
       THEN Piece(Len(sent)) /\ Grow(Len(content)) /\ Show(Len(content))
       ELSE NewItem(k, 1) /\ Push(k, Len(sent'), 1) /\ Show(Len(content) + 1)
    /\ UNCHANGED <<slot, stop, terminal, result>>

\* The id and the name come with the first piece, or later: until then nothing
\* of the call is shown.
ChunkCall(named) ==
    /\ Streams("completions")
    /\ NewItem("tool", 0)
    /\ LET i == Len(sent')  b == Len(content) + 1 IN
          /\ Push("tool", i, 0)
          /\ slot' = [slot EXCEPT ![i] = b]
          /\ shown' = IF named THEN Started(shown, b, i) ELSE shown
    /\ UNCHANGED <<stop, terminal, result>>

ChunkArguments(i, named) ==
    /\ Streams("completions")
    /\ i \in Calls
    /\ Piece(i)
    /\ LET b == slot[i]
           begun == IF named /\ shown[b].starts = 0 THEN Started(shown, b, i) ELSE shown
       IN  /\ Grow(b)
           /\ shown' = IF begun[b].starts = 0 THEN begun ELSE [begun EXCEPT ![b].size = @ + 1]
    /\ UNCHANGED <<slot, stop, terminal, result>>

\* A refusal becomes the stop reason only at the end.
ChunkFinish ==
    /\ Streams("completions") /\ sent # <<>>
    /\ \A i \in Calls : shown[slot[i]].starts = 1     \* the service names its calls
    /\ Reason
    /\ open' = {}
    /\ stop' = IF reason' = "refused" THEN "stop" ELSE reason'
    /\ UNCHANGED <<content, slot, shown, terminal, result>>

-----------------------------------------------------------------------------
(* Responses: items run side by side, each with the slot of its index.       *)

CreateSlot(k, i) ==
    IF k = "other" THEN UNCHANGED <<content, slot, shown>>
    ELSE LET b == Len(content) + 1 IN
         /\ Push(k, i, 0)
         /\ slot' = [slot EXCEPT ![i] = b]
         /\ shown' = IF k = "tool" THEN Started(shown, b, i) ELSE shown

ItemAdded(k) ==
    /\ Streams("responses")
    /\ NewItem(k, 0)
    /\ CreateSlot(k, Len(sent'))
    /\ UNCHANGED <<stop, terminal, result>>

ItemUnannounced(k) ==
    /\ Streams("responses")
    /\ NewItem(k, 0)
    /\ UNCHANGED <<message, terminal, result>>

\* A text gets its slot when it is needed; the pieces of a call without one are
\* not kept.
ItemDelta(i) ==
    /\ Streams("responses")
    /\ Piece(i)
    /\ CASE slot[i] # Nothing -> Grow(slot[i]) /\ Show(slot[i]) /\ UNCHANGED slot
         [] slot[i] = Nothing /\ sent[i].kind \in {"text", "thinking"} ->
               /\ Push(sent[i].kind, i, 1)
               /\ slot' = [slot EXCEPT ![i] = Len(content) + 1]
               /\ Show(Len(content) + 1)
         [] OTHER -> UNCHANGED <<content, slot, shown>>
    /\ UNCHANGED <<stop, terminal, result>>

\* The item comes once more, as a whole: output_item.done.
ItemDone(i) ==
    /\ Streams("responses")
    /\ Close(i)
    /\ IF sent[i].kind = "other" THEN UNCHANGED <<content, slot, shown>>
       ELSE LET k == sent[i].kind
                b == IF slot[i] = Nothing THEN Len(content) + 1 ELSE slot[i]
                begun == IF k = "tool" /\ shown[b].starts = 0 THEN Started(shown, b, i) ELSE shown
            IN  /\ content' = [x \in 1 .. Len(content) \cup {b} |->
                                 IF x = b THEN [kind |-> k, size |-> sent[i].size, item |-> i]
                                 ELSE content[x]]
                /\ slot' = [slot EXCEPT ![i] = b]
                /\ shown' = IF k = "tool" THEN Ended(begun, b, i, sent[i].size) ELSE begun
    /\ UNCHANGED <<stop, terminal, result>>

\* completed, or incomplete with what is open cut.
Responded ==
    /\ Streams("responses")
    /\ Reason
    /\ open # {} => reason' \in {"length", "refused"}
    /\ stop' = IF reason' \in {"length", "refused"} THEN "length" ELSE "stop"
    /\ terminal' = TRUE
    /\ UNCHANGED <<open, content, slot, shown, result>>

-----------------------------------------------------------------------------
(* The end of a stream, wherever it comes.                                   *)

HasCall      == \E b \in DOMAIN content : content[b].kind = "tool"
HasEffective == HasCall \/ \E b \in DOMAIN content : content[b].size > 0

AnthropicEndsAnywhere ==
    /\ protocol = "anthropic" /\ result = ""
    /\ stop' = IF HasCall /\ stop # "error" THEN "tools" ELSE stop
    /\ result' = IF ~HasEffective /\ stop # "error" THEN "empty" ELSE "message"
    /\ UNCHANGED <<service, content, slot, shown, terminal>>

AnthropicEnds ==
    /\ protocol = "anthropic" /\ result = ""
    /\ stop' = IF HasCall /\ stop # "error" THEN "tools" ELSE stop
    /\ result' = CASE ~terminal -> "incomplete"
                   [] terminal /\ ~HasEffective /\ stop # "error" -> "empty"
                   [] OTHER -> "message"
    /\ UNCHANGED <<service, content, slot, shown, terminal>>

\* [DONE] or the end of the connection; all calls end here.  An answer with
\* nothing in it may still have usage.
CompletionsEnd ==
    /\ protocol = "completions" /\ result = ""
    /\ stop' = IF reason = "refused" THEN "error" ELSE IF HasCall THEN "tools" ELSE stop
    /\ shown' = [b \in DOMAIN shown |->
                   IF b \in DOMAIN content /\ content[b].kind = "tool"
                   THEN Ended(shown, b, content[b].item, content[b].size)[b] ELSE shown[b]]
    /\ result' \in IF content = <<>> /\ reason # "refused" THEN {"empty", "message"} ELSE {"message"}
    /\ UNCHANGED <<service, content, slot, terminal>>

ResponsesEnd ==
    /\ protocol = "responses" /\ result = ""
    /\ stop' = IF reason = "refused" THEN "error"
               ELSE IF stop = "stop" /\ HasCall THEN "tools" ELSE stop
    /\ result' \in IF ~terminal THEN {"incomplete"}
                   ELSE IF content = <<>> /\ reason # "refused" THEN {"empty", "message"} ELSE {"message"}
    /\ UNCHANGED <<service, content, slot, shown, terminal>>

\* An error event, a body that cannot be read, or a cancelled call.
Fails ==
    /\ result = ""
    /\ result' = "failed"
    /\ UNCHANGED <<service, message, terminal>>

-----------------------------------------------------------------------------
(* One JSON body: all at once, through the FallbackEmitter.                  *)

BodyItem(k, n) ==
    /\ Streams("json")
    /\ Extend(k, n)
    /\ UNCHANGED <<protocol, open, reason, message, terminal, result>>

Body ==
    LET items == [i \in DOMAIN sent |-> [kind |-> sent[i].kind, size |-> sent[i].size, item |-> i]]
    IN  SelectSeq(items, LAMBDA b : b.kind = "tool" \/ (b.kind # "other" /\ b.size > 0))

Emitted(blocks, b) ==
    IF b \notin DOMAIN blocks THEN Unshown
    ELSE IF blocks[b].kind = "tool"
    THEN Ended(Started(shown, b, blocks[b].item), b, blocks[b].item, blocks[b].size)[b]
    ELSE [Unshown EXCEPT !.size = blocks[b].size]

\* A refusal is an error; the Anthropic body must not be empty.
BodyRead ==
    /\ Streams("json")
    /\ Reason
    /\ content' = Body
    /\ shown' = [b \in DOMAIN shown |-> Emitted(Body, b)]
    /\ stop' = reason'
    /\ result' \in IF reason' = "refused" THEN {"failed"}
                   ELSE IF Body = <<>> THEN {"empty", "message"} ELSE {"message"}
    /\ UNCHANGED <<open, slot, terminal>>

-----------------------------------------------------------------------------
AnthropicNext ==
    \/ \E k \in {"text", "thinking", "tool", "other"} : BlockStart(k)
    \/ BlockSwallowed \/ \E i \in Items : BlockDelta(i) \/ BlockStop(i)
    \/ MessageDelta \/ MessageStop \/ AnthropicEnds
CompletionsNext ==
    \/ \E k \in {"text", "thinking"} : ChunkText(k)
    \/ \E named \in BOOLEAN : ChunkCall(named) \/ \E i \in Items : ChunkArguments(i, named)
    \/ ChunkFinish \/ CompletionsEnd
ResponsesNext ==
    \/ \E k \in {"text", "thinking", "tool", "other"} : ItemAdded(k) \/ ItemUnannounced(k)
    \/ \E i \in Items : ItemDelta(i) \/ ItemDone(i)
    \/ Responded \/ ResponsesEnd
BodyNext ==
    \/ \E k \in {"text", "thinking", "tool", "other"}, n \in 0 .. MaxSize : BodyItem(k, n)
    \/ BodyRead

Next == AnthropicNext \/ CompletionsNext \/ ResponsesNext \/ BodyNext \/ Fails

Spec == Init /\ [][Next]_decodeVars

-----------------------------------------------------------------------------
(* Properties.                                                               *)

\* Whoever follows the events and whoever reads the message see the same answer,
\* block by block: each call that will be run was announced once and ended once,
\* under its own id and with its own arguments, and is a call the service made
\* (content_index, finalize_tool_calls, finish_slot).
EventsTellTheMessage ==
    result = "message" =>
        /\ \A b \in DOMAIN content : content[b].kind # "tool" =>
              shown[b].size <= content[b].size /\ shown[b].starts = 0
        /\ \A b, c \in DOMAIN content : content[b].item = content[c].item => b = c \/ content[b].item = Nothing
        /\ stop = "tools" /\ reason # "" =>
              /\ \A b \in DOMAIN content : content[b].kind = "tool" =>
                    LET i == content[b].item IN
                    /\ i \in Calls /\ content[b].size = sent[i].size
                    /\ shown[b] = [shown[b] EXCEPT !.starts = 1, !.ends = 1, !.item = i, !.args = sent[i].size]
              /\ \A i \in Calls : \E b \in DOMAIN content : content[b].item = i

\* An answer that broke off is an error, never a message; a refused one never
\* passes for a finished one, and calls never for the end of the turn.  (The
\* completions decoder takes a closed connection for the end of an answer.)
BrokenAnswersAreErrors ==
    result = "message" =>
        /\ reason = "" => protocol = "completions"
        /\ reason = "refused" <=> stop = "error"
        /\ stop = "stop" => ~HasCall

\* The calls of an answer that the token limit cut are not run, because their
\* arguments may be cut too: the loop tells it by the stop reason of the message
\* (driver.rs:519 and tests/agent/run/tools.rs:22).
CutCallsAreNotRun ==
    result = "message" /\ reason = "length" /\ HasCall => stop = "length"
=============================================================================

-------------------------- MODULE ProviderRequests --------------------------
(* What the providers' builders make of a conversation: the messages of an   *)
(* Anthropic, a completions, a Responses or a Bedrock request.  A block is a *)
(* kind and a number of its own; texts, schemas and settings are left out.   *)
EXTENDS Naturals, Sequences, FiniteSets, SequencesExt

CONSTANTS Prompts,    \* sequences of kinds a user may send
          Answers,    \* sequences of kinds a model may answer
          Outputs,    \* sequences of kinds a tool may return
          MaxMessages  \* bound: messages, before the last answer and its results

VARIABLES history,   \* the messages of the conversation, sanitized
          blocks     \* numbers given so far

requestVars == <<history, blocks>>

\* A session may go on with any model, so every state is shown to each of them;
\* "vision" tells whether the model accepts images.
Protocols == {"anthropic", "completions", "responses", "bedrock"}
Numbered(kinds, n) == [i \in DOMAIN kinds |-> [kind |-> kinds[i], n |-> n + i]]
Of(ms, kind)       == SelectSeq(ms, LAMBDA b : b.kind = kind)
Not(ms, kinds)     == SelectSeq(ms, LAMBDA b : b.kind \notin kinds)
Has(ms, kind)      == \E i \in DOMAIN ms : ms[i].kind = kind
HeadOr(s)          == IF s = <<>> THEN <<>> ELSE <<s[1]>>
Became(b, kind)    == [b EXCEPT !.kind = kind]
Wire(role, parts)  == [role |-> role, parts |-> parts]

RequestsInit == history = <<>> /\ blocks = 0

Prompt(kinds) ==
    /\ history' = Append(history, [role |-> "user", content |-> Numbered(kinds, blocks), call |-> 0])
    /\ blocks' = blocks + Len(kinds)

\* An answer and the results of its calls, complete and in order (Conversation).
Answer(kinds, outputs) ==
    LET answer == Numbered(kinds, blocks)
        calls  == Of(answer, "call")
        base   == blocks + Len(kinds)
    IN  /\ history # <<>>
        /\ Len(outputs) = Len(calls)
        /\ history' = Append(history, [role |-> "assistant", content |-> answer, call |-> 0])
                      \o [i \in DOMAIN calls |->
                            [role |-> "result", call |-> calls[i].n,
                             content |-> Numbered(outputs[i], base + 2 * (i - 1))]]
        /\ blocks' = base + 2 * Len(calls)

RequestsNext ==
    /\ Len(history) < MaxMessages
    /\ \/ \E kinds \in Prompts : Prompt(kinds)
       \/ \E kinds \in Answers : \E outputs \in [1 .. Len(Of(Numbered(kinds, 0), "call")) -> Outputs] :
             Answer(kinds, outputs)

RequestsSpec == RequestsInit /\ [][RequestsNext]_requestVars

-----------------------------------------------------------------------------
(* Anthropic.                                                                *)

AsSpoken(content) == content   \* mutant: the blocks stay where they are
CutAtCalls(content) ==         \* mutant: what follows the first call is dropped
    Of(content, "call") \o Not(IF Has(content, "call") THEN <<content[1]>> ELSE content, {"blank", "dots", "call"})

\* Nothing may stand between a call and the message that answers it.
CloseToolUseTurn(content) ==
    Not(content, {"blank", "dots", "call"}) \o Of(content, "call")

\* Thinking goes back only under its signature, else as text.
ToAnthropic(content) ==
    LET shown == Not(content, {"blank"})
    IN  [i \in DOMAIN shown |->
            CASE shown[i].kind = "signed" -> Became(shown[i], "thinking")
              [] shown[i].kind \in {"loose", "native", "dots", "legacy"} -> Became(shown[i], "text")
              [] OTHER -> shown[i]]

ResultPart(m, inner) == <<[kind |-> "result", n |-> m.call]>> \o inner

FirstText(content) == HeadOr(SelectSeq(content, LAMBDA b : b.kind \in {"text", "blank"}))

AnthropicMessage(m) ==
    CASE m.role = "user" -> Wire("user", ToAnthropic(m.content))
      [] m.role = "assistant" ->
            Wire("assistant", IF Len(m.content) = 1 /\ Has(m.content, "legacy") THEN <<>>
                              ELSE ToAnthropic(CloseToolUseTurn(m.content)))
      [] OTHER -> Wire("user", ResultPart(m, IF Has(m.content, "image") THEN ToAnthropic(m.content)
                                             ELSE FirstText(m.content)))

Unmerged(ms) == ms   \* mutant

MergeConsecutiveRoles(ms) ==
    FoldLeft(LAMBDA out, m :
                IF out # <<>> /\ Last(out).role = m.role
                THEN [out EXCEPT ![Len(out)].parts = @ \o m.parts]
                ELSE Append(out, m),
             <<>>, ms)

AnthropicMessages(h) ==
    MergeConsecutiveRoles(SelectSeq([i \in DOMAIN h |-> AnthropicMessage(h[i])],
                                    LAMBDA m : m.parts # <<>>))

MarkLast(ms) == Len(ms)   \* mutant: the breakpoint is on the last message

\* The breakpoint up to which the messages are cached, 0 for none: on the message
\* before the last one whose last block is not an empty text.
CachePoint(ms) ==
    LET marks == {i \in 1 .. Len(ms) - 1 : Last(ms[i].parts).kind # "blank"}
    IN  IF marks = {} THEN 0 ELSE Max(marks)

-----------------------------------------------------------------------------
(* Completions: the images of a result follow it in a message of the user.   *)

Imaged(b, vision)  == IF b.kind = "image" /\ ~vision THEN Became(b, "text") ELSE b
ToOpenAi(content, vision) ==
    LET shown == SelectSeq(content, LAMBDA b : b.kind \in {"text", "dots", "legacy", "image"})
    IN  [i \in DOMAIN shown |-> IF shown[i].kind = "image" THEN Imaged(shown[i], vision) ELSE Became(shown[i], "text")]

AnswerToOpenAi(content) ==
    LET shown == Not(content, {"blank", "image"})
    IN  [i \in DOMAIN shown |->
            CASE shown[i].kind \in {"signed", "loose", "native"} -> Became(shown[i], "thinking")
              [] shown[i].kind \in {"dots", "legacy"} -> Became(shown[i], "text")
              [] OTHER -> shown[i]]

KeepEmpty(m) == <<Wire("assistant", AnswerToOpenAi(m.content))>>   \* mutant

AssistantMessage(m) ==
    LET parts == AnswerToOpenAi(m.content)
    IN  IF parts = <<>> THEN <<>> ELSE <<Wire("assistant", parts)>>

CompletionsMessage(m, vision) ==
    CASE m.role = "user" -> <<Wire("user", ToOpenAi(m.content, vision))>>
      [] m.role = "assistant" -> AssistantMessage(m)
      [] OTHER -> <<Wire("tool", ResultPart(m, FirstText(m.content)))>>
                  \o (IF Has(m.content, "image") /\ vision
                      THEN <<Wire("user", Of(m.content, "image"))>> ELSE <<>>)

CompletionsMessages(h, vision) == FlattenSeq([i \in DOMAIN h |-> CompletionsMessage(h[i], vision)])

-----------------------------------------------------------------------------
(* Responses: every block is an item; foreign thinking has none.             *)

InputContent(content, vision) ==
    LET shown == Not(content, {"blank", "signed", "loose", "native", "call"})
    IN  [i \in DOMAIN shown |-> Became(Imaged(shown[i], vision),
                                   IF shown[i].kind = "image" /\ vision THEN "image" ELSE "text")]

ToolOutput(content, vision) ==
    LET texts == InputContent(Not(content, {"image"}), vision)
    IN  IF vision THEN texts \o Of(content, "image") ELSE texts

ResponsesItems(m, vision) ==
    CASE m.role = "user" -> IF InputContent(m.content, vision) = <<>> THEN <<>>
                            ELSE <<Wire("user", InputContent(m.content, vision))>>
      [] m.role = "assistant" ->
            LET shown == Not(m.content, {"blank", "signed", "loose", "image"})
            IN  [i \in DOMAIN shown |->
                    Wire("assistant", <<CASE shown[i].kind = "native" -> Became(shown[i], "thinking")
                                          [] shown[i].kind = "call" -> shown[i]
                                          [] OTHER -> Became(shown[i], "text")>>)]
      [] OTHER -> <<Wire("tool", ResultPart(m, ToolOutput(m.content, vision)))>>

ResponsesInput(h, vision) == FlattenSeq([i \in DOMAIN h |-> ResponsesItems(h[i], vision)])

-----------------------------------------------------------------------------
(* Bedrock: one message for each, thinking is left out.                      *)

ToBedrock(content) ==
    LET shown == Not(content, {"blank", "signed", "loose", "native"})
    IN  [i \in DOMAIN shown |-> IF shown[i].kind \in {"dots", "legacy"} THEN Became(shown[i], "text") ELSE shown[i]]

BedrockMessages(h) ==
    [i \in DOMAIN h |->
        IF h[i].role = "result" THEN Wire("user", ResultPart(h[i], ToBedrock(h[i].content)))
        ELSE Wire(h[i].role, ToBedrock(h[i].content))]

Request(protocol, vision) ==
    CASE protocol = "anthropic"   -> AnthropicMessages(history)
      [] protocol = "completions" -> CompletionsMessages(history, vision)
      [] protocol = "responses"   -> ResponsesInput(history, vision)
      [] protocol = "bedrock"     -> BedrockMessages(history)

-----------------------------------------------------------------------------
(* Output and thinking budgets, in units of 1024 tokens.                     *)

Levels    == {"minimal", "low", "medium", "high"}
Budget(l) == CASE l = "minimal" -> 1 [] l = "low" -> 2 [] l = "medium" -> 8 [] OTHER -> 16
MinOutput == 1
AtMost(a, b)  == IF a < b THEN a ELSE b
Less(a, b)    == IF a > b THEN a - b ELSE 0

\* mutant: the room for the answer is not kept
FullBudget(asked, most, level) ==
    LET max == IF asked = 0 THEN most ELSE AtMost(asked + Budget(level), most)
    IN  [max |-> max, budget |-> AtMost(Budget(level), max)]

\* adjust_max_tokens_for_thinking; 0 stands for no explicit cap.
AdjustedForThinking(asked, most, level) ==
    LET max == IF asked = 0 THEN most ELSE AtMost(asked + Budget(level), most)
    IN  [max |-> max, budget |-> AtMost(Budget(level), Less(max, MinOutput))]

-----------------------------------------------------------------------------
(* Properties.                                                               *)

CallsOf(m)   == [i \in DOMAIN Of(m.parts, "call") |-> Of(m.parts, "call")[i].n]
AnswersOf(m) == [i \in DOMAIN Of(m.parts, "result") |-> Of(m.parts, "result")[i].n]

\* A turn of the assistant ends with its calls and the next message begins with
\* their results, roles alternate, and no message is empty.
AnthropicAccepts(ms) ==
    /\ \A i \in DOMAIN ms :
          /\ ms[i].parts # <<>>
          /\ i > 1 => ms[i].role # ms[i - 1].role
          /\ \A j, k \in DOMAIN ms[i].parts :
                j < k /\ ms[i].parts[j].kind = "call" => ms[i].parts[k].kind = "call"
          /\ CallsOf(ms[i]) # <<>> => i < Len(ms) /\ ms[i + 1].parts[1].kind = "result"
          /\ AnswersOf(ms[i]) = IF i = 1 THEN <<>> ELSE CallsOf(ms[i - 1])

\* The messages after an answer are the results of its calls, one for each.
CompletionsAccept(ms) ==
    \A i \in DOMAIN ms :
        /\ ms[i].role = "assistant" => ms[i].parts # <<>>
        /\ \A k \in DOMAIN CallsOf(ms[i]) :
              i + k \in DOMAIN ms /\ AnswersOf(ms[i + k]) = <<CallsOf(ms[i])[k]>>
        /\ ms[i].role = "tool" => \E j \in 1 .. i - 1 : \E k \in DOMAIN CallsOf(ms[j]) :
                                     i = j + k

ResponsesAccept(ms) ==
    /\ \A i \in DOMAIN ms : \A c \in ToSet(CallsOf(ms[i])) :
          Cardinality({j \in i + 1 .. Len(ms) : AnswersOf(ms[j]) = <<c>>}) = 1
    /\ \A i \in DOMAIN ms : ms[i].role = "tool" =>
          \E j \in 1 .. i - 1 : CallsOf(ms[j]) = AnswersOf(ms[i])

ShowsImages == \E i \in DOMAIN history : history[i].role = "result" /\ Has(history[i].content, "image")

\* Whatever the conversation holds (empty answers, thinking of another provider,
\* calls among texts) and whatever model it goes on with, the request has the shape
\* its protocol demands.  Two gaps are left out: Bedrock's roles are not merged, and
\* on a completions model with vision the images of a result come between the results
\* of a batch.
RequestsAreAccepted ==
    /\ AnthropicAccepts(Request("anthropic", TRUE))
    /\ \A vision \in BOOLEAN :
          /\ (ShowsImages /\ vision) \/ CompletionsAccept(Request("completions", vision))
          /\ ResponsesAccept(Request("responses", vision))

\* The same on the completions protocol without that exception (sanitize.rs:10).
BatchesStayTogether == CompletionsAccept(Request("completions", TRUE))

PartsOf(ms) == FlattenSeq([i \in DOMAIN ms |-> ms[i].parts])
Visible(b)  == b.kind \in {"text", "call"}
Told(b, protocol, vision) ==
    LET parts == PartsOf(Request(protocol, vision))
    IN  Cardinality({i \in DOMAIN parts : parts[i].n = b.n /\ parts[i].kind # "result"})

\* The texts of a tool result after the first, which the Anthropic builder leaves out
\* where there is no image, and the completions builder always.
MayBeDropped(b, m, protocol) ==
    /\ protocol \in {"anthropic", "completions"}
    /\ m.role = "result"
    /\ b \notin ToSet(FirstText(m.content))

\* Every text and every call of the conversation is in the request exactly once, and
\* every result once, whatever stands around it, but for what may be dropped of a
\* result: that is there once or not at all.
RequestsTellTheHistory ==
    \A protocol \in Protocols, vision \in BOOLEAN :
        LET parts == PartsOf(Request(protocol, vision))
        IN  \A m \in ToSet(history) :
                /\ \A b \in ToSet(m.content) : Visible(b) =>
                      Told(b, protocol, vision) \in IF MayBeDropped(b, m, protocol) THEN {0, 1} ELSE {1}
                /\ m.role = "result" =>
                      Cardinality({k \in DOMAIN parts : parts[k].kind = "result" /\ parts[k].n = m.call}) = 1

\* What should hold of all builders, and does of Responses and Bedrock alone: a session
\* that goes on with another model tells it the same results
\* (anthropic/request.rs:57-65, openai_compat/request.rs:128-133).
BuildersTellTheSame ==
    \A protocol \in Protocols, vision \in BOOLEAN : \A m \in ToSet(history) :
        \A b \in ToSet(m.content) : Visible(b) => Told(b, protocol, vision) = 1

\* The part of an Anthropic request that was marked for the cache begins the next
\* request unchanged, although later messages may be merged into the last one.
CachedPrefixIsStable ==
    [][LET ms == AnthropicMessages(history)
       IN  IsPrefix(SubSeq(ms, 1, CachePoint(ms)), AnthropicMessages(history'))]_requestVars

\* A thinking budget is the least allowed at the least, and leaves room for the
\* answer within what the model may put out; or there is no thinking.
BudgetsFit ==
    \A asked \in 0 .. 20, most \in 1 .. 20, level \in Levels :
        LET r == AdjustedForThinking(asked, most, level)
        IN  /\ r.max <= most
            /\ r.budget > 0 => r.budget + MinOutput <= r.max
            /\ r.budget < Budget(level) => r.max - r.budget <= MinOutput

\* Text-only models never receive an image, because the request builder drops them
\* (read.rs:207).
TextModelsSeeNoImages == \A protocol \in Protocols : ~Has(PartsOf(Request(protocol, FALSE)), "image")
=============================================================================

----------------------------- MODULE ChatReply ------------------------------
(***************************************************************************)
(* An answer that grows in a chat (delivery/stream.rs): a message is sent  *)
(* once there is something to show and edited as text and tool calls come, *)
(* until its edits run out and another one continues it.  The sink         *)
(* (channels/feishu/delivery.rs) keeps an answer to a group in the thread  *)
(* of its question.                                                        *)
(*                                                                         *)
(* Text is counted: piece k is shown by a message whose range holds k.     *)
(***************************************************************************)
EXTENDS Naturals, Sequences

CONSTANTS
    MaxLen,         \* DeliveryCapabilities.max_message_len
    Reserve,        \* what compose_display keeps for the tool status
    MaxEdits,       \* max_edits_per_message; zero is no limit
    MinInitial,     \* min_initial_chars
    MaxText,        \* bound: the length of the answer
    MaxSinkFaults   \* bound: sends and edits that fail

ASSUME ReplyAssumption == {MaxLen, Reserve, MaxEdits, MinInitial, MaxText, MaxSinkFaults} \subseteq Nat

VARIABLES
    editable,       \* can_edit
    text,           \* text_buf.len()
    offset,         \* text_offset
    lastEnd,        \* last_sent_end
    current,        \* msg_id: the message that is edited, 0 when there is none
    edits,
    continuing,     \* continuation
    screen,         \* the messages of the answer: what they show and whether in the thread
    replyTo,        \* the sink's target: a message of the thread, or nothing
    replyPhase,     \* running, done
    sinkFaults,
    forgiven        \* history: a last edit or a last send failed

replyVars == <<editable, text, offset, lastEnd, current, edits, continuing, screen, replyTo,
               replyPhase, sinkFaults, forgiven>>

ReplyInit ==
    /\ editable \in BOOLEAN
    /\ text = 0 /\ offset = 0 /\ lastEnd = 0
    /\ current = 0 /\ edits = 0
    /\ continuing = FALSE
    /\ screen = <<>>
    /\ replyTo \in {"thread", "nothing"}
    /\ replyPhase = "running"
    /\ sinkFaults = 0
    /\ forgiven = FALSE

Least(a, b) == IF a <= b THEN a ELSE b
Fault       == sinkFaults < MaxSinkFaults /\ sinkFaults' = sinkFaults + 1

\* truncate_safe, compose_display.
FinalText(from, to)   == [from |-> from, to |-> from + Least(to - from, MaxLen)]
DisplayText(from, to) == [from |-> from, to |-> from + Least(to - from, IF Reserve > MaxLen THEN 0 ELSE MaxLen - Reserve)]

\* A reply that comes back without an id ends the thread.
SendsTo(range, target) ==
    /\ screen' = Append(screen, [range |-> range, thread |-> replyTo = "thread"])
    /\ replyTo' \in {replyTo, "nothing"}

Edit(id, range) == screen' = [screen EXCEPT ![id].range = range]

-----------------------------------------------------------------------------
(* Events of the run.                                                        *)

StartAnother(end) ==
    /\ offset' = end /\ lastEnd' = end
    /\ current' = 0
    /\ continuing' = TRUE
    /\ UNCHANGED edits

\* The last edit finishes the message, and counts as shown even if it fails.
LastEdit(to) ==
    /\ MaxEdits > 0 /\ edits + 1 >= MaxEdits
    /\ \/ Edit(current, FinalText(offset, to)) /\ UNCHANGED <<sinkFaults, forgiven>>
       \/ Fault /\ forgiven' = TRUE /\ UNCHANGED screen
    /\ StartAnother(to)
    /\ UNCHANGED replyTo

ForgetfulEdit(to) ==
    /\ MaxEdits = 0 \/ edits + 1 < MaxEdits
    /\ Fault
    /\ StartAnother(to)
    /\ UNCHANGED <<screen, replyTo, forgiven>>

\* A failed edit leaves the rest to a new message.
FailedEdit(to) ==
    /\ MaxEdits = 0 \/ edits + 1 < MaxEdits
    /\ Fault
    /\ StartAnother(lastEnd)
    /\ UNCHANGED <<screen, replyTo, forgiven>>

GoodEdit(to) ==
    /\ MaxEdits = 0 \/ edits + 1 < MaxEdits
    /\ Edit(current, DisplayText(offset, to))
    /\ edits' = edits + 1
    /\ lastEnd' = to
    /\ UNCHANGED <<offset, current, continuing, replyTo, sinkFaults, forgiven>>

TryEdit(to) == LastEdit(to) \/ GoodEdit(to) \/ FailedEdit(to)

\* The first message, or the one that continues a full one.
Threshold == IF continuing THEN 1 ELSE MinInitial

FirstSend(to) ==
    \/ /\ SendsTo(DisplayText(offset, to), replyTo)
       /\ current' = Len(screen')
       /\ edits' = 0
       /\ continuing' = FALSE
       /\ lastEnd' = to
       /\ UNCHANGED <<offset, sinkFaults, forgiven>>
    \/ /\ Fault
       /\ UNCHANGED <<offset, lastEnd, current, edits, continuing, screen, replyTo, forgiven>>

NothingToDo == UNCHANGED <<offset, lastEnd, current, edits, continuing, screen, replyTo, sinkFaults, forgiven>>

\* Text: an edit waits for the throttle, a message for enough text.
Delta ==
    /\ replyPhase = "running" /\ text < MaxText
    /\ text' = text + 1
    /\ IF ~editable THEN NothingToDo
       ELSE IF current = 0
            THEN IF text' - offset >= Threshold THEN FirstSend(text') ELSE NothingToDo
            ELSE TryEdit(text') \/ NothingToDo
    /\ UNCHANGED <<editable, replyPhase>>

\* A tool starts, reports or ends.
ToolEvent ==
    /\ replyPhase = "running" /\ editable /\ current # 0
    /\ TryEdit(text)
    /\ UNCHANGED <<editable, text, replyPhase>>

\* The run is over: one more edit, or a message if that fails or there is none.
SendRest ==
    \/ SendsTo(FinalText(offset, text), replyTo) /\ UNCHANGED <<sinkFaults, forgiven>>
    \/ Fault /\ forgiven' = TRUE /\ UNCHANGED <<screen, replyTo>>

FinishEdit == Edit(current, FinalText(offset, text)) /\ UNCHANGED <<replyTo, sinkFaults, forgiven>>

\* The final edit fails: the text is sent again; both may fail.
FinishResend ==
    /\ Fault
    /\ SendsTo(FinalText(offset, text), replyTo) \/ UNCHANGED <<screen, replyTo>>
    /\ forgiven' = (forgiven \/ screen' = screen)

Finish ==
    /\ replyPhase = "running"
    /\ replyPhase' = "done"
    /\ IF text = offset THEN UNCHANGED <<screen, replyTo, sinkFaults, forgiven>>
       ELSE IF current # 0 /\ (MaxEdits = 0 \/ edits < MaxEdits)
            THEN FinishEdit \/ FinishResend
            ELSE SendRest
    /\ UNCHANGED <<editable, text, offset, lastEnd, current, edits, continuing>>

ReplyNext == Delta \/ ToolEvent \/ Finish
ReplySpec == ReplyInit /\ [][ReplyNext]_replyVars

-----------------------------------------------------------------------------
(* Properties.                                                               *)

Shows(m, piece) == screen[m].range.from < piece /\ piece <= screen[m].range.to
Shown(n)        == \A piece \in 1 .. n : \E m \in DOMAIN screen : Shows(m, piece)

\* An answer shorter than a message is whole on the screen when the run is over,
\* its messages in order, whatever edits failed or ran out on the way, unless the
\* edit that ends a message or the last send failed (deliver_progressive).
AnswerIsShown ==
    /\ replyPhase = "done" /\ ~forgiven /\ text <= MaxLen - Reserve => Shown(text)
    /\ \A i, j \in DOMAIN screen : i < j =>
          /\ screen[i].range.from <= screen[j].range.from
          /\ screen[j].thread => screen[i].thread

\* What stream.rs:72 says of text_offset: the text before it was finalized in a
\* previous message.
EarlierTextIsShown == Shown(offset)
=============================================================================

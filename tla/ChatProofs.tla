------------------------------ MODULE ChatProofs ------------------------------
(***************************************************************************)
(* Theorems about what a chat is told.  ChatReply: an answer is whole on   *)
(* the screen, for any limits of the channel and any number of faults.     *)
(* ChatRequests: a stale token fails no request, for any callers and any   *)
(* number of tokens.                                                       *)
(***************************************************************************)
EXTENDS ChatReply, ChatRequests, TLAPS

-----------------------------------------------------------------------------
(* The answer that grows.                                                    *)

Ranges   == [from : Nat, to : Nat]
Messages == [range : Ranges, thread : BOOLEAN]

ReplyType ==
    /\ editable \in BOOLEAN /\ continuing \in BOOLEAN /\ forgiven \in BOOLEAN
    /\ text \in Nat /\ offset \in Nat /\ lastEnd \in Nat
    /\ current \in Nat /\ edits \in Nat /\ sinkFaults \in Nat
    /\ screen \in Seq(Messages)
    /\ replyTo \in {"thread", "nothing"}
    /\ replyPhase \in {"running", "done"}

\* What is on the screen goes no further than the answer, and the message that is
\* edited is the last one.
EndsInOrder ==
    /\ offset <= lastEnd /\ lastEnd <= text
    /\ current = 0 => offset = lastEnd
    /\ replyPhase = "running" /\ current # 0 => current = Len(screen)

\* The message that is edited shows the answer from the offset on.
CurrentShowsTheRest ==
    replyPhase = "running" /\ current # 0 => screen[current].range = DisplayText(offset, lastEnd)

\* Messages begin where the ones before them may end, and leave the thread for good.
ScreenInOrder ==
    /\ \A i \in DOMAIN screen : screen[i].range.from <= offset
    /\ \A i, j \in DOMAIN screen : i < j =>
          /\ screen[i].range.from <= screen[j].range.from
          /\ screen[j].thread => screen[i].thread
    /\ replyTo = "thread" => \A i \in DOMAIN screen : screen[i].thread

Fits == ~forgiven /\ text <= MaxLen - Reserve

\* What is before the offset stays shown whatever becomes of the current message.
FinishedIsShown ==
    Fits => \A piece \in 1 .. offset : \E m \in DOMAIN screen : m # current /\ Shows(m, piece)

WholeAtTheEnd == replyPhase = "done" /\ Fits => Shown(text)

ReplyInvariant ==
    /\ ReplyType /\ EndsInOrder /\ CurrentShowsTheRest /\ ScreenInOrder
    /\ FinishedIsShown /\ WholeAtTheEnd

\* The limits of a channel are numbers; some bytes are kept for the tool status.
LEMMA TextIsCut ==
    ASSUME ReplyAssumption, NEW a \in Nat, NEW b \in Nat, a <= b
    PROVE  /\ DisplayText(a, b) \in Ranges /\ FinalText(a, b) \in Ranges
           /\ DisplayText(a, b).from = a /\ FinalText(a, b).from = a
           /\ b <= MaxLen - Reserve => DisplayText(a, b).to = b /\ FinalText(a, b).to = b
BY DEF ReplyAssumption, DisplayText, FinalText, Least, Ranges

\* A message is sent: it comes last, and begins at the offset.
LEMMA SendingOne ==
    ASSUME ReplyAssumption, ReplyType, ScreenInOrder,
           NEW STATE range, range \in Ranges, range.from = offset, SendsTo(range, replyTo)
    PROVE  /\ screen' \in Seq(Messages) /\ replyTo' \in {"thread", "nothing"}
           /\ Len(screen') = Len(screen) + 1
           /\ DOMAIN screen \subseteq DOMAIN screen'
           /\ Len(screen') \in DOMAIN screen' /\ Len(screen') \notin DOMAIN screen
           /\ \A i \in DOMAIN screen : screen'[i] = screen[i]
           /\ screen'[Len(screen')].range = range
           /\ \A i \in DOMAIN screen' : screen'[i].range.from <= offset
           /\ \A i, j \in DOMAIN screen' : i < j =>
                 /\ screen'[i].range.from <= screen'[j].range.from
                 /\ screen'[j].thread => screen'[i].thread
           /\ replyTo' = "thread" => \A i \in DOMAIN screen' : screen'[i].thread
<1> DEFINE new == [range |-> range, thread |-> replyTo = "thread"]
<1>1. screen' = Append(screen, new) /\ replyTo' \in {replyTo, "nothing"}
  BY DEF SendsTo
<1>2. new \in Messages /\ new.range = range /\ new.thread = (replyTo = "thread")
  BY DEF Messages
<1>3. screen \in Seq(Messages) /\ replyTo \in {"thread", "nothing"} /\ offset \in Nat
  BY DEF ReplyType
<1> HIDE DEF new
<1>4. /\ screen' \in Seq(Messages) /\ Len(screen') = Len(screen) + 1
      /\ DOMAIN screen = 1 .. Len(screen) /\ DOMAIN screen' = 1 .. Len(screen) + 1 /\ Len(screen) \in Nat
      /\ \A i \in DOMAIN screen : screen'[i] = screen[i]
      /\ screen'[Len(screen')] = new
  BY <1>1, <1>2, <1>3
<1>5. \A i \in DOMAIN screen : screen[i] \in Messages
  BY <1>3
<1>6. /\ \A i \in DOMAIN screen : screen[i].range.from <= offset
      /\ \A i, j \in DOMAIN screen : i < j =>
            screen[i].range.from <= screen[j].range.from /\ (screen[j].thread => screen[i].thread)
      /\ replyTo = "thread" => \A i \in DOMAIN screen : screen[i].thread
  BY DEF ScreenInOrder
<1>7. \A i \in DOMAIN screen' : screen'[i].range.from <= offset
  BY <1>2, <1>3, <1>4, <1>6
<1>8. ASSUME NEW i \in DOMAIN screen', NEW j \in DOMAIN screen', i < j
      PROVE  screen'[i].range.from <= screen'[j].range.from /\ (screen'[j].thread => screen'[i].thread)
  <2>1. i \in DOMAIN screen
    BY <1>4, <1>8
  <2>2. CASE j \in DOMAIN screen
    BY <2>1, <2>2, <1>4, <1>6, <1>8
  <2>3. CASE j = Len(screen')
    BY <2>1, <2>3, <1>2, <1>4, <1>6
  <2> QED  BY <2>2, <2>3, <1>4
<1>9. ASSUME replyTo' = "thread", NEW i \in DOMAIN screen'
      PROVE  screen'[i].thread
  <2>1. replyTo = "thread"
    BY <1>1, <1>9
  <2>2. CASE i \in DOMAIN screen
    BY <2>1, <2>2, <1>4, <1>6
  <2>3. CASE i = Len(screen')
    BY <2>1, <2>3, <1>2, <1>4
  <2> QED  BY <2>2, <2>3, <1>4
<1>10. screen' \in Seq(Messages) /\ replyTo' \in {"thread", "nothing"}
  BY <1>1, <1>3, <1>4
<1>11. /\ Len(screen') = Len(screen) + 1 /\ DOMAIN screen \subseteq DOMAIN screen'
       /\ Len(screen') \in DOMAIN screen' /\ Len(screen') \notin DOMAIN screen
       /\ \A i \in DOMAIN screen : screen'[i] = screen[i]
       /\ screen'[Len(screen')].range = range
  BY <1>2, <1>4
<1> QED  BY <1>7, <1>8, <1>9, <1>10, <1>11

\* The current message is edited: it still begins at the offset, and no other changes.
LEMMA EditingOne ==
    ASSUME ReplyAssumption, ReplyType, EndsInOrder, ScreenInOrder, current # 0, replyPhase = "running",
           NEW STATE range, range \in Ranges, range.from = offset, Edit(current, range)
    PROVE  /\ screen' \in Seq(Messages)
           /\ DOMAIN screen' = DOMAIN screen /\ Len(screen') = Len(screen)
           /\ current \in DOMAIN screen
           /\ \A i \in DOMAIN screen : i # current => screen'[i] = screen[i]
           /\ screen'[current].range = range
           /\ \A i \in DOMAIN screen' : screen'[i].range.from <= offset
           /\ \A i, j \in DOMAIN screen' : i < j =>
                 /\ screen'[i].range.from <= screen'[j].range.from
                 /\ screen'[j].thread => screen'[i].thread
           /\ replyTo = "thread" => \A i \in DOMAIN screen' : screen'[i].thread
<1>1. screen' = [screen EXCEPT ![current].range = range]
  BY DEF Edit
<1>2. screen \in Seq(Messages) /\ current \in Nat /\ offset \in Nat /\ current = Len(screen)
  BY DEF ReplyType, EndsInOrder
<1>3. DOMAIN screen = 1 .. Len(screen) /\ current \in DOMAIN screen /\ \A i \in DOMAIN screen : screen[i] \in Messages
  BY <1>2
<1>4. /\ DOMAIN screen' = DOMAIN screen
      /\ \A i \in DOMAIN screen : i # current => screen'[i] = screen[i]
      /\ screen'[current] = [screen[current] EXCEPT !.range = range]
  BY <1>1, <1>3
<1>5. screen'[current] \in Messages /\ screen'[current].range = range /\ screen'[current].thread = screen[current].thread
  BY <1>3, <1>4 DEF Messages
<1>6. screen' \in Seq(Messages) /\ Len(screen') = Len(screen)
  <2>1. \A i \in DOMAIN screen : screen'[i] \in Messages
    BY <1>3, <1>4, <1>5
  <2>2. screen' = [i \in 1 .. Len(screen) |-> screen'[i]]
    BY <1>1, <1>3
  <2> QED  BY <1>2, <1>3, <1>4, <2>1, <2>2
<1>7. /\ \A i \in DOMAIN screen : screen[i].range.from <= offset
      /\ \A i, j \in DOMAIN screen : i < j =>
            screen[i].range.from <= screen[j].range.from /\ (screen[j].thread => screen[i].thread)
      /\ replyTo = "thread" => \A i \in DOMAIN screen : screen[i].thread
  BY DEF ScreenInOrder
<1>8. ASSUME NEW i \in DOMAIN screen
      PROVE  screen'[i].range.from <= offset /\ screen'[i].thread = screen[i].thread
  <2>1. CASE i = current
    BY <2>1, <1>2, <1>5
  <2>2. CASE i # current
    BY <2>2, <1>4, <1>7
  <2> QED  BY <2>1, <2>2
<1>9. ASSUME NEW i \in DOMAIN screen', NEW j \in DOMAIN screen', i < j
      PROVE  screen'[i].range.from <= screen'[j].range.from /\ (screen'[j].thread => screen'[i].thread)
  <2>1. i # current
    BY <1>2, <1>3, <1>4, <1>9
  <2>2. CASE j = current
    BY <2>1, <2>2, <1>4, <1>5, <1>7, <1>8, <1>9
  <2>3. CASE j # current
    BY <2>1, <2>3, <1>4, <1>7, <1>9
  <2> QED  BY <2>2, <2>3
<1> QED  BY <1>3, <1>4, <1>5, <1>6, <1>7, <1>8, <1>9

LEMMA BeginningsAreNumbers ==
    ASSUME NEW s \in Seq(Messages), NEW i \in DOMAIN s
    PROVE  s[i].range.from \in Nat
<1>1. s[i] \in Messages
  OBVIOUS
<1>2. s[i].range \in Ranges
  BY <1>1 DEF Messages
<1> QED  BY <1>2 DEF Ranges

\* What is shown may fail or grow too long, and does not become shorter or whole again.
Onward == (Fits' => Fits) /\ text <= text' /\ text' \in Nat

LEMMA CurrentShows ==
    ASSUME ReplyAssumption, ReplyInvariant, replyPhase = "running", Fits, NEW piece \in 1 .. lastEnd
    PROVE  \E m \in DOMAIN screen : Shows(m, piece)
<1> USE DEF ReplyInvariant
<1>1. offset \in Nat /\ lastEnd \in Nat /\ text \in Nat /\ offset <= lastEnd /\ lastEnd <= text /\ piece \in Nat
  BY DEF ReplyType, EndsInOrder
<1>2. CASE piece <= offset
  BY <1>1, <1>2 DEF FinishedIsShown
<1>3. CASE offset < piece
  <2>1. current # 0
    BY <1>1, <1>3 DEF EndsInOrder
  <2>2. screen[current].range = DisplayText(offset, lastEnd)
    BY <2>1 DEF CurrentShowsTheRest
  <2>3. DisplayText(offset, lastEnd).from = offset /\ DisplayText(offset, lastEnd).to = lastEnd
    BY <1>1, TextIsCut DEF Fits, ReplyAssumption
  <2>4. current \in DOMAIN screen
    BY <2>1 DEF ReplyType, EndsInOrder
  <2> QED  BY <1>1, <1>3, <2>2, <2>3, <2>4 DEF Shows
<1> QED  BY <1>1, <1>2, <1>3

LEMMA LastEdits ==
    ASSUME ReplyAssumption, ReplyInvariant, Onward, current # 0, replyPhase = "running",
           UNCHANGED <<editable, replyPhase>>, LastEdit(text')
    PROVE  ReplyInvariant'
<1> USE DEF ReplyInvariant
<1>1. /\ offset \in Nat /\ lastEnd \in Nat /\ text \in Nat /\ text' \in Nat
      /\ offset <= lastEnd /\ lastEnd <= text /\ text <= text' /\ current = Len(screen)
  BY DEF ReplyType, EndsInOrder, Onward
<1>2. /\ offset' = text' /\ lastEnd' = text' /\ current' = 0 /\ continuing' = TRUE /\ edits' = edits
      /\ replyTo' = replyTo
  BY DEF LastEdit, StartAnother
<1>3. EndsInOrder' /\ CurrentShowsTheRest' /\ WholeAtTheEnd'
  BY <1>1, <1>2 DEF EndsInOrder, CurrentShowsTheRest, WholeAtTheEnd
<1>4. CASE Edit(current, FinalText(offset, text')) /\ UNCHANGED <<sinkFaults, forgiven>>
  <2> DEFINE range == FinalText(offset, text')
  <2>1. range \in Ranges /\ range.from = offset /\ (text' <= MaxLen - Reserve => range.to = text')
    <3>1. offset <= text'
      BY <1>1
    <3> QED  BY <1>1, <3>1, TextIsCut
  <2>2. /\ screen' \in Seq(Messages) /\ DOMAIN screen' = DOMAIN screen /\ current \in DOMAIN screen
        /\ \A i \in DOMAIN screen : i # current => screen'[i] = screen[i]
        /\ screen'[current].range = range
        /\ \A i \in DOMAIN screen' : screen'[i].range.from <= offset
        /\ \A i, j \in DOMAIN screen' : i < j =>
              screen'[i].range.from <= screen'[j].range.from /\ (screen'[j].thread => screen'[i].thread)
        /\ replyTo = "thread" => \A i \in DOMAIN screen' : screen'[i].thread
    <3> HIDE DEF range, ReplyInvariant
    <3> QED  BY <1>4, <2>1, EditingOne DEF ReplyInvariant, range
  <2> HIDE DEF range
  <2>3. ReplyType'
    BY <1>1, <1>2, <1>4, <2>2 DEF ReplyType
  <2>4. ScreenInOrder'
    <3>1. \A i \in DOMAIN screen' : screen'[i].range.from <= offset'
      <4>1. \A i \in DOMAIN screen' : screen'[i].range.from \in Nat
        BY <2>2, BeginningsAreNumbers
      <4> QED  BY <1>1, <1>2, <2>2, <4>1
    <3> QED  BY <1>2, <2>2, <3>1 DEF ScreenInOrder
  <2>5. FinishedIsShown'
    <3> SUFFICES ASSUME Fits', NEW piece \in 1 .. text'
                 PROVE  \E m \in DOMAIN screen' : Shows(m, piece)' /\ m # 0
      BY <1>2, <2>2 DEF FinishedIsShown
    <3>1. Fits /\ text' <= MaxLen - Reserve
      BY DEF Onward, Fits
    <3>2. CASE piece <= offset
      <4>1. PICK m \in DOMAIN screen : m # current /\ Shows(m, piece)
        BY <1>1, <3>1, <3>2 DEF FinishedIsShown
      <4> QED  BY <2>2, <2>3, <4>1 DEF Shows, ReplyType
    <3>3. CASE offset < piece
      BY <1>1, <2>1, <2>2, <3>1, <3>3 DEF Shows
    <3> QED  BY <1>1, <3>2, <3>3
  <2> QED  BY <1>3, <2>3, <2>4, <2>5
<1>5. CASE Fault /\ forgiven' = TRUE /\ UNCHANGED screen
  <2>1. ReplyType'
    BY <1>1, <1>2, <1>5 DEF ReplyType, Fault, ReplyAssumption
  <2>2. \A i \in DOMAIN screen : screen[i].range.from \in Nat
    BY BeginningsAreNumbers DEF ReplyType
  <2>3. ScreenInOrder'
    BY <1>1, <1>2, <1>5, <2>2 DEF ScreenInOrder
  <2>4. FinishedIsShown'
    BY <1>5 DEF FinishedIsShown, Fits
  <2> QED  BY <1>3, <2>1, <2>3, <2>4
<1> QED  BY <1>4, <1>5 DEF LastEdit

LEMMA FailedEdits ==
    ASSUME ReplyAssumption, ReplyInvariant, Onward, current # 0, replyPhase = "running",
           UNCHANGED <<editable, replyPhase>>, FailedEdit(text')
    PROVE  ReplyInvariant'
<1> USE DEF ReplyInvariant
<1>1. /\ offset \in Nat /\ lastEnd \in Nat /\ text \in Nat /\ text' \in Nat
      /\ offset <= lastEnd /\ lastEnd <= text /\ text <= text'
  BY DEF ReplyType, EndsInOrder, Onward
<1>2. /\ offset' = lastEnd /\ lastEnd' = lastEnd /\ current' = 0 /\ continuing' = TRUE /\ edits' = edits
      /\ Fault /\ UNCHANGED <<screen, replyTo, forgiven>>
  BY DEF FailedEdit, StartAnother
<1>3. EndsInOrder' /\ CurrentShowsTheRest' /\ WholeAtTheEnd'
  BY <1>1, <1>2 DEF EndsInOrder, CurrentShowsTheRest, WholeAtTheEnd
<1>4. ReplyType'
  BY <1>1, <1>2 DEF ReplyType, Fault
<1>5. \A i \in DOMAIN screen : screen[i].range.from \in Nat
  BY BeginningsAreNumbers DEF ReplyType
<1>6. ScreenInOrder'
  BY <1>1, <1>2, <1>5 DEF ScreenInOrder
<1>7. FinishedIsShown'
  <2> SUFFICES ASSUME Fits', NEW piece \in 1 .. lastEnd
               PROVE  \E m \in DOMAIN screen : m # 0 /\ Shows(m, piece)
    BY <1>2 DEF FinishedIsShown, Shows
  <2>1. Fits
    BY DEF Onward
  <2>2. PICK m \in DOMAIN screen : Shows(m, piece)
    <3> HIDE DEF ReplyInvariant
    <3> QED  BY <2>1, CurrentShows
  <2> QED  BY <2>2 DEF ReplyType
<1> QED  BY <1>3, <1>4, <1>6, <1>7

LEMMA GoodEdits ==
    ASSUME ReplyAssumption, ReplyInvariant, Onward, current # 0, replyPhase = "running",
           UNCHANGED <<editable, replyPhase>>, GoodEdit(text')
    PROVE  ReplyInvariant'
<1> USE DEF ReplyInvariant
<1>1. /\ offset \in Nat /\ lastEnd \in Nat /\ text \in Nat /\ text' \in Nat
      /\ offset <= lastEnd /\ lastEnd <= text /\ text <= text' /\ current = Len(screen)
  BY DEF ReplyType, EndsInOrder, Onward
<1>2. /\ Edit(current, DisplayText(offset, text')) /\ edits' = edits + 1 /\ lastEnd' = text'
      /\ UNCHANGED <<offset, current, continuing, replyTo, sinkFaults, forgiven>>
  BY DEF GoodEdit
<1> DEFINE range == DisplayText(offset, text')
<1>3. range \in Ranges /\ range.from = offset
  BY <1>1, TextIsCut
<1>4. /\ screen' \in Seq(Messages) /\ DOMAIN screen' = DOMAIN screen /\ Len(screen') = Len(screen)
      /\ current \in DOMAIN screen
      /\ \A i \in DOMAIN screen : i # current => screen'[i] = screen[i]
      /\ screen'[current].range = range
      /\ \A i \in DOMAIN screen' : screen'[i].range.from <= offset
      /\ \A i, j \in DOMAIN screen' : i < j =>
            screen'[i].range.from <= screen'[j].range.from /\ (screen'[j].thread => screen'[i].thread)
      /\ replyTo = "thread" => \A i \in DOMAIN screen' : screen'[i].thread
  <2> HIDE DEF range, ReplyInvariant
  <2> QED  BY <1>2, <1>3, EditingOne DEF ReplyInvariant, range
<1>5. CurrentShowsTheRest'
  BY <1>2, <1>4 DEF CurrentShowsTheRest, DisplayText
<1> HIDE DEF range
<1>6. ReplyType' /\ EndsInOrder' /\ WholeAtTheEnd'
  BY <1>1, <1>2, <1>4 DEF ReplyType, EndsInOrder, WholeAtTheEnd
<1>7. ScreenInOrder'
  BY <1>2, <1>4 DEF ScreenInOrder
<1>8. FinishedIsShown'
  <2> SUFFICES ASSUME Fits', NEW piece \in 1 .. offset
               PROVE  \E m \in DOMAIN screen' : m # current /\ Shows(m, piece)'
    BY <1>2 DEF FinishedIsShown
  <2>1. PICK m \in DOMAIN screen : m # current /\ Shows(m, piece)
    BY DEF FinishedIsShown, Onward
  <2> QED  BY <1>4, <2>1 DEF Shows
<1> QED  BY <1>5, <1>6, <1>7, <1>8

LEMMA NothingMoves ==
    ASSUME ReplyAssumption, ReplyInvariant, Onward, replyPhase = "running",
           UNCHANGED <<editable, replyPhase, offset, lastEnd, current, continuing, screen, replyTo>>,
           edits' \in Nat, sinkFaults' \in Nat, UNCHANGED forgiven
    PROVE  ReplyInvariant'
<1> USE DEF ReplyInvariant
<1>1. ReplyType' /\ EndsInOrder' /\ CurrentShowsTheRest' /\ WholeAtTheEnd'
  BY DEF ReplyType, EndsInOrder, CurrentShowsTheRest, WholeAtTheEnd, Onward
<1>2. ScreenInOrder'
  BY DEF ScreenInOrder
<1>3. FinishedIsShown'
  BY DEF FinishedIsShown, Onward, Shows
<1> QED  BY <1>1, <1>2, <1>3

LEMMA FirstSends ==
    ASSUME ReplyAssumption, ReplyInvariant, Onward, current = 0, replyPhase = "running",
           UNCHANGED <<editable, replyPhase>>, FirstSend(text')
    PROVE  ReplyInvariant'
<1>1. /\ offset \in Nat /\ lastEnd \in Nat /\ text \in Nat /\ text' \in Nat
      /\ offset = lastEnd /\ lastEnd <= text /\ text <= text'
  BY DEF ReplyInvariant, ReplyType, EndsInOrder, Onward
<1>2. CASE /\ Fault
           /\ UNCHANGED <<offset, lastEnd, current, edits, continuing, screen, replyTo, forgiven>>
  <2>1. edits' \in Nat /\ sinkFaults' \in Nat
    BY <1>2 DEF Fault, ReplyInvariant, ReplyType
  <2> QED  BY <1>2, <2>1, NothingMoves
<1>3. CASE /\ SendsTo(DisplayText(offset, text'), replyTo)
           /\ current' = Len(screen') /\ edits' = 0 /\ continuing' = FALSE /\ lastEnd' = text'
           /\ UNCHANGED <<offset, sinkFaults, forgiven>>
  <2> DEFINE range == DisplayText(offset, text')
  <2>1. range \in Ranges /\ range.from = offset
    <3>1. offset <= text'
      BY <1>1
    <3> QED  BY <1>1, <3>1, TextIsCut
  <2>2. /\ screen' \in Seq(Messages) /\ replyTo' \in {"thread", "nothing"}
        /\ DOMAIN screen \subseteq DOMAIN screen'
        /\ Len(screen') \in DOMAIN screen' /\ Len(screen') \notin DOMAIN screen
        /\ \A i \in DOMAIN screen : screen'[i] = screen[i]
        /\ screen'[Len(screen')].range = range
        /\ \A i \in DOMAIN screen' : screen'[i].range.from <= offset
        /\ \A i, j \in DOMAIN screen' : i < j =>
              screen'[i].range.from <= screen'[j].range.from /\ (screen'[j].thread => screen'[i].thread)
        /\ replyTo' = "thread" => \A i \in DOMAIN screen' : screen'[i].thread
    <3>1. SendsTo(range, replyTo)
      BY <1>3
    <3> HIDE DEF range
    <3> QED  BY <2>1, <3>1, SendingOne DEF ReplyInvariant
  <2>3. CurrentShowsTheRest'
    BY <1>3, <2>2 DEF CurrentShowsTheRest, DisplayText
  <2> HIDE DEF range
  <2>4. ReplyType' /\ EndsInOrder' /\ WholeAtTheEnd'
    <3>1. screen \in Seq(Messages) /\ current' \in Nat
      BY <1>3, <2>2 DEF ReplyInvariant, ReplyType
    <3>2. ReplyType'
      BY <1>1, <1>3, <2>2, <3>1 DEF ReplyInvariant, ReplyType
    <3> QED  BY <1>1, <1>3, <2>2, <3>2 DEF EndsInOrder, WholeAtTheEnd
  <2>5. ScreenInOrder'
    BY <1>3, <2>2 DEF ScreenInOrder
  <2>6. FinishedIsShown'
    <3> SUFFICES ASSUME Fits', NEW piece \in 1 .. offset
                 PROVE  \E m \in DOMAIN screen' : m # Len(screen') /\ Shows(m, piece)'
      BY <1>3 DEF FinishedIsShown
    <3>1. PICK m \in DOMAIN screen : Shows(m, piece)
      BY DEF FinishedIsShown, Onward, ReplyInvariant
    <3> QED  BY <2>2, <3>1 DEF Shows
  <2> QED  BY <2>3, <2>4, <2>5, <2>6 DEF ReplyInvariant
<1> QED  BY <1>2, <1>3 DEF FirstSend

LEMMA TryEdits ==
    ASSUME ReplyAssumption, ReplyInvariant, Onward, current # 0, replyPhase = "running",
           UNCHANGED <<editable, replyPhase>>, TryEdit(text')
    PROVE  ReplyInvariant'
BY LastEdits, GoodEdits, FailedEdits DEF TryEdit

\* Text only grows, and what failed stays failed.
LEMMA FailuresStay ==
    ASSUME ReplyAssumption, ReplyInvariant, text' \in Nat, text <= text', forgiven => forgiven'
    PROVE  Onward
BY DEF Onward, Fits, ReplyInvariant, ReplyType, ReplyAssumption

LEMMA DeltaSteps == ASSUME ReplyAssumption, ReplyInvariant, Delta PROVE ReplyInvariant'
<1>1. /\ replyPhase = "running" /\ text' = text + 1 /\ UNCHANGED <<editable, replyPhase>>
  BY DEF Delta
<1>2. text \in Nat /\ edits \in Nat /\ sinkFaults \in Nat
  BY DEF ReplyInvariant, ReplyType
<1>3. Onward
  <2>1. forgiven => forgiven'
    BY DEF Delta, NothingToDo, FirstSend, TryEdit, LastEdit, GoodEdit, FailedEdit
  <2> QED  BY <1>1, <1>2, <2>1, FailuresStay
<1>4. CASE NothingToDo
  BY <1>1, <1>2, <1>3, <1>4, NothingMoves DEF NothingToDo
<1>5. CASE current = 0 /\ FirstSend(text')
  BY <1>1, <1>3, <1>5, FirstSends
<1>6. CASE current # 0 /\ TryEdit(text')
  BY <1>1, <1>3, <1>6, TryEdits
<1> QED  BY <1>4, <1>5, <1>6 DEF Delta

LEMMA ToolSteps == ASSUME ReplyAssumption, ReplyInvariant, ToolEvent PROVE ReplyInvariant'
<1>1. current # 0 /\ TryEdit(text) /\ replyPhase = "running" /\ UNCHANGED <<editable, text, replyPhase>>
  BY DEF ToolEvent
<1>2. TryEdit(text')
  BY <1>1 DEF TryEdit, LastEdit, GoodEdit, FailedEdit, StartAnother
<1>3. forgiven => forgiven'
  BY <1>1 DEF TryEdit, LastEdit, GoodEdit, FailedEdit
<1>4. Onward
  BY <1>1, <1>3, FailuresStay DEF ReplyInvariant, ReplyType
<1> QED  BY <1>1, <1>2, <1>4, TryEdits

LEMMA FinishSteps == ASSUME ReplyAssumption, ReplyInvariant, Finish PROVE ReplyInvariant'
<1>1. /\ replyPhase = "running" /\ replyPhase' = "done"
      /\ UNCHANGED <<editable, text, offset, lastEnd, current, edits, continuing>>
  BY DEF Finish
<1>2. /\ offset \in Nat /\ lastEnd \in Nat /\ text \in Nat /\ offset <= lastEnd /\ lastEnd <= text
      /\ offset <= text
  BY DEF ReplyInvariant, ReplyType, EndsInOrder
<1> DEFINE range == FinalText(offset, text)
<1>3. range \in Ranges /\ range.from = offset /\ (text <= MaxLen - Reserve => range.to = text)
  BY <1>2, TextIsCut
<1>4. CASE /\ UNCHANGED <<screen, replyTo>> /\ sinkFaults' \in Nat /\ forgiven' \in BOOLEAN
           /\ (forgiven => forgiven') /\ (text = offset \/ forgiven')
  <2>1. ReplyType' /\ EndsInOrder' /\ CurrentShowsTheRest'
    BY <1>1, <1>4 DEF ReplyInvariant, ReplyType, EndsInOrder, CurrentShowsTheRest
  <2>2. ScreenInOrder'
    BY <1>1, <1>4 DEF ReplyInvariant, ScreenInOrder
  <2>3. FinishedIsShown'
    BY <1>1, <1>4 DEF ReplyInvariant, FinishedIsShown, Fits, Shows
  <2>4. WholeAtTheEnd'
    BY <1>1, <1>4, <2>3 DEF WholeAtTheEnd, FinishedIsShown, Fits, Shown, Shows
  <2> QED  BY <2>1, <2>2, <2>3, <2>4 DEF ReplyInvariant
<1>5. CASE SendsTo(range, replyTo) /\ sinkFaults' \in Nat /\ forgiven' \in BOOLEAN /\ (forgiven => forgiven')
  <2>1. /\ screen' \in Seq(Messages) /\ replyTo' \in {"thread", "nothing"}
        /\ Len(screen') = Len(screen) + 1
        /\ DOMAIN screen \subseteq DOMAIN screen'
        /\ Len(screen') \in DOMAIN screen' /\ Len(screen') \notin DOMAIN screen
        /\ \A i \in DOMAIN screen : screen'[i] = screen[i]
        /\ screen'[Len(screen')].range = range
        /\ \A i \in DOMAIN screen' : screen'[i].range.from <= offset
        /\ \A i, j \in DOMAIN screen' : i < j =>
              screen'[i].range.from <= screen'[j].range.from /\ (screen'[j].thread => screen'[i].thread)
        /\ replyTo' = "thread" => \A i \in DOMAIN screen' : screen'[i].thread
    <3> HIDE DEF range
    <3> QED  BY <1>3, <1>5, SendingOne DEF ReplyInvariant
  <2> HIDE DEF range
  <2>2. ReplyType' /\ EndsInOrder' /\ CurrentShowsTheRest'
    BY <1>1, <1>5, <2>1 DEF ReplyInvariant, ReplyType, EndsInOrder, CurrentShowsTheRest
  <2>3. ScreenInOrder'
    BY <1>1, <2>1 DEF ScreenInOrder
  <2>4. ASSUME Fits', NEW piece \in 1 .. offset
        PROVE  \E m \in DOMAIN screen' : m # current /\ Shows(m, piece)'
    <3>1. PICK m \in DOMAIN screen : m # current /\ Shows(m, piece)
      BY <1>1, <1>5, <2>4 DEF ReplyInvariant, FinishedIsShown, Fits
    <3> QED  BY <2>1, <3>1 DEF Shows
  <2>5. FinishedIsShown'
    BY <1>1, <2>4 DEF FinishedIsShown
  <2>6. WholeAtTheEnd'
    <3> SUFFICES ASSUME Fits', NEW piece \in 1 .. text
                 PROVE  \E m \in DOMAIN screen' : Shows(m, piece)'
      BY <1>1 DEF WholeAtTheEnd, Shown
    <3>1. CASE piece <= offset
      BY <1>2, <2>4, <3>1
    <3>2. CASE offset < piece
      BY <1>1, <1>2, <1>3, <2>1, <3>2 DEF Shows, Fits
    <3> QED  BY <1>2, <3>1, <3>2
  <2> QED  BY <2>2, <2>3, <2>5, <2>6 DEF ReplyInvariant
<1>6. CASE current # 0 /\ FinishEdit
  <2>1. Edit(current, range) /\ UNCHANGED <<replyTo, sinkFaults, forgiven>>
    BY <1>6 DEF FinishEdit
  <2>2. /\ screen' \in Seq(Messages) /\ DOMAIN screen' = DOMAIN screen /\ Len(screen') = Len(screen)
        /\ current \in DOMAIN screen
        /\ \A i \in DOMAIN screen : i # current => screen'[i] = screen[i]
        /\ screen'[current].range = range
        /\ \A i \in DOMAIN screen' : screen'[i].range.from <= offset
        /\ \A i, j \in DOMAIN screen' : i < j =>
              screen'[i].range.from <= screen'[j].range.from /\ (screen'[j].thread => screen'[i].thread)
        /\ replyTo = "thread" => \A i \in DOMAIN screen' : screen'[i].thread
    <3> HIDE DEF range
    <3> QED  BY <1>1, <1>3, <1>6, <2>1, EditingOne DEF ReplyInvariant
  <2> HIDE DEF range
  <2>3. ReplyType' /\ EndsInOrder' /\ CurrentShowsTheRest'
    BY <1>1, <2>1, <2>2 DEF ReplyInvariant, ReplyType, EndsInOrder, CurrentShowsTheRest
  <2>4. ScreenInOrder'
    BY <1>1, <2>1, <2>2 DEF ScreenInOrder
  <2>5. ASSUME Fits', NEW piece \in 1 .. offset
        PROVE  \E m \in DOMAIN screen' : m # current /\ Shows(m, piece)'
    <3>1. PICK m \in DOMAIN screen : m # current /\ Shows(m, piece)
      BY <1>1, <2>1, <2>5 DEF ReplyInvariant, FinishedIsShown, Fits
    <3> QED  BY <2>2, <3>1 DEF Shows
  <2>6. FinishedIsShown'
    BY <1>1, <2>5 DEF FinishedIsShown
  <2>7. WholeAtTheEnd'
    <3> SUFFICES ASSUME Fits', NEW piece \in 1 .. text
                 PROVE  \E m \in DOMAIN screen' : Shows(m, piece)'
      BY <1>1 DEF WholeAtTheEnd, Shown
    <3>1. CASE piece <= offset
      BY <1>2, <2>5, <3>1
    <3>2. CASE offset < piece
      BY <1>1, <1>2, <1>3, <2>2, <3>2 DEF Shows, Fits
    <3> QED  BY <1>2, <3>1, <3>2
  <2> QED  BY <2>3, <2>4, <2>6, <2>7 DEF ReplyInvariant
<1>7. sinkFaults \in Nat /\ forgiven \in BOOLEAN /\ screen \in Seq(Messages) /\ (Fault => sinkFaults' \in Nat)
  BY DEF ReplyInvariant, ReplyType, Fault
<1>8. CASE FinishResend
  <2>1. Fault /\ forgiven' = (forgiven \/ screen' = screen) /\ (SendsTo(range, replyTo) \/ UNCHANGED <<screen, replyTo>>)
    BY <1>8 DEF FinishResend
  <2> HIDE DEF range
  <2> QED  BY <1>4, <1>5, <1>7, <2>1
<1>9. CASE SendRest
  <2>1. \/ SendsTo(range, replyTo) /\ UNCHANGED <<sinkFaults, forgiven>>
        \/ Fault /\ forgiven' = TRUE /\ UNCHANGED <<screen, replyTo>>
    BY <1>9 DEF SendRest
  <2> HIDE DEF range
  <2> QED  BY <1>4, <1>5, <1>7, <2>1
<1>10. CASE text = offset /\ UNCHANGED <<screen, replyTo, sinkFaults, forgiven>>
  BY <1>4, <1>7, <1>10
<1> QED  BY <1>6, <1>8, <1>9, <1>10 DEF Finish

LEMMA ReplyBegins == ASSUME ReplyInit PROVE ReplyInvariant
<1> USE DEF ReplyInit
<1>1. ReplyType
  <2>1. screen \in Seq(Messages)
    OBVIOUS
  <2>2. editable \in BOOLEAN /\ continuing \in BOOLEAN /\ forgiven \in BOOLEAN
    OBVIOUS
  <2> QED  BY <2>1, <2>2 DEF ReplyType
<1>2. EndsInOrder
  BY DEF EndsInOrder
<1>3. CurrentShowsTheRest /\ ScreenInOrder /\ FinishedIsShown /\ WholeAtTheEnd
  BY DEF CurrentShowsTheRest, ScreenInOrder, FinishedIsShown, WholeAtTheEnd
<1> QED  BY <1>1, <1>2, <1>3 DEF ReplyInvariant

LEMMA ReplySteps == ASSUME ReplyAssumption, ReplyInvariant, [ReplyNext]_replyVars PROVE ReplyInvariant'
<1>1. CASE UNCHANGED replyVars
  BY <1>1 DEF replyVars, ReplyInvariant, ReplyType, EndsInOrder, CurrentShowsTheRest, ScreenInOrder,
              FinishedIsShown, WholeAtTheEnd, Fits, Shown, Shows
<1> QED  BY <1>1, DeltaSteps, ToolSteps, FinishSteps DEF ReplyNext

\* An answer shorter than a message is whole on the screen when its run is over, its
\* messages in order, and those outside the thread after those in it, whatever edits
\* fail or run out (delivery/stream.rs); for any limits and any number of faults.
THEOREM AnswersAreShown == ReplySpec => []AnswerIsShown
<1>1. ReplyInvariant => AnswerIsShown
  BY DEF ReplyInvariant, AnswerIsShown, WholeAtTheEnd, ScreenInOrder, Fits
<1> QED  BY <1>1, ReplyBegins, ReplySteps, ReplyAssumption, PTL DEF ReplySpec

-----------------------------------------------------------------------------
(* The token the requests share.                                             *)

Stages == {"idle", "token", "fetching", "storing", "sending", "ok", "failed"}
Calls  == [kind : RequestKinds, stage : Stages, second : BOOLEAN, token : Nat, pages : Nat]

TokenType ==
    /\ issued \in Nat /\ cached \in Nat /\ netFaults \in Nat
    /\ request \in [Callers -> Calls]
    /\ cached <= issued /\ \A c \in Callers : request[c].token <= issued

\* What a request that nothing disturbed relies on: the token it has fetched is the
\* newest, and so is the one it tries the second time; a refusal has emptied the
\* cache, and no old token has come back since.
Undisturbed(c) ==
    /\ At(c, "storing") => request[c].token = issued
    /\ At(c, "token") /\ request[c].second => cached \in {0, issued}
    /\ At(c, "sending") /\ request[c].second => request[c].token = issued
    /\ At(c, "failed") => ~request[c].kind.again

TokenInvariant ==
    /\ TokenType
    /\ \A c \in Callers : At(c, "idle") => ~request[c].second
    /\ \A c \in Callers : c \notin disturbed => Undisturbed(c)

\* One caller moves: the others stand where they did, and may rely on what they did
\* unless they are disturbed.
LEMMA OneMoves ==
    ASSUME TokenInvariant, NEW c \in Callers,
           request' \in [Callers -> Calls], \A d \in Callers : d # c => request'[d] = request[d],
           issued' = issued, cached' \in Nat, cached' <= issued, netFaults' \in Nat, disturbed \subseteq disturbed',
           request'[c].token <= issued, ~At(c, "idle")', c \notin disturbed' => Undisturbed(c)',
           cached' \in {cached, 0, issued} \/ Running \ {c} \subseteq disturbed'
    PROVE  TokenInvariant'
<1>1. TokenType'
  BY DEF TokenInvariant, TokenType
<1>2. ASSUME NEW d \in Callers, At(d, "idle")'
      PROVE  ~request'[d].second
  BY <1>2 DEF TokenInvariant, At
<1>3. ASSUME NEW d \in Callers, d \notin disturbed'
      PROVE  Undisturbed(d)'
  <2>1. CASE d = c
    BY <1>3, <2>1
  <2>2. CASE d # c
    <3>1. request'[d] = request[d] /\ Undisturbed(d)
      BY <1>3, <2>2 DEF TokenInvariant
    <3>2. CASE d \in Running
      <4>1. cached' \in {cached, 0, issued}
        BY <1>3, <2>2, <3>2
      <4> QED  BY <3>1, <4>1 DEF Undisturbed, At
    <3>3. CASE d \notin Running
      BY <3>1, <3>3 DEF Undisturbed, At, Running
    <3> QED  BY <3>2, <3>3
  <2> QED  BY <2>1, <2>2
<1> QED  BY <1>1, <1>2, <1>3 DEF TokenInvariant

\* A call with some of its fields changed.
LEMMA CallsChange ==
    ASSUME NEW call \in Calls, NEW stage \in Stages, NEW kind \in RequestKinds, NEW token \in Nat, NEW second \in BOOLEAN
    PROVE  /\ [call EXCEPT !.stage = stage] \in Calls
           /\ [call EXCEPT !.kind = kind, !.stage = stage] \in Calls
           /\ [call EXCEPT !.stage = stage, !.token = token] \in Calls
           /\ [call EXCEPT !.stage = stage, !.second = second] \in Calls
           /\ [call EXCEPT !.stage = stage, !.second = second, !.pages = @ + 1] \in Calls
<1>1. [call EXCEPT !.stage = stage] \in Calls
  BY DEF Calls
<1>2. [call EXCEPT !.kind = kind, !.stage = stage] \in Calls
  BY DEF Calls
<1>3. [call EXCEPT !.stage = stage, !.token = token] \in Calls
  BY DEF Calls
<1>4. [call EXCEPT !.stage = stage, !.second = second] \in Calls
  BY DEF Calls
<1>5. [call EXCEPT !.stage = stage, !.second = second, !.pages = @ + 1] \in Calls
  <2>1. ASSUME NEW pages \in Nat
        PROVE  [call EXCEPT !.stage = stage, !.second = second, !.pages = pages] \in Calls
    BY DEF Calls
  <2>2. call.pages + 1 \in Nat
    BY DEF Calls
  <2> QED  BY <2>1, <2>2
<1> QED  BY <1>1, <1>2, <1>3, <1>4, <1>5

\* The table of requests with one call changed.
LEMMA CallIsChanged ==
    ASSUME NEW table \in [Callers -> Calls], NEW c \in Callers, NEW call \in Calls
    PROVE  LET changed == [table EXCEPT ![c] = call]
           IN  /\ changed \in [Callers -> Calls] /\ changed[c] = call
               /\ \A d \in Callers : d # c => changed[d] = table[d]
OBVIOUS

LEMMA CallerSteps ==
    ASSUME TokenInvariant, NEW c \in Callers,
           \/ Begin(c) \/ GetToken(c) \/ FetchToken(c) \/ StoreToken(c)
           \/ Accepted(c) \/ Refused(c) \/ Lost(c)
    PROVE  TokenInvariant'
<1> DEFINE Moved(stage) ==
             /\ request' \in [Callers -> Calls]
             /\ \A d \in Callers : d # c => request'[d] = request[d]
             /\ request'[c].stage = stage
<1>1. /\ TokenType /\ (At(c, "idle") => ~request[c].second) /\ (c \notin disturbed => Undisturbed(c))
      /\ issued \in Nat /\ cached \in Nat /\ netFaults \in Nat /\ request[c].token \in Nat
      /\ request[c].token <= issued /\ request[c].kind \in RequestKinds /\ request[c].second \in BOOLEAN
      /\ request \in [Callers -> Calls] /\ request[c] \in Calls /\ cached <= issued
  BY DEF TokenInvariant, TokenType, Calls
<1>2. CASE Begin(c)
  <2>1. PICK k \in RequestKinds : request' = [request EXCEPT ![c].kind = k, ![c].stage = "token"]
    BY <1>2 DEF Begin
  <2>2. "token" \in Stages
    BY DEF Stages
  <2>3. Moved("token") /\ request'[c].token = request[c].token /\ request'[c].second = request[c].second
    <3> DEFINE call == [request[c] EXCEPT !.kind = k, !.stage = "token"]
    <3>1. request' = [request EXCEPT ![c] = call]
      BY <1>1, <2>1, <2>2
    <3>2. call \in Calls
      BY <1>1, <2>1, <2>2, CallsChange
    <3>3. request' \in [Callers -> Calls] /\ request'[c] = call /\ \A d \in Callers : d # c => request'[d] = request[d]
      <4> HIDE DEF call
      <4> QED  BY <1>1, <3>1, <3>2, CallIsChanged
    <3> QED  BY <1>1, <3>3 DEF Calls
  <2>4. At(c, "idle") /\ UNCHANGED <<issued, cached, disturbed, netFaults>>
    BY <1>2 DEF Begin
  <2>5. ~At(c, "idle")' /\ Undisturbed(c)'
    BY <1>1, <2>3, <2>4 DEF At, Undisturbed
  <2> QED  BY <1>1, <2>3, <2>4, <2>5, OneMoves
<1>3. CASE GetToken(c)
  <2>1. At(c, "token") /\ UNCHANGED <<issued, cached, disturbed, netFaults>>
    BY <1>3 DEF GetToken
  <2>2. CASE cached # 0 /\ request' = [request EXCEPT ![c].stage = "sending", ![c].token = cached]
    <3>1. "sending" \in Stages
      BY DEF Stages
    <3>2. Moved("sending") /\ request'[c].token = cached /\ request'[c].second = request[c].second
      <4> DEFINE call == [request[c] EXCEPT !.stage = "sending", !.token = cached]
      <4>1. request' = [request EXCEPT ![c] = call]
        BY <1>1, <2>2, <3>1
      <4>2. call \in Calls
        BY <1>1, <2>2, <3>1, CallsChange
      <4>3. request' \in [Callers -> Calls] /\ request'[c] = call /\ \A d \in Callers : d # c => request'[d] = request[d]
        <5> HIDE DEF call
        <5> QED  BY <1>1, <4>1, <4>2, CallIsChanged
      <4> QED  BY <1>1, <4>3 DEF Calls
    <3>3. ~At(c, "idle")' /\ (c \notin disturbed' => Undisturbed(c)')
      BY <1>1, <2>1, <2>2, <3>2 DEF At, Undisturbed
    <3> QED  BY <1>1, <2>1, <3>2, <3>3, OneMoves
  <2>3. CASE To(c, "fetching")
    <3>1. "fetching" \in Stages
      BY DEF Stages
    <3>2. Moved("fetching") /\ request'[c].token = request[c].token
      <4> DEFINE call == [request[c] EXCEPT !.stage = "fetching"]
      <4>1. request' = [request EXCEPT ![c] = call]
        BY <1>1, <2>3, <3>1 DEF To
      <4>2. call \in Calls
        BY <1>1, <2>3, <3>1, CallsChange
      <4>3. request' \in [Callers -> Calls] /\ request'[c] = call /\ \A d \in Callers : d # c => request'[d] = request[d]
        <5> HIDE DEF call
        <5> QED  BY <1>1, <4>1, <4>2, CallIsChanged
      <4> QED  BY <1>1, <4>3 DEF Calls
    <3>3. ~At(c, "idle")' /\ Undisturbed(c)'
      BY <3>2 DEF At, Undisturbed
    <3> QED  BY <1>1, <2>1, <3>2, <3>3, OneMoves
  <2> QED  BY <1>3, <2>2, <2>3 DEF GetToken
<1>4. CASE FetchToken(c)
  <2>1. /\ request' = [request EXCEPT ![c].stage = "storing", ![c].token = issued]
        /\ UNCHANGED <<issued, cached, disturbed, netFaults>>
    BY <1>4 DEF FetchToken
  <2>2. "storing" \in Stages
    BY DEF Stages
  <2>3. Moved("storing") /\ request'[c].token = issued
    <3> DEFINE call == [request[c] EXCEPT !.stage = "storing", !.token = issued]
    <3>1. request' = [request EXCEPT ![c] = call]
      BY <1>1, <2>1, <2>2
    <3>2. call \in Calls
      BY <1>1, <2>1, <2>2, CallsChange
    <3>3. request' \in [Callers -> Calls] /\ request'[c] = call /\ \A d \in Callers : d # c => request'[d] = request[d]
      <4> HIDE DEF call
      <4> QED  BY <1>1, <3>1, <3>2, CallIsChanged
    <3> QED  BY <1>1, <3>3 DEF Calls
  <2>4. ~At(c, "idle")' /\ Undisturbed(c)'
    BY <2>1, <2>3 DEF At, Undisturbed
  <2> QED  BY <1>1, <2>1, <2>3, <2>4, OneMoves
<1>5. CASE StoreToken(c)
  <2>1. /\ At(c, "storing") /\ cached' = request[c].token /\ To(c, "sending")
        /\ disturbed' = IF request[c].token < issued THEN disturbed \cup (Running \ {c}) ELSE disturbed
        /\ UNCHANGED <<issued, netFaults>>
    BY <1>5 DEF StoreToken
  <2>2. "sending" \in Stages
    BY DEF Stages
  <2>3. Moved("sending") /\ request'[c].token = request[c].token
    <3> DEFINE call == [request[c] EXCEPT !.stage = "sending"]
    <3>1. request' = [request EXCEPT ![c] = call]
      BY <1>1, <2>1, <2>2 DEF To
    <3>2. call \in Calls
      BY <1>1, <2>1, <2>2, CallsChange
    <3>3. request' \in [Callers -> Calls] /\ request'[c] = call /\ \A d \in Callers : d # c => request'[d] = request[d]
      <4> HIDE DEF call
      <4> QED  BY <1>1, <3>1, <3>2, CallIsChanged
    <3> QED  BY <1>1, <3>3 DEF Calls
  <2>4. disturbed \subseteq disturbed' /\ (cached' \in {cached, 0, issued} \/ Running \ {c} \subseteq disturbed')
    BY <1>1, <2>1
  <2>5. ~At(c, "idle")' /\ (c \notin disturbed' => Undisturbed(c)')
    BY <1>1, <2>1, <2>3, <2>4 DEF At, Undisturbed
  <2> QED  BY <1>1, <2>1, <2>3, <2>4, <2>5, OneMoves
<1>6. CASE Accepted(c)
  <2>1. UNCHANGED <<issued, cached, disturbed, netFaults>>
    BY <1>6 DEF Accepted
  <2>2. CASE To(c, "ok")
    <3>1. "ok" \in Stages
      BY DEF Stages
    <3>2. Moved("ok") /\ request'[c].token = request[c].token
      <4> DEFINE call == [request[c] EXCEPT !.stage = "ok"]
      <4>1. request' = [request EXCEPT ![c] = call]
        BY <1>1, <2>2, <3>1 DEF To
      <4>2. call \in Calls
        BY <1>1, <2>2, <3>1, CallsChange
      <4>3. request' \in [Callers -> Calls] /\ request'[c] = call /\ \A d \in Callers : d # c => request'[d] = request[d]
        <5> HIDE DEF call
        <5> QED  BY <1>1, <4>1, <4>2, CallIsChanged
      <4> QED  BY <1>1, <4>3 DEF Calls
    <3>3. ~At(c, "idle")' /\ Undisturbed(c)'
      BY <3>2 DEF At, Undisturbed
    <3> QED  BY <1>1, <2>1, <3>2, <3>3, OneMoves
  <2>3. CASE request' = [request EXCEPT ![c].stage = "token", ![c].second = FALSE, ![c].pages = @ + 1]
    <3>1. "token" \in Stages /\ FALSE \in BOOLEAN
      BY DEF Stages
    <3>2. Moved("token") /\ request'[c].token = request[c].token /\ request'[c].second = FALSE
      <4> DEFINE call == [request[c] EXCEPT !.stage = "token", !.second = FALSE, !.pages = @ + 1]
      <4>1. request' = [request EXCEPT ![c] = call]
        BY <1>1, <2>3, <3>1
      <4>2. call \in Calls
        BY <1>1, <2>3, <3>1, CallsChange
      <4>3. request' \in [Callers -> Calls] /\ request'[c] = call /\ \A d \in Callers : d # c => request'[d] = request[d]
        <5> HIDE DEF call
        <5> QED  BY <1>1, <4>1, <4>2, CallIsChanged
      <4> QED  BY <1>1, <4>3 DEF Calls
    <3>3. ~At(c, "idle")' /\ Undisturbed(c)'
      BY <3>2 DEF At, Undisturbed
    <3> QED  BY <1>1, <2>1, <3>2, <3>3, OneMoves
  <2> QED  BY <1>6, <2>2, <2>3 DEF Accepted
<1>7. CASE Refused(c)
  <2>1. At(c, "sending") /\ request[c].token # issued /\ UNCHANGED <<issued, disturbed, netFaults>>
    BY <1>7 DEF Refused
  <2>2. CASE cached' = 0 /\ request' = [request EXCEPT ![c].stage = "token", ![c].second = TRUE]
    <3>1. "token" \in Stages /\ TRUE \in BOOLEAN
      BY DEF Stages
    <3>2. Moved("token") /\ request'[c].token = request[c].token
      <4> DEFINE call == [request[c] EXCEPT !.stage = "token", !.second = TRUE]
      <4>1. request' = [request EXCEPT ![c] = call]
        BY <1>1, <2>2, <3>1
      <4>2. call \in Calls
        BY <1>1, <2>2, <3>1, CallsChange
      <4>3. request' \in [Callers -> Calls] /\ request'[c] = call /\ \A d \in Callers : d # c => request'[d] = request[d]
        <5> HIDE DEF call
        <5> QED  BY <1>1, <4>1, <4>2, CallIsChanged
      <4> QED  BY <1>1, <4>3 DEF Calls
    <3>3. ~At(c, "idle")' /\ Undisturbed(c)'
      BY <2>2, <3>2 DEF At, Undisturbed
    <3> QED  BY <1>1, <2>1, <2>2, <3>2, <3>3, OneMoves
  <2>3. CASE ~(request[c].kind.again /\ ~request[c].second) /\ To(c, "failed") /\ UNCHANGED cached
    <3>1. "failed" \in Stages
      BY DEF Stages
    <3>2. Moved("failed") /\ request'[c].token = request[c].token /\ request'[c].kind = request[c].kind
      <4> DEFINE call == [request[c] EXCEPT !.stage = "failed"]
      <4>1. request' = [request EXCEPT ![c] = call]
        BY <1>1, <2>3, <3>1 DEF To
      <4>2. call \in Calls
        BY <1>1, <2>3, <3>1, CallsChange
      <4>3. request' \in [Callers -> Calls] /\ request'[c] = call /\ \A d \in Callers : d # c => request'[d] = request[d]
        <5> HIDE DEF call
        <5> QED  BY <1>1, <4>1, <4>2, CallIsChanged
      <4> QED  BY <1>1, <4>3 DEF Calls
    <3>3. ~At(c, "idle")' /\ (c \notin disturbed' => Undisturbed(c)')
      BY <1>1, <2>1, <2>3, <3>2 DEF At, Undisturbed
    <3> QED  BY <1>1, <2>1, <2>3, <3>2, <3>3, OneMoves
  <2> QED  BY <1>7, <2>2, <2>3 DEF Refused, Invalidate
<1>8. CASE Lost(c)
  <2>1. netFaults' = netFaults + 1 /\ To(c, "failed") /\ disturbed' = disturbed \cup {c} /\ UNCHANGED <<issued, cached>>
    BY <1>8 DEF Lost
  <2>2. "failed" \in Stages
    BY DEF Stages
  <2>3. Moved("failed") /\ request'[c].token = request[c].token
    <3> DEFINE call == [request[c] EXCEPT !.stage = "failed"]
    <3>1. request' = [request EXCEPT ![c] = call]
      BY <1>1, <2>1, <2>2 DEF To
    <3>2. call \in Calls
      BY <1>1, <2>1, <2>2, CallsChange
    <3>3. request' \in [Callers -> Calls] /\ request'[c] = call /\ \A d \in Callers : d # c => request'[d] = request[d]
      <4> HIDE DEF call
      <4> QED  BY <1>1, <3>1, <3>2, CallIsChanged
    <3> QED  BY <1>1, <3>3 DEF Calls
  <2>4. ~At(c, "idle")'
    BY <2>3 DEF At
  <2> QED  BY <1>1, <2>1, <2>3, <2>4, OneMoves
<1> QED  BY <1>2, <1>3, <1>4, <1>5, <1>6, <1>7, <1>8

\* A new token disturbs every request that runs.
LEMMA IssueSteps == ASSUME TokenInvariant, Issue PROVE TokenInvariant'
<1>1. /\ issued' = issued + 1 /\ disturbed' = disturbed \cup Running
      /\ UNCHANGED <<cached, request, netFaults>>
  BY DEF Issue
<1>2. TokenType'
  BY <1>1 DEF TokenInvariant, TokenType, Calls
<1>3. ASSUME NEW c \in Callers, c \notin disturbed'
      PROVE  Undisturbed(c)'
  <2>1. c \notin Running /\ Undisturbed(c)
    BY <1>1, <1>3 DEF TokenInvariant
  <2> QED  BY <1>1, <2>1 DEF Undisturbed, Running, At
<1> QED  BY <1>1, <1>2, <1>3 DEF TokenInvariant, At

LEMMA RequestsBegin == ASSUME RequestsInit PROVE TokenInvariant
<1>1. Idle \in Calls /\ Idle.stage = "idle" /\ Idle.token = 0 /\ ~Idle.second
  BY DEF Idle, Calls, Stages, RequestKinds
<1>2. \A c \in Callers : request[c] = Idle
  BY DEF RequestsInit
<1>3. TokenType
  BY <1>1, <1>2 DEF RequestsInit, TokenType
<1>4. \A c \in Callers : Undisturbed(c) /\ ~request[c].second
  BY <1>1, <1>2 DEF Undisturbed, At
<1> QED  BY <1>3, <1>4 DEF TokenInvariant

LEMMA RequestsStep == ASSUME TokenInvariant, [RequestsNext]_requestVars PROVE TokenInvariant'
<1>1. CASE UNCHANGED requestVars
  BY <1>1 DEF requestVars, TokenInvariant, TokenType, Undisturbed, At
<1> QED  BY <1>1, CallerSteps, IssueSteps DEF RequestsNext

\* An expired token in the cache fails no request, however many callers drop it and
\* fetch another at once, and whatever is lost on the way (token.rs, delivery.rs); for
\* any callers and any number of tokens, pages and faults.
THEOREM StaleTokensAlwaysHeal == RequestsSpec => []StaleTokensHeal
<1>1. TokenInvariant => StaleTokensHeal
  BY DEF TokenInvariant, Undisturbed, StaleTokensHeal
<1> QED  BY <1>1, RequestsBegin, RequestsStep, PTL DEF RequestsSpec

=============================================================================

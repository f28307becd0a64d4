------------------------- MODULE ConversationCases -------------------------
(* Every history of at most MaxLength messages, of an alphabet with a call   *)
(* id that answers may repeat: what the three algorithms make of it.         *)
EXTENDS Conversation

CONSTANTS
    c, d,           \* two call ids
    MaxLength,      \* bound: messages of a history
    Keep,           \* tokens a compaction keeps
    Recent          \* messages the judge never touches

VARIABLE msgs

Alphabet ==
    {User(1), Extension, Result(c, "done"), Result(d, "done"),
     Assistant(1, <<>>, "stop"), Assistant(1, <<c>>, "calls"),
     Assistant(1, <<c, d>>, "calls"), Assistant(1, <<d, d>>, "calls"),
     Assistant(1, <<c>>, "aborted")}

\* A history begins with a prompt, or wherever a cut or a crash has left it.
Openings == {User(1), Result(c, "done"), Assistant(1, <<c>>, "calls")}

Init == msgs = <<>>
Next == /\ Len(msgs) < MaxLength
        /\ \E m \in IF msgs = <<>> THEN Openings ELSE Alphabet : msgs' = Append(msgs, m)
Spec == Init /\ [][Next]_msgs

-----------------------------------------------------------------------------
Without(S, seq)  == SelectSeq(seq, LAMBDA m : m \notin S)
Results          == {Result(x, how) : x \in {c, d}, how \in {"done", "missing"}}
Talk(seq)        == [i \in DOMAIN Without(Results, seq) |-> [Without(Results, seq)[i] EXCEPT !.calls = <<>>]]
IsFinished(seq)  == Spoken(seq) = seq /\ Whole(Shown(seq)) /\ \A i \in DOMAIN seq : IsInjective(seq[i].calls)

CallCount(seq)   == FoldLeft(LAMBDA n, m : IF IsAssistant(m) THEN n + Len(m.calls) ELSE n, 0, seq)

\* Whatever a history went through, the model sees each call answered once, in
\* the message behind it; all that was said stays, in its order, and a history
\* in order, or repaired before, is left as it is (sanitize_tool_pairs).
RepairsAreRight ==
    LET repaired == Sanitized(msgs) IN
    /\ \A i \in DOMAIN repaired : \A j \in DOMAIN repaired[i].calls :
          IsAssistant(repaired[i]) =>
             \E k \in i + 1 .. Len(repaired) :
                /\ IsResult(repaired[k]) /\ CallOf(repaired[k]) = repaired[i].calls[j]
                /\ \A n \in i + 1 .. k : IsResult(repaired[n]) \/ repaired[n] = Extension
    /\ Cardinality({i \in DOMAIN repaired : IsResult(repaired[i])}) = CallCount(repaired)
    /\ Talk(repaired) = Talk(Spoken(msgs))
    /\ Sanitized(repaired) = repaired
    /\ IsFinished(msgs) => repaired = msgs

\* A compaction never cuts a call from its result, and evicts something: what
\* it keeps of a whole history is whole, and it keeps nothing when it must
\* evict more than there is (plan_core, find_first_kept).
CutsKeepExchanges ==
    \A keep \in 1 .. Keep, minimum \in {0, Len(msgs) + 1} :
        LET k == Plan(msgs, keep, minimum) IN
        k # 0 =>
            /\ k \in 2 .. Len(msgs) + 1
            /\ Whole(Shown(msgs)) => Whole(Shown(Kept(msgs, k)))
            /\ minimum # 0 => Kept(msgs, k) = <<>>

\* Whatever the judge condemns, calls go with their results and the first
\* message and the recent ones stay (collect, apply).
PrunesKeepExchanges ==
    Whole(msgs) => \A remove \in SUBSET Candidates(msgs, Recent) :
        LET pruned == Pruned(msgs, remove) IN
        /\ Whole(pruned)
        /\ msgs # <<>> => pruned[1] = msgs[1]
        /\ IsSuffix(SubSeq(msgs, IF Len(msgs) > Recent THEN Len(msgs) - Recent + 1 ELSE 1, Len(msgs)), pruned)
=============================================================================

------------------------------ MODULE ByteText ------------------------------
(* Texts as sequences of characters of one to three bytes, and the cuts that *)
(* never split a character.  "n" is the end of a line; "*" stands for a note *)
(* about what was left out, which is not counted.                            *)
EXTENDS Naturals, Sequences, FiniteSets, SequencesExt

Take(s, n) == SubSeq(s, 1, IF n < Len(s) THEN n ELSE Len(s))
From(s, n) == SubSeq(s, n + 1, Len(s))

Width(c) == CASE c = "?" -> 3 [] c = "e" -> 2 [] c = "*" -> 0 [] OTHER -> 1
Bytes(t) == FoldLeft(LAMBDA n, c : n + Width(c), 0, t)

\* At most n bytes of whole characters from the front and from the back of a text:
\* floor_char_boundary(n) and ceil_char_boundary(len - n).
Floor(t, n) == Take(t, Max({k \in 0 .. Len(t) : Bytes(Take(t, k)) <= n}))
Ceil(t, n)  == From(t, Min({k \in 0 .. Len(t) : Bytes(From(t, k)) <= n}))
=============================================================================

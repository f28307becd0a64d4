----------------------- MODULE SessionTranscriptProofs -----------------------
(***************************************************************************)
(* Theorems about SessionTranscript, for any number of Session objects and *)
(* any bounds.  The inductive invariant says of every object that its      *)
(* memory is a past of the file, and of every plan that has not been found *)
(* stale that it knows all that was said up to its expected sequence.      *)
(***************************************************************************)
EXTENDS SessionTranscript, SequenceTheorems, TLAPS

\* A batch is never empty, a control point is a batch of its own, and a compaction
\* holds what its plan knew.
WellFormed(h, b) ==
    /\ b # <<>>
    /\ write[h].for \in {"compact", "manual"} => Len(b) = 1
    /\ \A i \in 1 .. Len(b) :
        /\ b[i].kind = "item" => b[i].ctx \subseteq known[h]
        /\ IsControl(b[i]) => Len(b) = 1
        /\ b[i].kind = "compact" => write[h].for \in {"compact", "manual"} /\ b[i].ctx = known[h]

Buffered(h) ==
    \A i \in 1 .. Len(buffer[h]) :
        /\ ~IsControl(buffer[h][i])
        /\ buffer[h][i].kind = "item" => buffer[h][i].ctx \subseteq known[h]

\* Which commits go with which job.
Jobs(h) ==
    /\ write[h].at = "idle" <=> write[h].for = "none"
    /\ write[h].at # "idle" => h \in open /\ WellFormed(h, write[h].batch)
    /\ write[h].for = "compact" => job[h] = "compacting"
    /\ write[h].for = "manual" => job[h] = "manual"
    /\ write[h].for \in {"flush", "precompact"} => job[h] = "run"
    /\ write[h].for \in {"final", "closing"} => job[h] = "ending"
    /\ write[h].for \in {"flush", "precompact", "final", "closing"} =>
          \A i \in 1 .. Len(write[h].batch) : ~IsControl(write[h].batch[i])
    /\ job[h] \in {"none", "manual", "compacting"} => ~rebased[h]
    /\ job[h] \in {"none", "manual"} => buffer[h] = <<>>

Memory(h) ==
    h \in open => mem[h].next <= Len(file) /\ mem[h].ctx = Resolve(file, mem[h].next)

Plan(h) ==
    ~rebased[h] => expected[h] <= Len(file) /\ SinceClear(file, expected[h]) \subseteq known[h]

NoneLost == \A n \in 0 .. Len(file) : SinceClear(file, n) \subseteq Resolve(file, n)

Local(h) == Jobs(h) /\ Buffered(h) /\ Memory(h) /\ Plan(h)

IInv ==
    /\ TypeOK
    /\ tail # "garbled"
    /\ SequenceIsPlace
    /\ NoneLost
    /\ \A h \in Handles : Local(h)

-----------------------------------------------------------------------------
(* What appending does to the resolution of a file.                         *)

LEMMA Prefix ==
    ASSUME NEW f \in Seq(Entry), NEW b \in Seq(Entry), NEW n \in 0 .. Len(f)
    PROVE  /\ Resolve(f \o b, n) = Resolve(f, n)
           /\ SinceClear(f \o b, n) = SinceClear(f, n)
<1>1. \A i \in 1 .. n : (f \o b)[i] = f[i]
  BY ConcatProperties
<1> QED BY <1>1 DEF Resolve, SinceClear, IsControl

\* What the first n records of a batch represent, and which of it they say themselves.
Told(b, n)      == {m \in Messages : \E i \in 1 .. n : m \in b[i].ctx}
ToldItems(b, n) == {m \in Messages : \E i \in 1 .. n : b[i].kind = "item" /\ m \in b[i].ctx}

LEMMA PlainAppend ==
    ASSUME NEW f \in Seq(Entry), NEW b \in Seq(Entry), NEW n \in Len(f) .. Len(f) + Len(b),
           \A i \in 1 .. Len(b) : ~IsControl(b[i])
    PROVE  /\ Resolve(f \o b, n) = Resolve(f, Len(f)) \cup Told(b, n - Len(f))
           /\ SinceClear(f \o b, n) = SinceClear(f, Len(f)) \cup ToldItems(b, n - Len(f))
<1> DEFINE g == f \o b
<1>0. Len(f) \in Nat /\ Len(b) \in Nat
  BY LenProperties
<1>1. \A i \in 1 .. Len(f) : g[i] = f[i]
  BY ConcatProperties
<1>2. \A i \in 1 .. Len(b) : g[Len(f) + i] = b[i]
  <2> TAKE i \in 1 .. Len(b)
  <2>1. Len(f) + i > Len(f) /\ (Len(f) + i) - Len(f) = i /\ Len(f) + i \in 1 .. Len(f) + Len(b)
    BY <1>0
  <2> QED BY <2>1, ConcatProperties, <1>0
<1>3. \A i \in Len(f) + 1 .. n : i - Len(f) \in 1 .. Len(b) /\ g[i] = b[i - Len(f)]
  <2> TAKE i \in Len(f) + 1 .. n
  <2>1. i - Len(f) \in 1 .. Len(b) /\ Len(f) + (i - Len(f)) = i
    BY <1>0
  <2> QED BY <2>1, <1>2
<1>4. \A i \in Len(f) + 1 .. n : ~IsControl(g[i])
  BY <1>3
<1>5. \A i \in 1 .. n - Len(f) : Len(f) + i \in Len(f) + 1 .. n /\ i \in 1 .. Len(b)
  BY <1>0
<1> HIDE DEF g
<1>6. \A m : (\E i \in 1 .. n : m \in g[i].ctx /\ \A j \in i + 1 .. n : ~IsControl(g[j]))
        <=> \/ \E i \in 1 .. Len(f) : m \in f[i].ctx /\ \A j \in i + 1 .. Len(f) : ~IsControl(f[j])
            \/ \E i \in 1 .. n - Len(f) : m \in b[i].ctx
  <2> TAKE m
  <2>1. ASSUME NEW i \in 1 .. n, m \in g[i].ctx, \A j \in i + 1 .. n : ~IsControl(g[j])
        PROVE  \/ \E k \in 1 .. Len(f) : m \in f[k].ctx /\ \A j \in k + 1 .. Len(f) : ~IsControl(f[j])
               \/ \E k \in 1 .. n - Len(f) : m \in b[k].ctx
    <3>1. CASE i <= Len(f)
      <4>1. \A j \in i + 1 .. Len(f) : ~IsControl(f[j])
        BY <2>1, <1>0, <1>1
      <4> QED BY <4>1, <2>1, <3>1, <1>0, <1>1
    <3>2. CASE i > Len(f)
      <4>1. i - Len(f) \in 1 .. n - Len(f) /\ g[i] = b[i - Len(f)]
        BY <3>2, <1>0, <1>3
      <4> QED BY <4>1, <2>1
    <3> QED BY <3>1, <3>2, <1>0
  <2>2. ASSUME NEW i \in 1 .. Len(f), m \in f[i].ctx, \A j \in i + 1 .. Len(f) : ~IsControl(f[j])
        PROVE  \E k \in 1 .. n : m \in g[k].ctx /\ \A j \in k + 1 .. n : ~IsControl(g[j])
    <3>1. \A j \in i + 1 .. n : ~IsControl(g[j])
      BY <2>2, <1>0, <1>1, <1>4
    <3> QED BY <3>1, <2>2, <1>0, <1>1
  <2>3. ASSUME NEW i \in 1 .. n - Len(f), m \in b[i].ctx
        PROVE  \E k \in 1 .. n : m \in g[k].ctx /\ \A j \in k + 1 .. n : ~IsControl(g[j])
    <3>1. Len(f) + i \in 1 .. n /\ g[Len(f) + i] = b[i]
      BY <1>0, <1>2, <1>5
    <3>2. \A j \in Len(f) + i + 1 .. n : ~IsControl(g[j])
      BY <1>0, <1>4, <1>5
    <3> QED BY <3>1, <3>2, <2>3
  <2> QED BY <2>1, <2>2, <2>3
<1>7. \A m : (\E i \in 1 .. n : g[i].kind = "item" /\ m \in g[i].ctx
                                  /\ \A j \in i + 1 .. n : g[j].kind # "clear")
        <=> \/ \E i \in 1 .. Len(f) : f[i].kind = "item" /\ m \in f[i].ctx
                                       /\ \A j \in i + 1 .. Len(f) : f[j].kind # "clear"
            \/ \E i \in 1 .. n - Len(f) : b[i].kind = "item" /\ m \in b[i].ctx
  <2> TAKE m
  <2>0. \A i \in Len(f) + 1 .. n : g[i].kind # "clear"
    BY <1>4 DEF IsControl
  <2>1. ASSUME NEW i \in 1 .. n, g[i].kind = "item", m \in g[i].ctx,
               \A j \in i + 1 .. n : g[j].kind # "clear"
        PROVE  \/ \E k \in 1 .. Len(f) : f[k].kind = "item" /\ m \in f[k].ctx
                                          /\ \A j \in k + 1 .. Len(f) : f[j].kind # "clear"
               \/ \E k \in 1 .. n - Len(f) : b[k].kind = "item" /\ m \in b[k].ctx
    <3>1. CASE i <= Len(f)
      <4>1. \A j \in i + 1 .. Len(f) : f[j].kind # "clear"
        BY <2>1, <1>0, <1>1
      <4> QED BY <4>1, <2>1, <3>1, <1>0, <1>1
    <3>2. CASE i > Len(f)
      <4>1. i - Len(f) \in 1 .. n - Len(f) /\ g[i] = b[i - Len(f)]
        BY <3>2, <1>0, <1>3
      <4> QED BY <4>1, <2>1
    <3> QED BY <3>1, <3>2, <1>0
  <2>2. ASSUME NEW i \in 1 .. Len(f), f[i].kind = "item", m \in f[i].ctx,
               \A j \in i + 1 .. Len(f) : f[j].kind # "clear"
        PROVE  \E k \in 1 .. n : g[k].kind = "item" /\ m \in g[k].ctx
                                  /\ \A j \in k + 1 .. n : g[j].kind # "clear"
    <3>1. \A j \in i + 1 .. n : g[j].kind # "clear"
      BY <2>2, <1>0, <1>1, <2>0
    <3> QED BY <3>1, <2>2, <1>0, <1>1
  <2>3. ASSUME NEW i \in 1 .. n - Len(f), b[i].kind = "item", m \in b[i].ctx
        PROVE  \E k \in 1 .. n : g[k].kind = "item" /\ m \in g[k].ctx
                                  /\ \A j \in k + 1 .. n : g[j].kind # "clear"
    <3>1. Len(f) + i \in 1 .. n /\ g[Len(f) + i] = b[i]
      BY <1>0, <1>2, <1>5
    <3>2. \A j \in Len(f) + i + 1 .. n : g[j].kind # "clear"
      BY <1>0, <2>0, <1>5
    <3> QED BY <3>1, <3>2, <2>3
  <2> QED BY <2>1, <2>2, <2>3
<1>8. Resolve(g, n) = Resolve(f, Len(f)) \cup Told(b, n - Len(f))
  BY <1>6 DEF Resolve, Told
<1>9. SinceClear(g, n) = SinceClear(f, Len(f)) \cup ToldItems(b, n - Len(f))
  BY <1>7 DEF SinceClear, ToldItems
<1> QED BY <1>8, <1>9 DEF g

LEMMA ControlAppend ==
    ASSUME NEW f \in Seq(Entry), NEW e \in Entry, IsControl(e)
    PROVE  /\ Resolve(f \o <<e>>, Len(f) + 1) = e.ctx
           /\ SinceClear(f \o <<e>>, Len(f) + 1) =
                IF e.kind = "clear" THEN {} ELSE SinceClear(f, Len(f))
<1> DEFINE g == f \o <<e>>
<1>0. Len(f) \in Nat /\ <<e>> \in Seq(Entry) /\ e.ctx \subseteq Messages
  BY LenProperties DEF Entry
<1>1. \A i \in 1 .. Len(f) : g[i] = f[i]
  BY <1>0, ConcatProperties
<1>2. g[Len(f) + 1] = e
  <2>1. Len(<<e>>) = 1 /\ <<e>>[1] = e /\ (Len(f) + 1) - Len(f) = 1
    BY <1>0
  <2> QED BY <1>0, <2>1, ConcatProperties
<1> HIDE DEF g
<1>3. Resolve(g, Len(f) + 1) = e.ctx
  BY <1>0, <1>1, <1>2 DEF Resolve
<1>4. SinceClear(g, Len(f) + 1) = IF e.kind = "clear" THEN {} ELSE SinceClear(f, Len(f))
  <2>1. CASE e.kind = "clear"
    BY <2>1, <1>0, <1>2 DEF SinceClear
  <2>2. CASE e.kind # "clear"
    <3>1. e.kind = "compact"
      BY <2>2 DEF IsControl
    <3>2. ASSUME NEW m \in SinceClear(g, Len(f) + 1) PROVE m \in SinceClear(f, Len(f))
      <4>1. PICK i \in 1 .. Len(f) + 1 : /\ g[i].kind = "item" /\ m \in g[i].ctx
                                          /\ \A j \in i + 1 .. Len(f) + 1 : g[j].kind # "clear"
        BY <3>2 DEF SinceClear
      <4>2. i \in 1 .. Len(f)
        BY <4>1, <3>1, <1>0, <1>2
      <4>3. \A j \in i + 1 .. Len(f) : f[j].kind # "clear"
        BY <4>1, <4>2, <1>0, <1>1
      <4> QED BY <4>1, <4>2, <4>3, <1>1, <3>2 DEF SinceClear
    <3>3. ASSUME NEW m \in SinceClear(f, Len(f)) PROVE m \in SinceClear(g, Len(f) + 1)
      <4>1. PICK i \in 1 .. Len(f) : /\ f[i].kind = "item" /\ m \in f[i].ctx
                                      /\ \A j \in i + 1 .. Len(f) : f[j].kind # "clear"
        BY <3>3 DEF SinceClear
      <4>2. \A j \in i + 1 .. Len(f) + 1 : g[j].kind # "clear"
        BY <4>1, <3>1, <1>0, <1>1, <1>2
      <4> QED BY <4>1, <4>2, <1>0, <1>1, <3>3 DEF SinceClear
    <3> QED BY <2>2, <3>2, <3>3
  <2> QED BY <2>1, <2>2
<1> QED BY <1>3, <1>4 DEF g

LEMMA Entries ==
    ASSUME NEW b \in Seq(Record), NEW base \in Nat
    PROVE  /\ EntriesAt(base, b) \in Seq(Entry)
           /\ Len(EntriesAt(base, b)) = Len(b)
           /\ \A i \in 1 .. Len(b) :
                /\ EntriesAt(base, b)[i].seq = base + i
                /\ EntriesAt(base, b)[i].kind = b[i].kind
                /\ EntriesAt(base, b)[i].ctx = b[i].ctx
<1>1. Len(b) \in Nat /\ \A i \in 1 .. Len(b) : b[i] \in Record
  BY ElementOfSeq, LenProperties
<1>2. \A i \in 1 .. Len(b) : [seq |-> base + i, kind |-> b[i].kind, ctx |-> b[i].ctx] \in Entry
  BY <1>1 DEF Record, Entry
<1>3. EntriesAt(base, b) \in Seq(Entry)
  BY <1>1, <1>2, IsASeq DEF EntriesAt
<1>4. Len(EntriesAt(base, b)) = Len(b)
  BY <1>1, <1>3 DEF EntriesAt
<1> QED BY <1>3, <1>4 DEF EntriesAt

\* Nothing new is owed to a plan when no item was written in between.
LEMMA NothingOwed ==
    ASSUME NEW f \in Seq(Entry), NEW k \in 0 .. Len(f),
           \A i \in k + 1 .. Len(f) : f[i].kind # "item"
    PROVE  SinceClear(f, Len(f)) \subseteq SinceClear(f, k)
<1>0. Len(f) \in Nat
  BY LenProperties
<1> SUFFICES ASSUME NEW m \in SinceClear(f, Len(f)) PROVE m \in SinceClear(f, k)
  OBVIOUS
<1>1. PICK i \in 1 .. Len(f) : /\ f[i].kind = "item" /\ m \in f[i].ctx
                                /\ \A j \in i + 1 .. Len(f) : f[j].kind # "clear"
  BY DEF SinceClear
<1>2. i \in 1 .. k /\ \A j \in i + 1 .. k : f[j].kind # "clear"
  BY <1>0, <1>1
<1> QED BY <1>1, <1>2 DEF SinceClear

\* Batch b may follow file f when who writes it knows k, and what it makes of f.
Fits(f, b, k) ==
    /\ b # <<>>
    /\ \A i \in 1 .. Len(b) :
          /\ IsControl(b[i]) => Len(b) = 1
          /\ b[i].kind = "item" => b[i].ctx \subseteq k
          /\ b[i].kind = "compact" => SinceClear(f, Len(f)) \subseteq b[i].ctx
    /\ \A n \in 0 .. Len(f) : SinceClear(f, n) \subseteq Resolve(f, n)

Extends(g, f, b, k) ==
    /\ g \in Seq(Entry)
    /\ Len(g) = Len(f) + Len(b)
    /\ Resolve(g, Len(g)) = Applied(Resolve(f, Len(f)), b)
    /\ SinceClear(g, Len(g)) \subseteq SinceClear(f, Len(f)) \cup k
    /\ \A n \in 0 .. Len(g) : SinceClear(g, n) \subseteq Resolve(g, n)

LEMMA BatchAppend ==
    ASSUME NEW f \in Seq(Entry), NEW b \in Seq(Record), NEW k, Fits(f, b, k)
    PROVE  Extends(f \o EntriesAt(Len(f), b), f, b, k)
<1> DEFINE e == EntriesAt(Len(f), b)
<1> DEFINE g == f \o e
<1>0. Len(f) \in Nat /\ Len(b) \in Nat /\ Len(b) >= 1
  BY LenProperties, EmptySeq DEF Fits
<1>f. /\ \A i \in 1 .. Len(b) :
            /\ IsControl(b[i]) => Len(b) = 1
            /\ b[i].kind = "item" => b[i].ctx \subseteq k
            /\ b[i].kind = "compact" => SinceClear(f, Len(f)) \subseteq b[i].ctx
      /\ \A n \in 0 .. Len(f) : SinceClear(f, n) \subseteq Resolve(f, n)
  BY DEF Fits
<1>1. /\ e \in Seq(Entry) /\ Len(e) = Len(b)
      /\ \A i \in 1 .. Len(b) : e[i].kind = b[i].kind /\ e[i].ctx = b[i].ctx
  BY Entries, <1>0
<1>t. \A i \in 1 .. Len(b) : e[i] \in Entry
  BY <1>1, ElementOfSeq
<1> HIDE DEF e, g
<1>2. g \in Seq(Entry) /\ Len(g) = Len(f) + Len(b) /\ g = f \o e
  <2>1. f \o e \in Seq(Entry) /\ Len(f \o e) = Len(f) + Len(e)
    BY <1>1, ConcatProperties
  <2> QED BY <2>1, <1>1 DEF g
<1> SUFFICES Extends(g, f, b, k)
  BY DEF g, e
<1>3. \A n \in 0 .. Len(f) : SinceClear(g, n) \subseteq Resolve(g, n)
  BY <1>1, <1>2, <1>f, Prefix
<1>4. CASE IsControl(b[1])
  <2>1. Len(b) = 1 /\ IsControl(e[1]) /\ e = <<e[1]>> /\ e[1] \in Entry
    <3>1. Len(b) = 1 /\ Len(e) = 1 /\ e[1] \in Entry /\ IsControl(e[1])
      BY <1>0, <1>1, <1>4, <1>f, <1>t DEF IsControl
    <3>2. <<e[1]>> \in Seq(Entry) /\ Len(<<e[1]>>) = 1 /\ <<e[1]>>[1] = e[1]
      BY <3>1
    <3>3. e = <<e[1]>>
      BY <3>1, <3>2, <1>1, SeqEqual
    <3> QED BY <3>1, <3>3
  <2>2. /\ Resolve(g, Len(f) + 1) = e[1].ctx
        /\ SinceClear(g, Len(f) + 1) =
             IF e[1].kind = "clear" THEN {} ELSE SinceClear(f, Len(f))
    BY <2>1, <1>2, ControlAppend
  <2>3. SinceClear(g, Len(g)) \subseteq Resolve(g, Len(g))
    <3>1. CASE e[1].kind = "clear"
      BY <3>1, <2>1, <2>2, <1>2
    <3>2. CASE e[1].kind = "compact"
      BY <3>2, <2>1, <2>2, <1>0, <1>1, <1>2, <1>f
    <3> QED BY <3>1, <3>2, <2>1 DEF IsControl
  <2>4. \A n \in 0 .. Len(g) : SinceClear(g, n) \subseteq Resolve(g, n)
    <3> TAKE n \in 0 .. Len(g)
    <3>1. n \in 0 .. Len(f) \/ n = Len(g)
      BY <2>1, <1>0, <1>2
    <3> QED BY <3>1, <2>3, <1>3
  <2>5. Resolve(g, Len(g)) = Applied(Resolve(f, Len(f)), b)
    BY <1>4, <2>1, <2>2, <1>1, <1>2 DEF Applied
  <2>6. SinceClear(g, Len(g)) \subseteq SinceClear(f, Len(f)) \cup k
    BY <2>1, <2>2, <1>2
  <2> QED BY <1>2, <2>4, <2>5, <2>6 DEF Extends
<1>5. CASE ~IsControl(b[1])
  <2>1. \A i \in 1 .. Len(b) : ~IsControl(b[i]) /\ ~IsControl(e[i])
    BY <1>0, <1>1, <1>5, <1>f DEF IsControl
  <2>2. ASSUME NEW n \in Len(f) .. Len(g)
        PROVE  /\ Resolve(g, n) = Resolve(f, Len(f)) \cup Told(e, n - Len(f))
               /\ SinceClear(g, n) = SinceClear(f, Len(f)) \cup ToldItems(e, n - Len(f))
    BY <2>1, <1>1, <1>2, PlainAppend
  <2>3. SinceClear(f, Len(f)) \subseteq Resolve(f, Len(f))
    BY <1>0, <1>f
  <2>4. \A n \in Len(f) .. Len(g) : SinceClear(g, n) \subseteq Resolve(g, n)
    BY <2>2, <2>3 DEF Told, ToldItems
  <2>5. Len(g) - Len(f) = Len(b) /\ Len(g) \in Len(f) .. Len(g)
    BY <1>0, <1>2
  <2>6. Resolve(g, Len(g)) = Applied(Resolve(f, Len(f)), b)
    <3>1. Told(e, Len(b)) = UNION {b[i].ctx : i \in DOMAIN b}
      <4>1. DOMAIN b = 1 .. Len(b)
        BY LenProperties
      <4>2. \A i \in 1 .. Len(b) : e[i].ctx = b[i].ctx /\ b[i].ctx \subseteq Messages
        BY <1>1, <1>t DEF Entry
      <4> QED BY <4>1, <4>2 DEF Told
    <3> QED BY <3>1, <2>2, <2>5, <1>5 DEF Applied
  <2>7. SinceClear(g, Len(g)) \subseteq SinceClear(f, Len(f)) \cup k
    <3>1. ToldItems(e, Len(b)) \subseteq k
      BY <1>1, <1>f DEF ToldItems
    <3> QED BY <3>1, <2>2, <2>5
  <2>8. \A n \in 0 .. Len(g) : SinceClear(g, n) \subseteq Resolve(g, n)
    <3> TAKE n \in 0 .. Len(g)
    <3>1. n \in 0 .. Len(f) \/ n \in Len(f) .. Len(g)
      BY <1>0, <1>2
    <3> QED BY <3>1, <2>4, <1>3
  <2> QED BY <1>2, <2>6, <2>7, <2>8 DEF Extends
<1> QED BY <1>4, <1>5

-----------------------------------------------------------------------------
(* The inductive invariant.                                                 *)

\* A step leaves alone what another handle remembers.
Same(k) ==
    /\ write'[k] = write[k] /\ mem'[k] = mem[k] /\ (k \in open' <=> k \in open)
    /\ job'[k] = job[k] /\ known'[k] = known[k] /\ expected'[k] = expected[k]
    /\ buffer'[k] = buffer[k] /\ rebased'[k] = rebased[k]

LEMMA Elsewhere ==
    ASSUME IInv, NEW k \in Handles, Same(k),
           NEW e \in Seq(Entry), file' = file \/ file' = file \o e
    PROVE  Local(k)'
<1>1. Jobs(k)' /\ Buffered(k)'
  BY DEF IInv, Local, Jobs, Buffered, WellFormed, Same, IsControl
<1>2. file \in Seq(Entry) /\ Len(file) \in Nat /\ Len(file) <= Len(file')
  BY LenProperties, ConcatProperties DEF IInv, TypeOK
<1>3. \A n \in 0 .. Len(file) : /\ Resolve(file', n) = Resolve(file, n)
                                /\ SinceClear(file', n) = SinceClear(file, n)
  BY <1>2, Prefix
<1>4. mem[k].next \in Nat /\ expected[k] \in Nat /\ Len(file') \in Nat
  BY <1>2, LenProperties, ConcatProperties DEF IInv, TypeOK
<1>5. Memory(k)'
  BY <1>2, <1>3, <1>4 DEF IInv, Local, Memory, Same
<1>6. Plan(k)'
  BY <1>2, <1>3, <1>4 DEF IInv, Local, Plan, Same
<1> QED BY <1>1, <1>5, <1>6 DEF Local

\* A step of one handle that leaves the file alone.
LEMMA FileKept ==
    ASSUME IInv, NEW h \in Handles, TypeOK', file' = file, tail' # "garbled",
           \A k \in Handles \ {h} : Same(k), Local(h)'
    PROVE  IInv'
<1>1. <<>> \in Seq(Entry)
  OBVIOUS
<1>2. \A k \in Handles : Local(k)'
  BY <1>1, Elsewhere
<1>3. SequenceIsPlace /\ NoneLost
  BY DEF IInv
<1>4. SequenceIsPlace'
  BY <1>3 DEF SequenceIsPlace
<1>5. NoneLost'
  BY <1>3 DEF NoneLost, SinceClear, Resolve, IsControl
<1> QED BY <1>2, <1>4, <1>5 DEF IInv

LEMMA InitIInv == Init => IInv
<1> SUFFICES ASSUME Init PROVE IInv
  OBVIOUS
<1>1. TypeOK
  BY SessionAssumption DEF Init, TypeOK, Entry, Record, NoWrite, NoState, Purpose
<1>2. SequenceIsPlace /\ NoneLost /\ tail # "garbled"
  BY DEF Init, SequenceIsPlace, NoneLost, SinceClear
<1>3. \A h \in Handles : Local(h)
  BY DEF Init, Local, Jobs, Buffered, Memory, Plan, NoWrite, SinceClear
<1> QED BY <1>1, <1>2, <1>3 DEF IInv

LEMMA OpenStep == ASSUME IInv, NEW h \in Handles, Open(h) PROVE IInv'
<1>0. file \in Seq(Entry) /\ Len(file) \in Nat /\ Resolve(file, Len(file)) \subseteq Messages
  BY LenProperties DEF IInv, TypeOK, Resolve
<1>1. TypeOK'
  BY <1>0 DEF IInv, TypeOK, Open, Truncated, callVars
<1>2. \A k \in Handles \ {h} : Same(k)
  BY DEF Open, Same, IInv, TypeOK, callVars
<1>3. Local(h)'
  BY <1>0 DEF Open, IInv, TypeOK, Local, Jobs, Buffered, Memory, Plan, WellFormed, callVars
<1> QED BY <1>1, <1>2, <1>3, FileKept DEF Open, Truncated, IInv

LEMMA LeaveType ==
    ASSUME TypeOK, NEW h \in Handles, Leave(h)
    PROVE  /\ job' \in [Handles -> {"none", "run", "compacting", "ending", "manual"}]
           /\ known' \in [Handles -> SUBSET Messages]
           /\ expected' \in [Handles -> Nat]
           /\ buffer' \in [Handles -> Seq(Record)]
           /\ rebased' \in [Handles -> BOOLEAN]
           /\ failure' \in [Handles -> {"none", "stale", "failed"}]
  BY DEF TypeOK, Leave

LEMMA ExitStep == ASSUME IInv, NEW h \in Handles, Exit(h) PROVE IInv'
<1>1. TypeOK'
  <2>1. TypeOK /\ Leave(h)
    BY DEF IInv, Exit
  <2>2. write' \in [Handles -> [for : Purpose, at : {"idle", "append", "reread"},
                                batch : Seq(Record), tries : 0 .. MaxRetries]]
    BY <2>1, SessionAssumption DEF TypeOK, Exit, Finished, NoWrite, Purpose
  <2>3. mem' \in [Handles -> [next : Nat, ctx : SUBSET Messages]]
    BY <2>1 DEF TypeOK, Exit, NoState
  <2>4. tail' \in {"clean", "torn", "garbled"} /\ open' \subseteq Handles
    BY <2>1 DEF TypeOK, Exit, Truncated
  <2> QED BY <2>1, <2>2, <2>3, <2>4, LeaveType DEF TypeOK, Exit
<1>2. \A k \in Handles \ {h} : Same(k)
  BY DEF Exit, Leave, Finished, Same, IInv, TypeOK
<1>3. Local(h)'
  BY DEF Exit, Leave, Finished, NoWrite, IInv, TypeOK, Local, Jobs, Buffered, Memory, Plan, SinceClear
<1> QED BY <1>1, <1>2, <1>3, FileKept DEF Exit, Truncated, IInv

LEMMA FailsStep ==
    ASSUME IInv, NEW h \in Handles, NEW why \in {"stale", "failed"}, Fails(h, why),
           write[h].at # "idle", tail' \in {"clean", "torn"}
    PROVE  IInv'
<1>0. Stats \in Record /\ ~IsControl(Stats) /\ Stats.kind = "stats"
  BY DEF Stats, Record, Kind, IsControl
<1>a. CASE write[h].for = "note" /\ Finished(h) /\ UNCHANGED callVars /\ UNCHANGED <<file, said, open, mem>>
  <2>1. TypeOK'
    BY SMTT(30), <1>a, SessionAssumption DEF IInv, TypeOK, Finished, NoWrite, Purpose, callVars
  <2>2. \A k \in Handles \ {h} : Same(k)
    BY <1>a DEF Finished, Same, IInv, TypeOK, callVars
  <2>3. Local(h)'
    BY <1>a DEF Finished, NoWrite, IInv, TypeOK, Local, Jobs, Buffered, Memory, Plan, SinceClear,
                Resolve, IsControl, callVars
  <2> QED BY <1>a, <2>1, <2>2, <2>3, FileKept
<1>b. CASE Finished(h) /\ Leave(h) /\ UNCHANGED <<file, said, open, mem>>
  <2>1. TypeOK'
    <3>1. TypeOK /\ Leave(h)
      BY <1>b DEF IInv
    <3>2. write' \in [Handles -> [for : Purpose, at : {"idle", "append", "reread"},
                                  batch : Seq(Record), tries : 0 .. MaxRetries]]
      BY <1>b, <3>1, SessionAssumption DEF TypeOK, Finished, NoWrite, Purpose
    <3> QED BY <3>1, <3>2, <1>b, LeaveType DEF TypeOK
  <2>2. \A k \in Handles \ {h} : Same(k)
    BY <1>b DEF Finished, Leave, Same, IInv, TypeOK
  <2>3. Local(h)'
    BY <1>b DEF Finished, Leave, NoWrite, IInv, TypeOK, Local, Jobs, Buffered, Memory, Plan,
                SinceClear, Resolve, IsControl
  <2> QED BY <1>b, <2>1, <2>2, <2>3, FileKept
<1>c. CASE StopsPersisting(h, why) /\ UNCHANGED <<file, said, open, mem>>
  <2>1. TypeOK'
    BY <1>c, <1>0, SessionAssumption DEF IInv, TypeOK, StopsPersisting, Begin, Purpose
  <2>2. \A k \in Handles \ {h} : Same(k)
    BY <1>c DEF StopsPersisting, Begin, Same, IInv, TypeOK
  <2>3. Local(h)'
    BY <1>c, <1>0 DEF StopsPersisting, Begin, IInv, TypeOK, Local, Jobs, WellFormed, Buffered, Memory,
                      Plan, SinceClear, Resolve, IsControl
  <2> QED BY <1>c, <2>1, <2>2, <2>3, FileKept
<1> QED BY <1>a, <1>b, <1>c DEF Fails

LEMMA FailureSteps ==
    ASSUME IInv, NEW h \in Handles, StalePlan(h) \/ AppendFails(h) \/ ReadFails(h) \/ GivesUp(h)
    PROVE  IInv'
<1>1. tail' \in {"clean", "torn"} /\ write[h].at # "idle"
  BY DEF StalePlan, AppendFails, ReadFails, GivesUp, Truncated, IInv, TypeOK
<1>2. \E why \in {"stale", "failed"} : Fails(h, why)
  BY DEF StalePlan, AppendFails, ReadFails, GivesUp
<1> QED BY <1>1, <1>2, FailsStep

LEMMA ConflictStep == ASSUME IInv, NEW h \in Handles, Conflict(h) PROVE IInv'
<1>1. TypeOK'
  <2>1. tail' \in {"clean", "torn", "garbled"}
    BY DEF IInv, TypeOK, Conflict, Truncated
  <2>2. write' \in [Handles -> [for : Purpose, at : {"idle", "append", "reread"},
                               batch : Seq(Record), tries : 0 .. MaxRetries]]
    <3>1. write' = [write EXCEPT ![h].at = "reread"]
      BY DEF Conflict
    <3>2. /\ DOMAIN write = Handles
          /\ \A k \in Handles : write[k] \in [for : Purpose, at : {"idle", "append", "reread"},
                                               batch : Seq(Record), tries : 0 .. MaxRetries]
      BY DEF IInv, TypeOK
    <3>3. [write[h] EXCEPT !.at = "reread"] \in [for : Purpose, at : {"idle", "append", "reread"},
                                                  batch : Seq(Record), tries : 0 .. MaxRetries]
      BY <3>2
    <3> QED BY <3>1, <3>2, <3>3
  <2>3. UNCHANGED <<file, said, open, mem, callVars>>
    BY DEF Conflict
  <2> QED BY <2>1, <2>2, <2>3 DEF IInv, TypeOK, callVars
<1>2. \A k \in Handles \ {h} : Same(k)
  BY DEF Conflict, Same, IInv, TypeOK, callVars
<1>3. Local(h)'
  BY DEF Conflict, IInv, TypeOK, Local, Jobs, WellFormed, Buffered, Memory, Plan, SinceClear,
         Resolve, IsControl, callVars
<1> QED BY <1>1, <1>2, <1>3, FileKept DEF Conflict, Truncated, IInv

LEMMA RereadStep == ASSUME IInv, NEW h \in Handles, Reread(h) PROVE IInv'
<1>0. file \in Seq(Entry) /\ Len(file) \in Nat /\ Resolve(file, Len(file)) \subseteq Messages
  BY LenProperties DEF IInv, TypeOK, Resolve
<1>1. TypeOK'
  <2>1. write[h].tries + 1 \in 0 .. MaxRetries
    BY SessionAssumption DEF IInv, TypeOK, Reread
  <2>2. write' \in [Handles -> [for : Purpose, at : {"idle", "append", "reread"},
                                batch : Seq(Record), tries : 0 .. MaxRetries]]
    <3>1. write \in [Handles -> [for : Purpose, at : {"idle", "append", "reread"},
                                  batch : Seq(Record), tries : 0 .. MaxRetries]]
      BY DEF IInv, TypeOK
    <3>2. write' = [write EXCEPT ![h] = [write[h] EXCEPT !.at = "append", !.tries = write[h].tries + 1]]
      BY <3>1 DEF Reread
    <3>3. [write[h] EXCEPT !.at = "append", !.tries = write[h].tries + 1] \in
              [for : Purpose, at : {"idle", "append", "reread"},
               batch : Seq(Record), tries : 0 .. MaxRetries]
      BY <2>1, <3>1
    <3> QED BY <3>1, <3>2, <3>3
  <2>3. mem' \in [Handles -> [next : Nat, ctx : SUBSET Messages]]
    BY <1>0 DEF IInv, TypeOK, Reread, Rebase
  <2> QED BY <2>2, <2>3 DEF IInv, TypeOK, Reread, Truncated, callVars
<1>2. \A k \in Handles \ {h} : Same(k)
  BY DEF Reread, Rebase, Same, IInv, TypeOK, callVars
<1>3. Jobs(h)' /\ Buffered(h)' /\ Plan(h)'
  BY DEF Reread, Rebase, IInv, TypeOK, Local, Jobs, WellFormed, Buffered, Plan, SinceClear,
         IsControl, callVars
<1>4. Memory(h)'
  BY <1>0 DEF Reread, Rebase, IInv, TypeOK, Local, Memory, callVars
<1> QED BY <1>1, <1>2, <1>3, <1>4, FileKept DEF Reread, Truncated, IInv, Local

LEMMA PlanningSteps ==
    ASSUME IInv, NEW h \in Handles, StartRun(h) \/ StartManual(h)
    PROVE  IInv'
<1> DEFINE Snapshot ==
      /\ h \in open /\ write[h].for = "none" /\ job[h] = "none"
      /\ job' \in {[job EXCEPT ![h] = "run"], [job EXCEPT ![h] = "manual"]}
      /\ known' = [known EXCEPT ![h] = mem[h].ctx]
      /\ expected' = [expected EXCEPT ![h] = mem[h].next]
      /\ UNCHANGED <<file, tail, said, open, mem, write, buffer, rebased, failure>>
<1>0. Snapshot
  BY DEF StartRun, StartManual, Idle
<1>1. TypeOK'
  BY <1>0 DEF IInv, TypeOK
<1>2. \A k \in Handles \ {h} : Same(k)
  BY <1>0 DEF Same, IInv, TypeOK
<1>3. Jobs(h)' /\ Buffered(h)'
  <2>1. /\ write' = write /\ open' = open /\ buffer' = buffer /\ rebased' = rebased
        /\ write[h].at = "idle" /\ buffer[h] = <<>> /\ ~rebased[h] /\ job'[h] \in {"run", "manual"}
    BY <1>0 DEF IInv, TypeOK, Local, Jobs
  <2> QED BY <2>1, <1>0 DEF Jobs, Buffered
<1>4. Memory(h)'
  BY <1>0 DEF IInv, TypeOK, Local, Memory, Resolve, IsControl
<1>5. Plan(h)'
  <2>1. mem[h].next \in 0 .. Len(file) /\ mem[h].ctx = Resolve(file, mem[h].next)
    BY <1>0 DEF IInv, TypeOK, Local, Memory
  <2>2. SinceClear(file, mem[h].next) \subseteq mem[h].ctx
    BY <2>1 DEF IInv, NoneLost
  <2> QED BY <2>1, <2>2, <1>0 DEF IInv, TypeOK, Plan, SinceClear
<1> QED BY <1>0, <1>1, <1>2, <1>3, <1>4, <1>5, FileKept DEF IInv, Local

LEMMA SayStep == ASSUME IInv, NEW h \in Handles, Say(h) PROVE IInv'
<1>0. /\ said + 1 \in Messages /\ Item(said + 1) \in Record
      /\ Item(said + 1).kind = "item" /\ Item(said + 1).ctx = {said + 1}
      /\ ~IsControl(Item(said + 1))
  BY SessionAssumption DEF Say, IInv, TypeOK, Item, Record, Kind, Messages, IsControl
<1>1. TypeOK'
  BY SMTT(30), <1>0, SessionAssumption DEF IInv, TypeOK, Say
<1>2. \A k \in Handles \ {h} : Same(k)
  BY DEF Say, Same, IInv, TypeOK
<1>3. Jobs(h)'
  BY DEF Say, InRun, Idle, IInv, TypeOK, Local, Jobs, WellFormed, IsControl
<1>4. Buffered(h)'
  <2>1. buffer[h] \in Seq(Record) /\ buffer'[h] = Append(buffer[h], Item(said + 1))
        /\ known'[h] = known[h] \cup {said + 1}
    BY DEF Say, IInv, TypeOK
  <2>2. \A i \in 1 .. Len(buffer'[h]) :
          \/ i \in 1 .. Len(buffer[h]) /\ buffer'[h][i] = buffer[h][i]
          \/ buffer'[h][i] = Item(said + 1)
    BY <2>1, <1>0
  <2> QED BY <2>1, <2>2, <1>0 DEF IInv, Local, Buffered, IsControl
<1>5. Memory(h)'
  BY DEF Say, IInv, TypeOK, Local, Memory, Resolve, IsControl
<1>6. Plan(h)'
  BY DEF Say, IInv, TypeOK, Local, Plan, SinceClear
<1> QED BY <1>1, <1>2, <1>3, <1>4, <1>5, <1>6, FileKept DEF Say, IInv, Local

LEMMA DropManualStep == ASSUME IInv, NEW h \in Handles, DropManual(h) PROVE IInv'
<1>0. TypeOK /\ Leave(h) /\ UNCHANGED <<file, tail, said, open, mem, write>>
  BY DEF DropManual, IInv
<1>1. TypeOK'
  BY <1>0, LeaveType DEF TypeOK
<1>2. \A k \in Handles \ {h} : Same(k)
  BY <1>0 DEF Leave, Same, TypeOK
<1>3. Jobs(h)' /\ Buffered(h)' /\ Plan(h)'
  <2>1. /\ write[h].for = "none" /\ write[h].at = "idle" /\ Len(file) \in Nat
    BY LenProperties DEF DropManual, Idle, IInv, TypeOK, Local, Jobs
  <2>2. /\ job'[h] = "none" /\ buffer'[h] = <<>> /\ expected'[h] = 0 /\ ~rebased'[h]
    BY <1>0 DEF Leave, TypeOK
  <2> QED BY <1>0, <2>1, <2>2 DEF Jobs, Buffered, Plan, SinceClear
<1>4. Memory(h)'
  BY <1>0 DEF IInv, Local, Memory, Resolve, IsControl
<1> QED BY <1>0, <1>1, <1>2, <1>3, <1>4, FileKept DEF IInv, Local

\* What a handle may begin to write, and with which job.
MayBegin(h, for, b, j) ==
    /\ h \in open
    /\ for \in Purpose \ {"none"} /\ b \in Seq(Record) /\ b # <<>>
    /\ j \in {job[h], "ending"}
    /\ for = "compact" => j = "compacting"
    /\ for = "manual" => j = "manual"
    /\ for \in {"flush", "precompact"} => j = "run"
    /\ for \in {"final", "closing"} => j = "ending"
    /\ for \in {"compact", "manual"} => Len(b) = 1
    /\ for \in {"flush", "precompact", "final", "closing"} =>
          \A i \in 1 .. Len(b) : ~IsControl(b[i])
    /\ \A i \in 1 .. Len(b) :
          /\ b[i].kind = "item" => b[i].ctx \subseteq known[h]
          /\ IsControl(b[i]) => Len(b) = 1
          /\ b[i].kind = "compact" => for \in {"compact", "manual"} /\ b[i].ctx = known[h]

Begins(h, for, b, j) ==
    /\ Begin(h, for, b)
    /\ job' = [job EXCEPT ![h] = j]
    /\ UNCHANGED <<file, tail, said, open, mem, known, expected, buffer, rebased, failure>>

LEMMA BeginStep ==
    ASSUME IInv, NEW h \in Handles, NEW for, NEW b, NEW j, MayBegin(h, for, b, j), Begins(h, for, b, j)
    PROVE  IInv'
<1>1. TypeOK'
  BY SessionAssumption DEF IInv, TypeOK, Begin, Begins, MayBegin
<1>2. \A k \in Handles \ {h} : Same(k)
  BY DEF Begin, Begins, Same, IInv, TypeOK
<1>3. /\ write'[h].for = for /\ write'[h].at = "append" /\ write'[h].batch = b
      /\ job'[h] = j /\ known' = known /\ buffer' = buffer /\ open' = open /\ rebased' = rebased
  BY DEF Begin, Begins, IInv, TypeOK
<1>4. WellFormed(h, b)'
  BY <1>3 DEF WellFormed, IsControl, MayBegin
<1>5. Jobs(h)'
  <2>1. j # job[h] => j = "ending"
    BY DEF MayBegin
  <2> QED BY <2>1, <1>3, <1>4 DEF Jobs, IInv, Local, IsControl, Purpose, MayBegin
<1>6. Buffered(h)' /\ Memory(h)' /\ Plan(h)'
  BY DEF IInv, Local, Buffered, Memory, Plan, SinceClear, Resolve, IsControl, Begins
<1> QED BY <1>1, <1>2, <1>5, <1>6, FileKept DEF IInv, Local, Begins

LEMMA CommittingSteps ==
    ASSUME IInv, NEW h \in Handles,
           \/ TurnEnds(h) \/ Compacts(h) \/ PersistCompaction(h) \/ EngineCompletes(h)
           \/ FinishManual(h) \/ Note(h) \/ WriteClear(h)
    PROVE  IInv'
<1>0. /\ job \in [Handles -> {"none", "run", "compacting", "ending", "manual"}]
      /\ job = [job EXCEPT ![h] = job[h]]
      /\ known[h] \in SUBSET Messages
      /\ buffer[h] \in Seq(Record) /\ Len(buffer[h]) \in Nat /\ Buffered(h)
  BY LenProperties DEF IInv, TypeOK, Local
<1>1. /\ <<Stats>> \in Seq(Record) /\ <<Stats>> # <<>> /\ Len(<<Stats>>) = 1 /\ <<Stats>>[1] = Stats
      /\ Stats \in Record /\ Stats.kind = "stats" /\ ~IsControl(Stats)
  BY DEF Stats, Record, Kind, IsControl
<1>2. CASE TurnEnds(h)
  <2>1. MayBegin(h, "flush", buffer[h], "run")
    <3>1. h \in open /\ job[h] = "run" /\ buffer[h] # <<>>
      BY <1>2 DEF TurnEnds, InRun, Idle
    <3>2. \A i \in 1 .. Len(buffer[h]) :
            ~IsControl(buffer[h][i]) /\ (buffer[h][i].kind = "item" => buffer[h][i].ctx \subseteq known[h])
      BY <1>0 DEF Buffered
    <3>3. \A i \in 1 .. Len(buffer[h]) : buffer[h][i].kind # "compact"
      BY <3>2 DEF IsControl
    <3> QED BY <3>1, <3>2, <3>3, <1>0 DEF MayBegin, Purpose
  <2>2. Begins(h, "flush", buffer[h], "run")
    BY <1>0, <1>2 DEF Begins, TurnEnds, InRun, callVars
  <2> QED BY <2>1, <2>2, BeginStep
<1>3. CASE Compacts(h)
  <2> DEFINE b == Append(buffer[h], Stats)
  <2>1. b \in Seq(Record) /\ b # <<>> /\ Len(b) = Len(buffer[h]) + 1
    BY <1>0, <1>1
  <2>2. \A i \in 1 .. Len(b) : (i \in 1 .. Len(buffer[h]) /\ b[i] = buffer[h][i]) \/ b[i] = Stats
    BY <1>0, <1>1
  <2>3. \A i \in 1 .. Len(b) : ~IsControl(b[i]) /\ (b[i].kind = "item" => b[i].ctx \subseteq known[h])
    BY <2>2, <1>0, <1>1 DEF Buffered
  <2>4. Begins(h, "precompact", b, "run")
    BY <1>0, <1>3 DEF Begins, Compacts, InRun, callVars
  <2> HIDE DEF b
  <2>5. MayBegin(h, "precompact", b, "run")
    BY <1>3, <2>1, <2>3 DEF MayBegin, Compacts, InRun, Idle, Purpose, IsControl
  <2> QED BY <2>4, <2>5, BeginStep
<1>4. ASSUME NEW for \in {"compact", "manual"}, Begin(h, for, <<Compact(known[h])>>), h \in open,
             job[h] = IF for = "compact" THEN "compacting" ELSE "manual",
             UNCHANGED <<file, tail, said, open, mem, callVars>>
      PROVE  IInv'
  <2> DEFINE b == <<Compact(known[h])>>
  <2>1. Compact(known[h]) \in Record
    BY <1>0 DEF Compact, Record, Kind
  <2>2. /\ b \in Seq(Record) /\ b # <<>> /\ Len(b) = 1
        /\ b[1].kind = "compact" /\ b[1].ctx = known[h]
    BY <2>1 DEF Compact
  <2>3. Begins(h, for, b, job[h])
    BY <1>0, <1>4 DEF Begins, callVars
  <2> HIDE DEF b
  <2>4. MayBegin(h, for, b, job[h])
    BY <2>2, <1>4 DEF MayBegin, Purpose
  <2> QED BY <2>3, <2>4, BeginStep
<1>5. CASE PersistCompaction(h) \/ FinishManual(h)
  BY <1>4, <1>5 DEF PersistCompaction, FinishManual, Idle
<1>6. CASE EngineCompletes(h)
  <2>1. h \in open /\ job' = [job EXCEPT ![h] = "ending"]
        /\ UNCHANGED <<file, tail, said, open, mem, known, expected, buffer, rebased, failure>>
    BY <1>6 DEF EngineCompletes, InRun, Idle
  <2>2. CASE buffer[h] = <<>>
    <3>1. MayBegin(h, "closing", <<Stats>>, "ending")
      BY <2>1, <1>1 DEF MayBegin, Purpose
    <3>2. Begins(h, "closing", <<Stats>>, "ending")
      BY <2>1, <2>2, <1>6 DEF Begins, EngineCompletes
    <3> QED BY <3>1, <3>2, BeginStep
  <2>3. CASE buffer[h] # <<>>
    <3>1. MayBegin(h, "final", buffer[h], "ending")
      <4>1. \A i \in 1 .. Len(buffer[h]) :
              ~IsControl(buffer[h][i]) /\ (buffer[h][i].kind = "item" => buffer[h][i].ctx \subseteq known[h])
        BY <1>0 DEF Buffered
      <4>2. \A i \in 1 .. Len(buffer[h]) : buffer[h][i].kind # "compact"
        BY <4>1 DEF IsControl
      <4> QED BY <4>1, <4>2, <2>1, <2>3, <1>0 DEF MayBegin, Purpose
    <3>2. Begins(h, "final", buffer[h], "ending")
      BY <2>1, <2>3, <1>6 DEF Begins, EngineCompletes
    <3> QED BY <3>1, <3>2, BeginStep
  <2> QED BY <2>2, <2>3
<1>7. CASE Note(h)
  <2>1. MayBegin(h, "note", <<Stats>>, job[h])
    BY <1>1, <1>7 DEF MayBegin, Note, Idle, Purpose
  <2>2. Begins(h, "note", <<Stats>>, job[h])
    BY <1>0, <1>7 DEF Begins, Note, callVars
  <2> QED BY <2>1, <2>2, BeginStep
<1>8. CASE WriteClear(h)
  <2>1. <<Clear>> \in Seq(Record) /\ <<Clear>> # <<>> /\ Len(<<Clear>>) = 1 /\ <<Clear>>[1].kind = "clear"
    BY DEF Clear, Record, Kind
  <2>2. MayBegin(h, "note", <<Clear>>, job[h])
    BY <1>8, <2>1 DEF MayBegin, WriteClear, Idle, Purpose
  <2>3. Begins(h, "note", <<Clear>>, job[h])
    BY <1>0, <1>8 DEF Begins, WriteClear, callVars
  <2> QED BY <2>2, <2>3, BeginStep
<1> QED BY <1>2, <1>3, <1>5, <1>6, <1>7, <1>8

\* The batch of a client reaches the file, whether or not the client learns of it.
LEMMA LandingSteps ==
    ASSUME IInv, NEW h \in Handles, Accepted(h) \/ Abandoned(h)
    PROVE  IInv'
<1> DEFINE b == write[h].batch
<1>l. Lands(h)
  BY DEF Accepted, Abandoned
<1>0. /\ file \in Seq(Entry) /\ Len(file) \in Nat /\ b \in Seq(Record) /\ Len(b) \in Nat
      /\ mem[h].next = Len(file) /\ expected[h] \in Nat /\ known[h] \in SUBSET Messages
      /\ mem[h].ctx = Resolve(file, Len(file)) /\ h \in open /\ open' = open
      /\ b # <<>> /\ WellFormed(h, b) /\ Jobs(h) /\ Buffered(h) /\ Plan(h)
  BY <1>l, LenProperties DEF IInv, TypeOK, Local, Lands, AtTail, Jobs, WellFormed, Memory
<1>1. file' = file \o EntriesAt(Len(file), b) /\ tail' = "clean"
  BY <1>0, <1>l DEF Lands, AppendLine, Truncated, IInv, TypeOK
<1>2. Strict(h) => expected[h] = Len(file) /\ SinceClear(file, Len(file)) \subseteq known[h]
  BY <1>0, <1>l DEF Lands, PlanIsCurrent, Strict, Jobs, Plan
<1>3. \A i \in 1 .. Len(b) :
        /\ IsControl(b[i]) => Len(b) = 1
        /\ b[i].kind = "item" => b[i].ctx \subseteq known[h]
        /\ b[i].kind = "compact" => SinceClear(file, Len(file)) \subseteq b[i].ctx
  BY <1>0, <1>2 DEF WellFormed, Strict
<1>4. \A n \in 0 .. Len(file) : SinceClear(file, n) \subseteq Resolve(file, n)
  BY DEF IInv, NoneLost
<1>e. Fits(file, b, known[h])
  BY <1>0, <1>3, <1>4 DEF Fits
<1>5. /\ file' \in Seq(Entry)
      /\ Len(file') = Len(file) + Len(b)
      /\ Resolve(file', Len(file')) = Applied(Resolve(file, Len(file)), b)
      /\ SinceClear(file', Len(file')) \subseteq SinceClear(file, Len(file)) \cup known[h]
      /\ \A n \in 0 .. Len(file') : SinceClear(file', n) \subseteq Resolve(file', n)
  BY <1>0, <1>1, <1>e, BatchAppend DEF Extends
<1>6. /\ EntriesAt(Len(file), b) \in Seq(Entry)
      /\ \A n \in 0 .. Len(file) : /\ SinceClear(file', n) = SinceClear(file, n)
                                    /\ Resolve(file', n) = Resolve(file, n)
  BY <1>0, <1>1, Entries, Prefix
<1>7. NoneLost' /\ SequenceIsPlace'
  <2>1. NoneLost'
    BY <1>5 DEF NoneLost, SinceClear, Resolve, IsControl
  <2>2. ASSUME NEW i \in 1 .. Len(file') PROVE file'[i].seq = i
    <3>1. CASE i <= Len(file)
      BY <3>1, <1>0, <1>1, <1>6, ConcatProperties DEF IInv, SequenceIsPlace
    <3>2. CASE i > Len(file)
      <4>1. i - Len(file) \in 1 .. Len(b) /\ Len(file) + (i - Len(file)) = i
        BY <3>2, <1>0, <1>5
      <4>2. EntriesAt(Len(file), b)[i - Len(file)].seq = i
        BY <4>1, <1>0, Entries
      <4>3. file'[i] = EntriesAt(Len(file), b)[i - Len(file)]
        BY <3>2, <1>0, <1>1, <1>5, <1>6, ConcatProperties
      <4> QED BY <4>2, <4>3
    <3> QED BY <3>1, <3>2, <1>0
  <2>3. DOMAIN file' = 1 .. Len(file')
    BY <1>5, LenProperties
  <2> QED BY <2>1, <2>2, <2>3 DEF SequenceIsPlace
<1>8. \/ mem' = [mem EXCEPT ![h] = [next |-> Len(file'), ctx |-> Resolve(file', Len(file'))]]
      \/ mem' = mem
  BY <1>0, <1>5 DEF Accepted, Abandoned
<1>9. Memory(h)' /\ mem' \in [Handles -> [next : Nat, ctx : SUBSET Messages]]
  <2>1. Resolve(file', Len(file')) \in SUBSET Messages /\ Len(file') \in Nat
    BY <1>5, LenProperties DEF Resolve
  <2>2. CASE mem' = [mem EXCEPT ![h] = [next |-> Len(file'), ctx |-> Resolve(file', Len(file'))]]
    <3>1. /\ mem' \in [Handles -> [next : Nat, ctx : SUBSET Messages]]
          /\ mem'[h].next = Len(file') /\ mem'[h].ctx = Resolve(file', Len(file'))
      BY <2>1, <2>2 DEF IInv, TypeOK
    <3> QED BY <2>1, <3>1 DEF Memory, Resolve, IsControl
  <2>3. CASE mem' = mem
    <3>1. Resolve(file', Len(file)) = Resolve(file, Len(file)) /\ Len(file) <= Len(file')
      BY <1>0, <1>5, <1>6
    <3> QED BY <2>3, <3>1, <1>0 DEF IInv, TypeOK, Memory, Resolve, IsControl
  <2> QED BY <1>8, <2>2, <2>3
<1> HIDE DEF b
<1>10. ASSUME TypeOK', \A k \in Handles \ {h} : Same(k), Jobs(h)', Buffered(h)', Plan(h)'
       PROVE  IInv'
  <2>1. \A k \in Handles : Local(k)'
    BY <1>1, <1>6, <1>9, <1>10, Elsewhere DEF Local
  <2> QED BY <2>1, <1>1, <1>7, <1>10 DEF IInv
<1>11. ASSUME \A k \in Handles \ {h} : /\ write'[k] = write[k] /\ job'[k] = job[k] /\ known'[k] = known[k]
                                       /\ expected'[k] = expected[k] /\ buffer'[k] = buffer[k]
                                       /\ rebased'[k] = rebased[k]
       PROVE  \A k \in Handles \ {h} : Same(k)
  BY <1>0, <1>8, <1>11 DEF Same, IInv, TypeOK
<1>12. CASE Flushed(h, Len(file)) /\ write[h].for \in {"flush", "precompact", "final"}
  <2> DEFINE for   == write[h].for
             stale == rebased[h] \/ Interleaved(expected[h], Len(file))
             left  == Unsaved(h, for = "precompact" /\ stale)
  <2>1. <<Stats>> \in Seq(Record) /\ <<Stats>> # <<>> /\ Len(<<Stats>>) = 1
        /\ <<Stats>>[1] = Stats /\ ~IsControl(Stats) /\ Stats.kind = "stats"
    BY DEF Stats, Record, Kind, IsControl
  <2>2. left \in {<<>>, <<Stats>>} /\ stale \in BOOLEAN
    BY DEF Unsaved, Interleaved, IInv, TypeOK
  <2>3. /\ rebased' = [rebased EXCEPT ![h] = stale]
        /\ expected' = [expected EXCEPT ![h] = Len(file')]
        /\ buffer' = [buffer EXCEPT ![h] = left]
        /\ job' = [job EXCEPT ![h] = IF for = "precompact" /\ ~stale THEN "compacting" ELSE @]
        /\ known' = known /\ failure' = failure /\ said' = said
        /\ IF for = "final" THEN Begin(h, "closing", <<Stats>>) ELSE Finished(h)
    BY <1>0, <1>5, <1>12, <1>l DEF Flushed, b, Lands
  <2> HIDE DEF stale, left
  <2>4. write' \in [Handles -> [for : Purpose, at : {"idle", "append", "reread"},
                                batch : Seq(Record), tries : 0 .. MaxRetries]]
    <3>1. \E w \in [for : Purpose, at : {"idle", "append", "reread"},
                    batch : Seq(Record), tries : 0 .. MaxRetries] : write' = [write EXCEPT ![h] = w]
      <4>1. CASE for = "final"
        <5> DEFINE w == [for |-> "closing", at |-> "append", batch |-> <<Stats>>, tries |-> 0]
        <5>1. w \in [for : Purpose, at : {"idle", "append", "reread"},
                     batch : Seq(Record), tries : 0 .. MaxRetries]
          BY <2>1, SessionAssumption DEF Purpose
        <5>2. write' = [write EXCEPT ![h] = w]
          BY <4>1, <2>3 DEF Begin
        <5> QED BY <5>1, <5>2
      <4>2. CASE for # "final"
        <5>1. NoWrite \in [for : Purpose, at : {"idle", "append", "reread"},
                           batch : Seq(Record), tries : 0 .. MaxRetries]
          BY SessionAssumption DEF NoWrite, Purpose
        <5>2. write' = [write EXCEPT ![h] = NoWrite]
          BY <4>2, <2>3 DEF Finished
        <5> QED BY <5>1, <5>2
      <4> QED BY <4>1, <4>2
    <3> QED BY <3>1 DEF IInv, TypeOK
  <2>5. TypeOK'
    <3>1. job' \in [Handles -> {"none", "run", "compacting", "ending", "manual"}]
      BY <2>3 DEF IInv, TypeOK
    <3>2. buffer' \in [Handles -> Seq(Record)]
      <4>1. left \in Seq(Record)
        <5>1. <<>> \in Seq(Record) /\ <<Stats>> \in Seq(Record)
          BY <2>1
        <5> QED BY <5>1, <2>2, Zenon
      <4> QED BY <4>1, <2>3 DEF IInv, TypeOK
    <3>3. expected' \in [Handles -> Nat]
      BY <1>0, <1>5, <2>3 DEF IInv, TypeOK
    <3>4. rebased' \in [Handles -> BOOLEAN]
      BY <2>2, <2>3 DEF IInv, TypeOK
    <3> QED BY <3>1, <3>2, <3>3, <3>4, <1>0, <1>1, <1>5, <1>9, <2>3, <2>4 DEF IInv, TypeOK
  <2>6. \A k \in Handles \ {h} : Same(k)
    BY <1>11, <2>3 DEF IInv, TypeOK, Begin, Finished
  <2>7. Buffered(h)'
    BY <2>1, <2>2, <2>3 DEF IInv, TypeOK, Buffered, IsControl
  <2>8. Plan(h)'
    <3>1. rebased'[h] = stale /\ expected'[h] = Len(file') /\ known'[h] = known[h]
      BY <2>3 DEF IInv, TypeOK
    <3> SUFFICES ASSUME ~stale
                 PROVE  SinceClear(file', Len(file')) \subseteq known[h] /\ Len(file') \in Nat
      BY <3>1 DEF Plan, SinceClear
    <3>2. ~rebased[h] /\ \A i \in expected[h] + 1 .. Len(file) : file[i].kind # "item"
      BY DEF stale, Interleaved
    <3>3. expected[h] \in 0 .. Len(file) /\ SinceClear(file, expected[h]) \subseteq known[h]
      BY <3>2, <1>0 DEF Plan
    <3>4. SinceClear(file, Len(file)) \subseteq known[h]
      BY <3>2, <3>3, <1>0, NothingOwed
    <3> QED BY <3>4, <1>5, LenProperties
  <2>9. Jobs(h)'
    <3>1. job[h] = IF for = "final" THEN "ending" ELSE "run"
      BY <1>0, <1>12 DEF Jobs
    <3>2. CASE for = "final"
      <4>1. /\ write'[h] = [for |-> "closing", at |-> "append", batch |-> <<Stats>>, tries |-> 0]
            /\ job'[h] = "ending" /\ open' = open
        BY <3>1, <3>2, <2>3, <1>0 DEF IInv, TypeOK, Begin
      <4> QED BY <4>1, <2>1, <1>0 DEF Jobs, WellFormed, IsControl
    <3>3. CASE for # "final"
      <4>1. write'[h] = NoWrite /\ job'[h] = IF for = "precompact" /\ ~stale THEN "compacting" ELSE "run"
        BY <3>1, <3>3, <2>3 DEF IInv, TypeOK, Finished
      <4>2. rebased'[h] = stale
        BY <2>3 DEF IInv, TypeOK
      <4> QED BY <4>1, <4>2 DEF Jobs, NoWrite
    <3> QED BY <3>2, <3>3
  <2> QED BY <2>5, <2>6, <2>7, <2>8, <2>9, <1>10
<1>13. CASE Compacted(h) /\ write[h].for = "compact"
  <2>1. <<Stats>> \in Seq(Record) /\ Len(<<Stats>>) = 1
        /\ <<Stats>>[1] = Stats /\ ~IsControl(Stats) /\ Stats.kind = "stats"
    BY DEF Stats, Record, Kind, IsControl
  <2>2. /\ expected' = [expected EXCEPT ![h] = @ + 1]
        /\ buffer' = [buffer EXCEPT ![h] = <<Stats>>]
        /\ job' = [job EXCEPT ![h] = "run"]
        /\ write' = [write EXCEPT ![h] = NoWrite]
        /\ known' = known /\ rebased' = rebased /\ failure' = failure /\ said' = said
    BY <1>13, <1>l DEF Compacted, Finished, Lands
  <2>3. TypeOK'
    BY SMTT(30), <1>0, <1>1, <1>5, <1>9, <2>1, <2>2, SessionAssumption DEF IInv, TypeOK, NoWrite, Purpose
  <2>4. \A k \in Handles \ {h} : Same(k)
    BY <1>11, <2>2 DEF IInv, TypeOK
  <2>5. Buffered(h)'
    BY <2>1, <2>2 DEF IInv, TypeOK, Buffered, IsControl
  <2>6. Jobs(h)'
    BY <2>2 DEF IInv, TypeOK, Jobs, NoWrite
  <2>7. Plan(h)'
    <3>1. Len(b) = 1 /\ expected[h] = Len(file) /\ SinceClear(file, Len(file)) \subseteq known[h]
      BY <1>0, <1>2, <1>13 DEF WellFormed, Strict
    <3>2. expected'[h] = Len(file') /\ SinceClear(file', Len(file')) \subseteq known[h]
      BY <3>1, <2>2, <1>0, <1>5 DEF IInv, TypeOK
    <3> QED BY <3>2, <2>2, <1>0, <1>5 DEF Plan, SinceClear
  <2> QED BY <2>3, <2>4, <2>5, <2>6, <2>7, <1>10
<1>14. CASE Finished(h) /\ UNCHANGED callVars
  <2>1. TypeOK'
    BY SMTT(30), <1>0, <1>1, <1>5, <1>9, <1>14, <1>l, SessionAssumption
    DEF IInv, TypeOK, Finished, NoWrite, Purpose, callVars, Lands
  <2>2. \A k \in Handles \ {h} : Same(k)
    BY <1>11, <1>14 DEF IInv, TypeOK, Finished, callVars
  <2>3. Buffered(h)' /\ Jobs(h)'
    BY <1>0, <1>14 DEF IInv, TypeOK, Buffered, Jobs, Finished, NoWrite, callVars, IsControl
  <2>4. Plan(h)'
    <3>1. rebased' = rebased /\ expected' = expected /\ known' = known
      BY <1>14 DEF callVars
    <3> SUFFICES ASSUME ~rebased[h]
                 PROVE  expected[h] <= Len(file') /\ SinceClear(file', expected[h]) \subseteq known[h]
      BY <3>1 DEF Plan, SinceClear
    <3>2. expected[h] \in 0 .. Len(file) /\ SinceClear(file, expected[h]) \subseteq known[h]
      BY <1>0 DEF Plan
    <3> QED BY <3>2, <1>0, <1>5, <1>6
  <2> QED BY <2>1, <2>2, <2>3, <2>4, <1>10
<1>15. CASE Finished(h) /\ Leave(h)
  <2>1. TypeOK /\ Leave(h)
    BY <1>15 DEF IInv
  <2>2. write' \in [Handles -> [for : Purpose, at : {"idle", "append", "reread"},
                                batch : Seq(Record), tries : 0 .. MaxRetries]]
    BY <1>15, <2>1, SessionAssumption DEF TypeOK, Finished, NoWrite, Purpose
  <2>3. TypeOK'
    BY <2>1, <2>2, <1>0, <1>1, <1>5, <1>9, <1>l, LeaveType DEF TypeOK, Lands
  <2>4. \A k \in Handles \ {h} : Same(k)
    BY <1>11, <1>15 DEF IInv, TypeOK, Finished, Leave
  <2>5. Buffered(h)' /\ Jobs(h)' /\ Plan(h)'
    <3>1. /\ write'[h] = NoWrite /\ job'[h] = "none" /\ buffer'[h] = <<>> /\ expected'[h] = 0
          /\ ~rebased'[h] /\ Len(file') \in Nat
      BY <1>5, <1>15, LenProperties DEF IInv, TypeOK, Finished, Leave
    <3> QED BY <3>1 DEF Buffered, Jobs, Plan, NoWrite, SinceClear
  <2> QED BY <2>3, <2>4, <2>5, <1>10
<1>16. CASE StopsPersisting(h, "failed")
  <2>1. <<Stats>> \in Seq(Record) /\ <<Stats>> # <<>> /\ Len(<<Stats>>) = 1
        /\ <<Stats>>[1] = Stats /\ ~IsControl(Stats) /\ Stats.kind = "stats"
    BY DEF Stats, Record, Kind, IsControl
  <2>2. TypeOK'
    <3>1. TypeOK
      BY DEF IInv
    <3>2. write' \in [Handles -> [for : Purpose, at : {"idle", "append", "reread"},
                                  batch : Seq(Record), tries : 0 .. MaxRetries]]
      BY <3>1, <1>16, <2>1, SessionAssumption DEF TypeOK, StopsPersisting, Begin, Purpose
    <3>3. /\ job' \in [Handles -> {"none", "run", "compacting", "ending", "manual"}]
          /\ known' \in [Handles -> SUBSET Messages]
          /\ expected' \in [Handles -> Nat]
          /\ buffer' \in [Handles -> Seq(Record)]
          /\ rebased' \in [Handles -> BOOLEAN]
          /\ failure' \in [Handles -> {"none", "stale", "failed"}]
      BY <3>1, <1>16 DEF TypeOK, StopsPersisting
    <3> QED BY <3>1, <3>2, <3>3, <1>0, <1>1, <1>5, <1>9, <1>l DEF TypeOK, Lands
  <2>3. \A k \in Handles \ {h} : Same(k)
    BY <1>11, <1>16 DEF IInv, TypeOK, StopsPersisting, Begin
  <2>4. Buffered(h)' /\ Plan(h)' /\ Jobs(h)'
    <3>1. /\ write'[h] = [for |-> "closing", at |-> "append", batch |-> <<Stats>>, tries |-> 0]
          /\ job'[h] = "ending" /\ open' = open /\ buffer'[h] = <<>> /\ rebased'[h]
      BY <1>0, <1>16 DEF IInv, TypeOK, StopsPersisting, Begin
    <3> QED BY <3>1, <2>1, <1>0 DEF Buffered, Plan, Jobs, WellFormed, IsControl, SinceClear
  <2> QED BY <2>2, <2>3, <2>4, <1>10
<1>17. \/ ResumeAfterAppend(h, Len(file))
       \/ Finished(h) /\ UNCHANGED callVars
       \/ Finished(h) /\ Leave(h)
  BY <1>0 DEF Accepted, Abandoned
<1> QED BY <1>12, <1>13, <1>14, <1>15, <1>16, <1>17 DEF ResumeAfterAppend

LEMMA NextIInv == IInv /\ [Next]_vars => IInv'
<1> SUFFICES ASSUME IInv, [Next]_vars PROVE IInv'
  OBVIOUS
<1>1. CASE Next
  <2>1. PICK h \in Handles : Open(h) \/ Exit(h) \/ Commit(h) \/ Run(h) \/ Others(h)
    BY <1>1 DEF Next
  <2>2. CASE Commit(h)
    BY <2>2, LandingSteps, FailureSteps, ConflictStep, RereadStep DEF Commit
  <2>3. CASE Run(h)
    BY <2>3, PlanningSteps, SayStep, CommittingSteps DEF Run
  <2>4. CASE Others(h)
    BY <2>4, PlanningSteps, DropManualStep, CommittingSteps DEF Others
  <2> QED BY <2>1, <2>2, <2>3, <2>4, OpenStep, ExitStep
<1>2. CASE UNCHANGED vars
  <2>1. TypeOK' /\ (tail # "garbled")' /\ SequenceIsPlace' /\ NoneLost'
    <3>1. TypeOK' /\ (tail # "garbled")'
      BY <1>2 DEF vars, callVars, IInv, TypeOK
    <3>2. file' = file
      BY <1>2 DEF vars
    <3>3. SequenceIsPlace /\ NoneLost
      BY DEF IInv
    <3>4. SequenceIsPlace'
      BY <3>2, <3>3 DEF SequenceIsPlace
    <3>5. NoneLost'
      BY <3>2, <3>3 DEF NoneLost, SinceClear, Resolve, IsControl
    <3> QED BY <3>1, <3>4, <3>5
  <2>2. <<>> \in Seq(Entry) /\ \A k \in Handles : Same(k)
    BY <1>2 DEF vars, callVars, Same
  <2>3. \A k \in Handles : Local(k)'
    BY <1>2, <2>2, Elsewhere DEF vars
  <2> QED BY <2>1, <2>3 DEF IInv
<1> QED BY <1>1, <1>2

THEOREM Invariance == Spec => []IInv
BY InitIInv, NextIInv, PTL DEF Spec

-----------------------------------------------------------------------------
(* What follows for a reader of the transcript.                             *)

\* Every variable keeps its type, for any number of clients and any bounds.
THEOREM TypeCorrect == Spec => []TypeOK
<1>1. IInv => TypeOK
  BY DEF IInv
<1> QED BY <1>1, Invariance, PTL

\* Every open Session object holds a past of the file, over conflicts, rebases and
\* failed appends (append_batch and refresh_locked, session.rs).
THEOREM SessionsHoldAPast == Spec => []MemoryIsAPast
<1>1. IInv => MemoryIsAPast
  BY DEF IInv, TypeOK, Local, Memory, MemoryIsAPast
<1> QED BY <1>1, Invariance, PTL

\* Comparing the last sequence number compares the file (compare_and_append_entries).
THEOREM SequencesArePlaces == Spec => []SequenceIsPlace
<1>1. IInv => SequenceIsPlace
  BY DEF IInv
<1> QED BY <1>1, Invariance, PTL

\* A line is never written behind a torn one (truncate_incomplete_tail).
THEOREM EveryCommitIsReadable == Spec => []StaysReadable
<1>1. IInv => StaysReadable
  BY DEF IInv, StaysReadable
<1> QED BY <1>1, Invariance, PTL

\* No compaction, of a run or of a user, drops what another client has said since
\* the last /clear (append_strict, and rebased plans in run/runtime.rs).
THEOREM CompactionsLoseNothing == Spec => []NoMessageIsLost
<1>1. IInv => NoMessageIsLost
  BY LenProperties DEF IInv, TypeOK, NoneLost, NoMessageIsLost
<1> QED BY <1>1, Invariance, PTL

\* Memory is a past of the file, and the numbering of the file is its order
\* (append_with_reload, append_entries).
THEOREM SessionsAreFaithful == Spec => []MemoryIsFaithful
<1> QED BY SessionsHoldAPast, SequencesArePlaces, PTL DEF MemoryIsFaithful


-----------------------------------------------------------------------------
(* Nothing is said twice: a message is in the file or in the buffer of the  *)
(* one run that said it, and what a run commits is its buffer, which it     *)
(* gives up with the commit.                                                *)

Plain(s) == \A i \in 1 .. Len(s) : s[i].kind # "item"
SaidBefore(s, n) == \A i \in 1 .. Len(s) : s[i].kind = "item" => s[i].ctx \subseteq 1 .. n
Once(s) == \A i, j \in 1 .. Len(s) : s[i].kind = "item" /\ s[j].kind = "item" /\ s[i].ctx = s[j].ctx => i = j
Apart(s, t) == \A i \in 1 .. Len(s), j \in 1 .. Len(t) : s[i].kind = "item" /\ t[j].kind = "item" => s[i].ctx # t[j].ctx

\* The messages a handle commits are those of its buffer.
CommitsBuffer(w, b) ==
    \/ Plain(w.batch)
    \/ w.for \in {"flush", "precompact", "final"} /\ w.batch \in {b, Append(b, Stats)}

SaidInv ==
    /\ SaidBefore(file, said) /\ Once(file)
    /\ \A h \in Handles : /\ SaidBefore(buffer[h], said) /\ Once(buffer[h]) /\ Apart(buffer[h], file)
                          /\ CommitsBuffer(write[h], buffer[h])
    /\ \A h, k \in Handles : h # k => Apart(buffer[h], buffer[k])

\* What a handle may do to its buffer without saying anything: keep it, or give it up.
Gives(h) ==
    /\ \A k \in Handles \ {h} : buffer'[k] = buffer[k] /\ write'[k] = write[k]
    /\ CommitsBuffer(write'[h], buffer'[h])
    /\ said' = said

LEMMA PlainIsApart ==
    ASSUME NEW s, NEW t, Plain(s) \/ Plain(t)
    PROVE  Apart(s, t)
BY DEF Plain, Apart

LEMMA GivingKeeps ==
    ASSUME SaidInv, NEW h \in Handles, Gives(h), file' = file, buffer'[h] = buffer[h] \/ Plain(buffer'[h])
    PROVE  SaidInv'
<1>1. ASSUME NEW k \in Handles
      PROVE  /\ SaidBefore(buffer'[k], said) /\ Once(buffer'[k]) /\ Apart(buffer'[k], file)
             /\ CommitsBuffer(write'[k], buffer'[k])
  <2>1. CASE k = h
    BY <2>1 DEF SaidInv, Gives, Plain, SaidBefore, Once, Apart
  <2>2. CASE k # h
    BY <2>2 DEF SaidInv, Gives
  <2> QED BY <2>1, <2>2
<1>2. ASSUME NEW k \in Handles, NEW l \in Handles, k # l PROVE Apart(buffer'[k], buffer'[l])
  <2>1. CASE k # h /\ l # h
    BY <1>2, <2>1 DEF SaidInv, Gives
  <2>2. CASE Plain(buffer'[h]) /\ (k = h \/ l = h)
    BY <2>2, PlainIsApart
  <2>3. CASE buffer'[h] = buffer[h]
    BY <1>2, <2>3 DEF SaidInv, Gives
  <2> QED BY <2>1, <2>2, <2>3
<1> QED BY <1>1, <1>2 DEF SaidInv, Gives

\* Where the records of a file come from when a batch is appended.
LEMMA Joined ==
    ASSUME NEW f \in Seq(Entry), NEW b \in Seq(Record), NEW i \in 1 .. Len(f \o EntriesAt(Len(f), b))
    PROVE  LET g == f \o EntriesAt(Len(f), b) IN
           \/ i \in 1 .. Len(f) /\ g[i] = f[i]
           \/ /\ i \notin 1 .. Len(f) /\ i - Len(f) \in 1 .. Len(b) /\ i \in Nat /\ Len(f) \in Nat
              /\ g[i].kind = b[i - Len(f)].kind /\ g[i].ctx = b[i - Len(f)].ctx
<1> DEFINE e == EntriesAt(Len(f), b)
           g == f \o e
<1>0. Len(f) \in Nat /\ Len(b) \in Nat
  BY LenProperties
<1>1. /\ e \in Seq(Entry) /\ Len(e) = Len(b)
      /\ \A k \in 1 .. Len(b) : e[k].kind = b[k].kind /\ e[k].ctx = b[k].ctx
  BY Entries, <1>0
<1>3. i \in 1 .. Len(g)
  OBVIOUS
<1> HIDE DEF e
<1>2. /\ Len(g) = Len(f) + Len(b)
      /\ \A k \in 1 .. Len(f) : g[k] = f[k]
      /\ \A k \in Len(f) + 1 .. Len(f) + Len(e) : g[k] = e[k - Len(f)]
  <2>1. /\ Len(g) = Len(f) + Len(e)
        /\ \A k \in 1 .. Len(f) + Len(e) : g[k] = IF k <= Len(f) THEN f[k] ELSE e[k - Len(f)]
    BY <1>1, ConcatProperties
  <2> HIDE DEF g
  <2> QED BY <1>0, <1>1, <2>1
<1> HIDE DEF g
<1>4. CASE i \in 1 .. Len(f)
  BY <1>2, <1>4 DEF e, g
<1>5. CASE i \notin 1 .. Len(f)
  <2>1. i \in Len(f) + 1 .. Len(f) + Len(e) /\ i - Len(f) \in 1 .. Len(b) /\ i \in Nat
    BY <1>0, <1>1, <1>2, <1>3, <1>5
  <2>2. g[i].kind = b[i - Len(f)].kind /\ g[i].ctx = b[i - Len(f)].ctx
    BY <1>1, <1>2, <2>1
  <2> QED BY <1>0, <1>5, <2>1, <2>2 DEF e, g
<1> QED BY <1>4, <1>5

LEMMA JoinedOnce ==
    ASSUME NEW f \in Seq(Entry), NEW b \in Seq(Record), NEW n,
           SaidBefore(f, n), SaidBefore(b, n), Once(f), Once(b), Apart(b, f)
    PROVE  /\ SaidBefore(f \o EntriesAt(Len(f), b), n)
           /\ Once(f \o EntriesAt(Len(f), b))
<1> DEFINE g == f \o EntriesAt(Len(f), b)
<1>1. ASSUME NEW i \in 1 .. Len(g)
      PROVE  \/ i \in 1 .. Len(f) /\ g[i] = f[i]
             \/ /\ i \notin 1 .. Len(f) /\ i - Len(f) \in 1 .. Len(b) /\ i \in Nat /\ Len(f) \in Nat
                /\ g[i].kind = b[i - Len(f)].kind /\ g[i].ctx = b[i - Len(f)].ctx
  BY <1>1, Joined
<1> HIDE DEF g
<1>2. SaidBefore(g, n)
  BY <1>1 DEF SaidBefore
<1>3. Once(g)
  <2> SUFFICES ASSUME NEW i \in 1 .. Len(g), NEW j \in 1 .. Len(g),
                      g[i].kind = "item", g[j].kind = "item", g[i].ctx = g[j].ctx
               PROVE  i = j
    BY DEF Once
  <2>1. CASE i \in 1 .. Len(f) /\ j \in 1 .. Len(f)
    BY <1>1, <2>1 DEF Once
  <2>2. CASE i \notin 1 .. Len(f) /\ j \notin 1 .. Len(f)
    <3>1. /\ i - Len(f) \in 1 .. Len(b) /\ j - Len(f) \in 1 .. Len(b)
          /\ i \in Nat /\ j \in Nat /\ Len(f) \in Nat
          /\ b[i - Len(f)].kind = "item" /\ b[j - Len(f)].kind = "item"
          /\ b[i - Len(f)].ctx = b[j - Len(f)].ctx
      BY <1>1, <2>2
    <3>2. i - Len(f) = j - Len(f)
      BY <3>1 DEF Once
    <3> QED BY <3>1, <3>2
  <2>3. CASE i \notin 1 .. Len(f) /\ j \in 1 .. Len(f)
    <3>1. i - Len(f) \in 1 .. Len(b) /\ b[i - Len(f)].kind = "item" /\ b[i - Len(f)].ctx = g[i].ctx
      BY <1>1, <2>3
    <3>2. g[j] = f[j]
      BY <1>1, <2>3
    <3> QED BY <2>3, <3>1, <3>2 DEF Apart
  <2>4. CASE i \in 1 .. Len(f) /\ j \notin 1 .. Len(f)
    <3>1. j - Len(f) \in 1 .. Len(b) /\ b[j - Len(f)].kind = "item" /\ b[j - Len(f)].ctx = g[j].ctx
      BY <1>1, <2>4
    <3>2. g[i] = f[i]
      BY <1>1, <2>4
    <3> QED BY <2>4, <3>1, <3>2 DEF Apart
  <2> QED BY <2>1, <2>2, <2>3, <2>4
<1> QED BY <1>2, <1>3 DEF g

LEMMA JoinedApart ==
    ASSUME NEW f \in Seq(Entry), NEW b \in Seq(Record), NEW s, Apart(s, f), Apart(s, b)
    PROVE  Apart(s, f \o EntriesAt(Len(f), b))
<1> DEFINE g == f \o EntriesAt(Len(f), b)
<1>1. ASSUME NEW i \in 1 .. Len(g)
      PROVE  \/ i \in 1 .. Len(f) /\ g[i] = f[i]
             \/ /\ i - Len(f) \in 1 .. Len(b)
                /\ g[i].kind = b[i - Len(f)].kind /\ g[i].ctx = b[i - Len(f)].ctx
  BY <1>1, Joined
<1> HIDE DEF g
<1>2. Apart(s, g)
  BY <1>1 DEF Apart
<1> QED BY <1>2 DEF g

\* What a handle commits says no more than its buffer.
LEMMA CommitsAreApart ==
    ASSUME SaidInv, TypeOK, NEW h \in Handles
    PROVE  LET b == write[h].batch IN
           /\ b \in Seq(Record) /\ file \in Seq(Entry)
           /\ SaidBefore(b, said) /\ Once(b) /\ Apart(b, file)
           /\ \A k \in Handles \ {h} : Apart(buffer[k], b)
<1> DEFINE b == write[h].batch
           u == buffer[h]
<1>1. b \in Seq(Record) /\ file \in Seq(Entry) /\ u \in Seq(Record) /\ Len(u) \in Nat
  BY LenProperties DEF TypeOK
<1>2. /\ SaidBefore(u, said) /\ Once(u) /\ Apart(u, file)
      /\ \A k \in Handles \ {h} : Apart(buffer[k], u)
      /\ Plain(b) \/ b = u \/ b = Append(u, Stats)
  BY DEF SaidInv, CommitsBuffer
<1> HIDE DEF b, u
<1>3. CASE Plain(b)
  BY <1>1, <1>3 DEF b, Plain, SaidBefore, Once, Apart
<1>4. CASE b = u
  BY <1>1, <1>2, <1>4 DEF b
<1>5. CASE b = Append(u, Stats)
  <2>1. Stats \in Record /\ Stats.kind = "stats"
    BY DEF Stats, Record, Kind
  <2>2. Len(b) = Len(u) + 1 /\ (\A i \in 1 .. Len(u) : b[i] = u[i]) /\ b[Len(u) + 1] = Stats
    BY <1>1, <1>5, <2>1, AppendProperties
  <2>3. \A i \in 1 .. Len(b) : b[i].kind = "item" => i \in 1 .. Len(u) /\ b[i] = u[i]
    BY <1>1, <2>1, <2>2
  <2>4. SaidBefore(b, said)
    BY <1>2, <2>3 DEF SaidBefore
  <2>5. Once(b)
    BY <1>2, <2>3 DEF Once
  <2>6. Apart(b, file)
    BY <1>2, <2>3 DEF Apart
  <2>7. \A k \in Handles \ {h} : Apart(buffer[k], b)
    BY <1>2, <2>3 DEF Apart
  <2> QED BY <1>1, <2>4, <2>5, <2>6, <2>7 DEF b
<1> QED BY <1>2, <1>3, <1>4, <1>5

\* A batch that lands says what the buffer held, and nothing else.
LEMMA LandingKeeps ==
    ASSUME SaidInv, TypeOK, NEW h \in Handles, Gives(h),
           file' = file \o EntriesAt(Len(file), write[h].batch),
           Plain(buffer'[h]) \/ (Plain(write[h].batch) /\ buffer'[h] = buffer[h])
    PROVE  SaidInv'
<1> DEFINE b == write[h].batch
<1>1. /\ b \in Seq(Record) /\ file \in Seq(Entry)
      /\ SaidBefore(b, said) /\ Once(b) /\ Apart(b, file)
      /\ \A k \in Handles \ {h} : Apart(buffer[k], b)
  BY CommitsAreApart
<1>2. SaidBefore(file, said) /\ Once(file)
  BY DEF SaidInv
<1> HIDE DEF b
<1>3. SaidBefore(file', said) /\ Once(file')
  BY <1>1, <1>2, JoinedOnce DEF b
<1>4. ASSUME NEW s, Apart(s, file), Apart(s, b) PROVE Apart(s, file')
  BY <1>1, <1>4, JoinedApart DEF b
<1>5. ASSUME NEW k \in Handles
      PROVE  /\ SaidBefore(buffer'[k], said) /\ Once(buffer'[k]) /\ Apart(buffer'[k], file')
             /\ CommitsBuffer(write'[k], buffer'[k])
  <2>1. CASE k = h /\ Plain(buffer'[h])
    BY <2>1 DEF Gives, Plain, SaidBefore, Once, Apart
  <2>2. CASE k = h /\ Plain(b) /\ buffer'[h] = buffer[h]
    <3>1. Apart(buffer[h], file) /\ Apart(buffer[h], b)
      BY <2>2 DEF SaidInv, Apart, Plain
    <3>2. Apart(buffer[h], file')
      BY <1>4, <3>1
    <3> QED BY <2>2, <3>2 DEF SaidInv, Gives
  <2>3. CASE k # h
    <3>1. Apart(buffer[k], file) /\ Apart(buffer[k], b) /\ buffer'[k] = buffer[k] /\ write'[k] = write[k]
      BY <1>1, <2>3 DEF SaidInv, Gives
    <3>2. Apart(buffer[k], file')
      BY <1>4, <3>1
    <3> QED BY <3>1, <3>2 DEF SaidInv
  <2> QED BY <2>1, <2>2, <2>3 DEF b
<1>6. ASSUME NEW k \in Handles, NEW l \in Handles, k # l PROVE Apart(buffer'[k], buffer'[l])
  <2>1. CASE k # h /\ l # h
    BY <1>6, <2>1 DEF SaidInv, Gives
  <2>2. CASE Plain(buffer'[h]) /\ (k = h \/ l = h)
    BY <2>2, PlainIsApart
  <2>3. CASE buffer'[h] = buffer[h]
    BY <1>6, <2>3 DEF SaidInv, Gives
  <2> QED BY <2>1, <2>2, <2>3
<1>7. said' = said
  BY DEF Gives
<1> QED BY <1>3, <1>5, <1>6, <1>7 DEF SaidInv

\* Every other step keeps the file.
KeepsTheFile(h) ==
    Gives(h) /\ file' = file /\ (buffer'[h] = buffer[h] \/ Plain(buffer'[h]))

LEMMA PlainRecords ==
    /\ Plain(<<>>) /\ Plain(<<Stats>>) /\ Plain(<<Clear>>)
    /\ \A c : Plain(<<Compact(c)>>)
BY DEF Plain, Stats, Clear, Compact

LEMMA BeginningKeeps ==
    ASSUME SaidInv, TypeOK, NEW h \in Handles,
           \/ StartRun(h) \/ StartManual(h) \/ TurnEnds(h) \/ Compacts(h) \/ PersistCompaction(h)
           \/ EngineCompletes(h) \/ FinishManual(h) \/ Note(h) \/ WriteClear(h)
           \/ Open(h) \/ Conflict(h) \/ Reread(h)
    PROVE  KeepsTheFile(h)
<1>1. file' = file /\ said' = said /\ buffer' = buffer
  BY DEF StartRun, StartManual, TurnEnds, Compacts, PersistCompaction, EngineCompletes, FinishManual,
      Note, WriteClear, Open, Conflict, Reread, Begin, callVars
<1>2. write[h] \in [for : Purpose, at : {"idle", "append", "reread"},
                    batch : Seq(Record), tries : 0 .. MaxRetries]
  BY DEF TypeOK
<1>3. /\ \A k \in Handles \ {h} : write'[k] = write[k]
      /\ \/ Plain(write'[h].batch)
         \/ write'[h].for \in {"flush", "precompact", "final"} /\ write'[h].batch \in {buffer[h], Append(buffer[h], Stats)}
         \/ write'[h].for = write[h].for /\ write'[h].batch = write[h].batch
  <2>1. CASE StartRun(h) \/ StartManual(h) \/ Open(h)
    BY <2>1 DEF StartRun, StartManual, Open
  <2>2. CASE Conflict(h) \/ Reread(h)
    BY <1>2, <2>2 DEF Conflict, Reread, TypeOK
  <2>3. ASSUME NEW for, NEW b, Begin(h, for, b)
        PROVE  /\ \A k \in Handles \ {h} : write'[k] = write[k]
               /\ write'[h].for = for /\ write'[h].batch = b
    BY <2>3 DEF Begin, TypeOK
  <2>4. CASE TurnEnds(h) \/ Compacts(h) \/ EngineCompletes(h)
    <3>1. \/ Begin(h, "flush", buffer[h]) \/ Begin(h, "precompact", Append(buffer[h], Stats))
          \/ Begin(h, "closing", <<Stats>>) \/ Begin(h, "final", buffer[h])
      BY <2>4 DEF TurnEnds, Compacts, EngineCompletes
    <3> QED BY <2>3, <3>1, PlainRecords
  <2>5. CASE PersistCompaction(h) \/ FinishManual(h) \/ Note(h) \/ WriteClear(h)
    <3>1. \/ \E c, f : Begin(h, f, <<Compact(c)>>)
          \/ Begin(h, "note", <<Stats>>) \/ Begin(h, "note", <<Clear>>)
      BY <2>5 DEF PersistCompaction, FinishManual, Note, WriteClear
    <3> QED BY <2>3, <3>1, PlainRecords
  <2> QED BY <2>1, <2>2, <2>4, <2>5
<1>4. CommitsBuffer(write'[h], buffer'[h])
  BY <1>1, <1>3 DEF CommitsBuffer, SaidInv
<1> QED BY <1>1, <1>3, <1>4 DEF KeepsTheFile, Gives

LEMMA ClosingIsPlain ==
    ASSUME TypeOK, NEW h \in Handles, Finished(h) \/ Begin(h, "closing", <<Stats>>)
    PROVE  Plain(write'[h].batch) /\ \A k \in Handles \ {h} : write'[k] = write[k]
<1> DEFINE Closing == [for |-> "closing", at |-> "append", batch |-> <<Stats>>, tries |-> 0]
<1>1. Plain(NoWrite.batch) /\ Plain(Closing.batch)
  BY PlainRecords DEF NoWrite
<1>2. write' = [write EXCEPT ![h] = NoWrite] \/ write' = [write EXCEPT ![h] = Closing]
  BY DEF Finished, Begin
<1> HIDE DEF Closing
<1> QED BY <1>1, <1>2 DEF TypeOK

\* How a commit may end, and what it leaves buffered.
LEMMA EndingGives ==
    ASSUME SaidInv, TypeOK, NEW h \in Handles, said' = said,
           \/ Finished(h) /\ UNCHANGED callVars
           \/ Finished(h) /\ Leave(h)
           \/ \E why : StopsPersisting(h, why)
    PROVE  Gives(h) /\ (buffer'[h] = buffer[h] \/ Plain(buffer'[h]))
<1>2. Plain(write'[h].batch) /\ \A k \in Handles \ {h} : write'[k] = write[k]
  BY ClosingIsPlain DEF StopsPersisting
<1>3. buffer' = buffer \/ buffer' = [buffer EXCEPT ![h] = <<>>]
  BY DEF Leave, StopsPersisting, callVars
<1>4. /\ \A k \in Handles \ {h} : buffer'[k] = buffer[k]
      /\ buffer'[h] = buffer[h] \/ Plain(buffer'[h])
  BY <1>3, PlainRecords DEF TypeOK
<1> QED BY <1>2, <1>4 DEF Gives, CommitsBuffer

LEMMA FailingKeeps ==
    ASSUME SaidInv, TypeOK, NEW h \in Handles,
           \/ Exit(h) \/ DropManual(h) \/ StalePlan(h) \/ AppendFails(h) \/ ReadFails(h) \/ GivesUp(h)
    PROVE  KeepsTheFile(h)
<1>1. CASE Exit(h)
  BY <1>1, EndingGives DEF Exit, KeepsTheFile
<1>2. CASE DropManual(h)
  <2>1. buffer' = [buffer EXCEPT ![h] = <<>>] /\ write' = write /\ said' = said /\ file' = file
    BY <1>2 DEF DropManual, Leave
  <2>2. write[h].for = "none"
    BY <1>2 DEF DropManual, Idle
  <2>3. Plain(write[h].batch)
    BY <2>2 DEF SaidInv, CommitsBuffer
  <2> QED BY <2>1, <2>3, PlainRecords DEF KeepsTheFile, Gives, CommitsBuffer, TypeOK
<1>3. CASE StalePlan(h) \/ AppendFails(h) \/ ReadFails(h) \/ GivesUp(h)
  <2>1. \E why : Fails(h, why)
    BY <1>3 DEF StalePlan, AppendFails, ReadFails, GivesUp
  <2>2. file' = file /\ said' = said
    BY <2>1 DEF Fails
  <2>3. \/ Finished(h) /\ UNCHANGED callVars
        \/ Finished(h) /\ Leave(h)
        \/ \E why : StopsPersisting(h, why)
    BY <2>1 DEF Fails
  <2> QED BY <2>2, <2>3, EndingGives DEF KeepsTheFile
<1> QED BY <1>1, <1>2, <1>3

LEMMA LandsOnce ==
    ASSUME SaidInv, IInv, NEW h \in Handles, Accepted(h) \/ Abandoned(h)
    PROVE  SaidInv'
<1>1. TypeOK /\ tail # "garbled" /\ Lands(h)
  BY DEF IInv, Accepted, Abandoned
<1>2. file' = file \o EntriesAt(Len(file), write[h].batch) /\ said' = said
  BY <1>1 DEF Lands, AtTail, AppendLine, Truncated, TypeOK
<1>3. CASE write[h].for = "note" /\ Finished(h) /\ UNCHANGED callVars
  <2>1. Plain(write[h].batch) /\ buffer' = buffer
    BY <1>3 DEF SaidInv, CommitsBuffer, callVars
  <2>2. Gives(h)
    BY <1>1, <1>2, <1>3, EndingGives
  <2> QED BY <1>1, <1>2, <2>1, <2>2, LandingKeeps
<1>4. CASE Finished(h) /\ Leave(h)
  <2>1. Plain(buffer'[h])
    BY <1>1, <1>4, PlainRecords DEF Leave, TypeOK
  <2>2. Gives(h)
    BY <1>1, <1>2, <1>4, EndingGives
  <2> QED BY <1>1, <1>2, <2>1, <2>2, LandingKeeps
<1>5. CASE StopsPersisting(h, "failed")
  <2>1. Plain(buffer'[h])
    BY <1>1, <1>5, PlainRecords DEF StopsPersisting, TypeOK
  <2>2. Gives(h)
    BY <1>1, <1>2, <1>5, EndingGives
  <2> QED BY <1>1, <1>2, <2>1, <2>2, LandingKeeps
<1>6. CASE Flushed(h, mem[h].next) \/ Compacted(h)
  <2>1. \/ buffer' = [buffer EXCEPT ![h] = <<>>]
        \/ buffer' = [buffer EXCEPT ![h] = <<Stats>>]
    <3>1. CASE Flushed(h, mem[h].next)
      <4>1. PICK skipped : buffer' = [buffer EXCEPT ![h] = Unsaved(h, skipped)]
        BY <3>1 DEF Flushed
      <4> QED BY <4>1 DEF Unsaved
    <3>2. CASE Compacted(h)
      BY <3>2 DEF Compacted
    <3> QED BY <1>6, <3>1, <3>2
  <2>2. Begin(h, "closing", <<Stats>>) \/ Finished(h)
    BY <1>6 DEF Flushed, Compacted
  <2>3. Plain(write'[h].batch) /\ \A k \in Handles \ {h} : write'[k] = write[k]
    BY <1>1, <2>2, ClosingIsPlain
  <2>4. Plain(buffer'[h]) /\ \A k \in Handles \ {h} : buffer'[k] = buffer[k]
    BY <1>1, <2>1, PlainRecords DEF TypeOK
  <2>5. Gives(h)
    BY <1>2, <2>3, <2>4 DEF Gives, CommitsBuffer
  <2> QED BY <1>1, <1>2, <2>4, <2>5, LandingKeeps
<1> QED BY <1>3, <1>4, <1>5, <1>6 DEF Accepted, Abandoned, ResumeAfterAppend

\* What is said is new: no buffer and no file holds it.
LEMMA SayingKeeps ==
    ASSUME SaidInv, IInv, NEW h \in Handles, Say(h)
    PROVE  SaidInv'
<1> DEFINE u == buffer[h]
           v == Append(buffer[h], Item(said + 1))
<1>1. TypeOK /\ said \in Nat /\ u \in Seq(Record) /\ Len(u) \in Nat
  BY SessionAssumption, LenProperties DEF IInv, TypeOK
<1>2. Item(said + 1) \in Record /\ Item(said + 1).kind = "item" /\ Item(said + 1).ctx = {said + 1}
  BY <1>1, SessionAssumption DEF Say, TypeOK, Item, Record, Kind, Messages
<1>3. /\ buffer'[h] = v /\ said' = said + 1 /\ file' = file /\ write' = write
      /\ \A k \in Handles \ {h} : buffer'[k] = buffer[k]
  BY <1>1 DEF Say, TypeOK
<1>4. Plain(write[h].batch)
  BY DEF Say, InRun, Idle, SaidInv, CommitsBuffer
<1>5. /\ Len(v) = Len(u) + 1
      /\ \A i \in 1 .. Len(u) : v[i] = u[i]
      /\ v[Len(u) + 1] = Item(said + 1)
  BY <1>1, <1>2, AppendProperties
<1> HIDE DEF v
<1>6. \A i \in 1 .. Len(v) :
        \/ i \in 1 .. Len(u) /\ v[i] = u[i]
        \/ i = Len(u) + 1 /\ v[i].ctx = {said + 1}
  BY <1>1, <1>2, <1>5
<1>7. ASSUME NEW s, SaidBefore(s, said)
      PROVE  /\ SaidBefore(s, said + 1)
             /\ \A i \in 1 .. Len(s) : s[i].kind = "item" => s[i].ctx # {said + 1}
  BY <1>1, <1>7 DEF SaidBefore
<1>8. SaidBefore(u, said) /\ Once(u) /\ Apart(u, file) /\ SaidBefore(file, said) /\ Once(file)
  BY DEF SaidInv
<1> HIDE DEF u
<1>9. SaidBefore(v, said + 1)
  BY <1>1, <1>6, <1>7, <1>8 DEF SaidBefore
<1>10. Once(v)
  BY <1>6, <1>7, <1>8 DEF Once
<1>11. Apart(v, file)
  BY <1>6, <1>7, <1>8 DEF Apart
<1>12. \A k \in Handles \ {h} : Apart(v, buffer[k]) /\ Apart(buffer[k], v)
  <2> TAKE k \in Handles \ {h}
  <2>1. SaidBefore(buffer[k], said) /\ Apart(u, buffer[k]) /\ Apart(buffer[k], u)
    BY DEF SaidInv, u
  <2> QED BY <1>6, <1>7, <2>1 DEF Apart
<1>13. ASSUME NEW k \in Handles
       PROVE  /\ SaidBefore(buffer'[k], said + 1) /\ Once(buffer'[k]) /\ Apart(buffer'[k], file)
              /\ CommitsBuffer(write[k], buffer'[k])
  <2>1. CASE k = h
    BY <1>3, <1>4, <1>9, <1>10, <1>11, <2>1 DEF CommitsBuffer
  <2>2. CASE k # h
    BY <1>3, <1>7, <2>2 DEF SaidInv
  <2> QED BY <2>1, <2>2
<1>14. ASSUME NEW k \in Handles, NEW l \in Handles, k # l PROVE Apart(buffer'[k], buffer'[l])
  BY <1>3, <1>12, <1>14 DEF SaidInv
<1>15. SaidBefore(file, said + 1)
  BY <1>7, <1>8
<1> QED BY <1>3, <1>8, <1>13, <1>14, <1>15 DEF SaidInv

LEMMA NextSaidInv == IInv /\ SaidInv /\ [Next]_vars => SaidInv'
<1> SUFFICES ASSUME IInv, SaidInv, [Next]_vars PROVE SaidInv'
  OBVIOUS
<1>0. TypeOK
  BY DEF IInv
<1>1. CASE Next
  <2> PICK h \in Handles : Open(h) \/ Exit(h) \/ Commit(h) \/ Run(h) \/ Others(h)
    BY <1>1 DEF Next
  <2>1. CASE Accepted(h) \/ Abandoned(h)
    BY <2>1, LandsOnce
  <2>2. CASE Say(h)
    BY <2>2, SayingKeeps
  <2>3. CASE KeepsTheFile(h)
    BY <2>3, GivingKeeps DEF KeepsTheFile
  <2> QED BY <1>0, <2>1, <2>2, <2>3, BeginningKeeps, FailingKeeps DEF Commit, Run, Others
<1>2. CASE UNCHANGED vars
  BY <1>2 DEF vars, callVars, SaidInv, SaidBefore, Once, Apart, CommitsBuffer, Plain
<1> QED BY <1>1, <1>2

\* A message is recorded at most once (SaidOnce), whatever is retried, rebased, abandoned
\* or fails: Session::commit appends a batch once, and a run that cannot tell whether
\* its batch landed drops it.
THEOREM MessagesAreSaidOnce == Spec => []SaidOnce
<1>1. Init => SaidInv
  BY DEF Init, SaidInv, NoWrite, SaidBefore, Once, Apart, CommitsBuffer, Plain
<1>2. IInv /\ SaidInv => SaidOnce
  BY LenProperties DEF IInv, TypeOK, SaidInv, Once, SaidOnce
<1> QED BY <1>1, <1>2, NextSaidInv, Invariance, PTL DEF Spec
=============================================================================

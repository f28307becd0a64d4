---------------------------- MODULE HistoryProofs ----------------------------
(***************************************************************************)
(* Theorems about the histories of AgentLoop: for any histories to start   *)
(* from, any limits and any clients, what a turn sends is a conversation   *)
(* a provider accepts, and nothing said to the model leaves the context    *)
(* but through a summary that stands for it.                               *)
(*                                                                         *)
(* The first part is about the functions of Conversation: what taking      *)
(* messages out of a sequence keeps of the order of the rest.  The second  *)
(* is what the loop knows of its context at each place of a turn, one      *)
(* lemma to an action.                                                     *)
(***************************************************************************)
EXTENDS AgentLoopProofs, WellFoundedInduction

-----------------------------------------------------------------------------
\* Numbers: a set of them has a least one, and, when it is bounded, a greatest one.
LEMMA LeastOne ==
    ASSUME NEW S, S \subseteq Nat, S # {}
    PROVE  \E x \in S : \A y \in S : x <= y
<1>1. PICK x \in S : \A y \in S : ~(<<y, x>> \in OpToRel(<, Nat))
  BY NatLessThanWellFounded, WFMin
<1>2. \A y \in S : ~(y < x)
  BY <1>1 DEF OpToRel
<1> QED BY <1>2

LEMMA GreatestOne ==
    ASSUME NEW S, NEW n \in Nat, S \subseteq 0 .. n, S # {}
    PROVE  \E x \in S : \A y \in S : y <= x
<1> DEFINE T == {n - y : y \in S}
<1>1. T \subseteq Nat
  <2>1. \A y \in S : y \in Nat /\ y <= n
    OBVIOUS
  <2> QED BY <2>1
<1>2. T # {}
  OBVIOUS
<1>3. \E t \in T : \A u \in T : t <= u
  <2> HIDE DEF T
  <2> QED BY <1>1, <1>2, LeastOne
<1>4. PICK x \in S : \A y \in S : n - x <= n - y
  BY <1>3
<1>5. \A y \in S : y \in Nat /\ x \in Nat
  OBVIOUS
<1> QED BY <1>4, <1>5

-----------------------------------------------------------------------------
\* The function that Picked is defined by: what it has picked up to a place.
Picks(g, s, places, n) ==
    IF n = 0 THEN <<>>
    ELSE IF n \in places THEN Append(g[n - 1], s[n]) ELSE g[n - 1]
PicksUpTo(g, s, places, m) == g = [n \in 0 .. m |-> Picks(g, s, places, n)]

LEMMA PicksExist ==
    ASSUME NEW s, NEW places, Len(s) \in Nat
    PROVE  \E g : PicksUpTo(g, s, places, Len(s))
<1> DEFINE Bad == {m \in 0 .. Len(s) : ~ \E g : PicksUpTo(g, s, places, m)}
<1>1. Bad \subseteq Nat
  OBVIOUS
<1> SUFFICES ASSUME Bad # {} PROVE FALSE
  OBVIOUS
<1>2. \E m \in Bad : \A k \in Bad : m <= k
  <2> HIDE DEF Bad
  <2> QED BY <1>1, LeastOne
<1>3. PICK m \in Bad : \A k \in Bad : m <= k
  BY <1>2
<1>4. m \in 0 .. Len(s) /\ ~ \E g : PicksUpTo(g, s, places, m)
  BY <1>3
<1>5. m # 0
  <2> DEFINE g == [n \in 0 .. 0 |-> <<>>]
  <2>1. \A n \in 0 .. 0 : Picks(g, s, places, n) = <<>>
    BY DEF Picks
  <2>2. PicksUpTo(g, s, places, 0)
    BY <2>1 DEF PicksUpTo
  <2> QED BY <2>2, <1>4
<1>6. m - 1 \in 0 .. Len(s) /\ ~(m <= m - 1)
  BY <1>4, <1>5
<1>7. m - 1 \notin Bad
  BY <1>3, <1>6
<1>8. PICK g : PicksUpTo(g, s, places, m - 1)
  BY <1>6, <1>7
<1> DEFINE h == [n \in 0 .. m |-> Picks(g, s, places, n)]
<1>9. \A n \in 0 .. m - 1 : h[n] = g[n]
  BY <1>4, <1>8 DEF PicksUpTo
<1>10. \A n \in 0 .. m : Picks(h, s, places, n) = Picks(g, s, places, n)
  <2> HIDE DEF h
  <2> TAKE n \in 0 .. m
  <2>1. CASE n = 0
    BY <2>1 DEF Picks
  <2>2. CASE n # 0
    <3>1. n - 1 \in 0 .. m - 1
      BY <1>4, <2>2
    <3>2. h[n - 1] = g[n - 1]
      BY <1>9, <3>1
    <3> QED BY <2>2, <3>2 DEF Picks
  <2> QED BY <2>1, <2>2
<1>11. h = [n \in 0 .. m |-> Picks(h, s, places, n)]
  BY <1>10
<1>12. PicksUpTo(h, s, places, m)
  BY <1>11 DEF PicksUpTo
<1> QED BY <1>4, <1>12

Grows(f, s, places) ==
    /\ f[0] = <<>>
    /\ \A n \in 1 .. Len(s) :
          f[n] = IF n \in places THEN Append(f[n - 1], s[n]) ELSE f[n - 1]

LEMMA PickedGrows ==
    ASSUME NEW s, NEW places, Len(s) \in Nat
    PROVE  \E f : Grows(f, s, places) /\ Picked(s, places) = f[Len(s)]
<1> DEFINE f == CHOOSE g : g = [n \in 0 .. Len(s) |-> Picks(g, s, places, n)]
<1>1. Picked(s, places) = f[Len(s)]
  BY DEF Picked, Picks
<1>2. f = [n \in 0 .. Len(s) |-> Picks(f, s, places, n)]
  BY PicksExist DEF PicksUpTo
<1> HIDE DEF f
<1>3. \A n \in 0 .. Len(s) : f[n] = Picks(f, s, places, n)
  BY <1>2
<1>4. f[0] = <<>>
  BY <1>3 DEF Picks
<1>5. ASSUME NEW n \in 1 .. Len(s)
      PROVE  f[n] = IF n \in places THEN Append(f[n - 1], s[n]) ELSE f[n - 1]
  BY <1>3 DEF Picks
<1> QED BY <1>1, <1>4, <1>5 DEF Grows
\* The places p that are picked from the first n, in their order, and what is there.
Lists(p, n, places) ==
    /\ p \in Seq(Nat)
    /\ \A k \in 1 .. Len(p) : p[k] \in 1 .. n /\ p[k] \in places
    /\ \A j, k \in 1 .. Len(p) : j < k => p[j] < p[k]
    /\ \A i \in 1 .. n : i \in places => \E k \in 1 .. Len(p) : p[k] = i
Reads(r, s, p) == Len(r) = Len(p) /\ \A k \in 1 .. Len(p) : r[k] = s[p[k]]

LEMMA ListsEmpty ==
    ASSUME NEW places, NEW s
    PROVE  Lists(<<>>, 0, places) /\ Reads(<<>>, s, <<>>)
<1>1. <<>> \in Seq(Nat) /\ Len(<<>>) = 0
  OBVIOUS
<1> QED BY <1>1 DEF Lists, Reads

LEMMA ListsGrow ==
    ASSUME NEW T, NEW s \in Seq(T), NEW places, NEW n \in Nat, n + 1 \in 1 .. Len(s),
           NEW p, Lists(p, n, places), NEW r \in Seq(T), Reads(r, s, p)
    PROVE  IF n + 1 \in places
           THEN /\ Lists(Append(p, n + 1), n + 1, places)
                /\ Append(r, s[n + 1]) \in Seq(T)
                /\ Reads(Append(r, s[n + 1]), s, Append(p, n + 1))
           ELSE Lists(p, n + 1, places)
<1>0. p \in Seq(Nat) /\ Len(p) \in Nat /\ \A k \in 1 .. Len(p) : p[k] \in 1 .. n /\ p[k] \in Nat
  BY LenProperties DEF Lists
<1>1. CASE n + 1 \notin places
  <2>1. \A k \in 1 .. Len(p) : p[k] \in 1 .. n + 1
    BY <1>0
  <2>2. \A i \in 1 .. n + 1 : i \in places => i \in 1 .. n
    BY <1>1
  <2> QED BY <1>0, <1>1, <2>1, <2>2 DEF Lists
<1>2. CASE n + 1 \in places
  <2> DEFINE q == Append(p, n + 1)
             t == Append(r, s[n + 1])
  <2>1. s[n + 1] \in T
    BY ElementOfSeq
  <2>2. /\ q \in Seq(Nat) /\ Len(q) = Len(p) + 1
        /\ \A k \in 1 .. Len(p) : q[k] = p[k]
        /\ q[Len(p) + 1] = n + 1
    BY <1>0, AppendProperties
  <2>3. /\ t \in Seq(T) /\ Len(t) = Len(r) + 1
        /\ \A k \in 1 .. Len(r) : t[k] = r[k]
        /\ t[Len(r) + 1] = s[n + 1]
    BY <2>1, AppendProperties
  <2>4. Len(r) = Len(p)
    BY DEF Reads
  <2> HIDE DEF q, t
  <2>5. \A k \in 1 .. Len(q) : k \in 1 .. Len(p) \/ k = Len(p) + 1
    BY <1>0, <2>2
  <2>6. \A k \in 1 .. Len(q) : q[k] \in 1 .. n + 1 /\ q[k] \in places
    <3> TAKE k \in 1 .. Len(q)
    <3>1. CASE k \in 1 .. Len(p)
      <4>1. q[k] = p[k] /\ p[k] \in 1 .. n /\ p[k] \in places
        BY <2>2, <3>1 DEF Lists
      <4> QED BY <4>1
    <3>2. CASE k = Len(p) + 1
      BY <1>2, <2>2, <3>2
    <3> QED BY <2>5, <3>1, <3>2
  <2>7. \A j, k \in 1 .. Len(q) : j < k => q[j] < q[k]
    <3> SUFFICES ASSUME NEW j \in 1 .. Len(q), NEW k \in 1 .. Len(q), j < k PROVE q[j] < q[k]
      OBVIOUS
    <3>1. j \in 1 .. Len(p)
      BY <1>0, <2>2
    <3>2. q[j] = p[j] /\ p[j] \in 1 .. n
      BY <1>0, <2>2, <3>1
    <3>3. CASE k \in 1 .. Len(p)
      BY <2>2, <3>1, <3>2, <3>3 DEF Lists
    <3>4. CASE k = Len(p) + 1
      BY <2>2, <3>2, <3>4
    <3> QED BY <2>5, <3>3, <3>4
  <2>8. ASSUME NEW i \in 1 .. n + 1, i \in places PROVE \E k \in 1 .. Len(q) : q[k] = i
    <3>1. CASE i = n + 1
      <4>1. Len(p) + 1 \in 1 .. Len(q)
        BY <1>0, <2>2
      <4> QED BY <2>2, <3>1, <4>1
    <3>2. CASE i # n + 1
      <4>1. i \in 1 .. n
        BY <3>2
      <4>2. PICK k \in 1 .. Len(p) : p[k] = i
        BY <2>8, <4>1 DEF Lists
      <4>3. k \in 1 .. Len(q)
        BY <1>0, <2>2
      <4> QED BY <2>2, <4>2, <4>3
    <3> QED BY <3>1, <3>2
  <2>9. Reads(t, s, q)
    <3>1. ASSUME NEW k \in 1 .. Len(q) PROVE t[k] = s[q[k]]
      <4>1. CASE k \in 1 .. Len(p)
        BY <2>2, <2>3, <2>4, <4>1 DEF Reads
      <4>2. CASE k = Len(p) + 1
        BY <2>2, <2>3, <2>4, <4>2
      <4> QED BY <2>5, <4>1, <4>2
    <3> QED BY <2>2, <2>3, <2>4, <3>1 DEF Reads
  <2> QED BY <1>2, <2>2, <2>3, <2>6, <2>7, <2>8, <2>9 DEF Lists, q, t
<1> QED BY <1>1, <1>2

\* What has been picked is at the places it has been picked from.
LEMMA GrowsByPlaces ==
    ASSUME NEW T, NEW s \in Seq(T), NEW places, NEW f, Grows(f, s, places), NEW n \in 0 .. Len(s)
    PROVE  f[n] \in Seq(T) /\ \E p : Lists(p, n, places) /\ Reads(f[n], s, p)
<1> DEFINE Good(m) == f[m] \in Seq(T) /\ \E p : Lists(p, m, places) /\ Reads(f[m], s, p)
           Bad == {m \in 0 .. Len(s) : ~Good(m)}
<1>0. Len(s) \in Nat
  BY LenProperties
<1>1. Bad \subseteq Nat
  OBVIOUS
<1> SUFFICES ASSUME Bad # {} PROVE FALSE
  OBVIOUS
<1>2. \E m \in Bad : \A k \in Bad : m <= k
  <2> HIDE DEF Bad
  <2> QED BY <1>1, LeastOne
<1>3. PICK m \in Bad : \A k \in Bad : m <= k
  BY <1>2
<1>4. m \in 0 .. Len(s) /\ ~Good(m)
  BY <1>3
<1>5. m # 0
  <2>1. f[0] = <<>> /\ <<>> \in Seq(T)
    BY DEF Grows
  <2>2. Good(0)
    BY <2>1, ListsEmpty
  <2> QED BY <1>4, <2>2
<1>6. m - 1 \in 0 .. Len(s) /\ ~(m <= m - 1) /\ m - 1 \in Nat /\ (m - 1) + 1 = m /\ m \in 1 .. Len(s)
  BY <1>0, <1>4, <1>5
<1>7. Good(m - 1)
  BY <1>3, <1>6
<1>8. PICK p : Lists(p, m - 1, places) /\ Reads(f[m - 1], s, p)
  BY <1>7
<1>9. f[m - 1] \in Seq(T)
  BY <1>7
<1>10. IF m \in places
       THEN /\ Lists(Append(p, m), m, places)
            /\ Append(f[m - 1], s[m]) \in Seq(T)
            /\ Reads(Append(f[m - 1], s[m]), s, Append(p, m))
       ELSE Lists(p, m, places)
  <2> DEFINE n1 == m - 1
             r1 == f[n1]
  <2>1. n1 \in Nat /\ n1 + 1 = m /\ n1 + 1 \in 1 .. Len(s) /\ r1 \in Seq(T) /\ Lists(p, n1, places) /\ Reads(r1, s, p)
    BY <1>6, <1>8, <1>9
  <2> HIDE DEF n1, r1
  <2>2. IF n1 + 1 \in places
        THEN /\ Lists(Append(p, n1 + 1), n1 + 1, places)
             /\ Append(r1, s[n1 + 1]) \in Seq(T)
             /\ Reads(Append(r1, s[n1 + 1]), s, Append(p, n1 + 1))
        ELSE Lists(p, n1 + 1, places)
    BY <2>1, ListsGrow
  <2> QED BY <2>1, <2>2 DEF r1, n1
<1>11. f[m] = IF m \in places THEN Append(f[m - 1], s[m]) ELSE f[m - 1]
  BY <1>6 DEF Grows
<1>12. Good(m)
  <2>1. CASE m \in places
    BY <1>10, <1>11, <2>1
  <2>2. CASE m \notin places
    BY <1>8, <1>9, <1>10, <1>11, <2>2
  <2> QED BY <2>1, <2>2
<1> QED BY <1>4, <1>12

LEMMA PickedPlaces ==
    ASSUME NEW T, NEW s \in Seq(T), NEW places
    PROVE  /\ Picked(s, places) \in Seq(T)
           /\ \E p : Lists(p, Len(s), places) /\ Reads(Picked(s, places), s, p)
<1>1. Len(s) \in Nat /\ Len(s) \in 0 .. Len(s)
  BY LenProperties
<1>2. PICK f : Grows(f, s, places) /\ Picked(s, places) = f[Len(s)]
  BY <1>1, PickedGrows
<1> QED BY <1>1, <1>2, GrowsByPlaces

\* There is one such list.
LEMMA ListedAlike ==
    ASSUME NEW places, NEW n \in Nat, NEW p, Lists(p, n, places), NEW q, Lists(q, n, places),
           NEW k \in 1 .. Len(p), \A j \in 1 .. Len(p) : j < k => j \in 1 .. Len(q) /\ p[j] = q[j]
    PROVE  k \in 1 .. Len(q) /\ q[k] <= p[k]
<1>0. /\ Len(p) \in Nat /\ Len(q) \in Nat
      /\ \A j \in 1 .. Len(p) : p[j] \in 1 .. n /\ p[j] \in places
      /\ \A j \in 1 .. Len(q) : q[j] \in 1 .. n /\ q[j] \in places
  BY LenProperties DEF Lists
<1>1. PICK j \in 1 .. Len(q) : q[j] = p[k]
  BY <1>0 DEF Lists
<1>2. ~(j < k)
  <2> SUFFICES ASSUME j < k PROVE FALSE
    OBVIOUS
  <2>1. j \in 1 .. Len(p)
    BY <1>0
  <2>2. p[j] = q[j] /\ p[j] < p[k]
    BY <2>1 DEF Lists
  <2> QED BY <1>0, <1>1, <2>1, <2>2
<1>3. k \in 1 .. Len(q)
  BY <1>0, <1>2
<1>4. q[k] <= q[j]
  <2>1. CASE j = k
    BY <1>0, <1>3, <2>1
  <2>2. CASE k < j
    <3>1. q[k] < q[j]
      BY <1>3, <2>2 DEF Lists
    <3>2. q[k] \in Nat /\ q[j] \in Nat
      BY <1>0, <1>3
    <3> QED BY <3>1, <3>2
  <2> QED BY <1>0, <1>2, <2>1, <2>2
<1> QED BY <1>1, <1>3, <1>4

LEMMA ListedOnce ==
    ASSUME NEW places, NEW n \in Nat, NEW p, Lists(p, n, places), NEW q, Lists(q, n, places)
    PROVE  Len(p) = Len(q) /\ \A k \in 1 .. Len(p) : p[k] = q[k]
<1> DEFINE Bad == {k \in 1 .. Len(p) : ~(k \in 1 .. Len(q) /\ p[k] = q[k])}
<1>0. /\ Len(p) \in Nat /\ Len(q) \in Nat
      /\ \A j \in 1 .. Len(p) : p[j] \in 1 .. n /\ p[j] \in places
      /\ \A j \in 1 .. Len(q) : q[j] \in 1 .. n /\ q[j] \in places
  BY LenProperties DEF Lists
<1>1. Bad = {}
  <2> SUFFICES ASSUME Bad # {} PROVE FALSE
    OBVIOUS
  <2>1. Bad \subseteq Nat
    OBVIOUS
  <2>2. \E k \in Bad : \A j \in Bad : k <= j
    <3> HIDE DEF Bad
    <3> QED BY <2>1, LeastOne
  <2>3. PICK k \in Bad : \A j \in Bad : k <= j
    BY <2>2
  <2>4. k \in 1 .. Len(p) /\ ~(k \in 1 .. Len(q) /\ p[k] = q[k])
    BY <2>3
  <2>5. \A j \in 1 .. Len(p) : j < k => j \in 1 .. Len(q) /\ p[j] = q[j]
    BY <2>3, <2>4
  <2>6. k \in 1 .. Len(q) /\ q[k] <= p[k]
    BY <2>4, <2>5, ListedAlike
  <2>7. \A j \in 1 .. Len(q) : j < k => j \in 1 .. Len(p) /\ q[j] = p[j]
    BY <1>0, <2>4, <2>5
  <2>8. p[k] <= q[k]
    BY <2>6, <2>7, ListedAlike
  <2>9. p[k] \in Nat /\ q[k] \in Nat
    BY <1>0, <2>4, <2>6
  <2> QED BY <2>4, <2>6, <2>8, <2>9
<1>2. \A k \in 1 .. Len(p) : k \in 1 .. Len(q) /\ p[k] = q[k]
  BY <1>1
<1>3. Len(p) <= Len(q)
  <2>1. CASE Len(p) = 0
    BY <1>0, <2>1
  <2>2. CASE Len(p) # 0
    <3>1. Len(p) \in 1 .. Len(p)
      BY <1>0, <2>2
    <3>2. Len(p) \in 1 .. Len(q)
      BY <1>2, <3>1
    <3> QED BY <1>0, <3>2
  <2> QED BY <2>1, <2>2
<1>4. ~(Len(p) < Len(q))
  <2> SUFFICES ASSUME Len(p) < Len(q) PROVE FALSE
    OBVIOUS
  <2> DEFINE k == Len(p) + 1
  <2>1. k \in 1 .. Len(q)
    BY <1>0
  <2>2. \A j \in 1 .. Len(q) : j < k => j \in 1 .. Len(p) /\ q[j] = p[j]
    BY <1>0, <1>2
  <2>3. k \in 1 .. Len(p)
    <3> HIDE DEF k
    <3> QED BY <2>1, <2>2, ListedAlike
  <2> QED BY <1>0, <2>3
<1> QED BY <1>0, <1>2, <1>3, <1>4

LEMMA PickedIs ==
    ASSUME NEW T, NEW s \in Seq(T), NEW places, NEW p, Lists(p, Len(s), places),
           NEW r \in Seq(T), Reads(r, s, p)
    PROVE  Picked(s, places) = r
<1>0. Len(s) \in Nat
  BY LenProperties
<1>1. PICK q : Lists(q, Len(s), places) /\ Reads(Picked(s, places), s, q)
  BY PickedPlaces
<1>2. Picked(s, places) \in Seq(T)
  BY PickedPlaces
<1>3. Len(p) = Len(q) /\ \A k \in 1 .. Len(p) : p[k] = q[k]
  BY <1>0, <1>1, ListedOnce
<1>4. Len(Picked(s, places)) = Len(r) /\ \A k \in 1 .. Len(r) : Picked(s, places)[k] = r[k]
  BY <1>1, <1>3 DEF Reads
<1> DEFINE x == Picked(s, places)
<1>5. x \in Seq(T) /\ Len(x) = Len(r) /\ \A k \in 1 .. Len(x) : x[k] = r[k]
  BY <1>2, <1>4
<1> HIDE DEF x
<1>6. x = r
  BY <1>5, SeqEqual
<1> QED BY <1>6 DEF x

LEMMA PickedAll ==
    ASSUME NEW T, NEW s \in Seq(T), NEW places, 1 .. Len(s) \subseteq places
    PROVE  Picked(s, places) = s
<1> DEFINE p == [k \in 1 .. Len(s) |-> k]
<1>0. Len(s) \in Nat
  BY LenProperties
<1>1. p \in Seq(Nat) /\ Len(p) = Len(s) /\ \A k \in 1 .. Len(s) : p[k] = k
  BY <1>0
<1> HIDE DEF p
<1>2. Lists(p, Len(s), places)
  BY <1>0, <1>1 DEF Lists
<1>3. Reads(s, s, p)
  BY <1>1 DEF Reads
<1> QED BY <1>2, <1>3, PickedIs

LEMMA PickedNone ==
    ASSUME NEW T, NEW s \in Seq(T), NEW places, (1 .. Len(s)) \cap places = {}
    PROVE  Picked(s, places) = <<>>
<1>1. <<>> \in Seq(Nat) /\ Len(<<>>) = 0 /\ <<>> \in Seq(T)
  OBVIOUS
<1>2. Lists(<<>>, Len(s), places) /\ Reads(<<>>, s, <<>>)
  BY <1>1 DEF Lists, Reads
<1> QED BY <1>1, <1>2, PickedIs

\* What is picked comes from its place, and each place is picked.
LEMMA PickedFrom ==
    ASSUME NEW T, NEW s \in Seq(T), NEW places
    PROVE  /\ \A k \in 1 .. Len(Picked(s, places)) :
                 \E i \in 1 .. Len(s) : i \in places /\ Picked(s, places)[k] = s[i]
           /\ \A i \in 1 .. Len(s) : i \in places =>
                 \E k \in 1 .. Len(Picked(s, places)) : Picked(s, places)[k] = s[i]
<1>1. PICK p : Lists(p, Len(s), places) /\ Reads(Picked(s, places), s, p)
  BY PickedPlaces
<1>2. ASSUME NEW k \in 1 .. Len(Picked(s, places))
      PROVE  \E i \in 1 .. Len(s) : i \in places /\ Picked(s, places)[k] = s[i]
  <2>1. k \in 1 .. Len(p) /\ Picked(s, places)[k] = s[p[k]]
    BY <1>1 DEF Reads
  <2>2. p[k] \in 1 .. Len(s) /\ p[k] \in places
    BY <1>1, <2>1 DEF Lists
  <2> QED BY <2>1, <2>2
<1>3. ASSUME NEW i \in 1 .. Len(s), i \in places
      PROVE  \E k \in 1 .. Len(Picked(s, places)) : Picked(s, places)[k] = s[i]
  <2>1. PICK k \in 1 .. Len(p) : p[k] = i
    BY <1>1, <1>3 DEF Lists
  <2>2. k \in 1 .. Len(Picked(s, places)) /\ Picked(s, places)[k] = s[i]
    BY <1>1, <2>1 DEF Reads
  <2> QED BY <2>2
<1> QED BY <1>2, <1>3

-----------------------------------------------------------------------------
(* A history from which messages, and calls with their results, were taken.  *)

Spared(cs, remove) == {k \in DOMAIN cs : cs[k] \notin remove}
Left(cs, remove) == Picked(cs, Spared(cs, remove))
Lighter(m, remove) == [m EXCEPT !.calls = Left(@, remove)]

\* r is s without these calls, at these places.
Reduces(r, s, remove, places) ==
    /\ r \in Seq(Messages)
    /\ \E p : /\ Lists(p, Len(s), places)
              /\ Len(r) = Len(p)
              /\ \A k \in 1 .. Len(p) : r[k] = Lighter(s[p[k]], remove)

LEMMA LeftTyped ==
    ASSUME NEW cs \in Seq(Calls), NEW remove
    PROVE  /\ Left(cs, remove) \in Seq(Calls)
           /\ cs = <<>> => Left(cs, remove) = <<>>
           /\ remove = {} => Left(cs, remove) = cs
<1>0. DOMAIN cs = 1 .. Len(cs) /\ Len(cs) \in Nat
  BY LenProperties
<1>1. Left(cs, remove) \in Seq(Calls)
  BY PickedPlaces DEF Left
<1>2. ASSUME cs = <<>> PROVE Left(cs, remove) = <<>>
  <2>1. (1 .. Len(cs)) \cap Spared(cs, remove) = {}
    BY <1>0, <1>2 DEF Spared
  <2> QED BY <2>1, PickedNone DEF Left
<1>3. ASSUME remove = {} PROVE Left(cs, remove) = cs
  <2>1. 1 .. Len(cs) \subseteq Spared(cs, remove)
    BY <1>0, <1>3 DEF Spared
  <2> QED BY <2>1, PickedAll DEF Left
<1> QED BY <1>1, <1>2, <1>3

LEMMA LighterTyped ==
    ASSUME NEW m \in Messages, NEW remove
    PROVE  /\ Lighter(m, remove) \in Messages
           /\ Lighter(m, remove).role = m.role /\ Lighter(m, remove).id = m.id
           /\ Lighter(m, remove).stop = m.stop
           /\ Lighter(m, remove).calls = Left(m.calls, remove)
           /\ m.calls = <<>> \/ remove = {} => Lighter(m, remove) = m
<1>1. m.calls \in Seq(Calls)
  BY DEF Messages
<1>2. Left(m.calls, remove) \in Seq(Calls) /\ (m.calls = <<>> \/ remove = {} => Left(m.calls, remove) = m.calls)
  BY <1>1, LeftTyped
<1>3. Lighter(m, remove) = [m EXCEPT !.calls = Left(m.calls, remove)]
  BY DEF Lighter
<1> DEFINE l == Left(m.calls, remove)
<1>4. [m EXCEPT !.calls = l] \in Messages /\ (l = m.calls => [m EXCEPT !.calls = l] = m)
      /\ [m EXCEPT !.calls = l].role = m.role /\ [m EXCEPT !.calls = l].id = m.id
      /\ [m EXCEPT !.calls = l].stop = m.stop /\ [m EXCEPT !.calls = l].calls = l
  <2> HIDE DEF l
  <2>1. l \in Seq(Calls)
    BY <1>2 DEF l
  <2> QED BY <2>1 DEF Messages
<1> QED BY <1>2, <1>3, <1>4

\* What is picked from a history is one without some messages.
LEMMA PickedReduces ==
    ASSUME NEW s \in Seq(Messages), NEW places
    PROVE  Reduces(Picked(s, places), s, {}, places)
<1> DEFINE r == Picked(s, places)
<1>1. r \in Seq(Messages) /\ \E p : Lists(p, Len(s), places) /\ Reads(r, s, p)
  BY PickedPlaces
<1>2. PICK p : Lists(p, Len(s), places) /\ Reads(r, s, p)
  BY <1>1
<1> HIDE DEF r
<1>3. ASSUME NEW k \in 1 .. Len(p) PROVE r[k] = Lighter(s[p[k]], {})
  <2>1. p[k] \in 1 .. Len(s)
    BY <1>2 DEF Lists
  <2>2. s[p[k]] \in Messages
    BY <2>1, ElementOfSeq
  <2>3. Lighter(s[p[k]], {}) = s[p[k]]
    BY <2>2, LighterTyped
  <2> QED BY <1>2, <2>3 DEF Reads
<1>4. Len(r) = Len(p)
  BY <1>2 DEF Reads
<1> QED BY <1>1, <1>2, <1>3, <1>4 DEF Reduces, r

\* The places of the messages that a prune leaves.
Stays(s, remove) ==
    IF remove = {} THEN 1 .. Len(s)
    ELSE {i \in 1 .. Len(s) : \/ Left(s[i].calls, remove) # <<>>
                              \/ s[i].calls = <<>> /\ s[i].stop # "empty"}

LEMMA PrunedReduces ==
    ASSUME NEW s \in Seq(Messages), NEW remove
    PROVE  Reduces(Pruned(s, remove), s, remove, Stays(s, remove))
<1>0. Len(s) \in Nat /\ DOMAIN s = 1 .. Len(s) /\ \A i \in 1 .. Len(s) : s[i] \in Messages
  BY LenProperties, ElementOfSeq
<1>1. CASE remove = {}
  <2>1. Pruned(s, remove) = s
    BY <1>1 DEF Pruned
  <2>2. Picked(s, 1 .. Len(s)) = s
    BY PickedAll
  <2>3. Reduces(Picked(s, 1 .. Len(s)), s, {}, 1 .. Len(s))
    BY PickedReduces
  <2> QED BY <1>1, <2>1, <2>2, <2>3 DEF Stays
<1>2. CASE remove # {}
  <2> DEFINE e == [i \in 1 .. Len(s) |-> Lighter(s[i], remove)]
             P == Stays(s, remove)
             r == Picked(e, P)
  <2>1. \A i \in 1 .. Len(s) : Lighter(s[i], remove) \in Messages
    BY <1>0, LighterTyped
  <2>2. e \in Seq(Messages) /\ Len(e) = Len(s) /\ \A i \in 1 .. Len(s) : e[i] = Lighter(s[i], remove)
    BY <1>0, <2>1
  <2>3. P = {i \in DOMAIN s : e[i].calls # <<>> \/ (s[i].calls = <<>> /\ s[i].stop # "empty")}
    <3>1. \A i \in 1 .. Len(s) : e[i].calls = Left(s[i].calls, remove)
      BY <1>0, <2>2, LighterTyped
    <3> HIDE DEF e
    <3> QED BY <1>0, <1>2, <3>1 DEF Stays
  <2>4. Pruned(s, remove) = r
    <3>1. Pruned(s, remove) = Picked(e, {i \in DOMAIN s : e[i].calls # <<>> \/ (s[i].calls = <<>> /\ s[i].stop # "empty")})
      BY <1>0, <1>2 DEF Pruned, Lighter, Left, Spared
    <3> QED BY <2>3, <3>1
  <2> HIDE DEF e, P, r
  <2>5. r \in Seq(Messages) /\ \E p : Lists(p, Len(e), P) /\ Reads(r, e, p)
    BY <2>2, PickedPlaces DEF r
  <2>6. PICK p : Lists(p, Len(e), P) /\ Reads(r, e, p)
    BY <2>5
  <2>7. \A k \in 1 .. Len(p) : r[k] = Lighter(s[p[k]], remove)
    <3> TAKE k \in 1 .. Len(p)
    <3>1. p[k] \in 1 .. Len(s) /\ r[k] = e[p[k]]
      BY <2>2, <2>6 DEF Lists, Reads
    <3> QED BY <2>2, <3>1
  <2>8. Lists(p, Len(s), P) /\ Len(r) = Len(p)
    BY <2>2, <2>6 DEF Reads
  <2> QED BY <2>4, <2>5, <2>7, <2>8 DEF Reduces, P
<1> QED BY <1>1, <1>2

LEMMA ReducedMembers ==
    ASSUME NEW s \in Seq(Messages), NEW remove, NEW places, NEW r, Reduces(r, s, remove, places),
           NEW i \in 1 .. Len(s), i \in places, s[i].calls = <<>>
    PROVE  s[i] \in EntriesOf(r)
<1>1. PICK p : /\ Lists(p, Len(s), places) /\ Len(r) = Len(p)
               /\ \A k \in 1 .. Len(p) : r[k] = Lighter(s[p[k]], remove)
  BY DEF Reduces
<1>2. PICK k \in 1 .. Len(p) : p[k] = i
  BY <1>1 DEF Lists
<1>3. Lighter(s[i], remove) = s[i]
  BY ElementOfSeq, LighterTyped
<1> QED BY <1>1, <1>2, <1>3 DEF EntriesOf

\* The history is in order but for the exchanges.
Orderly(s) ==
    /\ s \in Seq(Messages)
    /\ \A i \in 1 .. Len(s) : Tidy(s[i]) /\ (s[i].role = "summary" => i = 1)

\* Calls go with their results, and nothing else goes that belongs to an exchange.
Fits(s, remove, places) ==
    \A i \in 1 .. Len(s) :
        /\ i \in places /\ s[i].calls # <<>> => Left(s[i].calls, remove) # <<>>
        /\ Left(s[i].calls, remove) # <<>> /\ (IsResult(s[i]) \/ (IsAssistant(s[i]) /\ ~HasFailed(s[i]))) => i \in places

LEMMA LeftOfOne ==
    ASSUME NEW cs \in Seq(Calls), Len(cs) = 1, NEW remove
    PROVE  /\ Left(cs, remove) # <<>> <=> cs[1] \notin remove
           /\ Left(cs, remove) # <<>> => Left(cs, remove) = cs
<1>0. DOMAIN cs = 1 .. Len(cs) /\ 1 .. Len(cs) = {1} /\ cs # <<>>
  <2>1. DOMAIN cs = 1 .. Len(cs)
    BY LenProperties
  <2>2. 1 .. 1 = {1}
    OBVIOUS
  <2>3. Len(<<>>) = 0
    OBVIOUS
  <2> QED BY <2>1, <2>2, <2>3
<1>1. CASE cs[1] \notin remove
  <2>1. 1 .. Len(cs) \subseteq Spared(cs, remove)
    BY <1>0, <1>1 DEF Spared
  <2>2. Left(cs, remove) = cs
    BY <2>1, PickedAll DEF Left
  <2> QED BY <1>0, <1>1, <2>2
<1>2. CASE cs[1] \in remove
  <2>1. (1 .. Len(cs)) \cap Spared(cs, remove) = {}
    BY <1>0, <1>2 DEF Spared
  <2>2. Left(cs, remove) = <<>>
    BY <2>1, PickedNone DEF Left
  <2> QED BY <1>2, <2>2
<1> QED BY <1>1, <1>2

LEMMA ReducedOrderly ==
    ASSUME NEW s, Orderly(s), NEW remove, NEW places, Fits(s, remove, places),
           NEW r, Reduces(r, s, remove, places)
    PROVE  Orderly(r)
<1>0. s \in Seq(Messages) /\ r \in Seq(Messages) /\ Len(s) \in Nat /\ Len(r) \in Nat
  BY LenProperties DEF Orderly, Reduces
<1>1. PICK p : /\ Lists(p, Len(s), places) /\ Len(r) = Len(p)
               /\ \A k \in 1 .. Len(p) : r[k] = Lighter(s[p[k]], remove)
  BY DEF Reduces
<1> SUFFICES ASSUME NEW k \in 1 .. Len(r) PROVE Tidy(r[k]) /\ (r[k].role = "summary" => k = 1)
  BY <1>0 DEF Orderly
<1> DEFINE i == p[k]
<1>2. i \in 1 .. Len(s) /\ i \in places
  BY <1>1 DEF Lists
<1> DEFINE m == s[i]
<1>3. m \in Messages /\ Tidy(m) /\ (m.role = "summary" => i = 1)
  BY <1>0, <1>2, ElementOfSeq DEF Orderly
<1>4. r[k] = Lighter(m, remove)
  BY <1>1
<1>5. m.calls # <<>> => Left(m.calls, remove) # <<>>
  BY <1>2 DEF Fits
<1> HIDE DEF m
<1>6. /\ r[k].role = m.role /\ r[k].stop = m.stop
      /\ r[k].calls = Left(m.calls, remove) /\ (m.calls = <<>> => r[k] = m)
      /\ m.calls \in Seq(Calls)
  <2>1. m.calls \in Seq(Calls)
    BY <1>3 DEF Messages
  <2> QED BY <1>3, <1>4, <2>1, LighterTyped
<1>7. m.role = "summary" => r[k] = m
  <2>1. m.role = "summary" => m.calls = <<>>
    BY <1>3 DEF Tidy, Summary, Message
  <2> QED BY <1>6, <2>1
<1>8. IsResult(m) => Len(r[k].calls) = 1
  <2> SUFFICES ASSUME IsResult(m) PROVE Len(r[k].calls) = 1
    OBVIOUS
  <2>1. Len(m.calls) = 1
    BY <1>3 DEF Tidy
  <2>2. m.calls # <<>>
    <3>1. Len(<<>>) = 0
      OBVIOUS
    <3> QED BY <2>1, <3>1
  <2> QED BY <1>5, <1>6, <2>1, <2>2, LeftOfOne
<1>9. ~IsResult(m) /\ ~IsAssistant(m) => Plain(r[k])
  BY <1>3, <1>6 DEF Tidy, Plain
<1>10. Tidy(r[k])
  BY <1>3, <1>6, <1>7, <1>8, <1>9 DEF Tidy, IsResult, IsAssistant
<1>11. r[k].role = "summary" => k = 1
  <2> SUFFICES ASSUME r[k].role = "summary", k # 1 PROVE FALSE
    OBVIOUS
  <2>1. i = 1
    BY <1>3, <1>6
  <2>2. 1 \in 1 .. Len(p) /\ 1 < k /\ k \in 1 .. Len(p)
    BY <1>0, <1>1
  <2>3. p[1] < p[k] /\ p[1] \in 1 .. Len(s)
    BY <1>1, <2>2 DEF Lists
  <2> QED BY <1>0, <2>1, <2>3
<1> QED BY <1>10, <1>11

LEMMA ReducedLast ==
    ASSUME NEW s \in Seq(Messages), NEW remove, NEW places, NEW r, Reduces(r, s, remove, places),
           s # <<>>, Len(s) \in places
    PROVE  r # <<>> /\ r[Len(r)] = Lighter(s[Len(s)], remove)
<1>1. PICK p : /\ Lists(p, Len(s), places) /\ Len(r) = Len(p)
               /\ \A k \in 1 .. Len(p) : r[k] = Lighter(s[p[k]], remove)
  BY DEF Reduces
<1>2. Len(s) \in 1 .. Len(s) /\ Len(s) \in Nat
  BY LenProperties, EmptySeq
<1>3. PICK k \in 1 .. Len(p) : p[k] = Len(s)
  BY <1>1, <1>2 DEF Lists
<1>4. Len(p) \in Nat
  BY <1>1, LenProperties DEF Lists
<1>5. k = Len(p)
  <2> SUFFICES ASSUME k < Len(p) PROVE FALSE
    BY <1>4
  <2>1. Len(p) \in 1 .. Len(p)
    BY <1>4
  <2>2. p[k] < p[Len(p)] /\ p[Len(p)] \in 1 .. Len(s)
    BY <1>1, <2>1 DEF Lists
  <2> QED BY <1>2, <1>3, <2>2
<1>6. Len(p) # 0 /\ Len(<<>>) = 0
  BY <1>4, <1>5
<1> QED BY <1>1, <1>3, <1>5, <1>6

\* The exchange of an answer: its results follow it, one for each call.
Speaks(m) == IsAssistant(m) /\ ~HasFailed(m)
Exchange(s, i) ==
    /\ IsInjective(s[i].calls)
    /\ \A k \in 1 .. Len(s[i].calls) :
          i + k \in 1 .. Len(s) /\ IsResult(s[i + k]) /\ CallOf(s[i + k]) = s[i].calls[k]
Belongs(s, j) == \E i \in 1 .. j - 1 : Speaks(s[i]) /\ j - i <= Len(s[i].calls)

LEMMA AnsweredIs ==
    ASSUME NEW s \in Seq(Messages)
    PROVE  Answered(s) <=> \A i \in 1 .. Len(s) : /\ Speaks(s[i]) => Exchange(s, i)
                                                  /\ IsResult(s[i]) => Belongs(s, i)
<1>0. DOMAIN s = 1 .. Len(s) /\ \A i \in 1 .. Len(s) : s[i] \in Messages
  BY LenProperties, ElementOfSeq
<1>1. \A i \in 1 .. Len(s) : DOMAIN s[i].calls = 1 .. Len(s[i].calls)
  <2> TAKE i \in 1 .. Len(s)
  <2>1. s[i].calls \in Seq(Calls)
    BY <1>0 DEF Messages
  <2> QED BY <2>1, LenProperties
<1> QED BY <1>0, <1>1 DEF Answered, Speaks, Exchange, Belongs

\* Where the results of an answer are, once calls and results have gone.
LEMMA ResultsMove ==
    ASSUME NEW s, Orderly(s), Answered(s), NEW remove, NEW places, Fits(s, remove, places),
           NEW p, Lists(p, Len(s), places), NEW a \in 1 .. Len(p), Speaks(s[p[a]]),
           NEW q, Lists(q, Len(s[p[a]].calls), Spared(s[p[a]].calls, remove))
    PROVE  \A n \in 1 .. Len(q) : a + n \in 1 .. Len(p) /\ p[a + n] = p[a] + q[n]
<1> DEFINE i == p[a]
           cs == s[i].calls
           K == Spared(cs, remove)
<1>0. /\ s \in Seq(Messages) /\ Len(s) \in Nat /\ Len(p) \in Nat /\ Len(q) \in Nat
      /\ \A k \in 1 .. Len(p) : p[k] \in 1 .. Len(s) /\ p[k] \in places
      /\ i \in 1 .. Len(s) /\ Speaks(s[i])
  BY LenProperties DEF Lists, Orderly
<1>1. s[i] \in Messages /\ cs \in Seq(Calls) /\ Len(cs) \in Nat /\ DOMAIN cs = 1 .. Len(cs)
  <2>1. s[i] \in Messages
    BY <1>0, ElementOfSeq
  <2>2. cs \in Seq(Calls)
    BY <2>1 DEF Messages
  <2> QED BY <2>1, <2>2, LenProperties
<1>2. \A k \in 1 .. Len(cs) : i + k \in 1 .. Len(s) /\ IsResult(s[i + k]) /\ CallOf(s[i + k]) = cs[k]
  <2>1. Exchange(s, i)
    BY <1>0, AnsweredIs
  <2> QED BY <2>1 DEF Exchange
<1>3. Lists(q, Len(cs), K)
  OBVIOUS
<1>4. ASSUME NEW k \in 1 .. Len(cs) PROVE i + k \in places <=> cs[k] \notin remove
  <2> DEFINE m == s[i + k]
  <2>1. i + k \in 1 .. Len(s) /\ IsResult(m) /\ CallOf(m) = cs[k]
    BY <1>2
  <2>2. m \in Messages /\ Tidy(m)
    BY <1>0, <2>1, ElementOfSeq DEF Orderly
  <2>3. m.calls \in Seq(Calls) /\ Len(m.calls) = 1 /\ m.calls # <<>> /\ m.calls[1] = cs[k]
    <3>1. m.calls \in Seq(Calls) /\ Len(m.calls) = 1 /\ m.calls[1] = cs[k]
      BY <2>1, <2>2 DEF Messages, Tidy, CallOf
    <3>2. Len(<<>>) = 0
      OBVIOUS
    <3> QED BY <3>1, <3>2
  <2>4. Left(m.calls, remove) # <<>> <=> cs[k] \notin remove
    BY <2>3, LeftOfOne
  <2>5. i + k \in places <=> Left(m.calls, remove) # <<>>
    BY <2>1, <2>3 DEF Fits
  <2> QED BY <2>4, <2>5
<1> DEFINE Bad == {n \in 1 .. Len(q) : ~(a + n \in 1 .. Len(p) /\ p[a + n] = i + q[n])}
<1> SUFFICES ASSUME Bad # {} PROVE FALSE
  OBVIOUS
<1>5. Bad \subseteq Nat
  OBVIOUS
<1>6. \E n \in Bad : \A o \in Bad : n <= o
  <2> HIDE DEF Bad
  <2> QED BY <1>5, LeastOne
<1>7. PICK n \in Bad : \A o \in Bad : n <= o
  BY <1>6
<1>8. n \in 1 .. Len(q) /\ ~(a + n \in 1 .. Len(p) /\ p[a + n] = i + q[n])
  BY <1>7
<1>9. n = 1 \/ (n - 1 \in 1 .. Len(q) /\ a + (n - 1) \in 1 .. Len(p) /\ p[a + (n - 1)] = i + q[n - 1])
  <2> SUFFICES ASSUME n # 1
               PROVE  n - 1 \in 1 .. Len(q) /\ a + (n - 1) \in 1 .. Len(p) /\ p[a + (n - 1)] = i + q[n - 1]
    OBVIOUS
  <2>1. n - 1 \in 1 .. Len(q) /\ ~(n <= n - 1)
    BY <1>0, <1>8
  <2>2. n - 1 \notin Bad
    BY <1>7, <2>1
  <2> QED BY <2>1, <2>2
<1> HIDE DEF Bad
<1> DEFINE before == IF n = 1 THEN 0 ELSE q[n - 1]
           b0 == a + (n - 1)
<1>10. /\ b0 \in 1 .. Len(p) /\ b0 \in Nat /\ p[b0] = i + before /\ b0 + 1 = a + n
  BY <1>0, <1>8, <1>9
<1>11. q[n] \in 1 .. Len(cs) /\ q[n] \in K /\ before \in Nat /\ before < q[n]
  <2>1. q[n] \in 1 .. Len(cs) /\ q[n] \in K
    BY <1>3, <1>8 DEF Lists
  <2>2. CASE n = 1
    BY <2>1, <2>2
  <2>3. CASE n # 1
    <3>1. n - 1 \in 1 .. Len(q) /\ n - 1 < n
      BY <1>8, <1>9, <2>3
    <3>2. q[n - 1] < q[n] /\ q[n - 1] \in 1 .. Len(cs)
      BY <1>3, <1>8, <3>1 DEF Lists
    <3> QED BY <2>1, <2>3, <3>2
  <2> QED BY <2>2, <2>3
<1>12. ASSUME NEW k \in 1 .. Len(cs), before < k, k < q[n] PROVE k \notin K
  <2> SUFFICES ASSUME k \in K PROVE FALSE
    OBVIOUS
  <2>1. PICK o \in 1 .. Len(q) : q[o] = k
    BY <1>3 DEF Lists
  <2>2. o < n
    <3> SUFFICES ASSUME ~(o < n) PROVE FALSE
      OBVIOUS
    <3>1. o = n \/ n < o
      BY <1>0, <1>8, <2>1
    <3>2. q[n] <= q[o]
      <4>1. CASE o = n
        BY <1>11, <4>1
      <4>2. CASE n < o
        <5>1. q[n] < q[o]
          BY <1>3, <1>8, <4>2 DEF Lists
        <5> QED BY <1>11, <2>1, <5>1
      <4> QED BY <3>1, <4>1, <4>2
    <3> QED BY <1>11, <1>12, <2>1, <3>2
  <2>3. n # 1 /\ n - 1 \in 1 .. Len(q)
    BY <1>8, <1>9, <2>1, <2>2
  <2>4. o = n - 1 \/ o < n - 1
    BY <1>8, <2>1, <2>2
  <2>5. q[o] <= q[n - 1]
    <3>1. CASE o = n - 1
      BY <2>1, <3>1
    <3>2. CASE o < n - 1
      <4>1. q[o] < q[n - 1]
        BY <1>3, <2>3, <3>2 DEF Lists
      <4>2. q[n - 1] \in 1 .. Len(cs)
        BY <1>3, <2>3 DEF Lists
      <4> QED BY <2>1, <4>1, <4>2
    <3> QED BY <2>4, <3>1, <3>2
  <2>6. before = q[n - 1]
    BY <2>3
  <2> QED BY <1>11, <1>12, <2>1, <2>5, <2>6
<1> HIDE DEF before, b0
<1>13. i + q[n] \in 1 .. Len(s) /\ i + q[n] \in places
  BY <1>1, <1>2, <1>4, <1>11 DEF Spared
<1>14. PICK b \in 1 .. Len(p) : p[b] = i + q[n]
  BY <1>13 DEF Lists
<1>15. b0 < b
  <2> SUFFICES ASSUME ~(b0 < b) PROVE FALSE
    OBVIOUS
  <2>1. b = b0 \/ b < b0
    BY <1>0, <1>10, <1>14
  <2>2. p[b] <= p[b0]
    <3>1. CASE b = b0
      BY <1>0, <1>10, <3>1
    <3>2. CASE b < b0
      <4>1. p[b] < p[b0]
        BY <1>10, <3>2 DEF Lists
      <4> QED BY <1>0, <1>10, <4>1
    <3> QED BY <2>1, <3>1, <3>2
  <2> QED BY <1>0, <1>10, <1>11, <1>14, <2>2
<1>16. a + n \in 1 .. Len(p) /\ a + n = b0 + 1
  BY <1>0, <1>10, <1>14, <1>15
<1>17. p[b0] < p[a + n] /\ p[a + n] <= p[b]
  <2>1. p[b0] < p[a + n]
    <3>1. b0 < a + n
      BY <1>10, <1>16
    <3> QED BY <1>10, <1>16, <3>1 DEF Lists
  <2>2. p[a + n] <= p[b]
    <3>1. a + n = b \/ a + n < b
      BY <1>0, <1>10, <1>14, <1>15, <1>16
    <3>2. CASE a + n = b
      BY <1>0, <1>14, <3>2
    <3>3. CASE a + n < b
      <4>1. p[a + n] < p[b]
        BY <1>14, <1>16, <3>3 DEF Lists
      <4> QED BY <1>0, <1>14, <1>16, <4>1
    <3> QED BY <3>1, <3>2, <3>3
  <2> QED BY <2>1, <2>2
<1> DEFINE k == p[a + n] - i
<1>18. p[a + n] \in 1 .. Len(s) /\ p[a + n] \in places
  BY <1>0, <1>16
<1>19. k \in 1 .. Len(cs) /\ before < k /\ k <= q[n] /\ p[a + n] = i + k
  <2>1. /\ i \in Nat /\ p[a + n] \in Nat /\ q[n] \in Nat /\ before \in Nat /\ Len(cs) \in Nat
        /\ q[n] <= Len(cs) /\ i + before < p[a + n] /\ p[a + n] <= i + q[n]
    <3>1. i \in Nat
      BY <1>0
    <3>2. p[a + n] \in Nat
      BY <1>0, <1>18
    <3>3. q[n] \in Nat /\ q[n] <= Len(cs) /\ before \in Nat /\ Len(cs) \in Nat
      BY <1>1, <1>11
    <3>4. i + before < p[a + n]
      BY <1>10, <1>17
    <3>5. p[a + n] <= i + q[n]
      BY <1>14, <1>17
    <3> QED BY <3>1, <3>2, <3>3, <3>4, <3>5
  <2> DEFINE x == p[a + n]
             y == q[n]
             z == p[a]
             l == Len(cs)
  <2> HIDE DEF x, y, z, l
  <2>2. before \in Nat /\ z \in Nat /\ x \in Nat /\ y \in Nat /\ l \in Nat /\ y <= l /\ z + before < x /\ x <= z + y
    BY <2>1 DEF x, y, z, l
  <2>3. x - z \in 1 .. l /\ before < x - z /\ x - z <= y /\ x = z + (x - z)
    BY <2>2
  <2> QED BY <2>3 DEF x, y, z, l
<1> HIDE DEF k
<1>20. k = q[n]
  <2> SUFFICES ASSUME k < q[n] PROVE FALSE
    BY <1>11, <1>19
  <2>1. k \notin K
    BY <1>12, <1>19
  <2>2. cs[k] \in remove
    BY <1>1, <1>19, <2>1 DEF Spared
  <2> QED BY <1>4, <1>18, <1>19, <2>2
<1> QED BY <1>8, <1>16, <1>19, <1>20

LEMMA CallsOfOne ==
    ASSUME NEW m \in Messages
    PROVE  /\ m.calls \in Seq(Calls) /\ Len(m.calls) \in Nat /\ DOMAIN m.calls = 1 .. Len(m.calls)
           /\ m.calls = <<>> <=> Len(m.calls) = 0
<1>1. m.calls \in Seq(Calls)
  BY DEF Messages
<1> QED BY <1>1, LenProperties, EmptySeq

\* A place in a list comes later than another one if what it lists does.
LEMMA InOrder ==
    ASSUME NEW n \in Nat, NEW places, NEW p, Lists(p, n, places), NEW a \in 1 .. Len(p), NEW b \in 1 .. Len(p)
    PROVE  /\ p[a] < p[b] <=> a < b
           /\ p[a] = p[b] => a = b
<1>1. Len(p) \in Nat /\ p[a] \in Nat /\ p[b] \in Nat
  <2>1. Len(p) \in Nat
    BY LenProperties DEF Lists
  <2> QED BY <2>1 DEF Lists
<1>2. (a < b => p[a] < p[b]) /\ (b < a => p[b] < p[a])
  BY DEF Lists
<1>3. a < b \/ a = b \/ b < a
  BY <1>1
<1> QED BY <1>1, <1>2, <1>3

LEMMA ExchangeReduced ==
    ASSUME NEW s, Orderly(s), Answered(s), NEW remove, NEW places, Fits(s, remove, places),
           NEW p, Lists(p, Len(s), places), NEW r \in Seq(Messages), Len(r) = Len(p),
           \A k \in 1 .. Len(p) : r[k] = Lighter(s[p[k]], remove),
           NEW a \in 1 .. Len(p), Speaks(s[p[a]])
    PROVE  Exchange(r, a)
<1> DEFINE i == p[a]
           cs == s[i].calls
           K == Spared(cs, remove)
           L == Left(cs, remove)
<1>0. /\ s \in Seq(Messages) /\ Len(s) \in Nat
      /\ \A k \in 1 .. Len(p) : p[k] \in 1 .. Len(s) /\ p[k] \in places
      /\ i \in 1 .. Len(s)
  BY LenProperties DEF Lists, Orderly
<1>1. s[i] \in Messages /\ cs \in Seq(Calls) /\ Len(cs) \in Nat /\ DOMAIN cs = 1 .. Len(cs)
  <2>1. s[i] \in Messages
    BY <1>0, ElementOfSeq
  <2> QED BY <2>1, CallsOfOne
<1>2. /\ \A k \in 1 .. Len(cs) : i + k \in 1 .. Len(s) /\ IsResult(s[i + k]) /\ CallOf(s[i + k]) = cs[k]
      /\ \A j, k \in 1 .. Len(cs) : cs[j] = cs[k] => j = k
  <2>1. Exchange(s, i)
    BY <1>0, AnsweredIs
  <2> QED BY <1>1, <2>1 DEF Exchange, IsInjective
<1>3. L \in Seq(Calls) /\ \E q : Lists(q, Len(cs), K) /\ Reads(L, cs, q)
  BY <1>1, PickedPlaces DEF Left
<1>4. PICK q : Lists(q, Len(cs), K) /\ Reads(L, cs, q)
  BY <1>3
<1>5. \A n \in 1 .. Len(q) : a + n \in 1 .. Len(p) /\ p[a + n] = i + q[n]
  BY <1>4, ResultsMove
<1>6. /\ Len(L) = Len(q) /\ \A n \in 1 .. Len(q) : L[n] = cs[q[n]]
      /\ \A n \in 1 .. Len(q) : q[n] \in 1 .. Len(cs) /\ cs[q[n]] \notin remove
  BY <1>4 DEF Lists, Reads, Spared
<1>7. r[a].calls = L
  BY <1>1, LighterTyped
<1>8. ASSUME NEW n \in 1 .. Len(q)
      PROVE  a + n \in 1 .. Len(r) /\ IsResult(r[a + n]) /\ CallOf(r[a + n]) = L[n]
  <2> DEFINE j == i + q[n]
             m == s[j]
  <2>1. q[n] \in 1 .. Len(cs) /\ cs[q[n]] \notin remove /\ L[n] = cs[q[n]]
    BY <1>6
  <2>2. j \in 1 .. Len(s) /\ IsResult(m) /\ CallOf(m) = cs[q[n]]
    BY <1>2, <2>1
  <2>3. m \in Messages /\ Tidy(m)
    BY <1>0, <2>2, ElementOfSeq DEF Orderly
  <2>4. a + n \in 1 .. Len(p) /\ r[a + n] = Lighter(m, remove)
    BY <1>5
  <2> HIDE DEF m, j
  <2>5. m.calls \in Seq(Calls) /\ Len(m.calls) = 1 /\ m.calls[1] = cs[q[n]]
    BY <2>2, <2>3, CallsOfOne DEF Tidy, CallOf
  <2>6. Left(m.calls, remove) = m.calls
    BY <2>1, <2>5, LeftOfOne
  <2>7. r[a + n].role = m.role /\ r[a + n].calls = m.calls
    BY <2>3, <2>4, <2>6, LighterTyped
  <2> QED BY <2>1, <2>2, <2>4, <2>5, <2>7 DEF IsResult, CallOf
<1>9. IsInjective(L)
  <2>1. DOMAIN L = 1 .. Len(L)
    BY <1>3, LenProperties
  <2> SUFFICES ASSUME NEW m \in 1 .. Len(q), NEW n \in 1 .. Len(q), L[m] = L[n] PROVE m = n
    BY <1>6, <2>1 DEF IsInjective
  <2>2. q[m] \in 1 .. Len(cs) /\ q[n] \in 1 .. Len(cs) /\ cs[q[m]] = cs[q[n]]
    BY <1>6
  <2>3. q[m] = q[n]
    <3> HIDE DEF cs
    <3> QED BY <1>2, <2>2
  <2> QED BY <1>1, <1>4, <2>3, InOrder
<1> HIDE DEF L
<1> QED BY <1>6, <1>7, <1>8, <1>9 DEF Exchange

LEMMA ReducedAnswered ==
    ASSUME NEW s, Orderly(s), Answered(s), NEW remove, NEW places, Fits(s, remove, places),
           NEW r, Reduces(r, s, remove, places)
    PROVE  Answered(r)
<1>0. r \in Seq(Messages) /\ s \in Seq(Messages) /\ Len(s) \in Nat
  BY LenProperties DEF Reduces, Orderly
<1>1. PICK p : /\ Lists(p, Len(s), places) /\ Len(r) = Len(p)
               /\ \A k \in 1 .. Len(p) : r[k] = Lighter(s[p[k]], remove)
  BY DEF Reduces
<1>2. \A k \in 1 .. Len(p) : p[k] \in 1 .. Len(s) /\ p[k] \in places /\ s[p[k]] \in Messages
  <2>1. \A k \in 1 .. Len(p) : p[k] \in 1 .. Len(s) /\ p[k] \in places
    BY <1>1 DEF Lists
  <2> QED BY <1>0, <2>1, ElementOfSeq
<1>3. \A k \in 1 .. Len(p) : /\ Speaks(r[k]) <=> Speaks(s[p[k]])
                             /\ IsResult(r[k]) <=> IsResult(s[p[k]])
                             /\ r[k].calls = Left(s[p[k]].calls, remove)
  <2> TAKE k \in 1 .. Len(p)
  <2>1. /\ r[k].role = s[p[k]].role /\ r[k].stop = s[p[k]].stop
        /\ r[k].calls = Left(s[p[k]].calls, remove)
    BY <1>1, <1>2, LighterTyped
  <2> QED BY <2>1 DEF Speaks, IsResult, IsAssistant, HasFailed
<1>4. ASSUME NEW a \in 1 .. Len(r), Speaks(r[a]) PROVE Exchange(r, a)
  BY <1>0, <1>1, <1>3, <1>4, ExchangeReduced
<1>5. ASSUME NEW b \in 1 .. Len(r), IsResult(r[b]) PROVE Belongs(r, b)
  <2> DEFINE j == p[b]
  <2>1. j \in 1 .. Len(s) /\ j \in places /\ IsResult(s[j]) /\ s[j] \in Messages /\ Tidy(s[j])
    BY <1>1, <1>2, <1>3, <1>5 DEF Orderly
  <2> DEFINE w == s[j].calls
  <2>0. w \in Seq(Calls) /\ Len(w) = 1 /\ w # <<>>
    <3> DEFINE m == s[j]
    <3> HIDE DEF m, j
    <3>1. m \in Messages /\ Tidy(m) /\ IsResult(m)
      BY <2>1 DEF m
    <3>2. m.calls \in Seq(Calls) /\ (m.calls = <<>> <=> Len(m.calls) = 0)
      BY <3>1, CallsOfOne
    <3>3. Len(m.calls) = 1
      BY <3>1 DEF Tidy
    <3> QED BY <3>2, <3>3 DEF m
  <2>2. Belongs(s, j)
    BY <1>0, <2>1, AnsweredIs
  <2>3. PICK i \in 1 .. j - 1 : Speaks(s[i]) /\ j - i <= Len(s[i].calls)
    BY <2>2 DEF Belongs
  <2> DEFINE cs == s[i].calls
             K == Spared(cs, remove)
             L == Left(cs, remove)
             k == j - i
  <2>4. i \in 1 .. Len(s) /\ s[i] \in Messages
    <3>1. i \in 1 .. Len(s)
      BY <1>0, <2>1
    <3> QED BY <1>0, <3>1, ElementOfSeq
  <2>5. cs \in Seq(Calls) /\ Len(cs) \in Nat /\ DOMAIN cs = 1 .. Len(cs)
    BY <2>4, CallsOfOne
  <2>6. k \in 1 .. Len(cs) /\ i + k = j
    <3>1. i \in Int /\ j \in Int /\ 1 <= i /\ i <= j - 1
      BY <2>1
    <3>2. k \in Int /\ k >= 1 /\ i + k = j
      BY <3>1
    <3>3. k <= Len(cs)
      BY <2>3
    <3> HIDE DEF k, cs
    <3> QED BY <2>5, <3>2, <3>3
  <2>7. Exchange(s, i)
    BY <1>0, <2>3, <2>4, AnsweredIs
  <2>8. CallOf(s[j]) = cs[k]
    BY <2>6, <2>7 DEF Exchange
  <2>9. cs[k] \notin remove
    <3>1. Left(s[j].calls, remove) # <<>>
      BY <2>0, <2>1 DEF Fits
    <3> QED BY <2>8, <2>0, <3>1, LeftOfOne DEF CallOf
  <2>10. L \in Seq(Calls) /\ \E q : Lists(q, Len(cs), K) /\ Reads(L, cs, q)
    BY <2>5, PickedPlaces DEF Left
  <2>11. PICK q : Lists(q, Len(cs), K) /\ Reads(L, cs, q)
    BY <2>10
  <2>12. PICK n \in 1 .. Len(q) : q[n] = k
    BY <2>5, <2>6, <2>9, <2>11 DEF Lists, Spared
  <2>13. Len(L) = Len(q) /\ Len(q) \in Nat /\ L # <<>>
    <3>1. Len(q) \in Nat /\ Len(L) = Len(q)
      BY <2>11, LenProperties DEF Lists, Reads
    <3>2. Len(L) # 0
      BY <2>12, <3>1
    <3> QED BY <3>1, <3>2, EmptySeq
  <2>14. i \in places
    BY <2>3, <2>4, <2>13 DEF Fits, Speaks
  <2>15. PICK a \in 1 .. Len(p) : p[a] = i
    BY <1>1, <2>4, <2>14 DEF Lists
  <2>16. a + n \in 1 .. Len(p) /\ p[a + n] = i + q[n]
    <3>0. Speaks(s[p[a]]) /\ Lists(q, Len(s[p[a]].calls), Spared(s[p[a]].calls, remove)) /\ Lists(p, Len(s), places)
      BY <1>1, <2>3, <2>11, <2>15
    <3>1. \A o \in 1 .. Len(q) : a + o \in 1 .. Len(p) /\ p[a + o] = p[a] + q[o]
      BY <3>0, ResultsMove
    <3> QED BY <2>15, <3>1
  <2>17. a + n = b
    <3>1. p[a + n] = p[b] /\ b \in 1 .. Len(p)
      BY <1>1, <2>6, <2>12, <2>16
    <3> HIDE DEF j
    <3> QED BY <1>0, <1>1, <2>16, <3>1, InOrder
  <2>18. Speaks(r[a]) /\ r[a].calls = L
    BY <1>3, <2>3, <2>15
  <2>19. a \in 1 .. b - 1 /\ b - a <= Len(L)
    BY <2>12, <2>13, <2>15, <2>17
  <2> HIDE DEF L
  <2> QED BY <2>18, <2>19 DEF Belongs
<1> QED BY <1>0, <1>4, <1>5, AnsweredIs

-----------------------------------------------------------------------------
(* What is taken fits: a prune, the body of a compaction, the repair.        *)

LEMMA StaysFit ==
    ASSUME NEW s \in Seq(Messages), NEW remove
    PROVE  Fits(s, remove, Stays(s, remove))
<1> SUFFICES ASSUME NEW i \in 1 .. Len(s)
             PROVE  /\ i \in Stays(s, remove) /\ s[i].calls # <<>> => Left(s[i].calls, remove) # <<>>
                    /\ Left(s[i].calls, remove) # <<>> => i \in Stays(s, remove)
  BY DEF Fits
<1>1. s[i].calls \in Seq(Calls)
  BY ElementOfSeq, CallsOfOne
<1>2. remove = {} => Left(s[i].calls, remove) = s[i].calls
  BY <1>1, LeftTyped
<1> QED BY <1>2 DEF Stays

LEMMA PlacesFit ==
    ASSUME NEW s \in Seq(Messages), NEW places,
           \A i \in 1 .. Len(s) : IsResult(s[i]) \/ Speaks(s[i]) => i \in places
    PROVE  Fits(s, {}, places)
<1> SUFFICES ASSUME NEW i \in 1 .. Len(s) PROVE Left(s[i].calls, {}) = s[i].calls
  BY DEF Fits, Speaks
<1>1. s[i].calls \in Seq(Calls)
  BY ElementOfSeq, CallsOfOne
<1> QED BY <1>1, LeftTyped

LEMMA PrunedUsable ==
    ASSUME NEW s, Orderly(s), Answered(s), NEW remove
    PROVE  Orderly(Pruned(s, remove)) /\ Answered(Pruned(s, remove))
<1>1. s \in Seq(Messages)
  BY DEF Orderly
<1>2. Reduces(Pruned(s, remove), s, remove, Stays(s, remove)) /\ Fits(s, remove, Stays(s, remove))
  BY <1>1, PrunedReduces, StaysFit
<1> QED BY <1>2, ReducedOrderly, ReducedAnswered

BodyOf(s) == Picked(s, {i \in DOMAIN s : s[i] # Summary})

LEMMA BodyUsable ==
    ASSUME NEW s, Orderly(s), Answered(s)
    PROVE  Orderly(BodyOf(s)) /\ Answered(BodyOf(s))
<1> DEFINE P == {i \in DOMAIN s : s[i] # Summary}
<1>1. s \in Seq(Messages) /\ DOMAIN s = 1 .. Len(s)
  BY LenProperties DEF Orderly
<1>2. Fits(s, {}, P)
  <2>1. \A i \in 1 .. Len(s) : IsResult(s[i]) \/ Speaks(s[i]) => i \in P
    BY <1>1 DEF IsResult, Speaks, IsAssistant, Summary, Message
  <2> HIDE DEF P
  <2> QED BY <1>1, <2>1, PlacesFit
<1>3. Reduces(BodyOf(s), s, {}, P)
  BY <1>1, PickedReduces DEF BodyOf
<1> QED BY <1>2, <1>3, ReducedOrderly, ReducedAnswered

LEMMA SpokenUsable ==
    ASSUME NEW s, Orderly(s), Answered(s)
    PROVE  Orderly(Spoken(s)) /\ Answered(Spoken(s))
<1> DEFINE P == {i \in DOMAIN s : ~HasFailed(s[i])}
<1>1. s \in Seq(Messages) /\ DOMAIN s = 1 .. Len(s)
  BY LenProperties DEF Orderly
<1>2. Fits(s, {}, P)
  <2>1. \A i \in 1 .. Len(s) : IsResult(s[i]) \/ Speaks(s[i]) => i \in P
    BY <1>1 DEF IsResult, Speaks, IsAssistant, HasFailed
  <2> HIDE DEF P
  <2> QED BY <1>1, <2>1, PlacesFit
<1>3. Reduces(Spoken(s), s, {}, P)
  BY <1>1, PickedReduces DEF Spoken
<1> QED BY <1>2, <1>3, ReducedOrderly, ReducedAnswered

-----------------------------------------------------------------------------
(* Histories put together and cut.                                           *)

LEMMA JoinedAnswered ==
    ASSUME NEW s \in Seq(Messages), Answered(s), NEW t \in Seq(Messages), Answered(t)
    PROVE  Answered(s \o t)
<1> DEFINE u == s \o t
           n == Len(s)
<1>1. /\ u \in Seq(Messages) /\ Len(u) = n + Len(t) /\ n \in Nat /\ Len(t) \in Nat
      /\ \A i \in 1 .. n + Len(t) : u[i] = IF i <= n THEN s[i] ELSE t[i - n]
  BY ConcatProperties, LenProperties
<1> HIDE DEF u, n
<1>2. /\ \A i \in 1 .. n : u[i] = s[i] /\ i \in 1 .. Len(u)
      /\ \A i \in 1 .. Len(t) : u[n + i] = t[i] /\ n + i \in 1 .. Len(u)
  <2>1. \A i \in 1 .. n : u[i] = s[i] /\ i \in 1 .. Len(u)
    BY <1>1
  <2>2. ASSUME NEW i \in 1 .. Len(t) PROVE u[n + i] = t[i] /\ n + i \in 1 .. Len(u)
    <3>1. n + i \in 1 .. n + Len(t) /\ ~(n + i <= n) /\ (n + i) - n = i
      BY <1>1
    <3> QED BY <1>1, <3>1
  <2> QED BY <2>1, <2>2
<1>3. \A i \in 1 .. Len(u) : i \in 1 .. n \/ \E j \in 1 .. Len(t) : i = n + j
  <2> TAKE i \in 1 .. Len(u)
  <2> SUFFICES ASSUME i \notin 1 .. n PROVE \E j \in 1 .. Len(t) : i = n + j
    OBVIOUS
  <2>1. i - n \in 1 .. Len(t) /\ i = n + (i - n)
    BY <1>1
  <2> QED BY <2>1
<1>4. \A i \in 1 .. n : (Speaks(s[i]) => Exchange(s, i)) /\ (IsResult(s[i]) => Belongs(s, i))
  BY AnsweredIs DEF n
<1>5. \A i \in 1 .. Len(t) : (Speaks(t[i]) => Exchange(t, i)) /\ (IsResult(t[i]) => Belongs(t, i))
  BY AnsweredIs
<1>6. ASSUME NEW i \in 1 .. n PROVE (Speaks(u[i]) => Exchange(u, i)) /\ (IsResult(u[i]) => Belongs(u, i))
  <2>1. u[i] = s[i]
    BY <1>2
  <2>2. ASSUME Speaks(u[i]) PROVE Exchange(u, i)
    <3>1. Exchange(s, i)
      BY <1>4, <2>1, <2>2
    <3>2. \A k \in 1 .. Len(u[i].calls) :
             i + k \in 1 .. n /\ IsResult(s[i + k]) /\ CallOf(s[i + k]) = u[i].calls[k]
      BY <2>1, <3>1 DEF Exchange, n
    <3>3. \A k \in 1 .. Len(u[i].calls) :
             i + k \in 1 .. Len(u) /\ IsResult(u[i + k]) /\ CallOf(u[i + k]) = u[i].calls[k]
      BY <1>2, <3>2
    <3> QED BY <2>1, <3>1, <3>3 DEF Exchange
  <2>3. ASSUME IsResult(u[i]) PROVE Belongs(u, i)
    <3>1. PICK a \in 1 .. i - 1 : Speaks(s[a]) /\ i - a <= Len(s[a].calls)
      BY <1>4, <2>1, <2>3 DEF Belongs
    <3>2. a \in 1 .. n
      BY <1>1
    <3>3. u[a] = s[a]
      BY <1>2, <3>2
    <3> QED BY <3>1, <3>3 DEF Belongs
  <2> QED BY <2>2, <2>3
<1>7. ASSUME NEW j \in 1 .. Len(t)
      PROVE  (Speaks(u[n + j]) => Exchange(u, n + j)) /\ (IsResult(u[n + j]) => Belongs(u, n + j))
  <2> DEFINE i == n + j
  <2>0. i \in Nat /\ i = n + j
    BY <1>1
  <2>1. u[i] = t[j]
    BY <1>2
  <2>2. ASSUME Speaks(u[i]) PROVE Exchange(u, i)
    <3>1. Exchange(t, j)
      BY <1>5, <2>1, <2>2
    <3>2. ASSUME NEW k \in 1 .. Len(u[i].calls)
          PROVE  i + k \in 1 .. Len(u) /\ IsResult(u[i + k]) /\ CallOf(u[i + k]) = u[i].calls[k]
      <4>1. j + k \in 1 .. Len(t) /\ IsResult(t[j + k]) /\ CallOf(t[j + k]) = u[i].calls[k]
        BY <2>1, <3>1 DEF Exchange
      <4>2. u[n + (j + k)] = t[j + k] /\ n + (j + k) \in 1 .. Len(u)
        BY <1>2, <4>1
      <4>3. i + k = n + (j + k)
        BY <1>1
      <4> QED BY <4>1, <4>2, <4>3
    <3> HIDE DEF i
    <3> QED BY <2>1, <3>1, <3>2 DEF Exchange
  <2>3. ASSUME IsResult(u[i]) PROVE Belongs(u, i)
    <3>1. PICK a \in 1 .. j - 1 : Speaks(t[a]) /\ j - a <= Len(t[a].calls)
      BY <1>5, <2>1, <2>3 DEF Belongs
    <3>2. a \in 1 .. Len(t)
      BY <1>1
    <3>3. u[n + a] = t[a]
      BY <1>2, <3>2
    <3>4. n + a \in 1 .. i - 1 /\ i - (n + a) = j - a
      BY <1>1, <3>2
    <3> HIDE DEF i
    <3>5. Speaks(u[n + a]) /\ i - (n + a) <= Len(u[n + a].calls)
      BY <3>1, <3>3, <3>4
    <3> QED BY <3>4, <3>5 DEF Belongs
  <2> QED BY <2>2, <2>3
<1>8. \A i \in 1 .. Len(u) : (Speaks(u[i]) => Exchange(u, i)) /\ (IsResult(u[i]) => Belongs(u, i))
  <2> TAKE i \in 1 .. Len(u)
  <2>1. CASE i \in 1 .. n
    BY <1>6, <2>1
  <2>2. CASE \E j \in 1 .. Len(t) : i = n + j
    BY <1>7, <2>2
  <2> QED BY <1>3, <2>1, <2>2
<1>9. Answered(u)
  BY <1>1, <1>8, AnsweredIs
<1> QED BY <1>9 DEF u

LEMMA JoinedOrderly ==
    ASSUME NEW s, Orderly(s), NEW t, Orderly(t), s = <<>> \/ \A i \in 1 .. Len(t) : t[i].role # "summary"
    PROVE  Orderly(s \o t)
<1> DEFINE u == s \o t
           n == Len(s)
<1>0. s \in Seq(Messages) /\ t \in Seq(Messages)
  BY DEF Orderly
<1>1. /\ u \in Seq(Messages) /\ Len(u) = n + Len(t) /\ n \in Nat /\ Len(t) \in Nat
      /\ \A i \in 1 .. n + Len(t) : u[i] = IF i <= n THEN s[i] ELSE t[i - n]
      /\ s = <<>> => n = 0
  BY <1>0, ConcatProperties, LenProperties, EmptySeq
<1> HIDE DEF u, n
<1>2. ASSUME NEW i \in 1 .. Len(u) PROVE Tidy(u[i]) /\ (u[i].role = "summary" => i = 1)
  <2>1. CASE i <= n
    <3>1. i \in 1 .. Len(s) /\ u[i] = s[i]
      BY <1>1, <2>1 DEF n
    <3> QED BY <3>1 DEF Orderly
  <2>2. CASE ~(i <= n)
    <3>1. i - n \in 1 .. Len(t) /\ u[i] = t[i - n]
      BY <1>1, <2>2
    <3>2. Tidy(u[i]) /\ (u[i].role = "summary" => i - n = 1)
      BY <3>1 DEF Orderly
    <3>3. u[i].role = "summary" => n = 0
      BY <1>1, <3>1
    <3> QED BY <1>1, <3>2, <3>3
  <2> QED BY <2>1, <2>2
<1>3. Orderly(u)
  BY <1>1, <1>2 DEF Orderly
<1> QED BY <1>3 DEF u

\* Messages without calls, and failed answers, ask for no results.
Asking(m) == Speaks(m) /\ m.calls # <<>>

LEMMA QuietAnswered ==
    ASSUME NEW s \in Seq(Messages), \A i \in 1 .. Len(s) : ~Asking(s[i]) /\ ~IsResult(s[i])
    PROVE  Answered(s)
<1> SUFFICES ASSUME NEW i \in 1 .. Len(s), Speaks(s[i]) PROVE Exchange(s, i)
  BY AnsweredIs
<1>1. s[i] \in Messages /\ s[i].calls = <<>>
  BY ElementOfSeq DEF Asking
<1>2. Len(s[i].calls) = 0 /\ DOMAIN s[i].calls = {}
  BY <1>1
<1> QED BY <1>2 DEF Exchange, IsInjective

LEMMA EmptyUsable == Orderly(<<>>) /\ Answered(<<>>)
<1> DEFINE s == <<>>
<1>1. s \in Seq(Messages) /\ Len(s) = 0
  OBVIOUS
<1> HIDE DEF s
<1>2. 1 .. Len(s) = {}
  BY <1>1
<1>3. Answered(s)
  BY <1>1, <1>2, QuietAnswered
<1>4. Orderly(s)
  BY <1>1, <1>2 DEF Orderly
<1> QED BY <1>3, <1>4 DEF s

LEMMA OneUsable ==
    ASSUME NEW m \in Messages, Tidy(m), ~IsResult(m), ~Asking(m)
    PROVE  Orderly(<<m>>) /\ Answered(<<m>>) /\ <<m>> \in Seq(Messages)
<1>1. <<m>> \in Seq(Messages) /\ Len(<<m>>) = 1 /\ \A i \in 1 .. 1 : i = 1 /\ <<m>>[i] = m
  <2>1. \A i \in 1 .. 1 : i = 1
    OBVIOUS
  <2>2. <<m>> \in Seq(Messages) /\ Len(<<m>>) = 1 /\ <<m>>[1] = m
    OBVIOUS
  <2> QED BY <2>1, <2>2
<1> DEFINE s == <<m>>
<1>2. s \in Seq(Messages) /\ Len(s) = 1 /\ \A i \in 1 .. 1 : i = 1 /\ s[i] = m
  BY <1>1
<1> HIDE DEF s
<1>3. Orderly(s) /\ Answered(s)
  BY <1>2, QuietAnswered DEF Orderly
<1> QED BY <1>2, <1>3 DEF s

\* An answer and the results of its calls.
LEMMA ExchangeAnswered ==
    ASSUME NEW m \in Messages, Speaks(m), IsInjective(m.calls), NEW rs \in Seq(Messages), Len(rs) = Len(m.calls),
           \A k \in 1 .. Len(rs) : IsResult(rs[k]) /\ rs[k].calls = <<m.calls[k]>>
    PROVE  Answered(<<m>> \o rs)
<1> DEFINE u == <<m>> \o rs
<1>1. <<m>> \in Seq(Messages) /\ Len(<<m>>) = 1 /\ <<m>>[1] = m
  OBVIOUS
<1>2. Len(rs) \in Nat
  BY LenProperties
<1>3. /\ u \in Seq(Messages) /\ Len(u) = 1 + Len(rs)
      /\ \A i \in 1 .. 1 + Len(rs) : u[i] = IF i <= 1 THEN <<m>>[i] ELSE rs[i - 1]
  <2> DEFINE h == <<m>>
  <2>1. h \in Seq(Messages) /\ Len(h) = 1
    BY <1>1
  <2> HIDE DEF h
  <2>2. /\ h \o rs \in Seq(Messages) /\ Len(h \o rs) = Len(h) + Len(rs)
        /\ \A i \in 1 .. Len(h) + Len(rs) : (h \o rs)[i] = IF i <= Len(h) THEN h[i] ELSE rs[i - Len(h)]
    BY <2>1, ConcatProperties
  <2>3. u = h \o rs
    BY DEF h
  <2> HIDE DEF u
  <2>4. /\ u \in Seq(Messages) /\ Len(u) = 1 + Len(rs)
        /\ \A i \in 1 .. 1 + Len(rs) : u[i] = IF i <= 1 THEN h[i] ELSE rs[i - 1]
    BY <2>1, <2>2, <2>3
  <2> QED BY <2>4 DEF h
<1> HIDE DEF u
<1>4. u[1] = m
  BY <1>1, <1>2, <1>3
<1>5. ASSUME NEW k \in 1 .. Len(rs) PROVE 1 + k \in 1 .. Len(u) /\ u[1 + k] = rs[k]
  <2>1. 1 + k \in 1 .. 1 + Len(rs) /\ ~(1 + k <= 1) /\ (1 + k) - 1 = k
    BY <1>2
  <2> QED BY <1>3, <2>1
<1>6. Exchange(u, 1)
  <2>1. \A k \in 1 .. Len(rs) : 1 + k \in 1 .. Len(u) /\ IsResult(u[1 + k]) /\ CallOf(u[1 + k]) = m.calls[k]
    BY <1>5 DEF CallOf
  <2> QED BY <1>4, <2>1 DEF Exchange
<1>7. ASSUME NEW i \in 1 .. Len(u), i # 1 PROVE IsResult(u[i]) /\ Belongs(u, i)
  <2>1. i - 1 \in 1 .. Len(rs) /\ i = 1 + (i - 1)
    BY <1>2, <1>3, <1>7
  <2>2. u[i] = rs[i - 1]
    BY <1>5, <2>1
  <2>3. 1 \in 1 .. i - 1 /\ i - 1 <= Len(m.calls)
    BY <2>1
  <2> QED BY <1>4, <2>1, <2>2, <2>3 DEF Belongs
<1>8. ~IsResult(u[1])
  BY <1>4 DEF Speaks, IsResult, IsAssistant
<1>9. \A i \in 1 .. Len(u) : ~Speaks(u[i]) \/ i = 1
  BY <1>7 DEF Speaks, IsResult, IsAssistant
<1>10. Answered(u)
  BY <1>3, <1>6, <1>7, <1>8, <1>9, AnsweredIs
<1> QED BY <1>10 DEF u

\* A history cut where no result follows.
LEMMA CutUsable ==
    ASSUME NEW s, Orderly(s), Answered(s), NEW k \in 1 .. Len(s) + 1, k \in 1 .. Len(s) => ~IsResult(s[k])
    PROVE  LET t == SubSeq(s, k, Len(s))
           IN  /\ Orderly(t) /\ Answered(t)
               /\ Len(t) = Len(s) - k + 1
               /\ \A i \in 1 .. Len(t) : t[i] = s[k + i - 1]
<1> DEFINE t == SubSeq(s, k, Len(s))
           n == k - 1
<1>1. s \in Seq(Messages) /\ Len(s) \in Nat /\ n \in Nat /\ n <= Len(s)
  BY LenProperties DEF Orderly
<1>2. t \in Seq(Messages) /\ Len(t) = Len(s) - n /\ \A i \in 1 .. Len(t) : t[i] = s[n + i]
  <2>1. \A i \in k .. Len(s) : s[i] \in Messages
    BY <1>1, ElementOfSeq
  <2>2. k \in Int /\ Len(s) \in Int
    BY <1>1
  <2>3. /\ t \in Seq(Messages) /\ Len(t) = IF k <= Len(s) THEN Len(s) - k + 1 ELSE 0
        /\ \A i \in 1 .. Len(s) - k + 1 : t[i] = s[k + i - 1]
    BY <2>1, <2>2, SubSeqProperties
  <2> HIDE DEF t
  <2>4. Len(t) = Len(s) - k + 1
    BY <1>1, <2>3
  <2>5. \A i \in 1 .. Len(t) : k + i - 1 = n + i
    BY <1>1
  <2> QED BY <1>1, <2>3, <2>4, <2>5
<1> HIDE DEF t
<1>3. \A i \in 1 .. Len(t) : n + i \in 1 .. Len(s) /\ i \in Nat
  BY <1>1, <1>2
<1>4. n + 1 \in 1 .. Len(s) => ~IsResult(s[n + 1])
  BY <1>1
<1>5. \A i \in 1 .. Len(s) : (Speaks(s[i]) => Exchange(s, i)) /\ (IsResult(s[i]) => Belongs(s, i))
  BY <1>1, AnsweredIs
<1>6. \A i \in 1 .. Len(t) : k + i - 1 = n + i
  BY <1>1
<1> HIDE DEF n
<1>7. ASSUME NEW j \in 1 .. Len(t), Speaks(t[j]) PROVE Exchange(t, j)
  <2>1. t[j] = s[n + j] /\ n + j \in 1 .. Len(s)
    BY <1>2, <1>3
  <2>2. Exchange(s, n + j)
    BY <1>5, <1>7, <2>1
  <2>3. ASSUME NEW c \in 1 .. Len(t[j].calls)
        PROVE  j + c \in 1 .. Len(t) /\ IsResult(t[j + c]) /\ CallOf(t[j + c]) = t[j].calls[c]
    <3>1. n + j + c \in 1 .. Len(s) /\ IsResult(s[n + j + c]) /\ CallOf(s[n + j + c]) = t[j].calls[c]
      BY <2>1, <2>2 DEF Exchange
    <3>2. j + c \in 1 .. Len(t) /\ n + j + c = n + (j + c)
      BY <1>1, <1>2, <3>1
    <3>3. t[j + c] = s[n + j + c]
      BY <1>2, <3>2
    <3> QED BY <3>1, <3>2, <3>3
  <2> QED BY <2>1, <2>2, <2>3 DEF Exchange
<1>8. ASSUME NEW j \in 1 .. Len(t), IsResult(t[j]) PROVE Belongs(t, j)
  <2>1. t[j] = s[n + j] /\ n + j \in 1 .. Len(s)
    BY <1>2, <1>3
  <2>2. Belongs(s, n + j)
    BY <1>5, <1>8, <2>1
  <2>3. PICK i \in 1 .. (n + j) - 1 : Speaks(s[i]) /\ (n + j) - i <= Len(s[i].calls)
    BY <2>2 DEF Belongs
  <2>4. ~(i <= n)
    <3> SUFFICES ASSUME i <= n PROVE FALSE
      OBVIOUS
    <3>1. i \in 1 .. Len(s)
      BY <1>1
    <3>2. Exchange(s, i)
      BY <1>5, <2>3, <3>1
    <3> DEFINE l == Len(s[i].calls)
    <3>3. l \in Nat
      BY <1>1, <3>1, ElementOfSeq, CallsOfOne
    <3>4. (n + j) - i <= l
      BY <2>3
    <3> HIDE DEF l
    <3>5. (n + 1) - i \in 1 .. l /\ i + ((n + 1) - i) = n + 1
      BY <1>1, <3>3, <3>4
    <3>6. n + 1 \in 1 .. Len(s) /\ IsResult(s[n + 1])
      BY <3>2, <3>5 DEF Exchange, l
    <3> QED BY <1>4, <3>6
  <2>5. i - n \in 1 .. Len(t) /\ n + (i - n) = i /\ i - n \in 1 .. j - 1 /\ j - (i - n) = (n + j) - i
    BY <1>1, <1>2, <2>4
  <2>6. t[i - n] = s[i]
    BY <1>2, <2>5
  <2> QED BY <2>3, <2>5, <2>6 DEF Belongs
<1>9. ASSUME NEW j \in 1 .. Len(t) PROVE Tidy(t[j]) /\ (t[j].role = "summary" => j = 1)
  <2>1. t[j] = s[n + j] /\ n + j \in 1 .. Len(s)
    BY <1>2, <1>3
  <2>2. Tidy(t[j]) /\ (t[j].role = "summary" => n + j = 1)
    BY <2>1 DEF Orderly
  <2> QED BY <1>1, <2>2
<1>10. Orderly(t) /\ Answered(t)
  BY <1>2, <1>7, <1>8, <1>9, AnsweredIs DEF Orderly
<1>11. Len(t) = Len(s) - k + 1
  BY <1>1, <1>2 DEF n
<1> QED BY <1>2, <1>6, <1>10, <1>11 DEF t

\* A history without its last message, if that is no result.
LEMMA FrontIs ==
    ASSUME NEW s \in Seq(Messages), s # <<>>
    PROVE  /\ Front(s) \in Seq(Messages) /\ Len(Front(s)) = Len(s) - 1
           /\ \A i \in 1 .. Len(s) - 1 : Front(s)[i] = s[i] /\ i \in 1 .. Len(s)
<1> DEFINE t == Front(s)
           n == Len(s) - 1
<1>1. Len(s) \in Nat /\ n \in Nat /\ Len(s) = n + 1
  BY LenProperties, EmptySeq
<1>2. t \in Seq(Messages) /\ Len(t) = n /\ \A i \in 1 .. n : t[i] = s[i] /\ i \in 1 .. Len(s)
  <2>1. \A i \in 1 .. n : s[i] \in Messages /\ i \in 1 .. Len(s)
    BY <1>1, ElementOfSeq
  <2>2. 1 \in Int /\ n \in Int
    BY <1>1
  <2>3. t = SubSeq(s, 1, n)
    BY DEF Front
  <2>4. /\ SubSeq(s, 1, n) \in Seq(Messages) /\ Len(SubSeq(s, 1, n)) = IF 1 <= n THEN n - 1 + 1 ELSE 0
        /\ \A i \in 1 .. n - 1 + 1 : SubSeq(s, 1, n)[i] = s[1 + i - 1]
    <3> HIDE DEF n
    <3> QED BY <2>1, <2>2, SubSeqProperties
  <2> HIDE DEF t
  <2>5. \A i \in 1 .. n : 1 + i - 1 = i /\ i \in 1 .. n - 1 + 1
    BY <1>1
  <2> QED BY <1>1, <2>1, <2>3, <2>4, <2>5
<1> QED BY <1>2 DEF t, n

LEMMA FrontUsable ==
    ASSUME NEW s, Orderly(s), Answered(s), s # <<>>, ~IsResult(s[Len(s)])
    PROVE  /\ Orderly(Front(s)) /\ Answered(Front(s))
           /\ Len(Front(s)) = Len(s) - 1
           /\ \A i \in 1 .. Len(s) - 1 : Front(s)[i] = s[i]
<1> DEFINE t == Front(s)
           n == Len(s) - 1
<1>1. s \in Seq(Messages) /\ Len(s) \in Nat /\ n \in Nat /\ Len(s) = n + 1
  BY LenProperties, EmptySeq DEF Orderly
<1>2. t \in Seq(Messages) /\ Len(t) = n /\ \A i \in 1 .. n : t[i] = s[i] /\ i \in 1 .. Len(s)
  BY <1>1, FrontIs
<1> HIDE DEF t, n
<1>3. \A i \in 1 .. Len(s) : (Speaks(s[i]) => Exchange(s, i)) /\ (IsResult(s[i]) => Belongs(s, i))
  BY <1>1, AnsweredIs
<1>4. ASSUME NEW j \in 1 .. n, Speaks(t[j]) PROVE Exchange(t, j)
  <2>1. t[j] = s[j] /\ Exchange(s, j)
    BY <1>2, <1>3, <1>4
  <2>2. ASSUME NEW c \in 1 .. Len(t[j].calls)
        PROVE  j + c \in 1 .. n /\ IsResult(t[j + c]) /\ CallOf(t[j + c]) = t[j].calls[c]
    <3>1. j + c \in 1 .. Len(s) /\ IsResult(s[j + c]) /\ CallOf(s[j + c]) = t[j].calls[c]
      BY <2>1 DEF Exchange
    <3>2. j + c # Len(s)
      BY <3>1
    <3>3. j + c \in 1 .. n
      BY <1>1, <3>1, <3>2
    <3> QED BY <1>2, <3>1, <3>3
  <2> QED BY <1>2, <2>1, <2>2 DEF Exchange
<1>5. ASSUME NEW j \in 1 .. n, IsResult(t[j]) PROVE Belongs(t, j)
  <2>1. t[j] = s[j] /\ Belongs(s, j)
    BY <1>2, <1>3, <1>5
  <2>2. PICK i \in 1 .. j - 1 : Speaks(s[i]) /\ j - i <= Len(s[i].calls)
    BY <2>1 DEF Belongs
  <2>3. t[i] = s[i]
    <3>1. i \in 1 .. n
      BY <1>1
    <3> QED BY <1>2, <3>1
  <2> QED BY <2>2, <2>3 DEF Belongs
<1>6. ASSUME NEW j \in 1 .. n PROVE Tidy(t[j]) /\ (t[j].role = "summary" => j = 1)
  BY <1>2 DEF Orderly
<1>7. Orderly(t) /\ Answered(t)
  BY <1>2, <1>4, <1>5, <1>6, AnsweredIs DEF Orderly
<1> QED BY <1>2, <1>7 DEF t, n

-----------------------------------------------------------------------------
(* Where a compaction cuts: never right before a result.                     *)

LEMMA MinIs ==
    ASSUME NEW S, S \subseteq Nat, S # {}
    PROVE  Min(S) \in S /\ \A y \in S : Min(S) <= y
<1>1. \E x \in S : \A y \in S : x <= y
  BY LeastOne
<1> QED BY <1>1 DEF Min

LEMMA MaxIs ==
    ASSUME NEW S, NEW n \in Nat, S \subseteq 0 .. n, S # {}
    PROVE  Max(S) \in S /\ \A y \in S : y <= Max(S)
<1>1. \E x \in S : \A y \in S : y <= x
  BY GreatestOne
<1>2. \A x, y \in S : y <= x <=> x >= y
  OBVIOUS
<1>3. \E x \in S : \A y \in S : x >= y
  BY <1>1, <1>2
<1>4. Max(S) \in S /\ \A y \in S : Max(S) >= y
  BY <1>3 DEF Max
<1> QED BY <1>2, <1>4

LEMMA Snaps ==
    ASSUME NEW s \in Seq(Messages), NEW i \in Nat
    PROVE  \/ SnapForward(s, i) = 0
           \/ /\ SnapForward(s, i) \in 1 .. Len(s) \/ i = 0
              /\ SnapForward(s, i) \in i .. Len(s) /\ IsValidCut(s[SnapForward(s, i)])
<1> DEFINE S == {j \in i .. Len(s) : IsValidCut(s[j])}
<1>0. Len(s) \in Nat
  BY LenProperties
<1>1. S \subseteq Nat
  BY <1>0
<1>2. CASE S = {}
  BY <1>2 DEF SnapForward, LeastOr0
<1>3. CASE S # {}
  <2>1. SnapForward(s, i) = Min(S)
    BY <1>3 DEF SnapForward, LeastOr0
  <2>2. Min(S) \in S
    <3> HIDE DEF S
    <3> QED BY <1>1, <1>3, MinIs
  <2>3. SnapForward(s, i) \in i .. Len(s) /\ IsValidCut(s[SnapForward(s, i)])
    BY <2>1, <2>2
  <2> QED BY <1>0, <2>3
<1> QED BY <1>2, <1>3

LEMMA FirstKeptIs ==
    ASSUME NEW s \in Seq(Messages), NEW keep
    PROVE  \/ FirstKept(s, keep) = 1
           \/ FirstKept(s, keep) \in 1 .. Len(s) /\ ~IsResult(s[FirstKept(s, keep)])
<1> DEFINE first     == SnapForward(s, 1)
           crossing  == Crossing(s, keep)
           snapped   == IF crossing = 0 THEN 0 ELSE SnapForward(s, crossing)
           candidate == IF snapped = 0 THEN first ELSE snapped
           S == {k \in 1 .. candidate : \A j \in k .. candidate - 1 : s[j].role = "extension"}
<1>0. Len(s) \in Nat /\ DOMAIN s = 1 .. Len(s)
  BY LenProperties
<1>1. FirstKept(s, keep) = IF first = 0 THEN 1 ELSE Min(S)
  BY DEF FirstKept
<1>2. first = 0 \/ (first \in 1 .. Len(s) /\ IsValidCut(s[first]))
  BY Snaps
<1>3. crossing \in 0 .. Len(s)
  <2> DEFINE C == {i \in DOMAIN s : Weight(s[i]) > 0 /\ TokensFrom(s, i) >= keep}
  <2>1. crossing = IF C = {} THEN 0 ELSE Max(C)
    BY DEF Crossing, GreatestOr0
  <2>2. C \subseteq 1 .. Len(s) /\ C \subseteq 0 .. Len(s)
    BY <1>0
  <2>3. C # {} => Max(C) \in C
    <3> HIDE DEF C
    <3> QED BY <1>0, <2>2, MaxIs
  <2> HIDE DEF C, crossing
  <2> QED BY <1>0, <2>1, <2>2, <2>3
<1> HIDE DEF crossing, first
<1>4. snapped = 0 \/ (snapped \in 1 .. Len(s) /\ IsValidCut(s[snapped]))
  <2>1. crossing # 0 => crossing \in Nat /\ crossing >= 1
    BY <1>3
  <2>2. crossing # 0 => SnapForward(s, crossing) = 0
                        \/ (SnapForward(s, crossing) \in 1 .. Len(s) /\ IsValidCut(s[SnapForward(s, crossing)]))
    BY <2>1, Snaps
  <2> QED BY <2>2
<1> HIDE DEF snapped
<1>5. CASE first = 0
  BY <1>1, <1>5
<1>6. CASE first # 0
  <2>1. candidate \in 1 .. Len(s) /\ IsValidCut(s[candidate])
    BY <1>2, <1>4, <1>6
  <2> HIDE DEF candidate
  <2>2. candidate \in S
    BY <1>0, <2>1
  <2>3. S \subseteq Nat /\ S # {}
    BY <2>2
  <2>4. Min(S) \in S
    <3> HIDE DEF S
    <3> QED BY <2>3, MinIs
  <2> DEFINE k == Min(S)
  <2>5. k \in 1 .. candidate /\ \A j \in k .. candidate - 1 : s[j].role = "extension"
    BY <2>4
  <2> HIDE DEF k
  <2>6. k = candidate \/ s[k].role = "extension"
    BY <1>0, <2>1, <2>5
  <2>7. ~IsResult(s[k])
    BY <2>1, <2>6 DEF IsValidCut, IsUser, IsAssistant, IsResult
  <2>8. k \in 1 .. Len(s)
    BY <1>0, <2>1, <2>5
  <2> QED BY <1>1, <1>6, <2>7, <2>8 DEF k
<1> QED BY <1>5, <1>6

LEMMA PlanIs ==
    ASSUME NEW s \in Seq(Messages), NEW keep, NEW minimum \in Nat, minimum = 0 \/ minimum > Len(s),
           Plan(s, keep, minimum) # 0
    PROVE  /\ s # <<>>
           /\ Plan(s, keep, minimum) \in 1 .. Len(s) + 1
           /\ Plan(s, keep, minimum) \in 1 .. Len(s) => ~IsResult(s[Plan(s, keep, minimum)])
<1> DEFINE F == FirstKept(s, keep)
           m == Min({minimum, Len(s) + 1})
           k == Max({F, m})
<1>0. Len(s) \in Nat /\ Len(s) + 1 \in Nat
  BY LenProperties
<1>1. Plan(s, keep, minimum) = (IF s = <<>> \/ k = 1 THEN 0 ELSE k) /\ s # <<>> /\ k # 1 /\ Plan(s, keep, minimum) = k
  <2>1. Plan(s, keep, minimum) = IF s = <<>> \/ k = 1 THEN 0 ELSE k
    BY DEF Plan
  <2> HIDE DEF k
  <2> QED BY <2>1
<1>2. F = 1 \/ (F \in 1 .. Len(s) /\ ~IsResult(s[F]))
  BY FirstKeptIs
<1>3. m = IF minimum = 0 THEN 0 ELSE Len(s) + 1
  BY <1>0, LeastOfTwo
<1> HIDE DEF F, m
<1>4. k \in {F, m} /\ F <= k /\ m <= k
  <2> DEFINE S == {F, m}
  <2>1. S \subseteq 0 .. (Len(s) + 1)
    BY <1>0, <1>2, <1>3
  <2>2. S # {}
    OBVIOUS
  <2>3. Max(S) \in S /\ \A y \in S : y <= Max(S)
    <3> HIDE DEF S
    <3> QED BY <1>0, <2>1, <2>2, MaxIs
  <2> QED BY <2>3
<1> HIDE DEF k
<1>5. k \in 1 .. Len(s) + 1
  BY <1>0, <1>2, <1>3, <1>4
<1>6. k \in 1 .. Len(s) => k = F
  BY <1>0, <1>3, <1>4
<1>7. k \in 1 .. Len(s) => ~IsResult(s[k])
  BY <1>1, <1>2, <1>6
<1> QED BY <1>1, <1>5, <1>7

\* No more is left than there was.
LEMMA ListedShort ==
    ASSUME NEW n \in Nat, NEW places, NEW p, Lists(p, n, places)
    PROVE  Len(p) <= n
<1>0. Len(p) \in Nat /\ \A k \in 1 .. Len(p) : p[k] \in 1 .. n
  BY LenProperties DEF Lists
<1> DEFINE Bad == {k \in 1 .. Len(p) : ~(k <= p[k])}
<1>1. Bad = {}
  <2> SUFFICES ASSUME Bad # {} PROVE FALSE
    OBVIOUS
  <2>1. Bad \subseteq Nat
    OBVIOUS
  <2>2. \E k \in Bad : \A j \in Bad : k <= j
    <3> HIDE DEF Bad
    <3> QED BY <2>1, LeastOne
  <2>3. PICK k \in Bad : \A j \in Bad : k <= j
    BY <2>2
  <2>4. k \in 1 .. Len(p) /\ p[k] \in 1 .. n /\ p[k] < k
    BY <1>0, <2>3
  <2>5. k - 1 \in 1 .. Len(p) /\ k - 1 < k
    BY <1>0, <2>4
  <2>6. p[k - 1] < p[k] /\ p[k - 1] \in 1 .. n
    BY <1>0, <2>4, <2>5 DEF Lists
  <2>7. ~(k - 1 <= p[k - 1])
    BY <2>4, <2>6
  <2>8. k - 1 \in Bad
    BY <2>5, <2>7
  <2> QED BY <2>3, <2>4, <2>8
<1>2. CASE Len(p) = 0
  BY <1>0, <1>2
<1>3. CASE Len(p) # 0
  <2>1. Len(p) \in 1 .. Len(p)
    BY <1>0, <1>3
  <2>2. Len(p) <= p[Len(p)] /\ p[Len(p)] \in 1 .. n
    BY <1>0, <1>1, <2>1
  <2> QED BY <1>0, <2>2
<1> QED BY <1>2, <1>3

LEMMA ReducedShort ==
    ASSUME NEW s \in Seq(Messages), NEW remove, NEW places, NEW r, Reduces(r, s, remove, places)
    PROVE  Len(r) <= Len(s)
<1>1. Len(s) \in Nat
  BY LenProperties
<1> QED BY <1>1, ListedShort DEF Reduces

\* The context after a compaction.
LEMMA CompactedUsable ==
    ASSUME NEW s, Orderly(s), Answered(s), \A i \in 1 .. Len(s) : s[i].role # "summary",
           NEW minimum \in Nat, minimum = 0 \/ minimum > Len(s), Plan(s, Keep, minimum) # 0
    PROVE  LET t == Compacted(s, minimum)
           IN  /\ Orderly(t) /\ Answered(t) /\ t # <<>> /\ Summary \in EntriesOf(t)
               /\ t[Len(t)] = Summary \/ (s # <<>> /\ t[Len(t)] = s[Len(s)])
<1> DEFINE k == Plan(s, Keep, minimum)
           w == SubSeq(s, k, Len(s))
           h == <<Summary>>
           t == h \o w
<1>0. s \in Seq(Messages) /\ Len(s) \in Nat
  BY LenProperties DEF Orderly
<1>1. s # <<>> /\ k \in 1 .. Len(s) + 1 /\ (k \in 1 .. Len(s) => ~IsResult(s[k]))
  BY <1>0, PlanIs
<1>2. Compacted(s, minimum) = t
  BY DEF Compacted, Kept
<1> HIDE DEF k
<1>3. /\ Orderly(w) /\ Answered(w) /\ Len(w) = Len(s) - k + 1
      /\ \A i \in 1 .. Len(w) : w[i] = s[k + i - 1]
  BY <1>1, CutUsable
<1>4. Orderly(h) /\ Answered(h) /\ h \in Seq(Messages) /\ Len(h) = 1 /\ h[1] = Summary
  <2> DEFINE m == Summary
  <2>1. m \in Messages
    <3>1. <<>> \in Seq(Calls)
      OBVIOUS
    <3> QED BY <3>1 DEF Summary, Message, Messages
  <2>2. Tidy(m) /\ ~IsResult(m) /\ ~Asking(m)
    BY DEF Summary, Message, Tidy, IsResult, IsAssistant, Asking, Speaks, Plain
  <2> HIDE DEF m
  <2>3. Orderly(<<m>>) /\ Answered(<<m>>) /\ <<m>> \in Seq(Messages)
    BY <2>1, <2>2, OneUsable
  <2> QED BY <2>3 DEF m
<1>5. Len(w) \in Nat /\ w \in Seq(Messages)
  BY <1>3, LenProperties DEF Orderly
<1> HIDE DEF w, h
<1>6. \A i \in 1 .. Len(w) : k + i - 1 \in 1 .. Len(s)
  BY <1>0, <1>1, <1>3
<1>7. \A i \in 1 .. Len(w) : w[i].role # "summary"
  BY <1>3, <1>6
<1>8. Orderly(t)
  BY <1>3, <1>4, <1>7, JoinedOrderly
<1>9. Answered(t)
  BY <1>3, <1>4, <1>5, JoinedAnswered
<1>10. /\ t \in Seq(Messages) /\ Len(t) = 1 + Len(w)
       /\ \A i \in 1 .. 1 + Len(w) : t[i] = IF i <= 1 THEN h[i] ELSE w[i - 1]
  <2>1. /\ h \o w \in Seq(Messages) /\ Len(h \o w) = Len(h) + Len(w)
        /\ \A i \in 1 .. Len(h) + Len(w) : (h \o w)[i] = IF i <= Len(h) THEN h[i] ELSE w[i - Len(h)]
    BY <1>4, <1>5, ConcatProperties
  <2> QED BY <1>4, <2>1
<1> HIDE DEF t
<1>11. t[1] = Summary /\ 1 \in 1 .. Len(t)
  BY <1>4, <1>5, <1>10
<1>12. Summary \in EntriesOf(t) /\ t # <<>>
  BY <1>5, <1>10, <1>11, EmptySeq DEF EntriesOf
<1>13. CASE Len(w) = 0
  <2>1. Len(t) = 1
    BY <1>10, <1>13
  <2>2. t[Len(t)] = Summary
    BY <1>11, <2>1
  <2> QED BY <1>2, <1>8, <1>9, <1>12, <2>2
<1>14. CASE Len(w) # 0
  <2> DEFINE l == Len(w)
  <2>1. l \in 1 .. l /\ Len(t) = 1 + l /\ 1 + l \in 1 .. 1 + l /\ ~(1 + l <= 1) /\ (1 + l) - 1 = l
    BY <1>5, <1>10, <1>14
  <2>2. t[Len(t)] = w[l]
    BY <1>10, <2>1
  <2>3. w[l] = s[k + l - 1] /\ k + l - 1 = Len(s)
    BY <1>0, <1>1, <1>3, <2>1
  <2>4. t[Len(t)] = s[Len(s)]
    BY <2>2, <2>3
  <2> QED BY <1>1, <1>2, <1>8, <1>9, <1>12, <2>4
<1> QED BY <1>13, <1>14

-----------------------------------------------------------------------------
(* The last message is out of the judge's reach, unless it is an answer.     *)

EndsAsked(s)    == s # <<>> /\ ~IsAssistant(s[Len(s)])
EndsAnswered(s) == Len(s) >= 2 /\ IsAssistant(s[Len(s)]) /\ ~IsAssistant(s[Len(s) - 1])

LEMMA LastStays ==
    ASSUME NEW s, Orderly(s), EndsAsked(s), NEW recent \in Nat, recent >= 1,
           NEW remove, remove \subseteq Candidates(s, recent)
    PROVE  s[Len(s)].calls # <<>> => Left(s[Len(s)].calls, remove) # <<>>
<1> DEFINE n == Len(s)
           m == s[n]
<1>0. s \in Seq(Messages) /\ n \in Nat /\ n \in 1 .. n /\ n >= 1
  BY LenProperties, EmptySeq DEF Orderly, EndsAsked
<1>1. m \in Messages /\ Tidy(m)
  BY <1>0, ElementOfSeq DEF Orderly
<1> SUFFICES ASSUME m.calls # <<>> PROVE Left(m.calls, remove) # <<>>
  OBVIOUS
<1>2. IsResult(m)
  <2>1. ~IsAssistant(m)
    BY DEF EndsAsked
  <2> HIDE DEF m
  <2> QED BY <1>1, <2>1 DEF Tidy, Plain
<1>3. m.calls \in Seq(Calls) /\ Len(m.calls) = 1
  <2> HIDE DEF m
  <2>1. m.calls \in Seq(Calls)
    BY <1>1, CallsOfOne
  <2> QED BY <1>1, <1>2, <2>1 DEF Tidy
<1> DEFINE c == m.calls[1]
           R == PlacesOfResult(s, c)
           pinned == IF n > recent THEN n - recent + 1 ELSE 1
<1>4. n \in R /\ R \subseteq 0 .. n
  <2>1. DOMAIN s = 1 .. n
    BY <1>0, LenProperties
  <2>2. CallOf(m) = c
    BY DEF CallOf
  <2> QED BY <1>0, <1>2, <2>1, <2>2 DEF PlacesOfResult
<1>5. Max(R) = n
  <2> HIDE DEF R, n
  <2>1. Max(R) \in R /\ \A y \in R : y <= Max(R)
    BY <1>0, <1>4, MaxIs
  <2>2. Max(R) \in 0 .. n /\ n <= Max(R)
    BY <1>4, <2>1
  <2> QED BY <1>0, <2>2
<1>6. pinned <= n
  BY <1>0
<1>7. ~PairIsOld(s, c, pinned)
  <2> SUFFICES ASSUME PairIsOld(s, c, pinned) PROVE FALSE
    OBVIOUS
  <2>1. n < pinned
    <3> HIDE DEF pinned
    <3> QED BY <1>4, <1>5 DEF PairIsOld
  <2> HIDE DEF n
  <2> QED BY <1>0, <1>6, <2>1
<1>8. c \notin Candidates(s, recent)
  BY <1>7 DEF Candidates
<1>9. c \notin remove
  BY <1>8
<1> HIDE DEF m
<1> QED BY <1>3, <1>9, LeftOfOne

LEMMA PrunedAsks ==
    ASSUME NEW s, Orderly(s), EndsAsked(s), NEW recent \in Nat, recent >= 1,
           NEW remove, remove \subseteq Candidates(s, recent)
    PROVE  EndsAsked(Pruned(s, remove))
<1> DEFINE r == Pruned(s, remove)
           m == s[Len(s)]
<1>0. s \in Seq(Messages) /\ Len(s) \in 1 .. Len(s) /\ s # <<>> /\ ~IsAssistant(m)
  BY LenProperties, EmptySeq DEF Orderly, EndsAsked
<1>1. m \in Messages /\ Tidy(m)
  BY <1>0, ElementOfSeq DEF Orderly
<1>2. m.calls # <<>> => Left(m.calls, remove) # <<>>
  BY LastStays
<1>3. m.calls = <<>> => m.stop # "empty"
  <2> HIDE DEF m
  <2>1. IsResult(m) => m.calls # <<>>
    <3>1. m.calls = <<>> <=> Len(m.calls) = 0
      BY <1>1, CallsOfOne
    <3> QED BY <1>1, <3>1 DEF Tidy
  <2>2. ~IsResult(m) => m.stop = "none"
    BY <1>0, <1>1 DEF Tidy, Plain
  <2> QED BY <2>1, <2>2
<1>4. Len(s) \in Stays(s, remove)
  BY <1>0, <1>2, <1>3 DEF Stays
<1>5. Reduces(r, s, remove, Stays(s, remove))
  BY <1>0, PrunedReduces
<1>6. r # <<>> /\ r[Len(r)] = Lighter(m, remove)
  <2> HIDE DEF r
  <2> QED BY <1>0, <1>4, <1>5, ReducedLast
<1>7. Lighter(m, remove).role = m.role
  BY <1>1, LighterTyped
<1> QED BY <1>0, <1>6, <1>7 DEF EndsAsked, IsAssistant

-----------------------------------------------------------------------------
(* An answered history is what providers require, once failed answers go.    *)

\* A result has one owner, and an answer has the results it asked for and no more.
LEMMA OneOwner ==
    ASSUME NEW s \in Seq(Messages), Answered(s), NEW i \in 1 .. Len(s), NEW j \in 1 .. Len(s),
           i < j, IsResult(s[j]), \A k \in i + 1 .. j : IsResult(s[k]), ~IsResult(s[i])
    PROVE  Speaks(s[i]) /\ j - i <= Len(s[i].calls)
<1>0. Len(s) \in Nat
  BY LenProperties
<1>1. \A k \in 1 .. Len(s) : (Speaks(s[k]) => Exchange(s, k)) /\ (IsResult(s[k]) => Belongs(s, k))
  BY AnsweredIs
<1>2. PICK a \in 1 .. j - 1 : Speaks(s[a]) /\ j - a <= Len(s[a].calls)
  BY <1>1 DEF Belongs
<1>3. a \in 1 .. Len(s) /\ Exchange(s, a)
  <2>1. a \in 1 .. Len(s)
    BY <1>0
  <2> QED BY <1>1, <1>2, <2>1
<1>4. ~(i < a)
  <2> SUFFICES ASSUME i < a PROVE FALSE
    OBVIOUS
  <2>1. a \in i + 1 .. j
    BY <1>0
  <2> QED BY <1>2, <2>1 DEF Speaks, IsAssistant, IsResult
<1>5. ~(a < i)
  <2> SUFFICES ASSUME a < i PROVE FALSE
    OBVIOUS
  <2> DEFINE l == Len(s[a].calls)
  <2>1. l \in Nat /\ j - a <= l
    BY <1>2, <1>3, ElementOfSeq, CallsOfOne
  <2> HIDE DEF l
  <2>2. i - a \in 1 .. l /\ a + (i - a) = i
    BY <1>0, <2>1
  <2>3. IsResult(s[i])
    BY <1>3, <2>2 DEF Exchange, l
  <2> QED BY <2>3
<1>6. a = i
  BY <1>0, <1>4, <1>5
<1> QED BY <1>2, <1>6

LEMMA FirstIsAsked ==
    ASSUME NEW s \in Seq(Messages), Answered(s), s # <<>>
    PROVE  ~IsResult(s[1])
<1>1. 1 \in 1 .. Len(s)
  BY EmptySeq
<1>2. IsResult(s[1]) => Belongs(s, 1)
  BY <1>1, AnsweredIs
<1> QED BY <1>2 DEF Belongs

LEMMA ResultsOfOne ==
    ASSUME NEW s \in Seq(Messages), Answered(s), NEW i \in 1 .. Len(s), ~IsResult(s[i]),
           IsAssistant(s[i]) => Speaks(s[i])
    PROVE  ResultsOf(s, i) = IF IsAssistant(s[i]) THEN s[i].calls ELSE <<>>
<1> DEFINE after == {j \in i + 1 .. Len(s) : ~IsResult(s[j])}
           end   == IF after = {} THEN Len(s) ELSE Min(after) - 1
           n     == IF IsAssistant(s[i]) THEN Len(s[i].calls) ELSE 0
           cs    == IF IsAssistant(s[i]) THEN s[i].calls ELSE <<>>
<1>0. Len(s) \in Nat
  BY LenProperties
<1>1. cs \in Seq(Calls) /\ Len(cs) = n /\ n \in Nat
  <2>1. s[i].calls \in Seq(Calls) /\ Len(s[i].calls) \in Nat
    BY ElementOfSeq, CallsOfOne
  <2> QED BY <2>1, EmptySeq
<1>2. /\ end \in i .. Len(s) /\ \A j \in i + 1 .. end : IsResult(s[j])
      /\ end < Len(s) => ~IsResult(s[end + 1])
  <2>1. CASE after = {}
    BY <1>0, <2>1
  <2>2. CASE after # {}
    <3>1. after \subseteq Nat
      BY <1>0
    <3>2. Min(after) \in after /\ \A y \in after : Min(after) <= y
      <4> HIDE DEF after
      <4> QED BY <2>2, <3>1, MinIs
    <3> DEFINE e == Min(after)
    <3>3. e \in i + 1 .. Len(s) /\ ~IsResult(s[e])
      BY <3>2
    <3>4. end = e - 1
      BY <2>2
    <3> HIDE DEF e, end
    <3>5. end \in i .. Len(s) /\ end + 1 = e
      BY <1>0, <3>3, <3>4
    <3>6. ASSUME NEW j \in i + 1 .. end PROVE IsResult(s[j])
      <4>1. j \in i + 1 .. Len(s) /\ j < e
        BY <1>0, <3>5
      <4>2. j \notin after
        <5> SUFFICES ASSUME j \in after PROVE FALSE
          OBVIOUS
        <5>1. e <= j
          <6> HIDE DEF after
          <6> QED BY <3>2 DEF e
        <5> QED BY <3>3, <4>1, <5>1
      <4> QED BY <4>1, <4>2
    <3> QED BY <3>3, <3>5, <3>6
  <2> QED BY <2>1, <2>2
<1> HIDE DEF end
<1>3. ResultsOf(s, i) = [k \in 1 .. end - i |-> CallOf(s[i + k])]
  BY DEF ResultsOf, end
<1>4. \A k \in 1 .. n : i + k \in 1 .. Len(s) /\ IsResult(s[i + k]) /\ CallOf(s[i + k]) = cs[k]
  <2>1. CASE IsAssistant(s[i])
    <3>1. Exchange(s, i)
      BY <2>1, AnsweredIs
    <3> QED BY <2>1, <3>1 DEF Exchange
  <2>2. CASE ~IsAssistant(s[i])
    BY <2>2
  <2> QED BY <2>1, <2>2
<1>5. end - i <= n
  <2>1. CASE end = i
    BY <1>0, <1>1, <1>2, <2>1
  <2>2. CASE end # i
    <3>1. i < end /\ end \in 1 .. Len(s) /\ IsResult(s[end])
      <4>1. i < end /\ end \in 1 .. Len(s) /\ end \in i + 1 .. end
        BY <1>0, <1>2, <2>2
      <4> QED BY <1>2, <4>1
    <3>2. Speaks(s[i]) /\ end - i <= Len(s[i].calls)
      BY <1>2, <3>1, OneOwner
    <3> QED BY <3>2 DEF Speaks
  <2> QED BY <2>1, <2>2
<1>6. n <= end - i
  <2> SUFFICES ASSUME end - i < n PROVE FALSE
    BY <1>0, <1>1, <1>2
  <2>1. end - i + 1 \in 1 .. n /\ i + (end - i + 1) = end + 1
    BY <1>0, <1>1, <1>2
  <2>2. end + 1 \in 1 .. Len(s) /\ IsResult(s[end + 1])
    BY <1>4, <2>1
  <2> QED BY <1>0, <1>2, <2>2
<1>7. end - i = n
  BY <1>0, <1>1, <1>2, <1>5, <1>6
<1> HIDE DEF n, cs
<1>8. \A k \in 1 .. n : cs[k] \in Calls
  BY <1>1, ElementOfSeq
<1> DEFINE rs == [k \in 1 .. n |-> CallOf(s[i + k])]
<1>9. rs \in Seq(Calls) /\ Len(rs) = n /\ \A k \in 1 .. n : rs[k] = cs[k]
  <2>1. \A k \in 1 .. n : CallOf(s[i + k]) = cs[k] /\ CallOf(s[i + k]) \in Calls
    BY <1>4, <1>8
  <2> QED BY <1>1, <2>1
<1> HIDE DEF rs
<1>10. rs = cs
  BY <1>1, <1>9, SeqEqual
<1>11. ResultsOf(s, i) = rs
  BY <1>3, <1>7 DEF rs
<1> QED BY <1>10, <1>11 DEF cs

LEMMA AnsweredIsWhole ==
    ASSUME NEW s, Orderly(s), Answered(s)
    PROVE  Whole(Spoken(s))
<1> DEFINE t == Spoken(s)
           P == {i \in DOMAIN s : ~HasFailed(s[i])}
<1>1. Orderly(t) /\ Answered(t) /\ s \in Seq(Messages) /\ t \in Seq(Messages) /\ DOMAIN t = 1 .. Len(t)
  <2>1. Orderly(t) /\ Answered(t)
    BY SpokenUsable
  <2> HIDE DEF t
  <2> QED BY <2>1, LenProperties DEF Orderly
<1>2. \A i \in 1 .. Len(t) : ~HasFailed(t[i])
  <2>0. t = Picked(s, P)
    BY DEF Spoken
  <2> HIDE DEF t, P
  <2>1. \A k \in 1 .. Len(t) : \E i \in 1 .. Len(s) : i \in P /\ t[k] = s[i]
    BY <1>1, <2>0, PickedFrom
  <2> QED BY <2>1 DEF P
<1> HIDE DEF t
<1>3. ASSUME NEW i \in 1 .. Len(t), ~IsResult(t[i])
      PROVE  ResultsOf(t, i) = IF IsAssistant(t[i]) THEN t[i].calls ELSE <<>>
  <2>1. IsAssistant(t[i]) => Speaks(t[i])
    BY <1>2 DEF Speaks
  <2> QED BY <1>1, <1>3, <2>1, ResultsOfOne
<1>4. t # <<>> => ~IsResult(t[1])
  BY <1>1, FirstIsAsked
<1>5. Whole(t)
  BY <1>1, <1>3, <1>4 DEF Whole
<1> QED BY <1>5 DEF t

-----------------------------------------------------------------------------
(* Nothing in an answered history is left to repair.                         *)

Repairs(g, s, n) ==
    IF n = 0 THEN [result |-> <<>>, pending |-> <<>>, unanswered |-> {}] ELSE Repair(g[n - 1], s[n])
RepairsUpTo(g, s, m) == g = [n \in 0 .. m |-> Repairs(g, s, n)]

LEMMA RepairsExist ==
    ASSUME NEW s, Len(s) \in Nat
    PROVE  \E g : RepairsUpTo(g, s, Len(s))
<1> DEFINE Bad == {m \in 0 .. Len(s) : ~ \E g : RepairsUpTo(g, s, m)}
<1>1. Bad \subseteq Nat
  OBVIOUS
<1> SUFFICES ASSUME Bad # {} PROVE FALSE
  OBVIOUS
<1>2. \E m \in Bad : \A k \in Bad : m <= k
  <2> HIDE DEF Bad
  <2> QED BY <1>1, LeastOne
<1>3. PICK m \in Bad : \A k \in Bad : m <= k
  BY <1>2
<1>4. m \in 0 .. Len(s) /\ ~ \E g : RepairsUpTo(g, s, m)
  BY <1>3
<1>5. m # 0
  <2> DEFINE e == [result |-> <<>>, pending |-> <<>>, unanswered |-> {}]
             g == [n \in 0 .. 0 |-> e]
  <2>1. \A n \in 0 .. 0 : Repairs(g, s, n) = e
    BY DEF Repairs
  <2> HIDE DEF e
  <2>2. RepairsUpTo(g, s, 0)
    BY <2>1 DEF RepairsUpTo
  <2> QED BY <2>2, <1>4
<1>6. m - 1 \in 0 .. Len(s) /\ ~(m <= m - 1)
  BY <1>4, <1>5
<1>7. m - 1 \notin Bad
  BY <1>3, <1>6
<1>8. PICK g : RepairsUpTo(g, s, m - 1)
  BY <1>6, <1>7
<1> DEFINE h == [n \in 0 .. m |-> Repairs(g, s, n)]
<1>9. \A n \in 0 .. m - 1 : h[n] = g[n]
  BY <1>4, <1>8 DEF RepairsUpTo
<1>10. \A n \in 0 .. m : Repairs(h, s, n) = Repairs(g, s, n)
  <2> HIDE DEF h
  <2> TAKE n \in 0 .. m
  <2>1. CASE n = 0
    BY <2>1 DEF Repairs
  <2>2. CASE n # 0
    <3>1. n - 1 \in 0 .. m - 1
      BY <1>4, <2>2
    <3>2. h[n - 1] = g[n - 1]
      BY <1>9, <3>1
    <3> QED BY <2>2, <3>2 DEF Repairs
  <2> QED BY <2>1, <2>2
<1>11. h = [n \in 0 .. m |-> Repairs(h, s, n)]
  BY <1>10
<1>12. RepairsUpTo(h, s, m)
  BY <1>11 DEF RepairsUpTo
<1> QED BY <1>4, <1>12

\* The calls whose results come later than n.
Waiting(s, n) ==
    {c \in Calls : \E i \in 1 .. n : Speaks(s[i]) /\
                      \E k \in 1 .. Len(s[i].calls) : i + k > n /\ c = s[i].calls[k]}

LEMMA SameExchange ==
    ASSUME NEW s \in Seq(Messages), Answered(s), NEW i \in 1 .. Len(s), NEW j \in 1 .. Len(s),
           Speaks(s[i]), Speaks(s[j]), i < j
    PROVE  ~(j <= i + Len(s[i].calls))
<1> SUFFICES ASSUME j <= i + Len(s[i].calls) PROVE FALSE
  OBVIOUS
<1>1. Exchange(s, i) /\ Len(s[i].calls) \in Nat
  BY AnsweredIs, ElementOfSeq, CallsOfOne
<1>2. j - i \in 1 .. Len(s[i].calls) /\ i + (j - i) = j
  BY <1>1
<1>3. IsResult(s[j])
  BY <1>1, <1>2 DEF Exchange
<1> QED BY <1>3 DEF Speaks, IsResult, IsAssistant

LEMMA WaitingForAnother ==
    ASSUME NEW s \in Seq(Messages), Answered(s), NEW n \in Nat, n + 1 \in 1 .. Len(s), ~IsResult(s[n + 1])
    PROVE  /\ Waiting(s, n) = {}
           /\ Waiting(s, n + 1) = IF Speaks(s[n + 1]) THEN ToSet(s[n + 1].calls) ELSE {}
<1>0. Len(s) \in Nat /\ \A i \in 1 .. n + 1 : i \in 1 .. Len(s)
  BY LenProperties
<1>1. ASSUME NEW i \in 1 .. n, Speaks(s[i]), NEW k \in 1 .. Len(s[i].calls), i + k > n
      PROVE  FALSE
  <2> DEFINE l == Len(s[i].calls)
  <2>1. i \in 1 .. Len(s) /\ i \in Nat
    BY <1>0
  <2>2. Exchange(s, i) /\ l \in Nat
    BY <1>1, <2>1, AnsweredIs, ElementOfSeq, CallsOfOne
  <2>3. k \in 1 .. l
    OBVIOUS
  <2> HIDE DEF l
  <2>4. n + 1 - i \in Nat /\ i + ((n + 1) - i) = n + 1 /\ (n + 1) - i \in 1 .. l
    BY <1>1, <2>1, <2>2, <2>3
  <2>5. IsResult(s[n + 1])
    BY <2>2, <2>4 DEF Exchange, l
  <2> QED BY <2>5
<1>2. Waiting(s, n) = {}
  BY <1>1 DEF Waiting
<1>3. ASSUME NEW i \in 1 .. n, Speaks(s[i]), NEW k \in 1 .. Len(s[i].calls), i + k > n + 1
      PROVE  FALSE
  <2>1. i + k > n
    BY <1>3
  <2> QED BY <1>1, <1>3, <2>1
<1>4. DOMAIN s[n + 1].calls = 1 .. Len(s[n + 1].calls) /\ \A k \in 1 .. Len(s[n + 1].calls) : s[n + 1].calls[k] \in Calls
  <2>1. s[n + 1] \in Messages
    BY ElementOfSeq
  <2> QED BY <2>1, CallsOfOne, ElementOfSeq
<1>5. CASE Speaks(s[n + 1])
  <2>1. ASSUME NEW c \in Waiting(s, n + 1) PROVE c \in ToSet(s[n + 1].calls)
    <3>1. PICK i \in 1 .. n + 1 : Speaks(s[i]) /\ \E k \in 1 .. Len(s[i].calls) : i + k > n + 1 /\ c = s[i].calls[k]
      BY DEF Waiting
    <3>2. i = n + 1
      BY <1>3, <3>1
    <3> QED BY <1>4, <3>1, <3>2 DEF ToSet
  <2>2. ASSUME NEW c \in ToSet(s[n + 1].calls) PROVE c \in Waiting(s, n + 1)
    <3>1. PICK k \in 1 .. Len(s[n + 1].calls) : c = s[n + 1].calls[k]
      BY <1>4 DEF ToSet
    <3>2. n + 1 \in 1 .. n + 1 /\ (n + 1) + k > n + 1 /\ c \in Calls
      BY <1>4, <3>1
    <3> QED BY <1>5, <3>1, <3>2 DEF Waiting
  <2> QED BY <1>2, <1>5, <2>1, <2>2
<1>6. CASE ~Speaks(s[n + 1])
  <2>1. ASSUME NEW c \in Waiting(s, n + 1) PROVE FALSE
    <3>1. PICK i \in 1 .. n + 1 : Speaks(s[i]) /\ \E k \in 1 .. Len(s[i].calls) : i + k > n + 1 /\ c = s[i].calls[k]
      BY <2>1 DEF Waiting
    <3>2. i \in 1 .. n
      BY <1>6, <3>1
    <3> QED BY <1>3, <3>1, <3>2
  <2> QED BY <1>2, <1>6, <2>1
<1> QED BY <1>5, <1>6

LEMMA WaitingForOne ==
    ASSUME NEW s \in Seq(Messages), Answered(s), NEW n \in Nat, n + 1 \in 1 .. Len(s), IsResult(s[n + 1])
    PROVE  /\ CallOf(s[n + 1]) \in Waiting(s, n)
           /\ Waiting(s, n + 1) = Waiting(s, n) \ {CallOf(s[n + 1])}
<1>0. Len(s) \in Nat /\ ~Speaks(s[n + 1]) /\ \A i \in 1 .. n : i \in 1 .. Len(s)
  BY LenProperties DEF Speaks, IsResult, IsAssistant
<1>1. PICK a \in 1 .. (n + 1) - 1 : Speaks(s[a]) /\ (n + 1) - a <= Len(s[a].calls)
  BY AnsweredIs DEF Belongs
<1> DEFINE cs == s[a].calls
           l  == Len(cs)
           c  == CallOf(s[n + 1])
<1>2. a \in 1 .. n /\ a \in 1 .. Len(s) /\ a \in Nat
  BY <1>0
<1>3. /\ cs \in Seq(Calls) /\ l \in Nat /\ DOMAIN cs = 1 .. l /\ Exchange(s, a)
      /\ \A k \in 1 .. l : cs[k] \in Calls
  <2>1. s[a] \in Messages
    BY <1>2, ElementOfSeq
  <2>2. cs \in Seq(Calls) /\ l \in Nat /\ DOMAIN cs = 1 .. l
    BY <2>1, CallsOfOne
  <2>3. Exchange(s, a)
    BY <1>1, <1>2, AnsweredIs
  <2> QED BY <2>2, <2>3, ElementOfSeq
<1>4. /\ \A j, k \in 1 .. l : cs[j] = cs[k] => j = k
      /\ \A k \in 1 .. l : CallOf(s[a + k]) = cs[k]
  BY <1>3 DEF Exchange, IsInjective
<1>5. (n + 1) - a \in 1 .. l /\ a + ((n + 1) - a) = n + 1
  <2>1. (n + 1) - a <= l
    BY <1>1
  <2> HIDE DEF l
  <2> QED BY <1>2, <1>3, <2>1
<1> DEFINE h == (n + 1) - a
<1>6. c = cs[h] /\ h \in 1 .. l /\ a + h = n + 1
  BY <1>4, <1>5
<1> HIDE DEF h, c
<1>7. ASSUME NEW i \in 1 .. n, Speaks(s[i]), NEW k \in 1 .. Len(s[i].calls), i + k > n
      PROVE  i = a
  <2>0. i \in 1 .. Len(s) /\ i \in Nat /\ Len(s[i].calls) \in Nat
    BY <1>0, ElementOfSeq, CallsOfOne
  <2> DEFINE m == Len(s[i].calls)
  <2>1. m \in Nat /\ k \in 1 .. m
    BY <2>0
  <2> HIDE DEF m, l
  <2>2. ~(i < a)
    <3> SUFFICES ASSUME i < a PROVE FALSE
      OBVIOUS
    <3>1. a <= i + m
      BY <1>2, <1>7, <2>0, <2>1
    <3> QED BY <1>1, <1>2, <1>7, <2>0, <3>1, SameExchange DEF m
  <2>3. ~(a < i)
    <3> SUFFICES ASSUME a < i PROVE FALSE
      OBVIOUS
    <3>1. i <= a + l
      BY <1>2, <1>3, <1>6, <2>0
    <3> QED BY <1>1, <1>2, <1>7, <2>0, <3>1, SameExchange DEF l
  <2> QED BY <1>2, <2>0, <2>2, <2>3
<1>8. \A d : d \in Waiting(s, n) <=> \E k \in h .. l : d = cs[k]
  <2>1. ASSUME NEW d \in Waiting(s, n) PROVE \E k \in h .. l : d = cs[k]
    <3>1. PICK i \in 1 .. n : Speaks(s[i]) /\ \E k \in 1 .. Len(s[i].calls) : i + k > n /\ d = s[i].calls[k]
      BY DEF Waiting
    <3>2. PICK k \in 1 .. Len(s[i].calls) : i + k > n /\ d = s[i].calls[k]
      BY <3>1
    <3>3. i = a
      BY <1>7, <3>1, <3>2
    <3>4. k \in 1 .. l /\ a + k > n /\ d = cs[k]
      BY <3>2, <3>3
    <3> HIDE DEF l, cs
    <3>5. k \in h .. l
      BY <1>2, <1>3, <1>6, <3>4
    <3> QED BY <3>4, <3>5
  <2>2. ASSUME NEW k \in h .. l PROVE cs[k] \in Waiting(s, n)
    <3> HIDE DEF l
    <3>1. k \in 1 .. l /\ a + k > n
      BY <1>2, <1>3, <1>6
    <3>2. cs[k] \in Calls /\ k \in 1 .. Len(s[a].calls)
      BY <1>3, <3>1 DEF l
    <3> QED BY <1>1, <1>2, <3>1, <3>2 DEF Waiting
  <2> QED BY <2>1, <2>2
<1>9. \A d : d \in Waiting(s, n + 1) <=> \E k \in h + 1 .. l : d = cs[k]
  <2>1. ASSUME NEW d \in Waiting(s, n + 1) PROVE \E k \in h + 1 .. l : d = cs[k]
    <3>1. PICK i \in 1 .. n + 1 : Speaks(s[i]) /\ \E k \in 1 .. Len(s[i].calls) : i + k > n + 1 /\ d = s[i].calls[k]
      BY DEF Waiting
    <3>2. PICK k \in 1 .. Len(s[i].calls) : i + k > n + 1 /\ d = s[i].calls[k]
      BY <3>1
    <3>3. i \in 1 .. n /\ i + k > n
      BY <1>0, <3>1, <3>2
    <3>4. i = a
      BY <1>7, <3>1, <3>2, <3>3
    <3>5. k \in 1 .. l /\ a + k > n + 1 /\ d = cs[k]
      BY <3>2, <3>4
    <3> HIDE DEF l, cs
    <3>6. k \in h + 1 .. l
      BY <1>2, <1>3, <1>6, <3>5
    <3> QED BY <3>5, <3>6
  <2>2. ASSUME NEW k \in h + 1 .. l PROVE cs[k] \in Waiting(s, n + 1)
    <3> HIDE DEF l
    <3>1. k \in 1 .. l /\ a + k > n + 1 /\ a \in 1 .. n + 1
      BY <1>2, <1>3, <1>6
    <3>2. cs[k] \in Calls /\ k \in 1 .. Len(s[a].calls)
      BY <1>3, <3>1 DEF l
    <3> QED BY <1>1, <3>1, <3>2 DEF Waiting
  <2> QED BY <2>1, <2>2
<1> HIDE DEF l, cs
<1>10. c \in Waiting(s, n)
  <2>1. h \in h .. l
    BY <1>3, <1>6
  <2> QED BY <1>6, <1>8, <2>1
<1>11. \A k \in h .. l : cs[k] = c <=> k = h
  <2>1. \A k \in h .. l : k \in 1 .. l
    BY <1>3, <1>6
  <2> QED BY <1>4, <1>6, <2>1
<1>12. Waiting(s, n + 1) = Waiting(s, n) \ {c}
  <2>1. \A k \in h .. l : k # h <=> k \in h + 1 .. l
    BY <1>3, <1>6
  <2>2. \A k \in h + 1 .. l : k \in h .. l /\ k # h
    BY <1>3, <1>6
  <2>3. ASSUME NEW d PROVE d \in Waiting(s, n + 1) <=> d \in Waiting(s, n) /\ d # c
    <3>1. ASSUME d \in Waiting(s, n + 1) PROVE d \in Waiting(s, n) /\ d # c
      BY <1>8, <1>9, <1>11, <2>2, <3>1
    <3>2. ASSUME d \in Waiting(s, n), d # c PROVE d \in Waiting(s, n + 1)
      BY <1>8, <1>9, <1>11, <2>1, <3>2
    <3> QED BY <3>1, <3>2
  <2> QED BY <2>3
<1> QED BY <1>10, <1>12 DEF c

LEMMA NobodyWaits ==
    ASSUME NEW s \in Seq(Messages), Answered(s)
    PROVE  Waiting(s, 0) = {} /\ Waiting(s, Len(s)) = {}
<1>0. Len(s) \in Nat
  BY LenProperties
<1>1. ASSUME NEW c \in Waiting(s, Len(s)) PROVE FALSE
  <2>1. PICK i \in 1 .. Len(s) : Speaks(s[i]) /\ \E k \in 1 .. Len(s[i].calls) : i + k > Len(s) /\ c = s[i].calls[k]
    BY <1>1 DEF Waiting
  <2>2. PICK k \in 1 .. Len(s[i].calls) : i + k > Len(s)
    BY <2>1
  <2>3. Exchange(s, i)
    BY <2>1, AnsweredIs
  <2>4. i + k \in 1 .. Len(s)
    BY <2>3 DEF Exchange
  <2> QED BY <1>0, <2>2, <2>4
<1>2. Waiting(s, 0) = {}
  BY DEF Waiting
<1> QED BY <1>1, <1>2

RepairStates == [result : Seq(Messages), pending : Seq(Calls), unanswered : SUBSET Calls]

LEMMA DistinctAlready ==
    ASSUME NEW cs \in Seq(Calls), IsInjective(cs)
    PROVE  Distinct(cs) = cs
<1>1. DOMAIN cs = 1 .. Len(cs) /\ Len(cs) \in Nat
  BY LenProperties
<1>2. 1 .. Len(cs) \subseteq {k \in DOMAIN cs : \A j \in 1 .. k - 1 : cs[j] # cs[k]}
  <2> SUFFICES ASSUME NEW k \in 1 .. Len(cs), NEW j \in 1 .. k - 1 PROVE cs[j] # cs[k]
    BY <1>1
  <2>1. j \in 1 .. Len(cs) /\ j # k
    BY <1>1
  <2> QED BY <1>1, <2>1 DEF IsInjective
<1> QED BY <1>2, PickedAll DEF Distinct

LEMMA CompletedAlready ==
    ASSUME NEW x \in RepairStates, x.unanswered = {}
    PROVE  /\ CompleteExchange(x) = [result |-> x.result, pending |-> <<>>, unanswered |-> {}]
           /\ CompleteExchange(x).result = x.result
<1> DEFINE P == {k \in DOMAIN x.pending : x.pending[k] \in x.unanswered}
           missing == Picked(x.pending, P)
           more == [k \in DOMAIN missing |-> Result(missing[k], "missing")]
<1>0. x.pending \in Seq(Calls) /\ x.result \in Seq(Messages)
  BY DEF RepairStates
<1>1. P = {}
  OBVIOUS
<1>2. missing = <<>>
  <2> HIDE DEF P
  <2>1. (1 .. Len(x.pending)) \cap P = {}
    BY <1>1
  <2> QED BY <1>0, <2>1, PickedNone
<1>3. more = <<>>
  <2> HIDE DEF missing
  <2>1. more = [k \in 1 .. 0 |-> Result(missing[k], "missing")]
    BY <1>2
  <2> HIDE DEF more
  <2>2. more \in Seq(Messages) /\ Len(more) = 0
    BY <2>1
  <2> QED BY <2>2, EmptySeq
<1>4. CompleteExchange(x) = [result |-> x.result \o more, pending |-> <<>>, unanswered |-> {}]
  BY DEF CompleteExchange
<1> HIDE DEF more
<1>5. x.result \o more = x.result
  BY <1>0, <1>3, ConcatEmptySeq
<1>6. CompleteExchange(x) = [result |-> x.result, pending |-> <<>>, unanswered |-> {}]
  BY <1>4, <1>5
<1> QED BY <1>6

\* What repairing one message does when nothing needs repair.
LEMMA RepairAddsAnswer ==
    ASSUME NEW x \in RepairStates, x.unanswered = {}, NEW m \in Messages, Speaks(m), IsInjective(m.calls)
    PROVE  Repair(x, m) = [result |-> Append(x.result, m), pending |-> m.calls, unanswered |-> ToSet(m.calls)]
<1>1. m.calls \in Seq(Calls)
  BY CallsOfOne
<1>2. Distinct(m.calls) = m.calls
  BY <1>1, DistinctAlready
<1>3. [m EXCEPT !.calls = m.calls] = m
  BY DEF Messages
<1>4. CompleteExchange(x).result = x.result
  BY CompletedAlready
<1>5. IsAssistant(m) /\ ~HasFailed(m) /\ ~IsResult(m) /\ ~IsUser(m)
  BY DEF Speaks, IsAssistant, IsResult, IsUser
<1>6. Repair(x, m) = [result     |-> Append(CompleteExchange(x).result, [m EXCEPT !.calls = Distinct(m.calls)]),
                      pending    |-> Distinct(m.calls),
                      unanswered |-> ToSet(Distinct(m.calls))]
  BY <1>5 DEF Repair
<1> QED BY <1>2, <1>3, <1>4, <1>6

LEMMA RepairDropsFailed ==
    ASSUME NEW x \in RepairStates, x.unanswered = {}, NEW m \in Messages, HasFailed(m)
    PROVE  Repair(x, m) = [result |-> x.result, pending |-> <<>>, unanswered |-> {}]
<1>1. IsAssistant(m) /\ ~IsResult(m) /\ ~IsUser(m)
  BY DEF HasFailed, IsAssistant, IsResult, IsUser
<1>2. Repair(x, m) = CompleteExchange(x)
  BY <1>1 DEF Repair
<1> QED BY <1>2, CompletedAlready

LEMMA RepairAddsResult ==
    ASSUME NEW x \in RepairStates, NEW m \in Messages, IsResult(m), CallOf(m) \in x.unanswered
    PROVE  Repair(x, m) = [result     |-> Append(x.result, m), pending |-> x.pending,
                           unanswered |-> x.unanswered \ {CallOf(m)}]
<1>1. ~IsAssistant(m) /\ ~IsUser(m)
  BY DEF IsAssistant, IsResult, IsUser
<1>2. Repair(x, m) = [x EXCEPT !.result = Append(@, m), !.unanswered = @ \ {CallOf(m)}]
  BY <1>1 DEF Repair
<1> DEFINE c == CallOf(m)
           r == Append(x.result, m)
<1>3. Repair(x, m) = [[x EXCEPT !.result = r] EXCEPT !.unanswered = x.unanswered \ {c}]
  BY <1>2 DEF RepairStates
<1> HIDE DEF c, r
<1>4. Repair(x, m) = [result |-> r, pending |-> x.pending, unanswered |-> x.unanswered \ {c}]
  BY <1>3 DEF RepairStates
<1> QED BY <1>4 DEF c, r

LEMMA RepairAddsOther ==
    ASSUME NEW x \in RepairStates, x.unanswered = {}, NEW m \in Messages, ~IsResult(m), ~IsAssistant(m)
    PROVE  /\ Repair(x, m).result = Append(x.result, m)
           /\ Repair(x, m).pending \in {<<>>, x.pending}
           /\ Repair(x, m).unanswered = {}
           /\ Repair(x, m) = [result |-> Append(x.result, m), pending |-> Repair(x, m).pending, unanswered |-> {}]
<1> DEFINE r == Append(x.result, m)
<1>1. CASE IsUser(m)
  <2> DEFINE t == CompleteExchange(x)
  <2>1. t = [result |-> x.result, pending |-> <<>>, unanswered |-> {}]
    BY CompletedAlready
  <2>2. Repair(x, m) = [t EXCEPT !.result = Append(@, m)]
    BY <1>1 DEF Repair
  <2> HIDE DEF t
  <2>3. Repair(x, m) = [t EXCEPT !.result = r]
    BY <2>1, <2>2
  <2> HIDE DEF r
  <2>4. Repair(x, m) = [result |-> r, pending |-> <<>>, unanswered |-> {}]
    BY <2>1, <2>3
  <2> QED BY <2>4 DEF r
<1>2. CASE ~IsUser(m)
  <2>1. Repair(x, m) = [x EXCEPT !.result = Append(@, m)]
    BY <1>2 DEF Repair
  <2>2. Repair(x, m) = [x EXCEPT !.result = r]
    BY <2>1 DEF RepairStates
  <2> HIDE DEF r
  <2>3. Repair(x, m) = [result |-> r, pending |-> x.pending, unanswered |-> {}]
    BY <2>2 DEF RepairStates
  <2> QED BY <2>3 DEF r
<1> QED BY <1>1, <1>2

Repaired(x, s, n, said) ==
    /\ x \in RepairStates
    /\ x.result = said
    /\ x.unanswered = Waiting(s, n)

LEMMA RepairStep ==
    ASSUME NEW s \in Seq(Messages), Answered(s), NEW n \in Nat, n + 1 \in 1 .. Len(s),
           NEW x, NEW said \in Seq(Messages), Repaired(x, s, n, said)
    PROVE  Repaired(Repair(x, s[n + 1]), s, n + 1,
                    IF ~HasFailed(s[n + 1]) THEN Append(said, s[n + 1]) ELSE said)
<1> DEFINE m == s[n + 1]
           y == Repair(x, m)
<1>0. /\ m \in Messages /\ x \in RepairStates /\ x.result = said /\ x.unanswered = Waiting(s, n)
      /\ x.pending \in Seq(Calls) /\ Append(said, m) \in Seq(Messages)
  <2>1. m \in Messages
    BY ElementOfSeq
  <2> HIDE DEF m
  <2>2. x \in RepairStates /\ x.result = said /\ x.unanswered = Waiting(s, n)
    BY DEF Repaired
  <2>3. x.pending \in Seq(Calls)
    BY <2>2 DEF RepairStates
  <2>4. Append(said, m) \in Seq(Messages)
    BY <2>1, AppendProperties
  <2> QED BY <2>1, <2>2, <2>3, <2>4
<1>1. Waiting(s, n + 1) \subseteq Calls
  BY DEF Waiting
<1>2. ~IsResult(m) => /\ Waiting(s, n) = {}
                      /\ Waiting(s, n + 1) = IF Speaks(m) THEN ToSet(m.calls) ELSE {}
  BY WaitingForAnother
<1>3. IsResult(m) => /\ CallOf(m) \in Waiting(s, n)
                     /\ Waiting(s, n + 1) = Waiting(s, n) \ {CallOf(m)}
  BY WaitingForOne
<1>4. Speaks(m) => IsInjective(m.calls) /\ m.calls \in Seq(Calls)
  <2>1. m.calls \in Seq(Calls)
    BY <1>0, CallsOfOne
  <2>2. Speaks(m) => Exchange(s, n + 1)
    BY AnsweredIs
  <2> QED BY <2>1, <2>2 DEF Exchange
<1> HIDE DEF m
<1>5. CASE Speaks(m)
  <2>1. ~IsResult(m) /\ ~HasFailed(m)
    BY <1>5 DEF Speaks, IsResult, IsAssistant
  <2>2. y = [result |-> Append(said, m), pending |-> m.calls, unanswered |-> ToSet(m.calls)]
    BY <1>0, <1>2, <1>4, <1>5, <2>1, RepairAddsAnswer
  <2>3. ToSet(m.calls) = Waiting(s, n + 1)
    BY <1>2, <1>5, <2>1
  <2> HIDE DEF y
  <2>4. y \in RepairStates /\ y.result = Append(said, m) /\ y.unanswered = Waiting(s, n + 1)
    <3> DEFINE u == ToSet(m.calls)
               r == Append(said, m)
    <3>1. u \in SUBSET Calls /\ r \in Seq(Messages) /\ m.calls \in Seq(Calls)
      BY <1>0, <1>1, <1>4, <1>5, <2>3
    <3>2. u = Waiting(s, n + 1)
      BY <2>3
    <3>3. y = [result |-> r, pending |-> m.calls, unanswered |-> u]
      BY <2>2
    <3> HIDE DEF u, r
    <3>4. y \in RepairStates /\ y.result = r /\ y.unanswered = u
      BY <3>1, <3>3 DEF RepairStates
    <3> QED BY <3>2, <3>4 DEF r
  <2> QED BY <2>1, <2>4 DEF Repaired, y, m
<1>6. CASE HasFailed(m)
  <2>1. ~IsResult(m) /\ ~Speaks(m)
    BY <1>6 DEF Speaks, IsResult, IsAssistant, HasFailed
  <2>2. y = [result |-> said, pending |-> <<>>, unanswered |-> {}]
    BY <1>0, <1>2, <1>6, <2>1, RepairDropsFailed
  <2> HIDE DEF y
  <2>3. y \in RepairStates /\ y.result = said /\ y.unanswered = Waiting(s, n + 1)
    <3>1. <<>> \in Seq(Calls)
      OBVIOUS
    <3> QED BY <1>2, <2>1, <2>2, <3>1 DEF RepairStates
  <2> QED BY <1>6, <2>3 DEF Repaired, y, m
<1>7. CASE IsResult(m)
  <2>1. ~HasFailed(m)
    BY <1>7 DEF HasFailed, IsResult, IsAssistant
  <2>2. y = [result |-> Append(said, m), pending |-> x.pending, unanswered |-> Waiting(s, n) \ {CallOf(m)}]
    BY <1>0, <1>3, <1>7, RepairAddsResult
  <2> HIDE DEF y
  <2>3. y \in RepairStates /\ y.result = Append(said, m) /\ y.unanswered = Waiting(s, n + 1)
    <3> DEFINE u == Waiting(s, n) \ {CallOf(m)}
               r == Append(said, m)
    <3>1. u = Waiting(s, n + 1) /\ r \in Seq(Messages) /\ u \in SUBSET Calls
      BY <1>0, <1>1, <1>3, <1>7
    <3>2. y = [result |-> r, pending |-> x.pending, unanswered |-> u]
      BY <2>2
    <3> HIDE DEF u, r
    <3>3. y \in RepairStates /\ y.result = r /\ y.unanswered = u
      BY <1>0, <3>1, <3>2 DEF RepairStates
    <3> QED BY <3>1, <3>3 DEF r
  <2> QED BY <2>1, <2>3 DEF Repaired, y, m
<1>8. CASE ~IsResult(m) /\ ~IsAssistant(m)
  <2>1. ~HasFailed(m) /\ ~Speaks(m)
    BY <1>8 DEF HasFailed, Speaks
  <2>2. /\ y.result = Append(said, m) /\ y.pending \in {<<>>, x.pending} /\ y.unanswered = {}
        /\ y = [result |-> Append(said, m), pending |-> y.pending, unanswered |-> {}]
    BY <1>0, <1>2, <1>8, RepairAddsOther
  <2> HIDE DEF y
  <2>3. y \in RepairStates /\ y.result = Append(said, m) /\ y.unanswered = Waiting(s, n + 1)
    <3>1. <<>> \in Seq(Calls)
      OBVIOUS
    <3>2. y.pending \in Seq(Calls) /\ y.result \in Seq(Messages) /\ y.unanswered \in SUBSET Calls
      BY <1>0, <2>2, <3>1
    <3>3. y = [result |-> y.result, pending |-> y.pending, unanswered |-> y.unanswered]
      BY <2>2
    <3>4. y \in RepairStates
      BY <3>2, <3>3 DEF RepairStates
    <3> QED BY <1>2, <1>8, <2>1, <2>2, <3>4
  <2> QED BY <2>1, <2>3 DEF Repaired, y, m
<1>9. Speaks(m) \/ HasFailed(m) \/ ~IsAssistant(m)
  BY DEF Speaks
<1> QED BY <1>5, <1>6, <1>7, <1>8, <1>9

LEMMA AnsweredIsSanitized ==
    ASSUME NEW s \in Seq(Messages), Answered(s)
    PROVE  Sanitized(s) = Spoken(s)
<1> DEFINE after == CHOOSE g : g = [n \in 0 .. Len(s) |-> Repairs(g, s, n)]
           P == {i \in DOMAIN s : ~HasFailed(s[i])}
<1>0. Len(s) \in Nat /\ DOMAIN s = 1 .. Len(s)
  BY LenProperties
<1>1. Sanitized(s) = CompleteExchange(after[Len(s)]).result
  BY DEF Sanitized, Repairs
<1>2. after = [n \in 0 .. Len(s) |-> Repairs(after, s, n)]
  BY <1>0, RepairsExist DEF RepairsUpTo
<1> HIDE DEF after
<1>3. /\ after[0] = [result |-> <<>>, pending |-> <<>>, unanswered |-> {}]
      /\ \A n \in 1 .. Len(s) : after[n] = Repair(after[n - 1], s[n])
  <2>1. \A n \in 0 .. Len(s) : after[n] = Repairs(after, s, n)
    BY <1>2
  <2> QED BY <1>0, <2>1 DEF Repairs
<1>4. PICK f : Grows(f, s, P) /\ Picked(s, P) = f[Len(s)]
  BY <1>0, PickedGrows
<1>5. Spoken(s) = f[Len(s)]
  BY <1>4 DEF Spoken
<1>6. \A n \in 0 .. Len(s) : f[n] \in Seq(Messages)
  BY <1>4, GrowsByPlaces
<1>7. f[0] = <<>> /\ \A n \in 1 .. Len(s) : f[n] = IF ~HasFailed(s[n]) THEN Append(f[n - 1], s[n]) ELSE f[n - 1]
  BY <1>0, <1>4 DEF Grows
<1> DEFINE Bad == {n \in 0 .. Len(s) : ~Repaired(after[n], s, n, f[n])}
<1>8. Bad = {}
  <2> SUFFICES ASSUME Bad # {} PROVE FALSE
    OBVIOUS
  <2>1. Bad \subseteq Nat
    OBVIOUS
  <2>2. \E k \in Bad : \A j \in Bad : k <= j
    <3> HIDE DEF Bad
    <3> QED BY <2>1, LeastOne
  <2>3. PICK k \in Bad : \A j \in Bad : k <= j
    BY <2>2
  <2>4. k \in 0 .. Len(s) /\ ~Repaired(after[k], s, k, f[k])
    BY <2>3
  <2>5. k # 0
    <3>1. Waiting(s, 0) = {}
      BY NobodyWaits
    <3>2. <<>> \in Seq(Messages) /\ <<>> \in Seq(Calls) /\ {} \in SUBSET Calls
      OBVIOUS
    <3> DEFINE a == after[0]
    <3>3. a = [result |-> <<>>, pending |-> <<>>, unanswered |-> {}] /\ f[0] = <<>>
      BY <1>3, <1>7
    <3> HIDE DEF a
    <3>4. a \in RepairStates /\ a.result = <<>> /\ a.unanswered = {}
      BY <3>2, <3>3 DEF RepairStates
    <3>5. Repaired(after[0], s, 0, f[0])
      BY <3>1, <3>3, <3>4 DEF Repaired, a
    <3> QED BY <2>4, <3>5
  <2> DEFINE n == k - 1
  <2>6. n \in Nat /\ n + 1 = k /\ n \in 0 .. Len(s) /\ k \in 1 .. Len(s) /\ ~(k <= n)
    BY <1>0, <2>4, <2>5
  <2>7. Repaired(after[n], s, n, f[n])
    <3> HIDE DEF n
    <3>1. n \notin Bad
      <4> HIDE DEF Bad
      <4> QED BY <2>3, <2>6
    <3> QED BY <2>6, <3>1
  <2>8. after[k] = Repair(after[n], s[k]) /\ f[k] = IF ~HasFailed(s[k]) THEN Append(f[n], s[k]) ELSE f[n]
    BY <1>3, <1>7, <2>6
  <2> HIDE DEF n
  <2>9. Repaired(Repair(after[n], s[n + 1]), s, n + 1,
                 IF ~HasFailed(s[n + 1]) THEN Append(f[n], s[n + 1]) ELSE f[n])
    <3>1. f[n] \in Seq(Messages) /\ n + 1 \in 1 .. Len(s)
      BY <1>6, <2>6
    <3> QED BY <2>6, <2>7, <3>1, RepairStep
  <2>10. Repaired(after[k], s, k, f[k])
    BY <2>6, <2>8, <2>9
  <2> QED BY <2>4, <2>10
<1>9. Repaired(after[Len(s)], s, Len(s), f[Len(s)])
  <2>1. Len(s) \in 0 .. Len(s)
    BY <1>0
  <2> QED BY <1>8, <2>1
<1>10. Waiting(s, Len(s)) = {}
  BY NobodyWaits
<1> QED BY <1>1, <1>5, <1>9, <1>10, CompletedAlready DEF Repaired

-----------------------------------------------------------------------------
(* What the loop knows of its context from one step to the next.             *)

Sound(s) == Orderly(s) /\ Answered(s)

\* Messages that wait to go in: prompts and notes.
Waits(w) ==
    /\ w \in Seq(Messages)
    /\ \A i \in 1 .. Len(w) : w[i].role \in {"user", "note"} /\ Plain(w[i])

\* Of the calls cs of an answer the first have their results rs, the others wait.
Outcomes == {"done", "skipped", "truncated"}
Progress(cs, rs, w) ==
    /\ rs \in Seq(Messages) /\ w \in Seq(Calls)
    /\ Len(rs) + Len(w) = Len(cs)
    /\ \A k \in 1 .. Len(rs) : \E how \in Outcomes : rs[k] = Result(cs[k], how)
    /\ \A k \in 1 .. Len(w) : w[k] = cs[Len(rs) + k]

\* The last message is an answer whose calls are under way.
InCalls(s, rs, w) ==
    \E h \in Seq(Messages), m \in Messages :
        /\ s = h \o <<m>>
        /\ Sound(h) /\ EndsAsked(h)
        /\ Speaks(m) /\ m.calls # <<>> /\ IsInjective(m.calls)
        /\ Progress(m.calls, rs, w)

Placed ==
    /\ pc \in {"opening", "streaming"} => EndsAsked(context)
    /\ pc = "top" /\ pending = <<>> => EndsAsked(context)
    /\ pc = "settling" => EndsAnswered(context) \/ (context # <<>> /\ IsResult(context[Len(context)]))
    /\ pc = "checking" =>
         /\ check.stage = "none" <=> check.for = "none"
         /\ check.for = "none" => context # <<>>
         /\ check.at # "prompt" /\ check.for = "none" => EndsAnswered(context)
         /\ check.at # "prompt" /\ check.for \in Recoveries => EndsAsked(context)

Exchanges ==
    /\ Waits(pending)
    /\ IF pc \in {"called", "executing"}
       THEN InCalls(context, results, calls) /\ (pc = "called" => results = <<>>)
       ELSE Sound(context) /\ results = <<>> /\ Placed

LEMMA WaitsUsable ==
    ASSUME NEW w, Waits(w)
    PROVE  /\ Sound(w) /\ \A i \in 1 .. Len(w) : w[i].role # "summary"
           /\ w # <<>> => ~IsAssistant(w[Len(w)])
<1>0. w \in Seq(Messages) /\ Len(w) \in Nat /\ (w # <<>> => Len(w) \in 1 .. Len(w))
  <2>1. w \in Seq(Messages)
    BY DEF Waits
  <2>2. Len(w) \in Nat /\ (w # <<>> => Len(w) # 0)
    BY <2>1, LenProperties, EmptySeq
  <2> QED BY <2>1, <2>2
<1>1. \A i \in 1 .. Len(w) : /\ w[i].role # "summary" /\ ~IsAssistant(w[i]) /\ ~IsResult(w[i]) /\ Plain(w[i])
                             /\ ~Asking(w[i])
  BY DEF Waits, IsAssistant, IsResult, Asking, Speaks
<1>2. \A i \in 1 .. Len(w) : Tidy(w[i])
  BY <1>1 DEF Tidy
<1>3. Orderly(w)
  BY <1>0, <1>1, <1>2 DEF Orderly
<1>4. Answered(w)
  BY <1>0, <1>1, QuietAnswered
<1> QED BY <1>0, <1>1, <1>3, <1>4 DEF Sound

LEMMA WaitsJoined ==
    ASSUME NEW v, Waits(v), NEW w, Waits(w)
    PROVE  Waits(v \o w)
<1>0. v \in Seq(Messages) /\ w \in Seq(Messages) /\ Len(v) \in Nat /\ Len(w) \in Nat
  BY LenProperties DEF Waits
<1>1. /\ v \o w \in Seq(Messages) /\ Len(v \o w) = Len(v) + Len(w)
      /\ \A i \in 1 .. Len(v) + Len(w) : (v \o w)[i] = IF i <= Len(v) THEN v[i] ELSE w[i - Len(v)]
  BY <1>0, ConcatProperties
<1> DEFINE t == v \o w
<1> HIDE DEF t
<1>2. ASSUME NEW i \in 1 .. Len(t) PROVE t[i].role \in {"user", "note"} /\ Plain(t[i])
  <2>0. i \in 1 .. Len(v) + Len(w) /\ t[i] = IF i <= Len(v) THEN v[i] ELSE w[i - Len(v)]
    BY <1>1 DEF t
  <2>1. CASE i <= Len(v)
    <3>1. i \in 1 .. Len(v) /\ t[i] = v[i]
      BY <2>0, <2>1, <1>0
    <3> QED BY <3>1 DEF Waits
  <2>2. CASE ~(i <= Len(v))
    <3>1. i - Len(v) \in 1 .. Len(w) /\ t[i] = w[i - Len(v)]
      BY <2>0, <2>2, <1>0
    <3> QED BY <3>1 DEF Waits
  <2> QED BY <2>1, <2>2
<1> QED BY <1>1, <1>2 DEF Waits, t

LEMMA WaitsOfOne ==
    ASSUME NEW m \in Messages, m.role \in {"user", "note"}, Plain(m)
    PROVE  Waits(<<m>>) /\ <<m>> # <<>>
<1>1. <<m>> \in Seq(Messages) /\ Len(<<m>>) = 1 /\ <<m>>[1] = m /\ <<m>> # <<>>
  OBVIOUS
<1>2. 1 .. 1 = {1}
  OBVIOUS
<1> QED BY <1>1, <1>2 DEF Waits

LEMMA NotesWait ==
    /\ Waits(<<>>) /\ Waits(<<Note>>) /\ <<Note>> # <<>>
    /\ \A n \in Nat : Waits(<<User(n)>>) /\ Waits([i \in 1 .. n |-> Note])
<1>1. /\ Note \in Messages /\ Note.role = "note" /\ Plain(Note)
  BY MessagesTyped DEF Note, Message, Plain
<1>2. \A n \in Nat : User(n) \in Messages /\ User(n).role = "user" /\ Plain(User(n))
  BY MessagesTyped DEF User, Message, Plain
<1>3. Waits(<<>>)
  <2>1. <<>> \in Seq(Messages) /\ Len(<<>>) = 0 /\ 1 .. 0 = {}
    OBVIOUS
  <2> QED BY <2>1 DEF Waits
<1>4. Waits(<<Note>>) /\ <<Note>> # <<>>
  BY <1>1, WaitsOfOne
<1>5. ASSUME NEW n \in Nat PROVE Waits(<<User(n)>>) /\ Waits([i \in 1 .. n |-> Note])
  <2>1. Waits(<<User(n)>>)
    BY <1>2, WaitsOfOne
  <2> DEFINE w == [i \in 1 .. n |-> Note]
  <2>2. w \in Seq(Messages) /\ Len(w) = n /\ \A i \in 1 .. n : w[i] = Note
    BY <1>1
  <2> HIDE DEF w
  <2>3. Waits(w)
    BY <1>1, <2>2 DEF Waits
  <2> QED BY <2>1, <2>3 DEF w
<1> QED BY <1>3, <1>4, <1>5

\* A prompt taken from a queue waits.
LEMMA TakenWaits ==
    ASSUME NEW q \in Queues, queue[q] \in Seq(Entry)
    PROVE  /\ Waits(Injected(Taken(q)))
           /\ queue[q] # <<>> => Injected(Taken(q)) # <<>>
<1> DEFINE s == queue[q]
           r == Injected(Taken(q))
<1>0. Len(s) \in Nat
  BY LenProperties
<1>1. CASE s = <<>>
  <2>0. Len(s) = 0
    BY <1>1
  <2>1. Min({1, Len(s)}) = 0
    BY <2>0, LeastOfTwo
  <2>2. Taken(q) = <<>>
    <3>1. Taken(q) = [i \in 1 .. 0 |-> queue[q][i].id]
      BY <2>1 DEF Taken
    <3>2. Taken(q) \in Seq(Nat) /\ Len(Taken(q)) = 0
      BY <3>1
    <3> QED BY <3>2, EmptySeq
  <2>3. r = <<>>
    BY <2>2 DEF Injected
  <2> QED BY <1>1, <2>3, NotesWait
<1>2. CASE s # <<>>
  <2>1. Len(s) >= 1
    BY <1>0, <1>2, EmptySeq
  <2>2. Min({1, Len(s)}) = 1
    BY <1>0, <2>1, LeastOfTwo
  <2>3. Taken(q) = <<s[1].id>>
    <3>1. Taken(q) = [i \in 1 .. 1 |-> queue[q][i].id]
      BY <2>2 DEF Taken
    <3>2. 1 .. 1 = {1}
      OBVIOUS
    <3> QED BY <3>1, <3>2
  <2>4. r = <<User(s[1].id)>>
    BY <2>3 DEF Injected
  <2>5. s[1].id \in Nat
    <3>1. s[1] \in Entry
      BY <2>1, <1>0, ElementOfSeq
    <3> QED BY <3>1, PromptsAssumption DEF Entry, Prompts
  <2>6. Waits(r)
    BY <2>4, <2>5, NotesWait
  <2>7. r # <<>>
    BY <2>4
  <2> QED BY <2>6, <2>7
<1> QED BY <1>1, <1>2

LEMMA SoundJoined ==
    ASSUME NEW s, Sound(s), NEW t, Sound(t), \A i \in 1 .. Len(t) : t[i].role # "summary"
    PROVE  /\ Sound(s \o t)
           /\ t = <<>> => s \o t = s
           /\ t # <<>> => s \o t # <<>> /\ (s \o t)[Len(s \o t)] = t[Len(t)]
<1>0. s \in Seq(Messages) /\ t \in Seq(Messages) /\ Len(s) \in Nat /\ Len(t) \in Nat
  BY LenProperties DEF Sound, Orderly
<1>1. Orderly(s) /\ Answered(s) /\ Orderly(t) /\ Answered(t)
  BY DEF Sound
<1>2. Answered(s \o t)
  BY <1>0, <1>1, JoinedAnswered
<1>3. Orderly(s \o t)
  BY <1>1, JoinedOrderly
<1>4. t = <<>> => s \o t = s
  BY <1>0, ConcatEmptySeq
<1>5. ASSUME t # <<>> PROVE s \o t # <<>> /\ (s \o t)[Len(s \o t)] = t[Len(t)]
  <2>1. Len(t) >= 1
    BY <1>0, <1>5, EmptySeq
  <2>2. /\ s \o t \in Seq(Messages) /\ Len(s \o t) = Len(s) + Len(t)
        /\ \A i \in 1 .. Len(s) + Len(t) : (s \o t)[i] = IF i <= Len(s) THEN s[i] ELSE t[i - Len(s)]
    BY <1>0, ConcatProperties
  <2>3. Len(s) + Len(t) \in 1 .. Len(s) + Len(t) /\ ~(Len(s) + Len(t) <= Len(s)) /\ (Len(s) + Len(t)) - Len(s) = Len(t)
    BY <1>0, <2>1
  <2>4. (s \o t)[Len(s) + Len(t)] = t[Len(t)]
    BY <2>2, <2>3
  <2>5. s \o t # <<>>
    BY <1>0, <2>1, <2>2, EmptySeq
  <2> QED BY <2>2, <2>4, <2>5
<1> QED BY <1>2, <1>3, <1>4, <1>5 DEF Sound

\* What waits goes in, and the history ends with a question.
LEMMA WaitsGoIn ==
    ASSUME NEW s, Sound(s), NEW w, Waits(w)
    PROVE  /\ Sound(s \o w)
           /\ w # <<>> \/ EndsAsked(s) => EndsAsked(s \o w)
<1>1. /\ Sound(w) /\ \A i \in 1 .. Len(w) : w[i].role # "summary"
      /\ w # <<>> => ~IsAssistant(w[Len(w)])
  BY WaitsUsable
<1>2. /\ Sound(s \o w) /\ (w = <<>> => s \o w = s)
      /\ w # <<>> => s \o w # <<>> /\ (s \o w)[Len(s \o w)] = w[Len(w)]
  BY <1>1, SoundJoined
<1> QED BY <1>1, <1>2 DEF EndsAsked


LEMMA AnswerSaid ==
    ASSUME NEW s, Sound(s), EndsAsked(s), NEW m \in Messages, IsAssistant(m), ~Asking(m)
    PROVE  Sound(s \o <<m>>) /\ EndsAnswered(s \o <<m>>)
<1>0. s \in Seq(Messages) /\ Len(s) \in Nat /\ Len(s) >= 1 /\ ~IsAssistant(s[Len(s)])
  <2>1. s \in Seq(Messages) /\ s # <<>> /\ ~IsAssistant(s[Len(s)])
    BY DEF Sound, Orderly, EndsAsked
  <2> QED BY <2>1, LenProperties, EmptySeq
<1>1. ~IsResult(m) /\ m.role # "summary"
  BY DEF IsResult, IsAssistant
<1>2. Tidy(m)
  BY <1>1 DEF Tidy
<1> DEFINE t == <<m>>
<1>3. Orderly(t) /\ Answered(t) /\ t \in Seq(Messages) /\ Len(t) = 1 /\ t[1] = m
  BY <1>1, <1>2, OneUsable
<1> HIDE DEF t
<1>4. \A i \in 1 .. Len(t) : t[i].role # "summary"
  <2>1. 1 .. 1 = {1}
    OBVIOUS
  <2> QED BY <1>1, <1>3, <2>1
<1>5. Sound(t)
  BY <1>3 DEF Sound
<1>6. Sound(s \o t)
  BY <1>4, <1>5, SoundJoined
<1>7. /\ Len(s \o t) = Len(s) + 1
      /\ \A i \in 1 .. Len(s) + 1 : (s \o t)[i] = IF i <= Len(s) THEN s[i] ELSE t[i - Len(s)]
  <2>1. /\ Len(s \o t) = Len(s) + Len(t)
        /\ \A i \in 1 .. Len(s) + Len(t) : (s \o t)[i] = IF i <= Len(s) THEN s[i] ELSE t[i - Len(s)]
    BY <1>0, <1>3, ConcatProperties
  <2>2. Len(t) = 1
    BY <1>3
  <2> QED BY <2>1, <2>2
<1>8. (s \o t)[Len(s) + 1] = m /\ (s \o t)[Len(s)] = s[Len(s)]
  <2>1. /\ Len(s) + 1 \in 1 .. Len(s) + 1 /\ ~(Len(s) + 1 <= Len(s)) /\ (Len(s) + 1) - Len(s) = 1
        /\ Len(s) \in 1 .. Len(s) + 1 /\ Len(s) <= Len(s)
    BY <1>0
  <2> QED BY <1>3, <1>7, <2>1
<1>9. Len(s \o t) >= 2 /\ Len(s \o t) - 1 = Len(s)
  BY <1>0, <1>7
<1>10. EndsAnswered(s \o t)
  BY <1>0, <1>7, <1>8, <1>9 DEF EndsAnswered
<1> QED BY <1>6, <1>10 DEF t

LEMMA CallsDiffer ==
    ASSUME NEW n \in Nat, requests \in Nat
    PROVE  /\ CallsOf(n) \in Seq(Calls) /\ IsInjective(CallsOf(n))
           /\ CallsOf(n) = <<>> <=> n = 0
<1>1. CallsOf(n) \in Seq(Calls) /\ Len(CallsOf(n)) = n
  <2>1. CallsOf(n) \in Seq(Calls)
    BY CallsTyped
  <2>2. Len(CallsOf(n)) = n
    BY DEF CallsOf
  <2> QED BY <2>1, <2>2
<1>2. \A k \in 1 .. n : CallsOf(n)[k] = <<requests, k>>
  BY DEF CallsOf
<1>3. DOMAIN CallsOf(n) = 1 .. n
  BY DEF CallsOf
<1>4. IsInjective(CallsOf(n))
  <2>1. \A j, k \in 1 .. n : CallsOf(n)[j] = CallsOf(n)[k] => j = k
    BY <1>2
  <2> QED BY <1>3, <2>1 DEF IsInjective
<1> QED BY <1>1, <1>4, EmptySeq

LEMMA ProgressStarts ==
    ASSUME NEW cs \in Seq(Calls)
    PROVE  Progress(cs, <<>>, cs)
<1>1. <<>> \in Seq(Messages) /\ Len(<<>>) = 0 /\ 1 .. 0 = {} /\ Len(cs) \in Nat
  BY LenProperties
<1>2. 0 + Len(cs) = Len(cs) /\ \A k \in 1 .. Len(cs) : 0 + k = k
  BY <1>1
<1> QED BY <1>1, <1>2 DEF Progress

LEMMA EveryIs ==
    ASSUME NEW cs \in Seq(Calls), NEW how \in Outcomes
    PROVE  /\ Every(cs, how) \in Seq(Messages) /\ Len(Every(cs, how)) = Len(cs)
           /\ \A k \in 1 .. Len(cs) : Every(cs, how)[k] = Result(cs[k], how)
<1>0. Len(cs) \in Nat /\ DOMAIN cs = 1 .. Len(cs)
  BY LenProperties
<1>1. Every(cs, how) = [k \in 1 .. Len(cs) |-> Result(cs[k], how)]
  BY <1>0 DEF Every
<1>2. Every(cs, how) \in Seq(Messages)
  BY ResultsTyped DEF Outcomes
<1>3. Len(Every(cs, how)) = Len(cs)
  BY <1>0, <1>1
<1> QED BY <1>1, <1>2, <1>3

\* The next n calls get their results.
LEMMA ProgressMade ==
    ASSUME NEW cs \in Seq(Calls), NEW rs, NEW w, Progress(cs, rs, w), NEW n \in Nat, n <= Len(w),
           NEW how \in Outcomes
    PROVE  Progress(cs, rs \o Every(SubSeq(w, 1, n), how), SubSeq(w, n + 1, Len(w)))
<1> DEFINE u == SubSeq(w, 1, n)
           v == SubSeq(w, n + 1, Len(w))
<1>0. rs \in Seq(Messages) /\ w \in Seq(Calls) /\ Len(rs) \in Nat /\ Len(w) \in Nat /\ Len(cs) \in Nat
  BY LenProperties DEF Progress
<1>1. u \in Seq(Calls) /\ v \in Seq(Calls)
  BY <1>0, PartsTyped
<1>2. Len(u) = n /\ \A k \in 1 .. n : u[k] = w[k]
  BY <1>0
<1>3. Len(v) = Len(w) - n /\ \A k \in 1 .. Len(w) - n : v[k] = w[n + k]
  <2>1. Len(v) = Len(w) - n
    BY <1>0
  <2>2. ASSUME NEW k \in 1 .. Len(w) - n PROVE v[k] = w[n + k]
    <3>1. v[k] = w[(n + 1) + k - 1]
      BY <1>0, <2>2
    <3>2. (n + 1) + k - 1 = n + k
      BY <1>0, <2>2
    <3> QED BY <3>1, <3>2
  <2> QED BY <2>1, <2>2
<1> HIDE DEF u, v
<1> DEFINE e == Every(u, how)
<1>4. e \in Seq(Messages) /\ Len(e) = n /\ \A k \in 1 .. n : e[k] = Result(w[k], how)
  <2>1. /\ Every(u, how) \in Seq(Messages) /\ Len(Every(u, how)) = Len(u)
        /\ \A k \in 1 .. Len(u) : Every(u, how)[k] = Result(u[k], how)
    BY <1>1, EveryIs
  <2> QED BY <1>2, <2>1
<1> HIDE DEF e
<1> DEFINE r == rs \o e
<1>5. /\ r \in Seq(Messages) /\ Len(r) = Len(rs) + n
      /\ \A k \in 1 .. Len(rs) + n : r[k] = IF k <= Len(rs) THEN rs[k] ELSE e[k - Len(rs)]
  BY <1>0, <1>4, ConcatProperties
<1> HIDE DEF r
<1>6. /\ Len(rs) + Len(w) = Len(cs)
      /\ \A k \in 1 .. Len(rs) : \E o \in Outcomes : rs[k] = Result(cs[k], o)
      /\ \A k \in 1 .. Len(w) : w[k] = cs[Len(rs) + k]
  BY DEF Progress
<1>7. ASSUME NEW k \in 1 .. Len(r) PROVE \E o \in Outcomes : r[k] = Result(cs[k], o)
  <2>1. CASE k <= Len(rs)
    <3>1. k \in 1 .. Len(rs) /\ r[k] = rs[k]
      BY <1>0, <1>5, <2>1
    <3> QED BY <1>6, <3>1
  <2>2. CASE ~(k <= Len(rs))
    <3>1. k - Len(rs) \in 1 .. n /\ r[k] = e[k - Len(rs)]
      BY <1>0, <1>5, <2>2
    <3>2. k - Len(rs) \in 1 .. Len(w) /\ Len(rs) + (k - Len(rs)) = k
      BY <1>0, <1>5, <3>1
    <3>3. w[k - Len(rs)] = cs[k]
      BY <1>6, <3>2
    <3> QED BY <1>4, <3>1, <3>3
  <2> QED BY <2>1, <2>2
<1>8. ASSUME NEW k \in 1 .. Len(v) PROVE v[k] = cs[Len(r) + k]
  <2>1. v[k] = w[n + k] /\ n + k \in 1 .. Len(w)
    BY <1>0, <1>3
  <2>2. Len(rs) + (n + k) = Len(r) + k
    BY <1>0, <1>5
  <2> QED BY <1>6, <2>1, <2>2
<1>9. Len(r) + Len(v) = Len(cs)
  <2>1. Len(r) = Len(rs) + n /\ Len(v) = Len(w) - n /\ Len(rs) + Len(w) = Len(cs)
    BY <1>3, <1>5, <1>6
  <2>2. (Len(rs) + n) + (Len(w) - n) = Len(rs) + Len(w)
    BY <1>0
  <2> QED BY <2>1, <2>2
<1>10. Progress(cs, r, v)
  BY <1>1, <1>5, <1>7, <1>8, <1>9 DEF Progress
<1> QED BY <1>10 DEF r, e, u, v

\* All the others do.
LEMMA ProgressEnds ==
    ASSUME NEW cs \in Seq(Calls), NEW rs, NEW w, Progress(cs, rs, w), NEW how \in Outcomes
    PROVE  Progress(cs, rs \o Every(w, how), <<>>)
<1>0. w \in Seq(Calls) /\ Len(w) \in Nat /\ Len(w) <= Len(w)
  BY LenProperties DEF Progress
<1>1. Progress(cs, rs \o Every(SubSeq(w, 1, Len(w)), how), SubSeq(w, Len(w) + 1, Len(w)))
  BY <1>0, ProgressMade
<1>2. SubSeq(w, 1, Len(w)) = w
  BY <1>0, SubSeqFull
<1>3. SubSeq(w, Len(w) + 1, Len(w)) = <<>>
  BY <1>0, SubSeqEmpty
<1> QED BY <1>1, <1>2, <1>3

LEMMA ResultIs ==
    ASSUME NEW c, NEW how \in Outcomes
    PROVE  /\ IsResult(Result(c, how)) /\ Result(c, how).calls = <<c>>
           /\ ~IsUser(Result(c, how)) /\ Result(c, how).stop \notin {"stop", "thoughts"}
BY DEF Result, Message, IsResult, IsUser, Outcomes

\* Once every call has its result, they are one history.
LEMMA CallsAnswered ==
    ASSUME NEW s, NEW rs, InCalls(s, rs, <<>>)
    PROVE  /\ s \in Seq(Messages) /\ Sound(s \o rs)
           /\ s \o rs # <<>> /\ IsResult((s \o rs)[Len(s \o rs)])
<1>1. PICK h \in Seq(Messages), m \in Messages :
        /\ s = h \o <<m>>
        /\ Sound(h) /\ EndsAsked(h)
        /\ Speaks(m) /\ m.calls # <<>> /\ IsInjective(m.calls)
        /\ Progress(m.calls, rs, <<>>)
  BY DEF InCalls
<1>2. /\ m.calls \in Seq(Calls) /\ Len(m.calls) \in Nat /\ Len(m.calls) # 0
      /\ rs \in Seq(Messages) /\ Len(rs) = Len(m.calls)
  <2>1. m.calls \in Seq(Calls) /\ Len(m.calls) \in Nat /\ (m.calls = <<>> <=> Len(m.calls) = 0)
    BY CallsOfOne
  <2>2. rs \in Seq(Messages) /\ Len(rs) + 0 = Len(m.calls) /\ Len(rs) \in Nat
    BY <1>1, LenProperties DEF Progress
  <2> QED BY <1>1, <2>1, <2>2
<1>3. \A k \in 1 .. Len(rs) : IsResult(rs[k]) /\ rs[k].calls = <<m.calls[k]>>
  BY <1>1, ResultIs DEF Progress
<1> DEFINE a == <<m>>
           t == a \o rs
<1>4. a \in Seq(Messages) /\ Len(a) = 1 /\ a[1] = m
  OBVIOUS
<1>5. Answered(t)
  BY <1>1, <1>2, <1>3, ExchangeAnswered
<1> HIDE DEF a
<1>6. /\ t \in Seq(Messages) /\ Len(t) = 1 + Len(rs)
      /\ \A i \in 1 .. 1 + Len(rs) : t[i] = IF i <= 1 THEN a[i] ELSE rs[i - 1]
  <2>1. /\ t \in Seq(Messages) /\ Len(t) = Len(a) + Len(rs)
        /\ \A i \in 1 .. Len(a) + Len(rs) : t[i] = IF i <= Len(a) THEN a[i] ELSE rs[i - Len(a)]
    <3>1. a \in Seq(Messages) /\ rs \in Seq(Messages)
      BY <1>2, <1>4
    <3> QED BY <3>1, ConcatProperties
  <2>2. Len(a) = 1
    BY <1>4
  <2> QED BY <2>1, <2>2
<1> HIDE DEF t
<1>7. t[1] = m /\ \A k \in 1 .. Len(rs) : t[1 + k] = rs[k]
  <2>1. 1 \in 1 .. 1 + Len(rs) /\ 1 <= 1 /\ \A k \in 1 .. Len(rs) : 1 + k \in 1 .. 1 + Len(rs) /\ ~(1 + k <= 1) /\ (1 + k) - 1 = k
    BY <1>2
  <2>2. t[1] = a[1]
    BY <1>6, <2>1
  <2> QED BY <1>4, <1>6, <2>1, <2>2
<1>8. ASSUME NEW i \in 1 .. Len(t) PROVE Tidy(t[i]) /\ t[i].role # "summary"
  <2>1. CASE i = 1
    <3>1. t[i] = m /\ IsAssistant(m)
      BY <1>1, <1>7, <2>1 DEF Speaks
    <3> QED BY <3>1 DEF Tidy, IsAssistant, IsResult
  <2>2. CASE i # 1
    <3>1. i - 1 \in 1 .. Len(rs) /\ 1 + (i - 1) = i
      BY <1>2, <1>6, <2>2
    <3>2. t[i] = rs[i - 1]
      BY <1>7, <3>1
    <3>3. IsResult(t[i]) /\ t[i].calls = <<m.calls[i - 1]>>
      BY <1>3, <3>1, <3>2
    <3>4. Len(t[i].calls) = 1 /\ t[i].role # "summary"
      BY <3>3 DEF IsResult
    <3> QED BY <3>3, <3>4 DEF Tidy
  <2> QED BY <2>1, <2>2
<1>9. Sound(t)
  BY <1>5, <1>6, <1>8 DEF Sound, Orderly
<1>10. t # <<>> /\ IsResult(t[Len(t)])
  <2>1. Len(rs) \in 1 .. Len(rs) /\ Len(t) # 0
    BY <1>2, <1>6
  <2>2. t[1 + Len(rs)] = rs[Len(rs)]
    BY <1>7, <2>1
  <2>3. t # <<>>
    BY <2>1, <1>6, EmptySeq
  <2> QED BY <1>3, <1>6, <2>1, <2>2, <2>3
<1>11. /\ Sound(h \o t)
       /\ h \o t # <<>> /\ (h \o t)[Len(h \o t)] = t[Len(t)]
  BY <1>1, <1>8, <1>9, <1>10, SoundJoined
<1>12. s \o rs = h \o t /\ s \in Seq(Messages)
  <2>1. (h \o a) \o rs = h \o (a \o rs)
    BY <1>1, <1>2, <1>4, ConcatAssociative
  <2>2. s = h \o a /\ h \o a \in Seq(Messages)
    BY <1>1, <1>4 DEF a
  <2> QED BY <2>1, <2>2 DEF t
<1> QED BY <1>10, <1>11, <1>12


\* The judge may only take what is not at the end.
LEMMA JudgedIs ==
    /\ Recent \in Nat /\ Recent >= 1
    /\ \A remove \in MayPrune \cup Prunes : remove \subseteq Candidates(context, Recent)
BY LoopAssumption DEF MayPrune, Prunes

LEMMA PrunedSound ==
    ASSUME NEW s, Sound(s), NEW recent \in Nat, recent >= 1, NEW remove, remove \subseteq Candidates(s, recent)
    PROVE  /\ Sound(Pruned(s, remove))
           /\ EndsAsked(s) => EndsAsked(Pruned(s, remove))
BY PrunedUsable, PrunedAsks DEF Sound

\* What is summarized of a history that ends with a question ends with it.
LEMMA BodyAsks ==
    ASSUME NEW s, Sound(s), EndsAsked(s), NEW recent \in Nat, recent >= 1,
           NEW remove, remove \subseteq Candidates(s, recent), Pruned(BodyOf(s), remove) # <<>>
    PROVE  EndsAsked(Pruned(BodyOf(s), remove))
<1> DEFINE places == {i \in DOMAIN s : s[i] # Summary}
           b == BodyOf(s)
           r == Pruned(b, remove)
<1>0. /\ Orderly(s) /\ Answered(s) /\ s \in Seq(Messages) /\ s # <<>> /\ ~IsAssistant(s[Len(s)])
      /\ Len(s) \in Nat /\ Len(s) \in 1 .. Len(s) /\ DOMAIN s = 1 .. Len(s)
  <2>1. Orderly(s) /\ Answered(s) /\ s \in Seq(Messages) /\ s # <<>> /\ ~IsAssistant(s[Len(s)])
    BY DEF Sound, Orderly, EndsAsked
  <2>2. Len(s) \in Nat /\ Len(s) # 0 /\ DOMAIN s = 1 .. Len(s)
    BY <2>1, LenProperties, EmptySeq
  <2> QED BY <2>1, <2>2
<1>1. Orderly(b) /\ Answered(b) /\ b \in Seq(Messages)
  BY <1>0, BodyUsable DEF Orderly
<1>2. Reduces(b, s, {}, places)
  BY <1>0, PickedReduces DEF BodyOf
<1>3. Reduces(r, b, remove, Stays(b, remove))
  BY <1>1, PrunedReduces
<1> HIDE DEF r
<1>4. Len(r) <= Len(b) /\ r \in Seq(Messages) /\ Len(r) # 0
  <2>1. Len(r) <= Len(b) /\ r \in Seq(Messages)
    BY <1>1, <1>3, ReducedShort DEF Reduces
  <2> QED BY <2>1, EmptySeq DEF r
<1> HIDE DEF b, places
<1>5. s[Len(s)] # Summary
  <2> SUFFICES ASSUME s[Len(s)] = Summary PROVE FALSE
    OBVIOUS
  <2>1. s[Len(s)].role = "summary"
    BY DEF Summary, Message
  <2>2. Len(s) = 1
    BY <1>0, <2>1 DEF Orderly
  <2>3. places = {}
    BY <1>0, <2>2 DEF places
  <2>4. b = <<>>
    BY <1>0, <2>3, PickedNone DEF BodyOf, b, places
  <2> QED BY <1>4, <2>4, LenProperties
<1>6. Len(s) \in places
  BY <1>0, <1>5 DEF places
<1>7. b # <<>> /\ b[Len(b)] = Lighter(s[Len(s)], {})
  BY <1>0, <1>2, <1>6, ReducedLast
<1>8. s[Len(s)] \in Messages /\ b[Len(b)] = s[Len(s)]
  <2>1. s[Len(s)] \in Messages
    BY <1>0, ElementOfSeq
  <2> QED BY <1>7, <2>1, LighterTyped
<1>9. Len(b) \in 1 .. Len(b)
  BY <1>1, <1>7, LenProperties, EmptySeq
<1>10. Len(b) \in Stays(b, remove)
  <2>1. s[Len(s)].calls # <<>> => Left(s[Len(s)].calls, remove) # <<>>
    BY <1>0, LastStays
  <2>2. ASSUME s[Len(s)].calls = <<>> PROVE s[Len(s)].stop # "empty"
    <3>1. Tidy(s[Len(s)])
      BY <1>0 DEF Orderly
    <3>2. ~IsResult(s[Len(s)])
      BY <2>2, <3>1 DEF Tidy
    <3>3. Plain(s[Len(s)])
      BY <1>0, <3>1, <3>2 DEF Tidy
    <3> QED BY <3>3 DEF Plain
  <2> QED BY <1>8, <1>9, <2>1, <2>2 DEF Stays
<1>11. r # <<>> /\ r[Len(r)] = Lighter(b[Len(b)], remove)
  BY <1>1, <1>3, <1>7, <1>10, ReducedLast
<1>12. ~IsAssistant(r[Len(r)])
  <2>1. r[Len(r)].role = s[Len(s)].role
    BY <1>8, <1>11, LighterTyped
  <2> QED BY <1>0, <2>1 DEF IsAssistant
<1> QED BY <1>11, <1>12 DEF EndsAsked, r, b

LEMMA SummarizedSound ==
    ASSUME NEW s, Sound(s), NEW recent \in Nat, recent >= 1,
           NEW remove, remove \subseteq Candidates(s, recent),
           NEW minimum \in Nat, minimum \in {0, Len(s) + 1},
           Plan(Pruned(BodyOf(s), remove), Keep, minimum) # 0
    PROVE  LET t == Compacted(Pruned(BodyOf(s), remove), minimum)
           IN  /\ Sound(t) /\ Summary \in EntriesOf(t)
               /\ EndsAsked(s) => EndsAsked(t)
<1> DEFINE b == BodyOf(s)
           r == Pruned(b, remove)
           places == {i \in DOMAIN s : s[i] # Summary}
<1>0. Orderly(s) /\ Answered(s) /\ s \in Seq(Messages) /\ Len(s) \in Nat /\ DOMAIN s = 1 .. Len(s)
  BY LenProperties DEF Sound, Orderly
<1>1. Orderly(b) /\ Answered(b) /\ b \in Seq(Messages)
  BY <1>0, BodyUsable DEF Orderly
<1>2. Orderly(r) /\ Answered(r) /\ r \in Seq(Messages)
  BY <1>1, PrunedUsable DEF Orderly
<1>3. Reduces(b, s, {}, places)
  BY <1>0, PickedReduces DEF BodyOf
<1>4. Reduces(r, b, remove, Stays(b, remove))
  BY <1>1, PrunedReduces
<1>5. Len(r) <= Len(b) /\ Len(b) <= Len(s) /\ Len(r) \in Nat /\ Len(b) \in Nat
  BY <1>0, <1>1, <1>2, <1>3, <1>4, ReducedShort, LenProperties
<1>6. b = Picked(s, places)
  BY DEF BodyOf
<1> HIDE DEF places, b
<1>14. \A i \in 1 .. Len(b) : b[i].role # "summary"
  <2>1. ASSUME NEW i \in 1 .. Len(b) PROVE b[i].role # "summary"
    <3>1. PICK j \in 1 .. Len(s) : j \in places /\ b[i] = s[j]
      <4>1. s \in Seq(Messages)
        BY <1>0
      <4>2. \A k \in 1 .. Len(Picked(s, places)) :
               \E j \in 1 .. Len(s) : j \in places /\ Picked(s, places)[k] = s[j]
        BY <4>1, PickedFrom
      <4> QED BY <1>6, <2>1, <4>2
    <3>2. Tidy(s[j]) /\ s[j] # Summary
      BY <1>0, <3>1 DEF Orderly, places
    <3> QED BY <3>1, <3>2 DEF Tidy
  <2> QED BY <2>1
<1>7. \A i \in 1 .. Len(r) : r[i].role # "summary"
  <2>1. PICK p : /\ Lists(p, Len(b), Stays(b, remove)) /\ Len(r) = Len(p)
                 /\ \A k \in 1 .. Len(p) : r[k] = Lighter(b[p[k]], remove)
    BY <1>4 DEF Reduces
  <2>2. ASSUME NEW i \in 1 .. Len(r) PROVE r[i].role # "summary"
    <3>1. p[i] \in 1 .. Len(b) /\ r[i] = Lighter(b[p[i]], remove)
      BY <2>1, <2>2 DEF Lists
    <3>2. b[p[i]] \in Messages
      BY <1>1, <3>1, ElementOfSeq
    <3>3. r[i].role = b[p[i]].role
      BY <3>1, <3>2, LighterTyped
    <3> QED BY <1>14, <3>1, <3>3
  <2> QED BY <2>2
<1>8. EndsAsked(s) /\ r # <<>> => EndsAsked(r)
  BY BodyAsks DEF b
<1>9. Plan(r, Keep, minimum) # 0
  BY DEF b
<1> HIDE DEF r
<1>10. minimum = 0 \/ minimum > Len(r)
  BY <1>0, <1>5
<1> DEFINE t == Compacted(r, minimum)
<1>11. /\ Orderly(t) /\ Answered(t) /\ t # <<>> /\ Summary \in EntriesOf(t)
       /\ t[Len(t)] = Summary \/ (r # <<>> /\ t[Len(t)] = r[Len(r)])
  BY <1>2, <1>7, <1>9, <1>10, CompactedUsable
<1> HIDE DEF t
<1>12. EndsAsked(s) => EndsAsked(t)
  <2>1. ~IsAssistant(Summary)
    BY DEF IsAssistant, Summary, Message
  <2> QED BY <1>8, <1>11, <2>1 DEF EndsAsked
<1>13. Sound(t)
  BY <1>11 DEF Sound
<1> QED BY <1>11, <1>12, <1>13 DEF t, r, b

\* An answer at the end goes, and the question before it is the end.
LEMMA AnswerTakenOut ==
    ASSUME NEW s, Sound(s), s # <<>>
    PROVE  LET t == IF IsAssistant(Last(s)) THEN Front(s) ELSE s
           IN  /\ Sound(t)
               /\ EndsAnswered(s) => EndsAsked(t)
<1>0. /\ Orderly(s) /\ Answered(s) /\ s \in Seq(Messages)
      /\ Len(s) \in Nat /\ Last(s) = s[Len(s)]
  BY LenProperties DEF Sound, Orderly, Last
<1>1. CASE IsAssistant(Last(s))
  <2>1. ~IsResult(s[Len(s)])
    BY <1>0, <1>1 DEF IsAssistant, IsResult
  <2> DEFINE t == Front(s)
  <2>2. /\ Orderly(t) /\ Answered(t)
        /\ Len(t) = Len(s) - 1
        /\ \A i \in 1 .. Len(s) - 1 : t[i] = s[i]
    BY <1>0, <2>1, FrontUsable
  <2> HIDE DEF t
  <2>3. ASSUME EndsAnswered(s) PROVE EndsAsked(t)
    <3>1. Len(s) >= 2 /\ ~IsAssistant(s[Len(s) - 1])
      BY <2>3 DEF EndsAnswered
    <3>2. Len(t) \in 1 .. Len(s) - 1 /\ Len(t) # 0
      BY <1>0, <2>2, <3>1
    <3>3. t[Len(t)] = s[Len(s) - 1]
      BY <2>2, <3>2
    <3>4. t # <<>>
      BY <3>2, EmptySeq
    <3> QED BY <3>1, <3>3, <3>4 DEF EndsAsked
  <2> QED BY <1>1, <2>2, <2>3 DEF Sound, t
<1>2. CASE ~IsAssistant(Last(s))
  <2>1. ~EndsAnswered(s)
    BY <1>0, <1>2 DEF EndsAnswered
  <2> QED BY <1>2, <2>1
<1> QED BY <1>1, <1>2


HistoryInv == Exchanges /\ BoundInv /\ OthersTyped /\ PromptInv

\* Outside of the calls of an answer.
LEMMA AtRest ==
    ASSUME Exchanges, pc \notin {"called", "executing"}
    PROVE  Waits(pending) /\ Sound(context) /\ results = <<>> /\ Placed
BY DEF Exchanges

LEMMA ComesToRest ==
    ASSUME Waits(pending'), Sound(context'), results' = <<>>, pc' \notin {"called", "executing"}, Placed'
    PROVE  Exchanges'
BY DEF Exchanges

LEMMA TakenNext ==
    ASSUME PromptInv, NEW q \in Queues
    PROVE  /\ Waits(Injected(Taken(q)))
           /\ queue[q] # <<>> => Injected(Taken(q)) # <<>>
<1>1. queue[q] \in Seq(Entry)
  BY DEF PromptInv, QueueTyped
<1> QED BY <1>1, TakenWaits

LEMMA ExchangesArriving ==
    ASSUME HistoryInv, Arrive \/ Begin \/ Open \/ LeaveCancelled \/ StopAtLimit \/ Ask
    PROVE  Exchanges'
<1>0. Exchanges /\ BoundInv /\ PromptInv /\ "steer" \in Queues
  BY DEF HistoryInv, Queues
<1>1. CASE Arrive
  <2>1. /\ pc = "arriving" /\ UNCHANGED <<context, fresh, pending, calls, results>>
        /\ \/ pc' = "beginning"
           \/ Answers # {} /\ pc' = "checking" /\ check' = [at |-> "prompt", for |-> "none", stage |-> "none"]
    BY <1>1 DEF Arrive, Go, CheckAt, NoCheck, talk, batch
  <2>2. Waits(pending) /\ Sound(context) /\ results = <<>>
    BY <1>0, <2>1, AtRest
  <2>3. Answers # {} => context # <<>>
    <3>1. DOMAIN <<>> = {}
      OBVIOUS
    <3> QED BY <3>1 DEF Answers
  <2>4. Placed'
    BY <2>1, <2>3 DEF Placed, Recoveries
  <2> QED BY <2>1, <2>2, <2>4, ComesToRest
<1>2. CASE Begin
  <2>1. pc = "beginning" /\ pc' = "opening" /\ UNCHANGED <<pending, results>> /\ context' = Append(context, User(0))
    BY <1>2 DEF Begin, Go, batch
  <2>2. Waits(pending) /\ Sound(context) /\ results = <<>>
    BY <1>0, <2>1, AtRest
  <2>3. context' = context \o <<User(0)>>
    <3>1. context \in Seq(Messages) /\ User(0) \in Messages
      BY <2>2, MessagesTyped DEF Sound, Orderly
    <3> QED BY <2>1, <3>1, AppendIsConcat
  <2>4. Waits(<<User(0)>>) /\ <<User(0)>> # <<>>
    BY NotesWait
  <2>5. Sound(context') /\ EndsAsked(context')
    BY <2>2, <2>3, <2>4, WaitsGoIn
  <2>6. Placed'
    BY <2>1, <2>5 DEF Placed
  <2> QED BY <2>1, <2>2, <2>5, <2>6, ComesToRest
<1>3. CASE Open
  <2>1. /\ pc = "opening" /\ pc' = "top" /\ UNCHANGED results /\ pending' = Injected(Taken("steer"))
    BY <1>3 DEF Open, Go, batch
  <2>2. PICK remove \in MayPrune : context' = Pruned(context, remove)
    BY <1>3 DEF Open
  <2>3. Sound(context) /\ results = <<>> /\ EndsAsked(context)
    BY <1>0, <2>1, AtRest DEF Placed
  <2>4. Sound(context') /\ EndsAsked(context')
    BY <2>2, <2>3, JudgedIs, PrunedSound
  <2>5. Waits(pending')
    BY <1>0, <2>1, TakenNext
  <2>6. Placed'
    BY <2>1, <2>4 DEF Placed
  <2> QED BY <2>1, <2>3, <2>4, <2>5, <2>6, ComesToRest
<1>4. CASE LeaveCancelled
  <2>1. pc = "top" /\ pc' = "ended" /\ UNCHANGED <<context, pending, results>>
    BY <1>4 DEF LeaveCancelled, Go, talk, batch
  <2>2. Waits(pending) /\ Sound(context) /\ results = <<>>
    BY <1>0, <2>1, AtRest
  <2>3. Placed'
    BY <2>1 DEF Placed
  <2> QED BY <2>1, <2>2, <2>3, ComesToRest
<1>5. CASE StopAtLimit
  <2>1. pc = "top" /\ pc' = "ended" /\ UNCHANGED results /\ pending' = <<>>
        /\ context' = context \o Append(pending, Note)
    BY <1>5 DEF StopAtLimit, Go, Say, batch
  <2>2. Waits(pending) /\ Sound(context) /\ results = <<>>
    BY <1>0, <2>1, AtRest
  <2>3. Append(pending, Note) = pending \o <<Note>>
    <3>1. pending \in Seq(Messages) /\ Note \in Messages
      BY <2>2, MessagesTyped DEF Waits
    <3> QED BY <3>1, AppendIsConcat
  <2>4. Waits(pending \o <<Note>>)
    BY <2>2, NotesWait, WaitsJoined
  <2>5. Sound(context')
    BY <2>1, <2>2, <2>3, <2>4, WaitsGoIn
  <2>6. Placed' /\ Waits(pending')
    BY <2>1, NotesWait DEF Placed
  <2> QED BY <2>1, <2>2, <2>5, <2>6, ComesToRest
<1>6. CASE Ask
  <2>1. pc = "top" /\ pc' = "streaming" /\ UNCHANGED results /\ pending' = <<>> /\ context' = context \o pending
    BY <1>6 DEF Ask, Go, Say, batch
  <2>2. Waits(pending) /\ Sound(context) /\ results = <<>> /\ (pending = <<>> => EndsAsked(context))
    BY <1>0, <2>1, AtRest DEF Placed
  <2>3. Sound(context') /\ EndsAsked(context')
    BY <2>1, <2>2, WaitsGoIn
  <2>4. Placed' /\ Waits(pending')
    BY <2>1, <2>3, NotesWait DEF Placed
  <2> QED BY <2>1, <2>2, <2>3, <2>4, ComesToRest
<1> QED BY <1>1, <1>2, <1>3, <1>4, <1>5, <1>6

LEMMA ExchangesAnswered ==
    ASSUME HistoryInv,
           \/ \E stop \in Failures : AnswerFails(stop)
           \/ \E stop \in Texts : AnswerTalks(stop)
           \/ \E n \in 1 .. MaxCalls, stop \in {"calls", "length"} : AnswerCalls(n, stop)
    PROVE  Exchanges'
<1>0. /\ Exchanges /\ pc = "streaming" /\ requests \in Nat
  BY DEF HistoryInv, BoundInv, CountsTyped, AnswerFails, AnswerTalks, AnswerCalls
<1>1. Waits(pending) /\ Sound(context) /\ results = <<>> /\ EndsAsked(context)
  BY <1>0, AtRest DEF Placed
<1>2. UNCHANGED <<pending, results>>
  BY DEF AnswerFails, AnswerTalks, AnswerCalls, batch
<1>3. ASSUME NEW stop \in Failures, AnswerFails(stop) PROVE Exchanges'
  <2>1. PICK n \in Nat : context' = context \o <<Assistant(requests, CallsOf(n), stop)>>
    <3>1. \E n \in Nat : Say(<<Assistant(requests, CallsOf(n), stop)>>)
      BY <1>3 DEF AnswerFails
    <3> QED BY <3>1 DEF Say
  <2> DEFINE m == Assistant(requests, CallsOf(n), stop)
  <2>2. m \in Messages /\ IsAssistant(m) /\ HasFailed(m)
    <3>1. m \in Messages
      BY <1>0, MessagesTyped, CallsTyped
    <3>2. IsAssistant(m) /\ HasFailed(m)
      BY DEF Assistant, Message, IsAssistant, HasFailed
    <3> QED BY <3>1, <3>2
  <2> HIDE DEF m
  <2>3. context' = context \o <<m>>
    BY <2>1 DEF m
  <2>4. ~Asking(m)
    BY <2>2 DEF Asking, Speaks
  <2>5. Sound(context') /\ EndsAnswered(context')
    BY <1>1, <2>2, <2>3, <2>4, AnswerSaid
  <2>6. \/ pc' = "ended"
        \/ pc' = "checking" /\ check' = [at |-> "failed", for |-> "none", stage |-> "none"]
    BY <1>3 DEF AnswerFails, Go, CheckAt, NoCheck
  <2>7. context' # <<>>
    BY <2>5 DEF EndsAnswered
  <2>8. Placed'
    BY <2>5, <2>6, <2>7 DEF Placed, Recoveries
  <2> QED BY <1>1, <1>2, <2>5, <2>6, <2>8, ComesToRest
<1>4. ASSUME NEW stop \in Texts, AnswerTalks(stop) PROVE Exchanges'
  <2> DEFINE m == Assistant(requests, <<>>, stop)
  <2>1. context' = context \o <<m>> /\ pc' = "settling"
    BY <1>4 DEF AnswerTalks, Say, Go
  <2>2. m \in Messages /\ IsAssistant(m) /\ m.calls = <<>>
    <3>1. <<>> \in Seq(Calls)
      OBVIOUS
    <3>2. m \in Messages
      BY <1>0, <3>1, MessagesTyped
    <3>3. IsAssistant(m) /\ m.calls = <<>>
      BY DEF Assistant, Message, IsAssistant
    <3> QED BY <3>2, <3>3
  <2> HIDE DEF m
  <2>3. ~Asking(m)
    BY <2>2 DEF Asking
  <2>4. Sound(context') /\ EndsAnswered(context')
    BY <1>1, <2>1, <2>2, <2>3, AnswerSaid
  <2>5. Placed'
    BY <2>1, <2>4 DEF Placed
  <2> QED BY <1>1, <1>2, <2>1, <2>4, <2>5, ComesToRest
<1>5. ASSUME NEW n \in 1 .. MaxCalls, NEW stop \in {"calls", "length"}, AnswerCalls(n, stop) PROVE Exchanges'
  <2> DEFINE m == Assistant(requests, CallsOf(n), stop)
  <2>0. n \in Nat /\ n # 0
    BY LoopAssumption
  <2>1. context' = context \o <<m>> /\ pc' = "called" /\ calls' = CallsOf(n)
    BY <1>5 DEF AnswerCalls, Say, Go
  <2>2. CallsOf(n) \in Seq(Calls) /\ IsInjective(CallsOf(n)) /\ CallsOf(n) # <<>>
    BY <1>0, <2>0, CallsDiffer
  <2>3. m \in Messages /\ Speaks(m) /\ m.calls = CallsOf(n)
    <3>1. m \in Messages
      BY <1>0, <2>2, MessagesTyped
    <3>2. Speaks(m) /\ m.calls = CallsOf(n)
      BY DEF Assistant, Message, IsAssistant, HasFailed, Speaks, Failures
    <3> QED BY <3>1, <3>2
  <2> HIDE DEF m
  <2>4. Progress(m.calls, <<>>, calls')
    BY <2>1, <2>2, <2>3, ProgressStarts
  <2>5. context \in Seq(Messages)
    BY <1>1 DEF Sound, Orderly
  <2>6. results' = <<>>
    BY <1>1, <1>2
  <2>7. m.calls # <<>> /\ IsInjective(m.calls)
    BY <2>2, <2>3
  <2>8. InCalls(context', results', calls')
    BY <1>1, <2>1, <2>3, <2>4, <2>5, <2>6, <2>7 DEF InCalls
  <2> QED BY <1>1, <1>2, <2>1, <2>6, <2>8 DEF Exchanges
<1> QED BY <1>3, <1>4, <1>5


LEMMA CallsGoOn ==
    ASSUME NEW s, NEW rs, NEW w, InCalls(s, rs, w), NEW n \in Nat, n <= Len(w), NEW how \in Outcomes
    PROVE  /\ InCalls(s, rs \o Every(SubSeq(w, 1, n), how), SubSeq(w, n + 1, Len(w)))
           /\ InCalls(s, rs \o Every(w, how), <<>>)
<1>1. PICK h \in Seq(Messages), m \in Messages :
        /\ s = h \o <<m>>
        /\ Sound(h) /\ EndsAsked(h)
        /\ Speaks(m) /\ m.calls # <<>> /\ IsInjective(m.calls)
        /\ Progress(m.calls, rs, w)
  BY DEF InCalls
<1>2. m.calls \in Seq(Calls)
  BY CallsOfOne
<1>3. Progress(m.calls, rs \o Every(SubSeq(w, 1, n), how), SubSeq(w, n + 1, Len(w)))
  BY <1>1, <1>2, ProgressMade
<1>4. Progress(m.calls, rs \o Every(w, how), <<>>)
  BY <1>1, <1>2, ProgressEnds
<1>5. ASSUME NEW r, NEW v, Progress(m.calls, r, v) PROVE InCalls(s, r, v)
  BY <1>1, <1>5 DEF InCalls
<1> QED BY <1>3, <1>4, <1>5

\* The same where there is no result yet.
LEMMA CallsAllEnd ==
    ASSUME NEW s, NEW w \in Seq(Calls), InCalls(s, <<>>, w), NEW how \in Outcomes
    PROVE  InCalls(s, Every(w, how), <<>>)
<1>1. 0 \in Nat /\ 0 <= Len(w)
  BY LenProperties
<1>2. InCalls(s, <<>> \o Every(w, how), <<>>)
  BY <1>1, CallsGoOn
<1>3. <<>> \o Every(w, how) = Every(w, how)
  BY EveryIs, ConcatEmptySeq
<1> QED BY <1>2, <1>3

LEMMA ExchangesWorking ==
    ASSUME HistoryInv, SkipRepeated \/ Accept \/ Execute \/ Executed
    PROVE  Exchanges'
<1>0. /\ Exchanges /\ pc \in {"called", "executing"} /\ PromptInv /\ calls \in Seq(Calls) /\ results \in Seq(Messages)
      /\ "steer" \in Queues /\ {"done", "skipped", "truncated"} \subseteq Outcomes
  BY DEF HistoryInv, PromptInv, SpeechTyped, SkipRepeated, Accept, Execute, Executed, Queues, Outcomes
<1>1. Waits(pending) /\ InCalls(context, results, calls) /\ (pc = "called" => results = <<>>)
  BY <1>0 DEF Exchanges
<1>2. CASE SkipRepeated
  <2>1. /\ pc = "called" /\ pc' = "top" /\ UNCHANGED results
        /\ context' = context \o Every(calls, "skipped") /\ pending' = Append(pending, Note)
    BY <1>2 DEF SkipRepeated, Go, Say, Skipped
  <2>2. InCalls(context, Every(calls, "skipped"), <<>>)
    BY <1>0, <1>1, <2>1, CallsAllEnd
  <2>3. Sound(context')
    BY <2>1, <2>2, CallsAnswered
  <2>4. pending' = pending \o <<Note>> /\ pending' # <<>>
    <3>1. pending \in Seq(Messages) /\ Note \in Messages
      BY <1>1, MessagesTyped DEF Waits
    <3> QED BY <2>1, <3>1, AppendIsConcat, AppendProperties
  <2>5. Waits(pending')
    BY <1>1, <2>4, NotesWait, WaitsJoined
  <2>6. Placed' /\ results' = <<>>
    BY <1>1, <2>1, <2>4 DEF Placed
  <2> QED BY <2>1, <2>3, <2>5, <2>6, ComesToRest
<1>3. CASE Accept
  <2>1. /\ pc = "called" /\ pc' = "executing" /\ UNCHANGED <<context, pending>>
        /\ (results' = Every(calls, "truncated") /\ calls' = <<>>) \/ UNCHANGED <<results, calls>>
    BY <1>3 DEF Accept, Go, Truncated, talk, batch
  <2>2. InCalls(context, Every(calls, "truncated"), <<>>)
    BY <1>0, <1>1, <2>1, CallsAllEnd
  <2>3. InCalls(context', results', calls')
    BY <1>1, <2>1, <2>2
  <2> QED BY <1>1, <2>1, <2>3 DEF Exchanges
<1>4. CASE Execute
  <2> DEFINE n == Min({BatchSize, Len(calls)})
             now == SubSeq(calls, 1, n)
             left == SubSeq(calls, n + 1, Len(calls))
  <2>1. /\ pc = "executing" /\ UNCHANGED <<pc, context>>
        /\ \/ /\ results' = results \o Every(now, "done") /\ calls' = left /\ UNCHANGED pending
           \/ /\ results' = results \o Every(now, "done") \o Every(left, "skipped") /\ calls' = <<>>
              /\ pending' = Injected(Taken("steer"))
    BY <1>4 DEF Execute, Skipped
  <2>2. n \in Nat /\ n <= Len(calls)
    <3>1. BatchSize \in Nat /\ Len(calls) \in Nat
      BY <1>0, LoopAssumption, LenProperties
    <3> QED BY <3>1, LeastOfTwo
  <2> HIDE DEF n
  <2>3. InCalls(context, results \o Every(now, "done"), left)
    BY <1>0, <1>1, <2>2, CallsGoOn
  <2> HIDE DEF now, left
  <2>4. InCalls(context, results \o Every(now, "done") \o Every(left, "skipped"), <<>>)
    <3>1. left \in Seq(Calls)
      BY <2>3 DEF InCalls, Progress
    <3>2. 0 \in Nat /\ 0 <= Len(left)
      BY <3>1, LenProperties
    <3> QED BY <1>0, <2>3, <3>2, CallsGoOn
  <2>5. InCalls(context', results', calls')
    BY <2>1, <2>3, <2>4
  <2>6. Waits(pending')
    BY <1>0, <1>1, <2>1, TakenNext
  <2> QED BY <2>1, <2>5, <2>6 DEF Exchanges
<1>5. CASE Executed
  <2>1. /\ pc = "executing" /\ pc' = "settling" /\ calls = <<>> /\ results' = <<>> /\ context' = context \o results
        /\ pending' = Injected(Taken("steer")) \/ UNCHANGED pending
    BY <1>5 DEF Executed, Go, Say
  <2>2. Sound(context') /\ context' # <<>> /\ IsResult(context'[Len(context')])
    BY <1>1, <2>1, CallsAnswered
  <2>3. Waits(pending')
    BY <1>0, <1>1, <2>1, TakenNext
  <2>4. Placed'
    BY <2>1, <2>2 DEF Placed
  <2> QED BY <2>1, <2>2, <2>3, <2>4, ComesToRest
<1> QED BY <1>2, <1>3, <1>4, <1>5

LEMMA ExchangesSettling ==
    ASSUME HistoryInv, Steer \/ Nudge \/ FollowUp
    PROVE  Exchanges'
<1>0. /\ Exchanges /\ pc = "settling" /\ PromptInv /\ BoundInv /\ OthersTyped
      /\ "steer" \in Queues /\ "follow" \in Queues /\ UNCHANGED <<context, results>>
  BY DEF HistoryInv, Steer, Nudge, FollowUp, Idle, Queues, batch
<1>1. /\ Waits(pending) /\ Sound(context) /\ results = <<>>
      /\ EndsAnswered(context) \/ (context # <<>> /\ IsResult(context[Len(context)]))
  BY <1>0, AtRest DEF Placed
<1>2. Last(context) = context[Len(context)]
  BY DEF Last
<1>3. CASE Steer
  <2>1. /\ pc' = "top"
        /\ Worked \/ pending # <<>> \/ queue["steer"] # <<>>
        /\ IF pending = <<>> THEN pending' = Injected(Taken("steer")) ELSE UNCHANGED pending
    BY <1>3 DEF Steer, Go
  <2>2. Waits(pending')
    BY <1>0, <1>1, <2>1, TakenNext
  <2>3. ASSUME pending' = <<>> PROVE EndsAsked(context)
    <3>1. Worked
      BY <1>0, <2>1, <2>3, TakenNext
    <3>2. IsResult(context[Len(context)]) /\ context # <<>>
      BY <1>1, <1>2, <3>1 DEF Worked, EndsAnswered
    <3> QED BY <3>2 DEF EndsAsked, IsResult, IsAssistant
  <2>4. Placed'
    BY <1>0, <2>1, <2>3 DEF Placed
  <2> QED BY <1>0, <1>1, <2>1, <2>2, <2>4, ComesToRest
<1>4. CASE Nudge
  <2>1. pc' = "top" /\ pending' = <<Note>>
    BY <1>4 DEF Nudge, Go
  <2>2. Waits(pending') /\ Placed'
    BY <2>1, NotesWait DEF Placed
  <2> QED BY <1>0, <1>1, <2>1, <2>2, ComesToRest
<1>5. CASE FollowUp
  <2>1. /\ ~Worked
        /\ \/ pending' # <<>> /\ pc' = "top"
           \/ pc' = "checking" /\ check' = [at |-> "end", for |-> "none", stage |-> "none"]
    BY <1>5 DEF FollowUp, Idle, Go, CheckAt, NoCheck
  <2>2. PICK n \in 0 .. MaxNotices - notices : pending' = Injected(Taken("follow")) \o [i \in 1 .. n |-> Note]
    BY <1>5 DEF FollowUp
  <2>3. n \in Nat
    BY <1>0, LoopAssumption DEF OthersTyped
  <2>4. Waits(pending')
    BY <1>0, <2>2, <2>3, TakenNext, NotesWait, WaitsJoined
  <2>5. EndsAnswered(context)
    BY <1>1, <1>2, <2>1 DEF Worked
  <2>6. context # <<>>
    BY <2>5 DEF EndsAnswered
  <2>7. Placed'
    BY <1>0, <2>1, <2>5, <2>6 DEF Placed, Recoveries
  <2> QED BY <1>0, <1>1, <2>1, <2>4, <2>7, ComesToRest
<1> QED BY <1>3, <1>4, <1>5


\* Where a check leaves the loop.
LEMMA ExchangesLeaving ==
    ASSUME HistoryInv, pc = "checking", NEW retry \in BOOLEAN, Leave(retry), UNCHANGED <<pending, results>>,
           Sound(context'), retry /\ check.at # "prompt" => EndsAsked(context')
    PROVE  Exchanges'
<1>0. Waits(pending') /\ results' = <<>>
  <2>1. Exchanges
    BY DEF HistoryInv
  <2> QED BY <2>1, AtRest
<1>1. \/ pc' = "top" /\ retry /\ check.at # "prompt"
      \/ pc' \in {"beginning", "pruning", "ended"}
  BY DEF Leave
<1>2. Placed'
  BY <1>1 DEF Placed
<1> QED BY <1>0, <1>1, <1>2, ComesToRest

LEMMA ExchangesChecking ==
    ASSUME HistoryInv,
           \/ CheckFits \/ CheckSuppressed \/ CheckExhausted
           \/ \E reason \in Recoveries \cup {"threshold", "silent"} : CheckCompacts(reason)
    PROVE  Exchanges'
<1>0. /\ Exchanges /\ BoundInv /\ pc = "checking" /\ check.for = "none" /\ UNCHANGED <<pending, results>>
      /\ FALSE \in BOOLEAN
  BY DEF HistoryInv, CheckFits, CheckSuppressed, CheckExhausted, CheckCompacts, batch
<1>1. /\ Waits(pending) /\ Sound(context) /\ results = <<>> /\ context # <<>>
      /\ check.at # "prompt" => EndsAnswered(context)
  BY <1>0, AtRest DEF Placed
<1>2. CASE CheckFits
  <2>1. PICK remove \in MayPrune : context' = Pruned(context, remove)
    BY <1>2 DEF CheckFits
  <2>2. Sound(context')
    BY <1>1, <2>1, JudgedIs, PrunedSound
  <2>3. Leave(FALSE)
    BY <1>2 DEF CheckFits
  <2> QED BY <1>0, <2>2, <2>3, ExchangesLeaving
<1>3. CASE CheckSuppressed \/ CheckExhausted
  <2>1. UNCHANGED context /\ Leave(FALSE)
    BY <1>3 DEF CheckSuppressed, CheckExhausted
  <2>2. Sound(context')
    BY <1>1, <2>1
  <2> QED BY <1>0, <2>1, <2>2, ExchangesLeaving
<1>4. ASSUME NEW reason \in Recoveries \cup {"threshold", "silent"}, CheckCompacts(reason) PROVE Exchanges'
  <2>1. /\ context' = (IF reason \in Recoveries THEN WithoutAnswer ELSE context)
        /\ check' = [check EXCEPT !.for = reason, !.stage = "model"] /\ pc' = pc
    BY <1>4 DEF CheckCompacts
  <2>2. /\ Sound(WithoutAnswer)
        /\ EndsAnswered(context) => EndsAsked(WithoutAnswer)
    BY <1>1, AnswerTakenOut DEF WithoutAnswer
  <2>3. Sound(context') /\ (check.at # "prompt" /\ reason \in Recoveries => EndsAsked(context'))
    BY <1>1, <2>1, <2>2
  <2>4. check'.at = check.at /\ check'.for = reason /\ check'.stage = "model" /\ reason # "none"
    BY <1>0, <2>1 DEF BoundInv, CountsTyped, Recoveries
  <2>5. Placed'
    BY <1>0, <2>1, <2>3, <2>4 DEF Placed
  <2> QED BY <1>0, <1>1, <2>1, <2>3, <2>5, ComesToRest
<1> QED BY <1>2, <1>3, <1>4

LEMMA ExchangesCompacting ==
    ASSUME HistoryInv, PruneIsEnough \/ Summarize \/ StageFails \/ PruneAtEnd
    PROVE  Exchanges'
<1>0. /\ Exchanges /\ BoundInv /\ UNCHANGED <<pending, results>>
      /\ pc \in {"checking", "pruning"}
  BY DEF HistoryInv, PruneIsEnough, Summarize, StageFails, PruneAtEnd, Succeed, batch
<1>1. /\ Waits(pending) /\ Sound(context) /\ results = <<>> /\ Placed
  BY <1>0, AtRest
<1>2. CASE PruneIsEnough
  <2>1. /\ pc = "checking" /\ check.stage # "none"
        /\ (check.for \in Recoveries) \in BOOLEAN /\ Leave(check.for \in Recoveries)
    BY <1>2 DEF PruneIsEnough, Succeed
  <2>2. PICK remove \in Prunes : context' = Pruned(context, remove)
    BY <1>2 DEF PruneIsEnough
  <2>3. Sound(context') /\ (EndsAsked(context) => EndsAsked(context'))
    BY <1>1, <2>2, JudgedIs, PrunedSound
  <2>4. (check.for \in Recoveries) /\ check.at # "prompt" => EndsAsked(context')
    BY <1>1, <2>1, <2>3 DEF Placed
  <2> QED BY <1>0, <2>1, <2>3, <2>4, ExchangesLeaving
<1>3. CASE Summarize
  <2>1. /\ pc = "checking" /\ check.stage # "none"
        /\ (check.for \in Recoveries) \in BOOLEAN /\ Leave(check.for \in Recoveries)
    BY <1>3 DEF Summarize, Succeed
  <2>2. PICK remove \in Prunes : /\ Plan(Pruned(BodyOf(context), remove), Keep, AllKept) # 0
                                 /\ context' = Compacted(Pruned(BodyOf(context), remove), AllKept)
    BY <1>3 DEF Summarize, Body, BodyOf
  <2>3. AllKept \in Nat /\ AllKept \in {0, Len(context) + 1}
    <3>1. Len(context) \in Nat
      BY <1>1, LenProperties DEF Sound, Orderly
    <3> QED BY <3>1 DEF AllKept
  <2>4. Sound(context') /\ (EndsAsked(context) => EndsAsked(context'))
    BY <1>1, <2>2, <2>3, JudgedIs, SummarizedSound
  <2>5. (check.for \in Recoveries) /\ check.at # "prompt" => EndsAsked(context')
    BY <1>1, <2>1, <2>4 DEF Placed
  <2> QED BY <1>0, <2>1, <2>4, <2>5, ExchangesLeaving
<1>4. CASE StageFails
  <2>1. /\ pc = "checking" /\ check.stage # "none"
        /\ \/ Leave(FALSE)
           \/ NextStage # "none" /\ check' = [check EXCEPT !.stage = NextStage] /\ UNCHANGED pc
    BY <1>4 DEF StageFails
  <2>2. PICK remove \in Prunes : context' = Pruned(context, remove)
    BY <1>4 DEF StageFails
  <2>3. Sound(context') /\ (EndsAsked(context) => EndsAsked(context'))
    BY <1>1, <2>2, JudgedIs, PrunedSound
  <2>4. CASE Leave(FALSE)
    <3>1. FALSE \in BOOLEAN
      OBVIOUS
    <3> QED BY <1>0, <2>1, <2>3, <2>4, <3>1, ExchangesLeaving
  <2>5. CASE NextStage # "none" /\ check' = [check EXCEPT !.stage = NextStage] /\ UNCHANGED pc
    <3>1. check'.at = check.at /\ check'.for = check.for /\ check'.stage = NextStage
      BY <1>0, <2>5 DEF BoundInv, CountsTyped
    <3>2. check.for # "none"
      BY <1>1, <2>1 DEF Placed
    <3>3. Placed'
      BY <1>1, <2>1, <2>3, <2>5, <3>1, <3>2 DEF Placed
    <3> QED BY <1>0, <1>1, <2>3, <2>5, <3>3, ComesToRest
  <2> QED BY <2>1, <2>4, <2>5
<1>5. CASE PruneAtEnd
  <2>1. pc' = "ended"
    BY <1>5 DEF PruneAtEnd, Go
  <2>2. PICK remove \in MayPrune : context' = Pruned(context, remove)
    BY <1>5 DEF PruneAtEnd
  <2>3. Sound(context')
    BY <1>1, <2>2, JudgedIs, PrunedSound
  <2>4. Placed'
    BY <2>1 DEF Placed
  <2> QED BY <1>0, <1>1, <2>1, <2>3, <2>4, ComesToRest
<1> QED BY <1>2, <1>3, <1>4, <1>5

LEMMA InitExchanges == Init => Exchanges
<1> SUFFICES ASSUME Init PROVE Exchanges
  OBVIOUS
<1>1. pc = "arriving" /\ context \in Histories /\ pending = <<>> /\ results = <<>>
  BY DEF Init, LoopInit
<1>2. Sound(context)
  <2>1. Usable(context)
    BY <1>1, HistoriesAssumption
  <2>2. context \in Seq(Messages) /\ DOMAIN context = 1 .. Len(context)
    BY <2>1, LenProperties DEF Usable
  <2> QED BY <2>1, <2>2 DEF Usable, Sound, Orderly
<1>3. Placed
  BY <1>1 DEF Placed
<1> QED BY <1>1, <1>2, <1>3, NotesWait DEF Exchanges

LEMMA NextExchanges == HistoryInv /\ [Next]_vars => Exchanges'
<1> SUFFICES ASSUME HistoryInv, [Next]_vars PROVE Exchanges'
  OBVIOUS
<1>1. CASE Loop
  BY <1>1, ExchangesArriving, ExchangesAnswered, ExchangesWorking, ExchangesSettling, ExchangesChecking,
     ExchangesCompacting DEF Loop
<1>2. CASE ~Loop
  <2>1. UNCHANGED <<pc, context, pending, calls, results, check>>
    BY <1>2 DEF Next, Cancel, ClientActs, Ended, vars, loopVars, talk, batch, policy
  <2>2. Exchanges
    BY DEF HistoryInv
  <2> QED BY <2>1, <2>2 DEF Exchanges, Placed
<1> QED BY <1>1, <1>2


LEMMA HistoryInvariance == Spec => []HistoryInv
<1>1. Init => Exchanges
  BY InitExchanges
<1>2. Exchanges /\ (BoundInv /\ OthersTyped /\ PromptInv) /\ [Next]_vars => Exchanges'
  BY NextExchanges DEF HistoryInv
<1>3. Exchanges /\ (BoundInv /\ OthersTyped /\ PromptInv) => HistoryInv
  BY DEF HistoryInv
<1> QED BY <1>1, <1>2, <1>3, Invariance, PTL DEF Spec

\* Each request shows the model a history it can answer (RequestsAreAnswerable): whatever
\* was skipped, cut off, dropped for a prompt, pruned, summarized or taken out after a
\* failure, each call has its one result right behind it, in order, and the repair that
\* precedes a request finds nothing to do.
THEOREM RequestsStayAnswerable == Spec => []RequestsAreAnswerable
<1>1. HistoryInv => RequestsAreAnswerable
  <2> SUFFICES ASSUME HistoryInv, pc = "streaming"
               PROVE  Whole(Spoken(context)) /\ Sanitized(context) = Spoken(context) /\ ~IsAssistant(Last(context))
    BY DEF RequestsAreAnswerable
  <2>1. Orderly(context) /\ Answered(context) /\ EndsAsked(context) /\ context \in Seq(Messages)
    <3>1. Exchanges
      BY DEF HistoryInv
    <3>2. Sound(context) /\ EndsAsked(context)
      BY <3>1, AtRest DEF Placed
    <3> QED BY <3>2 DEF Sound, Orderly
  <2>2. Whole(Spoken(context))
    BY <2>1, AnsweredIsWhole
  <2>3. Sanitized(context) = Spoken(context)
    BY <2>1, AnsweredIsSanitized
  <2>4. ~IsAssistant(Last(context))
    BY <2>1 DEF EndsAsked, Last
  <2> QED BY <2>2, <2>3, <2>4
<1> QED BY <1>1, HistoryInvariance, PTL

\* A run that ends, at its limit, cancelled, on a failure or at rest, leaves a context
\* from which another run may start: what HistoriesAssumption asks of a history.
THEOREM HistoriesStayUsable == Spec => [](pc = "ended" => Usable(context))
<1>1. HistoryInv => (pc = "ended" => Usable(context))
  <2> SUFFICES ASSUME HistoryInv, pc = "ended" PROVE Usable(context)
    OBVIOUS
  <2>1. Sound(context)
    <3>1. Exchanges
      BY DEF HistoryInv
    <3> QED BY <3>1, AtRest
  <2>2. context \in Seq(Messages) /\ DOMAIN context = 1 .. Len(context)
    BY <2>1, LenProperties DEF Sound, Orderly
  <2> QED BY <2>1, <2>2 DEF Usable, Sound, Orderly
<1> QED BY <1>1, HistoryInvariance, PTL


-----------------------------------------------------------------------------
(* What the next run knows of what was said in this one.                     *)

Counted(m)    == IsUser(m) \/ m.stop \in {"stop", "thoughts"}
Brief(f)      == \A i \in 1 .. Len(f) : Counted(f[i]) => f[i].calls = <<>> /\ f[i].stop # "empty"
Recalls(c, f) == Summary \in EntriesOf(c) \/ \A i \in 1 .. Len(f) : Counted(f[i]) => f[i] \in EntriesOf(c)

\* Until the prompt is in the context, it is all that was said.
Before == pc \in {"arriving", "beginning"} \/ (pc = "checking" /\ check.at = "prompt")

Remembers ==
    /\ Brief(fresh)
    /\ IF Before THEN fresh = <<User(0)>> ELSE Recalls(context, fresh)

LEMMA JoinedEntries ==
    ASSUME NEW s \in Seq(Messages), NEW t \in Seq(Messages)
    PROVE  /\ EntriesOf(s \o t) = EntriesOf(s) \cup EntriesOf(t)
           /\ s \o t \in Seq(Messages)
<1>0. Len(s) \in Nat /\ Len(t) \in Nat
  BY LenProperties
<1> DEFINE r == s \o t
<1>1. /\ r \in Seq(Messages) /\ Len(r) = Len(s) + Len(t)
      /\ \A i \in 1 .. Len(s) + Len(t) : r[i] = IF i <= Len(s) THEN s[i] ELSE t[i - Len(s)]
  BY ConcatProperties
<1> HIDE DEF r
<1>2. ASSUME NEW i \in 1 .. Len(r) PROVE r[i] \in EntriesOf(s) \cup EntriesOf(t)
  <2>1. CASE i <= Len(s)
    <3>1. i \in 1 .. Len(s) /\ r[i] = s[i]
      BY <1>0, <1>1, <2>1
    <3> QED BY <3>1 DEF EntriesOf
  <2>2. CASE ~(i <= Len(s))
    <3>1. i - Len(s) \in 1 .. Len(t) /\ r[i] = t[i - Len(s)]
      BY <1>0, <1>1, <2>2
    <3> QED BY <3>1 DEF EntriesOf
  <2> QED BY <2>1, <2>2
<1>3. ASSUME NEW i \in 1 .. Len(s) PROVE s[i] \in EntriesOf(r)
  <2>1. i \in 1 .. Len(r) /\ i \in 1 .. Len(s) + Len(t) /\ i <= Len(s)
    BY <1>0, <1>1
  <2>2. r[i] = s[i]
    BY <1>1, <2>1
  <2> QED BY <2>1, <2>2 DEF EntriesOf
<1>4. ASSUME NEW i \in 1 .. Len(t) PROVE t[i] \in EntriesOf(r)
  <2>1. /\ Len(s) + i \in 1 .. Len(r) /\ Len(s) + i \in 1 .. Len(s) + Len(t)
        /\ ~(Len(s) + i <= Len(s)) /\ (Len(s) + i) - Len(s) = i
    BY <1>0, <1>1
  <2>2. r[Len(s) + i] = t[i]
    BY <1>1, <2>1
  <2> QED BY <2>1, <2>2 DEF EntriesOf
<1>5. EntriesOf(r) = EntriesOf(s) \cup EntriesOf(t)
  BY <1>2, <1>3, <1>4 DEF EntriesOf
<1> QED BY <1>1, <1>5 DEF r

\* The same of the entries instead of the places.
LEMMA ByEntries ==
    ASSUME NEW c, NEW f
    PROVE  /\ Brief(f) <=> \A m \in EntriesOf(f) : Counted(m) => m.calls = <<>> /\ m.stop # "empty"
           /\ Recalls(c, f) <=> \/ Summary \in EntriesOf(c)
                                \/ \A m \in EntriesOf(f) : Counted(m) => m \in EntriesOf(c)
<1>1. Brief(f) <=> \A m \in EntriesOf(f) : Counted(m) => m.calls = <<>> /\ m.stop # "empty"
  BY DEF Brief, EntriesOf
<1>2. (\A i \in 1 .. Len(f) : Counted(f[i]) => f[i] \in EntriesOf(c))
         <=> \A m \in EntriesOf(f) : Counted(m) => m \in EntriesOf(c)
  <2> DEFINE E == EntriesOf(c)
  <2> HIDE DEF E
  <2>1. (\A i \in 1 .. Len(f) : Counted(f[i]) => f[i] \in E) <=> \A m \in EntriesOf(f) : Counted(m) => m \in E
    BY DEF EntriesOf
  <2> QED BY <2>1 DEF E
<1> QED BY <1>1, <1>2 DEF Recalls

\* What is said is known.
LEMMA RecallsMore ==
    ASSUME NEW c \in Seq(Messages), NEW f \in Seq(Messages), Brief(f), Recalls(c, f),
           NEW t \in Seq(Messages), Brief(t)
    PROVE  Brief(f \o t) /\ Recalls(c \o t, f \o t)
<1>1. EntriesOf(c \o t) = EntriesOf(c) \cup EntriesOf(t) /\ EntriesOf(f \o t) = EntriesOf(f) \cup EntriesOf(t)
  BY JoinedEntries
<1>2. \A m \in EntriesOf(f) \cup EntriesOf(t) : Counted(m) => m.calls = <<>> /\ m.stop # "empty"
  BY ByEntries
<1>3. \/ Summary \in EntriesOf(c)
      \/ \A m \in EntriesOf(f) : Counted(m) => m \in EntriesOf(c)
  BY ByEntries
<1>4. Brief(f \o t)
  BY <1>1, <1>2, ByEntries
<1>5. Recalls(c \o t, f \o t)
  BY <1>1, <1>3, ByEntries
<1> QED BY <1>4, <1>5

\* What the judge may take is neither a text nor a prompt.
LEMMA RecallsPruned ==
    ASSUME NEW c \in Seq(Messages), NEW f, Brief(f), Recalls(c, f), NEW remove
    PROVE  Recalls(Pruned(c, remove), f)
<1> DEFINE r == Pruned(c, remove)
<1>1. Reduces(r, c, remove, Stays(c, remove))
  BY PrunedReduces
<1> HIDE DEF r
<1>2. ASSUME NEW m \in EntriesOf(c), m.calls = <<>>, m.stop # "empty" PROVE m \in EntriesOf(r)
  <2>1. PICK i \in 1 .. Len(c) : m = c[i]
    BY DEF EntriesOf
  <2>2. c[i].calls = <<>> /\ c[i].stop # "empty"
    BY <1>2, <2>1
  <2>3. i \in Stays(c, remove)
    BY <2>2 DEF Stays
  <2>4. c[i] \in EntriesOf(r)
    BY <1>1, <2>2, <2>3, ReducedMembers
  <2> QED BY <2>1, <2>4
<1>3. Summary.calls = <<>> /\ Summary.stop # "empty"
  BY DEF Summary, Message
<1>4. \A m \in EntriesOf(f) : Counted(m) => m.calls = <<>> /\ m.stop # "empty"
  BY ByEntries
<1>5. \/ Summary \in EntriesOf(c)
      \/ \A m \in EntriesOf(f) : Counted(m) => m \in EntriesOf(c)
  BY ByEntries
<1>6. \/ Summary \in EntriesOf(r)
      \/ \A m \in EntriesOf(f) : Counted(m) => m \in EntriesOf(r)
  BY <1>2, <1>3, <1>4, <1>5
<1> QED BY <1>6, ByEntries DEF r

LEMMA FrontEntries ==
    ASSUME NEW s \in Seq(Messages), s # <<>>
    PROVE  EntriesOf(s) = EntriesOf(Front(s)) \cup {s[Len(s)]}
<1>1. Len(s) \in Nat /\ Len(s) >= 1
  BY LenProperties, EmptySeq
<1> DEFINE t == Front(s)
<1>3. Len(t) = Len(s) - 1 /\ \A i \in 1 .. Len(s) - 1 : t[i] = s[i]
  BY FrontIs
<1> HIDE DEF t
<1>4. \A i : i \in 1 .. Len(s) <=> i \in 1 .. Len(t) \/ i = Len(s)
  BY <1>1, <1>3
<1>5. \A i \in 1 .. Len(t) : t[i] = s[i]
  BY <1>3
<1>6. EntriesOf(s) = EntriesOf(t) \cup {s[Len(s)]}
  BY <1>4, <1>5 DEF EntriesOf
<1> QED BY <1>6 DEF t

\* An answer is taken out of the report, and one that does not count out of the context.
LEMMA RecallsShorter ==
    ASSUME NEW c, NEW f \in Seq(Messages), f # <<>>, Brief(f), Recalls(c, f)
    PROVE  Brief(Front(f)) /\ Recalls(c, Front(f))
<1>1. \A m \in EntriesOf(f) : Counted(m) => m.calls = <<>> /\ m.stop # "empty"
  BY ByEntries
<1>2. \/ Summary \in EntriesOf(c)
      \/ \A m \in EntriesOf(f) : Counted(m) => m \in EntriesOf(c)
  BY ByEntries
<1>3. EntriesOf(Front(f)) \subseteq EntriesOf(f)
  BY FrontEntries
<1> QED BY <1>1, <1>2, <1>3, ByEntries

LEMMA RecallsLess ==
    ASSUME NEW c \in Seq(Messages), c # <<>>, c[Len(c)] # Summary, ~Counted(c[Len(c)]), NEW f, Recalls(c, f)
    PROVE  Recalls(Front(c), f)
<1>1. \/ Summary \in EntriesOf(c)
      \/ \A m \in EntriesOf(f) : Counted(m) => m \in EntriesOf(c)
  BY ByEntries
<1>2. EntriesOf(c) = EntriesOf(Front(c)) \cup {c[Len(c)]}
  BY FrontEntries
<1>3. \/ Summary \in EntriesOf(Front(c))
      \/ \A m \in EntriesOf(f) : Counted(m) => m \in EntriesOf(Front(c))
  BY <1>1, <1>2
<1> QED BY <1>3, ByEntries

\* What waits, an answer, and results.
LEMMA BriefParts ==
    /\ \A w : Waits(w) => Brief(w)
    /\ \A m \in Messages : (~Counted(m) \/ (m.calls = <<>> /\ m.stop # "empty")) => Brief(<<m>>)
    /\ \A rs : (\A k \in 1 .. Len(rs) : \E c : \E how \in Outcomes : rs[k] = Result(c, how)) => Brief(rs)
<1>1. ASSUME NEW w, Waits(w) PROVE Brief(w)
  BY <1>1 DEF Waits, Plain, Brief
<1>2. ASSUME NEW m \in Messages, ~Counted(m) \/ (m.calls = <<>> /\ m.stop # "empty") PROVE Brief(<<m>>)
  <2>1. Len(<<m>>) = 1 /\ <<m>>[1] = m /\ 1 .. 1 = {1}
    OBVIOUS
  <2> QED BY <1>2, <2>1 DEF Brief
<1>3. ASSUME NEW rs, \A k \in 1 .. Len(rs) : \E c : \E how \in Outcomes : rs[k] = Result(c, how) PROVE Brief(rs)
  <2>1. ASSUME NEW c, NEW how \in Outcomes PROVE ~Counted(Result(c, how))
    BY ResultIs DEF Counted
  <2> QED BY <1>3, <2>1 DEF Brief
<1> QED BY <1>1, <1>2, <1>3


RemembersInv == Remembers /\ HistoryInv

\* A step that says t.
LEMMA RemembersSaying ==
    ASSUME RemembersInv, ~Before, ~Before', NEW t \in Seq(Messages), Brief(t), Say(t)
    PROVE  Remembers'
<1>1. context \in Seq(Messages) /\ fresh \in Seq(Messages) /\ Brief(fresh) /\ Recalls(context, fresh)
  <2>1. fresh \in Seq(Messages) /\ Brief(fresh) /\ Recalls(context, fresh)
    BY DEF RemembersInv, Remembers, HistoryInv, PromptInv, SpeechTyped
  <2>2. context \in Seq(Messages)
    <3>1. CASE pc \in {"called", "executing"}
      <4>1. InCalls(context, results, calls)
        BY <3>1 DEF RemembersInv, HistoryInv, Exchanges
      <4>2. PICK h \in Seq(Messages), m \in Messages : context = h \o <<m>>
        BY <4>1 DEF InCalls
      <4>3. <<m>> \in Seq(Messages)
        OBVIOUS
      <4> QED BY <4>2, <4>3, ConcatProperties
    <3>2. CASE pc \notin {"called", "executing"}
      BY <3>2 DEF RemembersInv, HistoryInv, Exchanges, Sound, Orderly
    <3> QED BY <3>1, <3>2
  <2> QED BY <2>1, <2>2
<1>2. Brief(fresh \o t) /\ Recalls(context \o t, fresh \o t)
  BY <1>1, RecallsMore
<1>3. context' = context \o t /\ fresh' = fresh \o t
  BY DEF Say
<1> QED BY <1>2, <1>3 DEF Remembers

LEMMA RemembersQuiet ==
    ASSUME Remembers, UNCHANGED <<context, fresh>>, Before' <=> Before
    PROVE  Remembers'
BY DEF Remembers

LEMMA RemembersArriving ==
    ASSUME RemembersInv, Arrive \/ Begin \/ Open \/ LeaveCancelled \/ StopAtLimit \/ Ask
    PROVE  Remembers'
<1>0. Remembers /\ Exchanges
  BY DEF RemembersInv, HistoryInv
<1>1. CASE Arrive
  <2>1. /\ pc = "arriving" /\ UNCHANGED <<context, fresh>>
        /\ pc' = "beginning" \/ (pc' = "checking" /\ check' = [at |-> "prompt", for |-> "none", stage |-> "none"])
    BY <1>1 DEF Arrive, Go, CheckAt, NoCheck, talk
  <2>2. Before /\ Before'
    BY <2>1 DEF Before
  <2> QED BY <1>0, <2>1, <2>2, RemembersQuiet
<1>2. CASE Begin
  <2>1. pc = "beginning" /\ pc' = "opening" /\ UNCHANGED fresh /\ context' = Append(context, User(0))
    BY <1>2 DEF Begin, Go
  <2>2. fresh = <<User(0)>> /\ Brief(fresh) /\ ~Before'
    BY <1>0, <2>1 DEF Remembers, Before
  <2>3. EntriesOf(context') = EntriesOf(context) \cup EntriesOf(fresh)
    <3>1. context \in Seq(Messages) /\ User(0) \in Messages
      BY <1>0, <2>1, AtRest, MessagesTyped DEF Sound, Orderly
    <3>2. context' = context \o <<User(0)>> /\ <<User(0)>> \in Seq(Messages)
      BY <2>1, <3>1, AppendIsConcat
    <3> QED BY <2>2, <3>1, <3>2, JoinedEntries
  <2>4. Recalls(context', fresh)
    BY <2>3, ByEntries
  <2> QED BY <2>1, <2>2, <2>4 DEF Remembers
<1>3. CASE Open
  <2>1. pc = "opening" /\ pc' = "top" /\ UNCHANGED fresh
    BY <1>3 DEF Open, Go
  <2>2. PICK remove \in MayPrune : context' = Pruned(context, remove)
    BY <1>3 DEF Open
  <2>3. context \in Seq(Messages) /\ Brief(fresh) /\ Recalls(context, fresh)
    BY <1>0, <2>1, AtRest DEF Sound, Orderly, Remembers, Before
  <2>4. Recalls(context', fresh)
    BY <2>2, <2>3, RecallsPruned
  <2> QED BY <2>1, <2>3, <2>4 DEF Remembers, Before
<1>4. CASE LeaveCancelled
  <2>1. pc = "top" /\ pc' = "ended" /\ UNCHANGED <<context, fresh>>
    BY <1>4 DEF LeaveCancelled, Go, talk
  <2>2. ~Before /\ ~Before'
    BY <2>1 DEF Before
  <2> QED BY <1>0, <2>1, <2>2, RemembersQuiet
<1>5. CASE StopAtLimit
  <2>1. pc = "top" /\ pc' = "ended" /\ Say(Append(pending, Note))
    BY <1>5 DEF StopAtLimit, Go
  <2>2. pending \in Seq(Messages) /\ Note \in Messages /\ Waits(pending)
    BY <1>0, <2>1, AtRest, MessagesTyped DEF Waits
  <2>3. Append(pending, Note) = pending \o <<Note>> /\ Append(pending, Note) \in Seq(Messages)
    BY <2>2, AppendIsConcat, AppendProperties
  <2>4. Brief(Append(pending, Note))
    BY <2>2, <2>3, NotesWait, WaitsJoined, BriefParts
  <2>5. ~Before /\ ~Before'
    BY <2>1 DEF Before
  <2> QED BY <2>1, <2>3, <2>4, <2>5, RemembersSaying
<1>6. CASE Ask
  <2>1. pc = "top" /\ pc' = "streaming" /\ Say(pending)
    BY <1>6 DEF Ask, Go
  <2>2. pending \in Seq(Messages) /\ Brief(pending)
    BY <1>0, <2>1, AtRest, BriefParts DEF Waits
  <2>3. ~Before /\ ~Before'
    BY <2>1 DEF Before
  <2> QED BY <2>1, <2>2, <2>3, RemembersSaying
<1> QED BY <1>1, <1>2, <1>3, <1>4, <1>5, <1>6

LEMMA RemembersAnswered ==
    ASSUME RemembersInv,
           \/ \E stop \in Failures : AnswerFails(stop)
           \/ \E stop \in Texts : AnswerTalks(stop)
           \/ \E n \in 1 .. MaxCalls, stop \in {"calls", "length"} : AnswerCalls(n, stop)
    PROVE  Remembers'
<1>0. pc = "streaming" /\ requests \in Nat /\ ~Before
  BY DEF RemembersInv, HistoryInv, BoundInv, CountsTyped, AnswerFails, AnswerTalks, AnswerCalls, Before
<1> DEFINE Answer(m) == /\ Say(<<m>>) /\ IsAssistant(m)
                        /\ m.stop \in Failures \cup {"calls", "length"} \/ (m.calls = <<>> /\ m.stop \in Texts)
<1>1. \E m \in Messages : Answer(m)
  <2>1. ASSUME NEW n \in Nat, NEW stop \in Failures \cup {"calls", "length"},
               Say(<<Assistant(requests, CallsOf(n), stop)>>)
        PROVE  \E m \in Messages : Answer(m)
    <3> DEFINE m == Assistant(requests, CallsOf(n), stop)
    <3>1. m \in Messages
      BY <1>0, MessagesTyped, CallsTyped
    <3>2. IsAssistant(m) /\ m.stop = stop
      BY DEF Assistant, Message, IsAssistant
    <3>3. Say(<<m>>)
      BY <2>1
    <3> HIDE DEF m
    <3>4. Answer(m)
      BY <3>2, <3>3
    <3> QED BY <3>1, <3>4
  <2>2. ASSUME NEW stop \in Failures, AnswerFails(stop)
        PROVE  \E n \in Nat : Say(<<Assistant(requests, CallsOf(n), stop)>>)
    BY <2>2 DEF AnswerFails
  <2>3. ASSUME NEW stop \in Texts, AnswerTalks(stop) PROVE \E m \in Messages : Answer(m)
    <3> DEFINE m == Assistant(requests, <<>>, stop)
    <3>1. m \in Messages
      <4>1. <<>> \in Seq(Calls)
        OBVIOUS
      <4> QED BY <1>0, <4>1, MessagesTyped
    <3>2. IsAssistant(m) /\ m.stop = stop /\ m.calls = <<>>
      BY DEF Assistant, Message, IsAssistant
    <3>3. Say(<<m>>)
      BY <2>3 DEF AnswerTalks
    <3> HIDE DEF m
    <3>4. Answer(m)
      BY <3>2, <3>3
    <3> QED BY <3>1, <3>4
  <2>4. ASSUME NEW n \in 1 .. MaxCalls, NEW stop \in {"calls", "length"}, AnswerCalls(n, stop)
        PROVE  n \in Nat /\ Say(<<Assistant(requests, CallsOf(n), stop)>>)
    BY <2>4, LoopAssumption DEF AnswerCalls
  <2> HIDE DEF Answer
  <2>5. ASSUME NEW stop \in Failures, AnswerFails(stop) PROVE \E m \in Messages : Answer(m)
    <3>1. PICK n \in Nat : Say(<<Assistant(requests, CallsOf(n), stop)>>)
      BY <2>2, <2>5
    <3> QED BY <2>1, <3>1
  <2>6. ASSUME NEW n \in 1 .. MaxCalls, NEW stop \in {"calls", "length"}, AnswerCalls(n, stop)
        PROVE  \E m \in Messages : Answer(m)
    BY <2>1, <2>4, <2>6
  <2> QED BY <2>3, <2>5, <2>6
<1>6. PICK m \in Messages : Answer(m)
  BY <1>1
<1>2. pc' \in {"ended", "settling", "called"} \/ (pc' = "checking" /\ check'.at = "failed")
  <2>1. CheckAt("failed") => pc' = "checking" /\ check'.at = "failed"
    BY DEF CheckAt, NoCheck
  <2> QED BY <2>1 DEF AnswerFails, AnswerTalks, AnswerCalls, Go
<1>3. ~Counted(m) \/ (m.calls = <<>> /\ m.stop # "empty")
  BY <1>6 DEF Counted, IsUser, IsAssistant, Failures, Texts
<1>4. Brief(<<m>>) /\ <<m>> \in Seq(Messages)
  BY <1>3, BriefParts
<1>5. ~Before'
  BY <1>2 DEF Before
<1> QED BY <1>0, <1>6, <1>4, <1>5, RemembersSaying

LEMMA RemembersWorking ==
    ASSUME RemembersInv, SkipRepeated \/ Accept \/ Execute \/ Executed \/ Steer \/ Nudge \/ FollowUp
    PROVE  Remembers'
<1>0. Remembers /\ Exchanges /\ calls \in Seq(Calls) /\ results \in Seq(Messages)
  BY DEF RemembersInv, HistoryInv, PromptInv, SpeechTyped
<1>1. CASE SkipRepeated
  <2>1. pc = "called" /\ pc' = "top" /\ Say(Every(calls, "skipped")) /\ "skipped" \in Outcomes
    BY <1>1 DEF SkipRepeated, Go, Skipped, Outcomes
  <2>2. /\ Every(calls, "skipped") \in Seq(Messages) /\ Len(Every(calls, "skipped")) = Len(calls)
        /\ \A k \in 1 .. Len(calls) : Every(calls, "skipped")[k] = Result(calls[k], "skipped")
    BY <1>0, <2>1, EveryIs
  <2>3. Brief(Every(calls, "skipped"))
    BY <2>1, <2>2, BriefParts
  <2>4. ~Before /\ ~Before'
    BY <2>1 DEF Before
  <2> QED BY <2>1, <2>2, <2>3, <2>4, RemembersSaying
<1>2. CASE Accept \/ Execute
  <2>1. /\ pc \in {"called", "executing"} /\ pc' \in {"called", "executing"} /\ UNCHANGED <<context, fresh>>
    BY <1>2 DEF Accept, Execute, Go, talk
  <2>2. ~Before /\ ~Before'
    BY <2>1 DEF Before
  <2> QED BY <1>0, <2>1, <2>2, RemembersQuiet
<1>3. CASE Executed
  <2>1. pc = "executing" /\ pc' = "settling" /\ Say(results)
    BY <1>3 DEF Executed, Go
  <2>2. \A k \in 1 .. Len(results) : \E c : \E how \in Outcomes : results[k] = Result(c, how)
    <3>1. InCalls(context, results, calls)
      BY <1>0, <2>1 DEF Exchanges
    <3>2. PICK m \in Messages : Progress(m.calls, results, calls)
      BY <3>1 DEF InCalls
    <3> QED BY <3>2 DEF Progress
  <2>3. Brief(results)
    BY <2>2, BriefParts
  <2>4. ~Before /\ ~Before'
    BY <2>1 DEF Before
  <2> QED BY <1>0, <2>1, <2>3, <2>4, RemembersSaying
<1>4. CASE Steer \/ Nudge \/ FollowUp
  <2>1. /\ pc = "settling" /\ UNCHANGED <<context, fresh>>
        /\ pc' = "top" \/ (pc' = "checking" /\ check' = [at |-> "end", for |-> "none", stage |-> "none"])
    BY <1>4 DEF Steer, Nudge, FollowUp, Idle, Go, CheckAt, NoCheck
  <2>2. ~Before /\ ~Before'
    BY <2>1 DEF Before
  <2> QED BY <1>0, <2>1, <2>2, RemembersQuiet
<1> QED BY <1>1, <1>2, <1>3, <1>4


LEMMA RemembersLeaving ==
    ASSUME RemembersInv, pc = "checking", NEW retry \in BOOLEAN, Leave(retry),
           check.at # "prompt" => Recalls(context', fresh)
    PROVE  Remembers'
<1>0. Remembers /\ Brief(fresh) /\ fresh \in Seq(Messages) /\ (check.at # "prompt" => fresh # <<>>)
  BY DEF RemembersInv, Remembers, HistoryInv, PromptInv, SpeechTyped, QuietEnd, EndsQuietly
<1>1. CASE check.at = "prompt"
  <2>1. pc' = "beginning" /\ UNCHANGED fresh
    BY <1>1 DEF Leave
  <2>2. fresh = <<User(0)>>
    BY <1>0, <1>1 DEF Remembers, Before
  <2> QED BY <1>0, <2>1, <2>2 DEF Remembers, Before
<1>2. CASE check.at # "prompt"
  <2>1. pc' \in {"top", "pruning", "ended"} /\ fresh' \in {fresh, Front(fresh)}
    BY <1>2 DEF Leave
  <2>2. Brief(fresh') /\ Recalls(context', fresh')
    <3>1. Brief(Front(fresh)) /\ Recalls(context', Front(fresh))
      BY <1>0, <1>2, RecallsShorter
    <3> QED BY <1>0, <1>2, <2>1, <3>1
  <2>3. ~Before'
    BY <2>1 DEF Before
  <2> QED BY <2>2, <2>3 DEF Remembers
<1> QED BY <1>1, <1>2

\* The answer that a check takes out of the context is the one it looked at.
LEMMA PoppedIsNone ==
    ASSUME context \in Seq(Messages), context # <<>>, IsAssistant(Last(context)),
           NEW reason \in Verdicts, reason \in Recoveries
    PROVE  ~Counted(context[Len(context)]) /\ context[Len(context)] # Summary
<1>1. Len(context) \in Nat /\ Len(context) \in 1 .. Len(context) /\ DOMAIN context = 1 .. Len(context)
  BY LenProperties, EmptySeq
<1>2. Last(context) = context[Len(context)]
  BY DEF Last
<1>3. Len(context) \in Answers /\ Answers \subseteq 0 .. Len(context) /\ Answers # {}
  BY <1>1, <1>2 DEF Answers
<1>4. Max(Answers) \in Answers /\ \A y \in Answers : y <= Max(Answers)
  BY <1>1, <1>3, MaxIs
<1>5. Max(Answers) = Len(context)
  <2>1. Max(Answers) \in 0 .. Len(context) /\ Len(context) <= Max(Answers)
    BY <1>3, <1>4
  <2> QED BY <1>1, <2>1
<1> DEFINE m == context[Len(context)]
<1>6. Checked = m
  BY <1>5 DEF Checked
<1>7. m.stop \in {"overflow", "empty", "refused"}
  BY <1>6 DEF Verdicts, Recoveries
<1>8. IsAssistant(m)
  BY <1>2
<1> HIDE DEF m
<1>9. ~Counted(m)
  BY <1>7, <1>8 DEF Counted, IsUser, IsAssistant
<1>10. m # Summary
  BY <1>8 DEF IsAssistant, Summary, Message
<1> QED BY <1>9, <1>10 DEF m

LEMMA RemembersChecking ==
    ASSUME RemembersInv,
           \/ CheckFits \/ CheckSuppressed \/ CheckExhausted
           \/ \E reason \in Recoveries \cup {"threshold", "silent"} : CheckCompacts(reason)
    PROVE  Remembers'
<1>0. /\ Remembers /\ Exchanges /\ BoundInv /\ pc = "checking" /\ check.for = "none" /\ FALSE \in BOOLEAN
  BY DEF RemembersInv, HistoryInv, CheckFits, CheckSuppressed, CheckExhausted, CheckCompacts
<1>1. /\ context \in Seq(Messages) /\ context # <<>> /\ Brief(fresh)
      /\ check.at # "prompt" => Recalls(context, fresh)
      /\ check.at = "prompt" => fresh = <<User(0)>>
  BY <1>0, AtRest DEF Sound, Orderly, Placed, Remembers, Before
<1>2. CASE CheckFits
  <2>1. PICK remove \in MayPrune : context' = Pruned(context, remove)
    BY <1>2 DEF CheckFits
  <2>2. check.at # "prompt" => Recalls(context', fresh)
    BY <1>1, <2>1, RecallsPruned
  <2>3. Leave(FALSE)
    BY <1>2 DEF CheckFits
  <2> QED BY <1>0, <2>2, <2>3, RemembersLeaving
<1>3. CASE CheckSuppressed \/ CheckExhausted
  <2>1. UNCHANGED context /\ Leave(FALSE)
    BY <1>3 DEF CheckSuppressed, CheckExhausted
  <2>2. check.at # "prompt" => Recalls(context', fresh)
    BY <1>1, <2>1
  <2> QED BY <1>0, <2>1, <2>2, RemembersLeaving
<1>4. ASSUME NEW reason \in Recoveries \cup {"threshold", "silent"}, CheckCompacts(reason) PROVE Remembers'
  <2>1. /\ context' = (IF reason \in Recoveries THEN WithoutAnswer ELSE context)
        /\ check' = [check EXCEPT !.for = reason, !.stage = "model"] /\ UNCHANGED <<pc, fresh>>
        /\ reason \in Verdicts
    BY <1>4 DEF CheckCompacts
  <2>2. check'.at = check.at
    BY <1>0, <2>1 DEF BoundInv, CountsTyped
  <2>3. CASE check.at = "prompt"
    BY <1>0, <1>1, <2>1, <2>2, <2>3 DEF Remembers, Before
  <2>4. CASE check.at # "prompt"
    <3>1. CASE reason \in Recoveries /\ IsAssistant(Last(context))
      <4>1. context' = Front(context)
        BY <2>1, <3>1 DEF WithoutAnswer
      <4>2. ~Counted(context[Len(context)]) /\ context[Len(context)] # Summary
        BY <1>1, <2>1, <3>1, PoppedIsNone
      <4>3. Recalls(Front(context), fresh)
        BY <1>1, <2>4, <4>2, RecallsLess
      <4> QED BY <1>0, <1>1, <2>1, <2>2, <2>4, <4>1, <4>3 DEF Remembers, Before
    <3>2. CASE ~(reason \in Recoveries /\ IsAssistant(Last(context)))
      <4>1. context' = context
        BY <2>1, <3>2 DEF WithoutAnswer
      <4> QED BY <1>0, <1>1, <2>1, <2>2, <2>4, <4>1 DEF Remembers, Before
    <3> QED BY <3>1, <3>2
  <2> QED BY <2>3, <2>4
<1> QED BY <1>2, <1>3, <1>4

LEMMA RemembersCompacting ==
    ASSUME RemembersInv, PruneIsEnough \/ Summarize \/ StageFails \/ PruneAtEnd
    PROVE  Remembers'
<1>0. /\ Remembers /\ Exchanges /\ BoundInv /\ pc \in {"checking", "pruning"} /\ FALSE \in BOOLEAN
  BY DEF RemembersInv, HistoryInv, PruneIsEnough, Summarize, StageFails, PruneAtEnd
<1>1. /\ context \in Seq(Messages) /\ Sound(context) /\ Brief(fresh)
      /\ IF Before THEN fresh = <<User(0)>> ELSE Recalls(context, fresh)
  BY <1>0, AtRest DEF Sound, Orderly, Remembers
<1>2. ASSUME NEW remove, ~Before PROVE Recalls(Pruned(context, remove), fresh)
  BY <1>1, <1>2, RecallsPruned
<1>3. CASE PruneIsEnough
  <2>1. /\ pc = "checking" /\ \E remove : context' = Pruned(context, remove)
        /\ (check.for \in Recoveries) \in BOOLEAN /\ Leave(check.for \in Recoveries)
    BY <1>3 DEF PruneIsEnough, Succeed
  <2>2. check.at # "prompt" => Recalls(context', fresh)
    BY <1>2, <2>1 DEF Before
  <2> QED BY <2>1, <2>2, RemembersLeaving
<1>4. CASE Summarize
  <2>1. /\ pc = "checking"
        /\ (check.for \in Recoveries) \in BOOLEAN /\ Leave(check.for \in Recoveries)
    BY <1>4 DEF Summarize, Succeed
  <2>2. PICK remove \in Prunes : /\ Plan(Pruned(BodyOf(context), remove), Keep, AllKept) # 0
                                 /\ context' = Compacted(Pruned(BodyOf(context), remove), AllKept)
    BY <1>4 DEF Summarize, Body, BodyOf
  <2>3. AllKept \in Nat /\ AllKept \in {0, Len(context) + 1}
    <3>1. Len(context) \in Nat
      BY <1>1, LenProperties
    <3> QED BY <3>1 DEF AllKept
  <2>4. Summary \in EntriesOf(context')
    BY <1>1, <2>2, <2>3, JudgedIs, SummarizedSound
  <2>5. Recalls(context', fresh)
    BY <2>4 DEF Recalls
  <2> QED BY <2>1, <2>5, RemembersLeaving
<1>5. CASE StageFails
  <2>1. /\ pc = "checking" /\ \E remove : context' = Pruned(context, remove)
        /\ \/ Leave(FALSE)
           \/ check' = [check EXCEPT !.stage = NextStage] /\ UNCHANGED <<pc, fresh>>
    BY <1>5 DEF StageFails
  <2>2. check.at # "prompt" => Recalls(context', fresh)
    BY <1>2, <2>1 DEF Before
  <2>3. CASE Leave(FALSE)
    BY <1>0, <2>1, <2>2, <2>3, RemembersLeaving
  <2>4. CASE check' = [check EXCEPT !.stage = NextStage] /\ UNCHANGED <<pc, fresh>>
    <3>1. check'.at = check.at
      BY <1>0, <2>4 DEF BoundInv, CountsTyped
    <3> QED BY <1>1, <2>1, <2>2, <2>4, <3>1 DEF Remembers, Before
  <2> QED BY <2>1, <2>3, <2>4
<1>6. CASE PruneAtEnd
  <2>1. pc = "pruning" /\ pc' = "ended" /\ UNCHANGED fresh /\ \E remove : context' = Pruned(context, remove)
    BY <1>6 DEF PruneAtEnd, Go
  <2>2. ~Before /\ ~Before'
    BY <2>1 DEF Before
  <2>3. Recalls(context', fresh)
    BY <1>2, <2>1, <2>2
  <2> QED BY <1>1, <2>1, <2>2, <2>3 DEF Remembers
<1> QED BY <1>3, <1>4, <1>5, <1>6

LEMMA NextRemembers == RemembersInv /\ [Next]_vars => Remembers'
<1> SUFFICES ASSUME RemembersInv, [Next]_vars PROVE Remembers'
  OBVIOUS
<1>1. CASE Loop
  BY <1>1, RemembersArriving, RemembersAnswered, RemembersWorking, RemembersChecking, RemembersCompacting DEF Loop
<1>2. CASE ~Loop
  <2>1. UNCHANGED <<pc, context, fresh, check>>
    BY <1>2 DEF Next, Cancel, ClientActs, Ended, vars, loopVars, talk, policy
  <2>2. Remembers
    BY DEF RemembersInv
  <2>3. Before' <=> Before
    BY <2>1 DEF Before
  <2> QED BY <2>1, <2>2, <2>3, RemembersQuiet
<1> QED BY <1>1, <1>2

\* What was said in a run, a prompt, a note or a finished answer, is in the context that the
\* next run starts from, or a summary is (NothingIsForgotten): the check takes only failed
\* answers out, and the judge only calls.
THEOREM NothingGetsForgotten == Spec => []NothingIsForgotten
<1>1. Init => Remembers
  <2> SUFFICES ASSUME Init PROVE Remembers
    OBVIOUS
  <2>1. pc = "arriving" /\ fresh = <<User(0)>>
    BY DEF Init, LoopInit
  <2>2. Brief(<<User(0)>>)
    BY NotesWait, BriefParts
  <2> QED BY <2>1, <2>2 DEF Remembers, Before
<1>2. Remembers /\ HistoryInv /\ [Next]_vars => Remembers'
  BY NextRemembers DEF RemembersInv
<1>3. Remembers /\ HistoryInv => NothingIsForgotten
  <2> SUFFICES ASSUME Remembers, HistoryInv PROVE NothingIsForgotten
    OBVIOUS
  <2>1. fresh \in Seq(Messages) /\ DOMAIN fresh = 1 .. Len(fresh)
    BY LenProperties DEF HistoryInv, PromptInv, SpeechTyped
  <2>2. CASE Before
    <3>1. requests = 0
      BY <2>2 DEF HistoryInv, BoundInv, Budget, AtPrompt, Before
    <3>2. fresh = <<User(0)>>
      BY <2>2 DEF Remembers
    <3>3. \A i \in DOMAIN fresh : i = 1
      BY <3>2
    <3> QED BY <3>1, <3>3 DEF NothingIsForgotten
  <2>3. CASE ~Before
    <3>1. EntriesOf(context) = ToSet(context)
      <4>1. context \in Seq(Messages)
        <5>1. CASE pc \in {"called", "executing"}
          <6>1. InCalls(context, results, calls)
            BY <5>1 DEF HistoryInv, Exchanges
          <6>2. PICK h \in Seq(Messages), m \in Messages : context = h \o <<m>>
            BY <6>1 DEF InCalls
          <6>3. <<m>> \in Seq(Messages)
            OBVIOUS
          <6> QED BY <6>2, <6>3, ConcatProperties
        <5>2. CASE pc \notin {"called", "executing"}
          BY <5>2 DEF HistoryInv, Exchanges, Sound, Orderly
        <5> QED BY <5>1, <5>2
      <4>2. DOMAIN context = 1 .. Len(context)
        BY <4>1, LenProperties
      <4> QED BY <4>2 DEF EntriesOf, ToSet
    <3>2. Summary \in EntriesOf(context) \/ \A i \in 1 .. Len(fresh) : Counted(fresh[i]) => fresh[i] \in EntriesOf(context)
      BY <2>3 DEF Remembers, Recalls
    <3> QED BY <2>1, <3>1, <3>2 DEF NothingIsForgotten, Counted
  <2> QED BY <2>2, <2>3
<1> QED BY <1>1, <1>2, <1>3, HistoryInvariance, PTL DEF Spec
-----------------------------------------------------------------------------
(* Histories that a crash, or a cut made by a former release, has torn.      *)
(* Every request shows the repaired history, so whatever it was before, each *)
(* call has its one result.                                                  *)

Sent == Messages \cup {Result(c, "missing") : c \in Calls}

\* What may stand between a call and its result.
Inside(m) == IsResult(m) \/ m.role = "extension"
Follow(r, i, j) == \A k \in i + 1 .. j : Inside(r[k])
Clean(m) == ~HasFailed(m) /\ (IsAssistant(m) => m.calls \in Seq(Calls) /\ IsInjective(m.calls))

Replied(r, i, c) == \E j \in i + 1 .. Len(r) : Follow(r, i, j) /\ IsResult(r[j]) /\ CallOf(r[j]) = c
Owned(r, j) ==
    \E i \in 1 .. j - 1 :
        /\ IsAssistant(r[i]) /\ Follow(r, i, j)
        /\ \E k \in 1 .. Len(r[i].calls) : r[i].calls[k] = CallOf(r[j])
Apart(r, i, j) == IsResult(r[i]) /\ IsResult(r[j]) /\ Follow(r, i, j) => CallOf(r[i]) # CallOf(r[j])

\* Every call has its result in its exchange, every result its call, and no two
\* results of an exchange are of the same call.
EachHasOne(r) ==
    /\ r \in Seq(Sent)
    /\ \A i \in 1 .. Len(r) : Clean(r[i])
    /\ \A i \in 1 .. Len(r) : IsAssistant(r[i]) =>
          \A k \in 1 .. Len(r[i].calls) : Replied(r, i, r[i].calls[k])
    /\ \A j \in 1 .. Len(r) : IsResult(r[j]) => Owned(r, j)
    /\ \A i, j \in 1 .. Len(r) : i < j => Apart(r, i, j)

\* The same while the calls u of the last answer, whose calls are p, wait.
AllBut(r, p, u) ==
    /\ r \in Seq(Sent) /\ p \in Seq(Calls) /\ u \in SUBSET Calls
    /\ IsInjective(p) /\ \A c \in u : \E k \in 1 .. Len(p) : p[k] = c
    /\ u # {} => \E i \in 1 .. Len(r) : IsAssistant(r[i]) /\ r[i].calls = p /\ Follow(r, i, Len(r))
    /\ \A j \in 1 .. Len(r) : IsResult(r[j]) /\ Follow(r, j, Len(r)) => CallOf(r[j]) \notin u
    /\ \A i \in 1 .. Len(r) : Clean(r[i])
    /\ \A i \in 1 .. Len(r) : IsAssistant(r[i]) =>
          \A k \in 1 .. Len(r[i].calls) :
             Replied(r, i, r[i].calls[k]) \/ (r[i].calls[k] \in u /\ Follow(r, i, Len(r)))
    /\ \A j \in 1 .. Len(r) : IsResult(r[j]) => Owned(r, j)
    /\ \A i, j \in 1 .. Len(r) : i < j => Apart(r, i, j)

LEMMA FollowOn ==
    ASSUME NEW r \in Seq(Sent), NEW m \in Sent
    PROVE  LET t == Append(r, m) IN
           /\ t \in Seq(Sent) /\ Len(t) = Len(r) + 1 /\ Len(r) \in Nat
           /\ \A k \in 1 .. Len(r) : t[k] = r[k]
           /\ t[Len(r) + 1] = m
           /\ \A i, j \in 1 .. Len(r) : Follow(t, i, j) <=> Follow(r, i, j)
           /\ \A i \in 1 .. Len(r) : Follow(t, i, Len(r) + 1) <=> Follow(r, i, Len(r)) /\ Inside(m)
<1> DEFINE t == Append(r, m)
<1>1. /\ t \in Seq(Sent) /\ Len(t) = Len(r) + 1 /\ Len(r) \in Nat
      /\ \A k \in 1 .. Len(r) : t[k] = r[k]
      /\ t[Len(r) + 1] = m
  BY AppendProperties, LenProperties
<1> HIDE DEF t
<1>2. ASSUME NEW i \in 1 .. Len(r), NEW j \in 1 .. Len(r) PROVE Follow(t, i, j) <=> Follow(r, i, j)
  <2>1. \A k \in i + 1 .. j : k \in 1 .. Len(r)
    BY <1>1
  <2>2. \A k \in i + 1 .. j : t[k] = r[k]
    BY <1>1, <2>1
  <2> QED BY <2>2 DEF Follow
<1>3. ASSUME NEW i \in 1 .. Len(r)
      PROVE  Follow(t, i, Len(r) + 1) <=> Follow(r, i, Len(r)) /\ Inside(m)
  <2>1. \A k \in i + 1 .. Len(r) : k \in 1 .. Len(r)
    BY <1>1
  <2>2. \A k \in i + 1 .. Len(r) : t[k] = r[k]
    BY <1>1, <2>1
  <2>3. i + 1 .. Len(r) + 1 = (i + 1 .. Len(r)) \cup {Len(r) + 1}
    BY <1>1
  <2> QED BY <1>1, <2>2, <2>3 DEF Follow
<1> QED BY <1>1, <1>2, <1>3 DEF t

\* What was said of r stays true of a longer one.
LEMMA OwnedOn ==
    ASSUME NEW r \in Seq(Sent), NEW m \in Sent, NEW j \in 1 .. Len(r), Owned(r, j)
    PROVE  Owned(Append(r, m), j)
<1> DEFINE t == Append(r, m)
<1>1. PICK i \in 1 .. j - 1 : /\ IsAssistant(r[i]) /\ Follow(r, i, j)
                              /\ \E k \in 1 .. Len(r[i].calls) : r[i].calls[k] = CallOf(r[j])
  BY DEF Owned
<1>2. i \in 1 .. Len(r)
  BY LenProperties
<1>3. t[i] = r[i] /\ t[j] = r[j] /\ Follow(t, i, j)
  BY <1>1, <1>2, FollowOn
<1> HIDE DEF t
<1>4. Owned(t, j)
  BY <1>1, <1>3 DEF Owned
<1> QED BY <1>4 DEF t

LEMMA RepliedOn ==
    ASSUME NEW r \in Seq(Sent), NEW m \in Sent, NEW i \in 1 .. Len(r), NEW c, Replied(r, i, c)
    PROVE  Replied(Append(r, m), i, c)
<1> DEFINE t == Append(r, m)
<1>1. PICK j \in i + 1 .. Len(r) : Follow(r, i, j) /\ IsResult(r[j]) /\ CallOf(r[j]) = c
  BY DEF Replied
<1>2. j \in 1 .. Len(r) /\ Len(r) \in Nat
  BY LenProperties
<1>3. t[j] = r[j] /\ Follow(t, i, j) /\ Len(t) = Len(r) + 1
  BY <1>1, <1>2, FollowOn
<1>4. j \in i + 1 .. Len(t)
  BY <1>2, <1>3
<1> HIDE DEF t
<1>5. Replied(t, i, c)
  BY <1>1, <1>3, <1>4 DEF Replied
<1> QED BY <1>5 DEF t

LEMMA ApartOn ==
    ASSUME NEW r \in Seq(Sent), NEW m \in Sent, NEW i \in 1 .. Len(r), NEW j \in 1 .. Len(r), Apart(r, i, j)
    PROVE  Apart(Append(r, m), i, j)
<1> DEFINE t == Append(r, m)
<1>1. t[i] = r[i] /\ t[j] = r[j] /\ (Follow(t, i, j) <=> Follow(r, i, j))
  BY FollowOn
<1> HIDE DEF t
<1>2. Apart(t, i, j)
  BY <1>1 DEF Apart
<1> QED BY <1>2 DEF t


\* A prompt, or what only the user sees, comes in.
LEMMA OtherComes ==
    ASSUME NEW r, NEW p, NEW u, AllBut(r, p, u), NEW m \in Sent,
           ~IsResult(m), ~IsAssistant(m), Inside(m) \/ u = {}
    PROVE  AllBut(Append(r, m), p, u)
<1> DEFINE t == Append(r, m)
           n == Len(r)
<1>0. r \in Seq(Sent)
  BY DEF AllBut
<1>1. /\ t \in Seq(Sent) /\ Len(t) = n + 1 /\ n \in Nat
      /\ \A k \in 1 .. n : t[k] = r[k]
      /\ t[n + 1] = m
      /\ \A i, j \in 1 .. n : Follow(t, i, j) <=> Follow(r, i, j)
      /\ \A i \in 1 .. n : Follow(t, i, n + 1) <=> Follow(r, i, n) /\ Inside(m)
  BY <1>0, FollowOn
<1>2. \A i \in 1 .. Len(t) : i \in 1 .. n \/ i = n + 1
  BY <1>1
<1>3. \A i \in 1 .. n : i \in 1 .. Len(t)
  BY <1>1
<1>4. \A j \in 1 .. n : Owned(r, j) => Owned(t, j)
  BY <1>0, OwnedOn
<1>5. \A i \in 1 .. n : \A c : Replied(r, i, c) => Replied(t, i, c)
  BY <1>0, RepliedOn
<1>6. \A i, j \in 1 .. n : Apart(r, i, j) => Apart(t, i, j)
  BY <1>0, ApartOn
<1> HIDE DEF t, n
<1>7. u # {} => \E i \in 1 .. Len(t) : IsAssistant(t[i]) /\ t[i].calls = p /\ Follow(t, i, Len(t))
  <2> SUFFICES ASSUME u # {} PROVE \E i \in 1 .. Len(t) : IsAssistant(t[i]) /\ t[i].calls = p /\ Follow(t, i, Len(t))
    OBVIOUS
  <2>1. PICK i \in 1 .. n : IsAssistant(r[i]) /\ r[i].calls = p /\ Follow(r, i, n)
    BY DEF AllBut, n
  <2>2. i \in 1 .. Len(t) /\ t[i] = r[i] /\ Follow(t, i, Len(t))
    BY <1>1, <1>3, <2>1
  <2> QED BY <2>1, <2>2
<1>8. ASSUME NEW j \in 1 .. Len(t), IsResult(t[j]), Follow(t, j, Len(t)) PROVE CallOf(t[j]) \notin u
  <2>1. CASE j = n + 1
    BY <1>1, <1>8, <2>1
  <2>2. CASE j \in 1 .. n
    <3>1. t[j] = r[j] /\ Follow(r, j, n)
      BY <1>1, <1>8, <2>2
    <3> QED BY <1>8, <2>2, <3>1 DEF AllBut, n
  <2> QED BY <1>2, <2>1, <2>2
<1>9. ASSUME NEW i \in 1 .. Len(t) PROVE Clean(t[i])
  <2>1. CASE i = n + 1
    BY <1>1, <2>1 DEF Clean, HasFailed
  <2>2. CASE i \in 1 .. n
    BY <1>1, <2>2 DEF AllBut, n
  <2> QED BY <1>2, <2>1, <2>2
<1>10. ASSUME NEW i \in 1 .. Len(t), IsAssistant(t[i]), NEW k \in 1 .. Len(t[i].calls)
       PROVE  Replied(t, i, t[i].calls[k]) \/ (t[i].calls[k] \in u /\ Follow(t, i, Len(t)))
  <2>1. i \in 1 .. n /\ t[i] = r[i]
    BY <1>1, <1>2, <1>10
  <2>2. Replied(r, i, r[i].calls[k]) \/ (r[i].calls[k] \in u /\ Follow(r, i, n))
    BY <1>10, <2>1 DEF AllBut, n
  <2>3. CASE Replied(r, i, r[i].calls[k])
    BY <1>5, <2>1, <2>3
  <2>4. CASE r[i].calls[k] \in u /\ Follow(r, i, n)
    <3>1. Inside(m)
      BY <2>4
    <3>2. Follow(t, i, Len(t))
      BY <1>1, <2>1, <2>4, <3>1
    <3> QED BY <2>1, <2>4, <3>2
  <2> QED BY <2>2, <2>3, <2>4
<1>11. ASSUME NEW j \in 1 .. Len(t), IsResult(t[j]) PROVE Owned(t, j)
  <2>1. j \in 1 .. n /\ t[j] = r[j]
    BY <1>1, <1>2, <1>11
  <2>2. Owned(r, j)
    BY <1>11, <2>1 DEF AllBut, n
  <2> QED BY <1>4, <2>1, <2>2
<1>12. ASSUME NEW i \in 1 .. Len(t), NEW j \in 1 .. Len(t), i < j PROVE Apart(t, i, j)
  <2>1. CASE j = n + 1
    BY <1>1, <2>1 DEF Apart
  <2>2. CASE j \in 1 .. n
    <3>1. i \in 1 .. n
      BY <1>1, <1>12, <2>2
    <3>2. Apart(r, i, j)
      BY <1>12, <2>2, <3>1 DEF AllBut, n
    <3> QED BY <1>6, <2>2, <3>1, <3>2
  <2> QED BY <1>2, <2>1, <2>2
<1>13. AllBut(t, p, u)
  <2>1. p \in Seq(Calls) /\ u \in SUBSET Calls /\ IsInjective(p) /\ \A c \in u : \E k \in 1 .. Len(p) : p[k] = c
    BY DEF AllBut
  <2> QED BY <1>1, <1>7, <1>8, <1>9, <1>10, <1>11, <1>12, <2>1 DEF AllBut
<1> QED BY <1>13 DEF t

\* The result of a call that waits comes in.
LEMMA ResultComes ==
    ASSUME NEW r, NEW p, NEW u, AllBut(r, p, u), NEW m \in Sent, IsResult(m), CallOf(m) \in u
    PROVE  AllBut(Append(r, m), p, u \ {CallOf(m)})
<1> DEFINE t == Append(r, m)
           n == Len(r)
           v == u \ {CallOf(m)}
<1>0. r \in Seq(Sent) /\ ~IsAssistant(m) /\ Inside(m)
  BY DEF AllBut, IsAssistant, IsResult, Inside
<1>1. /\ t \in Seq(Sent) /\ Len(t) = n + 1 /\ n \in Nat
      /\ \A k \in 1 .. n : t[k] = r[k]
      /\ t[n + 1] = m
      /\ \A i, j \in 1 .. n : Follow(t, i, j) <=> Follow(r, i, j)
      /\ \A i \in 1 .. n : Follow(t, i, n + 1) <=> Follow(r, i, n) /\ Inside(m)
  BY <1>0, FollowOn
<1>2. \A i \in 1 .. Len(t) : i \in 1 .. n \/ i = n + 1
  BY <1>1
<1>3. \A i \in 1 .. n : i \in 1 .. Len(t)
  BY <1>1
<1>4. \A j \in 1 .. n : Owned(r, j) => Owned(t, j)
  BY <1>0, OwnedOn
<1>5. \A i \in 1 .. n : \A c : Replied(r, i, c) => Replied(t, i, c)
  BY <1>0, RepliedOn
<1>6. \A i, j \in 1 .. n : Apart(r, i, j) => Apart(t, i, j)
  BY <1>0, ApartOn
<1> HIDE DEF t, n, v
<1>7. PICK a \in 1 .. n : IsAssistant(r[a]) /\ r[a].calls = p /\ Follow(r, a, n)
  BY DEF AllBut, n
<1>8. a \in 1 .. Len(t) /\ t[a] = r[a] /\ Follow(t, a, Len(t)) /\ a \in 1 .. (n + 1) - 1
  BY <1>0, <1>1, <1>3, <1>7
<1>9. ASSUME NEW j \in 1 .. Len(t), IsResult(t[j]), Follow(t, j, Len(t)) PROVE CallOf(t[j]) \notin v
  <2>1. CASE j = n + 1
    BY <1>1, <2>1 DEF v
  <2>2. CASE j \in 1 .. n
    <3>1. t[j] = r[j] /\ Follow(r, j, n)
      BY <1>1, <1>9, <2>2
    <3> QED BY <1>9, <2>2, <3>1 DEF AllBut, n, v
  <2> QED BY <1>2, <2>1, <2>2
<1>10. ASSUME NEW i \in 1 .. Len(t) PROVE Clean(t[i])
  <2>1. CASE i = n + 1
    BY <1>0, <1>1, <2>1 DEF Clean, HasFailed
  <2>2. CASE i \in 1 .. n
    BY <1>1, <2>2 DEF AllBut, n
  <2> QED BY <1>2, <2>1, <2>2
<1>11. ASSUME NEW i \in 1 .. Len(t), IsAssistant(t[i]), NEW k \in 1 .. Len(t[i].calls)
       PROVE  Replied(t, i, t[i].calls[k]) \/ (t[i].calls[k] \in v /\ Follow(t, i, Len(t)))
  <2>1. i \in 1 .. n /\ t[i] = r[i]
    BY <1>0, <1>1, <1>2, <1>11
  <2>2. Replied(r, i, r[i].calls[k]) \/ (r[i].calls[k] \in u /\ Follow(r, i, n))
    BY <1>11, <2>1 DEF AllBut, n
  <2>3. CASE Replied(r, i, r[i].calls[k])
    BY <1>5, <2>1, <2>3
  <2>4. CASE r[i].calls[k] \in u /\ Follow(r, i, n)
    <3>1. Follow(t, i, n + 1)
      BY <1>0, <1>1, <2>1, <2>4
    <3>2. CASE r[i].calls[k] = CallOf(m)
      <4>1. n + 1 \in i + 1 .. Len(t)
        BY <1>1, <2>1
      <4>2. IsResult(t[n + 1]) /\ CallOf(t[n + 1]) = t[i].calls[k]
        BY <1>1, <2>1, <3>2
      <4> QED BY <3>1, <4>1, <4>2 DEF Replied
    <3>3. CASE r[i].calls[k] # CallOf(m)
      BY <1>1, <2>1, <2>4, <3>1, <3>3 DEF v
    <3> QED BY <3>2, <3>3
  <2> QED BY <2>2, <2>3, <2>4
<1>12. ASSUME NEW j \in 1 .. Len(t), IsResult(t[j]) PROVE Owned(t, j)
  <2>1. CASE j = n + 1
    <3>1. PICK k \in 1 .. Len(p) : p[k] = CallOf(m)
      BY DEF AllBut
    <3>2. k \in 1 .. Len(t[a].calls) /\ t[a].calls[k] = CallOf(t[j])
      BY <1>1, <1>7, <1>8, <2>1, <3>1
    <3>3. IsAssistant(t[a]) /\ Follow(t, a, j) /\ a \in 1 .. j - 1
      BY <1>1, <1>7, <1>8, <2>1
    <3> QED BY <3>2, <3>3 DEF Owned
  <2>2. CASE j \in 1 .. n
    <3>1. t[j] = r[j]
      BY <1>1, <2>2
    <3>2. Owned(r, j)
      BY <1>12, <2>2, <3>1 DEF AllBut, n
    <3> QED BY <1>4, <2>2, <3>2
  <2> QED BY <1>2, <2>1, <2>2
<1>13. ASSUME NEW i \in 1 .. Len(t), NEW j \in 1 .. Len(t), i < j PROVE Apart(t, i, j)
  <2>0. i \in 1 .. n
    BY <1>1, <1>13
  <2>1. CASE j = n + 1
    <3> SUFFICES ASSUME IsResult(t[i]), Follow(t, i, j) PROVE CallOf(t[i]) # CallOf(t[j])
      BY DEF Apart
    <3>1. t[i] = r[i] /\ Follow(r, i, n)
      BY <1>1, <2>0, <2>1
    <3>2. CallOf(r[i]) \notin u
      BY <2>0, <3>1 DEF AllBut, n
    <3> QED BY <1>1, <2>1, <3>1, <3>2
  <2>2. CASE j \in 1 .. n
    <3>1. Apart(r, i, j)
      BY <1>13, <2>0, <2>2 DEF AllBut, n
    <3> QED BY <1>6, <2>0, <2>2, <3>1
  <2> QED BY <1>2, <2>1, <2>2
<1>14. AllBut(t, p, v)
  <2>1. p \in Seq(Calls) /\ v \in SUBSET Calls /\ IsInjective(p) /\ \A c \in v : \E k \in 1 .. Len(p) : p[k] = c
    BY DEF AllBut, v
  <2>2. \E i \in 1 .. Len(t) : IsAssistant(t[i]) /\ t[i].calls = p /\ Follow(t, i, Len(t))
    BY <1>7, <1>8
  <2> QED BY <1>1, <1>9, <1>10, <1>11, <1>12, <1>13, <2>1, <2>2 DEF AllBut
<1> QED BY <1>14 DEF t, v

\* An answer comes in, when no call waits.
LEMMA AnswerComes ==
    ASSUME NEW r, NEW p, AllBut(r, p, {}), NEW m \in Sent, IsAssistant(m), Clean(m)
    PROVE  AllBut(Append(r, m), m.calls, ToSet(m.calls))
<1> DEFINE t == Append(r, m)
           n == Len(r)
           cs == m.calls
           u == ToSet(m.calls)
<1>0. r \in Seq(Sent) /\ ~IsResult(m) /\ ~Inside(m) /\ cs \in Seq(Calls) /\ IsInjective(cs)
  BY DEF AllBut, IsAssistant, IsResult, Inside, Clean
<1>1. /\ t \in Seq(Sent) /\ Len(t) = n + 1 /\ n \in Nat
      /\ \A k \in 1 .. n : t[k] = r[k]
      /\ t[n + 1] = m
      /\ \A i, j \in 1 .. n : Follow(t, i, j) <=> Follow(r, i, j)
      /\ \A i \in 1 .. n : Follow(t, i, n + 1) <=> Follow(r, i, n) /\ Inside(m)
  BY <1>0, FollowOn
<1>2. \A i \in 1 .. Len(t) : i \in 1 .. n \/ i = n + 1
  BY <1>1
<1>3. n + 1 \in 1 .. Len(t) /\ Follow(t, n + 1, Len(t))
  BY <1>1 DEF Follow
<1>4. \A j \in 1 .. n : Owned(r, j) => Owned(t, j)
  BY <1>0, OwnedOn
<1>5. \A i \in 1 .. n : \A c : Replied(r, i, c) => Replied(t, i, c)
  BY <1>0, RepliedOn
<1>6. \A i, j \in 1 .. n : Apart(r, i, j) => Apart(t, i, j)
  BY <1>0, ApartOn
<1>7. \A c : c \in u <=> \E k \in 1 .. Len(cs) : cs[k] = c
  <2>1. DOMAIN cs = 1 .. Len(cs)
    BY <1>0, LenProperties
  <2> QED BY <2>1 DEF ToSet
<1>8. u \in SUBSET Calls
  <2>1. \A k \in 1 .. Len(cs) : cs[k] \in Calls
    BY <1>0, ElementOfSeq
  <2> HIDE DEF u, cs
  <2> QED BY <1>7, <2>1
<1> HIDE DEF t, n, cs, u
<1>9. ASSUME NEW j \in 1 .. Len(t), IsResult(t[j]), Follow(t, j, Len(t)) PROVE CallOf(t[j]) \notin u
  BY <1>0, <1>1, <1>2, <1>9
<1>10. ASSUME NEW i \in 1 .. Len(t) PROVE Clean(t[i])
  <2>1. CASE i = n + 1
    BY <1>1, <2>1
  <2>2. CASE i \in 1 .. n
    BY <1>1, <2>2 DEF AllBut, n
  <2> QED BY <1>2, <2>1, <2>2
<1>11. ASSUME NEW i \in 1 .. Len(t), IsAssistant(t[i]), NEW k \in 1 .. Len(t[i].calls)
       PROVE  Replied(t, i, t[i].calls[k]) \/ (t[i].calls[k] \in u /\ Follow(t, i, Len(t)))
  <2>1. CASE i = n + 1
    BY <1>1, <1>3, <1>7, <1>11, <2>1 DEF cs
  <2>2. CASE i \in 1 .. n
    <3>1. t[i] = r[i]
      BY <1>1, <2>2
    <3>2. Replied(r, i, r[i].calls[k])
      BY <1>11, <2>2, <3>1 DEF AllBut, n
    <3> QED BY <1>5, <2>2, <3>1, <3>2
  <2> QED BY <1>2, <2>1, <2>2
<1>12. ASSUME NEW j \in 1 .. Len(t), IsResult(t[j]) PROVE Owned(t, j)
  <2>1. j \in 1 .. n /\ t[j] = r[j]
    BY <1>0, <1>1, <1>2, <1>12
  <2>2. Owned(r, j)
    BY <1>12, <2>1 DEF AllBut, n
  <2> QED BY <1>4, <2>1, <2>2
<1>13. ASSUME NEW i \in 1 .. Len(t), NEW j \in 1 .. Len(t), i < j PROVE Apart(t, i, j)
  <2>1. CASE j = n + 1
    BY <1>0, <1>1, <2>1 DEF Apart
  <2>2. CASE j \in 1 .. n
    <3>1. i \in 1 .. n
      BY <1>1, <1>13, <2>2
    <3>2. Apart(r, i, j)
      BY <1>13, <2>2, <3>1 DEF AllBut, n
    <3> QED BY <1>6, <2>2, <3>1, <3>2
  <2> QED BY <1>2, <2>1, <2>2
<1>14. AllBut(t, cs, u)
  <2>1. \E i \in 1 .. Len(t) : IsAssistant(t[i]) /\ t[i].calls = cs /\ Follow(t, i, Len(t))
    BY <1>1, <1>3 DEF cs
  <2>2. \A c \in u : \E k \in 1 .. Len(cs) : cs[k] = c
    BY <1>7
  <2> QED BY <1>0, <1>1, <1>8, <1>9, <1>10, <1>11, <1>12, <1>13, <2>1, <2>2 DEF AllBut
<1> QED BY <1>14 DEF t, cs, u


-----------------------------------------------------------------------------
\* What the repair keeps from one message to the next.
Held == [result : Seq(Sent), pending : Seq(Calls), unanswered : SUBSET Calls]
Keeps(x) == x \in Held /\ AllBut(x.result, x.pending, x.unanswered)

LEMMA MissingIsSent ==
    ASSUME NEW c \in Calls
    PROVE  Result(c, "missing") \in Sent /\ IsResult(Result(c, "missing")) /\ CallOf(Result(c, "missing")) = c
BY DEF Sent, Result, Message, IsResult, CallOf

\* missing lists the calls of u, each once; what the first k of them leave.
ListsOnce(missing, u) ==
    /\ missing \in Seq(Calls) /\ Len(missing) \in Nat
    /\ \A k \in 1 .. Len(missing) : missing[k] \in u
    /\ \A j, k \in 1 .. Len(missing) : j < k => missing[j] # missing[k]
    /\ \A c \in u : \E k \in 1 .. Len(missing) : missing[k] = c
StillMissing(u, missing, k) == u \ {missing[j] : j \in 1 .. k}
MissingOf(p, u) == Picked(p, {k \in DOMAIN p : p[k] \in u})

LEMMA MissingOnes ==
    ASSUME NEW p \in Seq(Calls), IsInjective(p), NEW u \in SUBSET Calls, \A c \in u : \E k \in 1 .. Len(p) : p[k] = c
    PROVE  ListsOnce(MissingOf(p, u), u)
<1> DEFINE P == {k \in DOMAIN p : p[k] \in u}
           q == Picked(p, P)
<1>0. DOMAIN p = 1 .. Len(p) /\ Len(p) \in Nat
  BY LenProperties
<1>1. \A k \in P : k \in 1 .. Len(p) /\ p[k] \in u
  BY <1>0
<1>2. \A k \in 1 .. Len(p) : p[k] \in u => k \in P
  BY <1>0
<1> HIDE DEF P
<1>3. q \in Seq(Calls) /\ \E l : Lists(l, Len(p), P) /\ Reads(q, p, l)
  BY PickedPlaces
<1>4. PICK l : Lists(l, Len(p), P) /\ Reads(q, p, l)
  BY <1>3
<1>5. Len(q) \in Nat
  BY <1>3, LenProperties
<1> HIDE DEF q
<1>6. \A k \in 1 .. Len(q) : k \in 1 .. Len(l) /\ q[k] = p[l[k]]
  BY <1>4 DEF Reads
<1>7. \A k \in 1 .. Len(q) : l[k] \in 1 .. Len(p) /\ l[k] \in P
  BY <1>4, <1>6 DEF Lists
<1>8. \A k \in 1 .. Len(q) : q[k] \in u
  BY <1>1, <1>6, <1>7
<1>9. ASSUME NEW j \in 1 .. Len(q), NEW k \in 1 .. Len(q), j < k PROVE q[j] # q[k]
  <2>1. l[j] < l[k]
    BY <1>4, <1>6, <1>9 DEF Lists
  <2>2. l[j] # l[k] /\ l[j] \in DOMAIN p /\ l[k] \in DOMAIN p
    BY <1>0, <1>7, <2>1
  <2>3. p[l[j]] # p[l[k]]
    BY <2>2 DEF IsInjective
  <2> QED BY <1>6, <2>3
<1>10. ASSUME NEW c \in u PROVE \E k \in 1 .. Len(q) : q[k] = c
  <2>1. PICK i \in 1 .. Len(p) : p[i] = c
    OBVIOUS
  <2>2. i \in P
    BY <1>2, <2>1
  <2>3. PICK k \in 1 .. Len(l) : l[k] = i
    BY <1>4, <2>2 DEF Lists
  <2>4. k \in 1 .. Len(q)
    BY <1>4, <2>3 DEF Reads
  <2> QED BY <1>6, <2>1, <2>3, <2>4
<1>11. ListsOnce(q, u)
  BY <1>3, <1>5, <1>8, <1>9, <1>10 DEF ListsOnce
<1> QED BY <1>11 DEF q, P, MissingOf

\* q is r and the first k results of those that are missing.
Filled(q, r, missing, k) ==
    /\ q \in Seq(Sent) /\ Len(q) = Len(r) + k
    /\ \A i \in 1 .. Len(r) : q[i] = r[i]
    /\ \A j \in 1 .. k : q[Len(r) + j] = Result(missing[j], "missing")

LEMMA FillOne ==
    ASSUME NEW r \in Seq(Sent), NEW p, NEW u \in SUBSET Calls, NEW missing, ListsOnce(missing, u),
           NEW k \in Nat, k + 1 \in 1 .. Len(missing),
           NEW q, Filled(q, r, missing, k), AllBut(q, p, StillMissing(u, missing, k))
    PROVE  /\ Filled(Append(q, Result(missing[k + 1], "missing")), r, missing, k + 1)
           /\ AllBut(Append(q, Result(missing[k + 1], "missing")), p, StillMissing(u, missing, k + 1))
<1> DEFINE c == missing[k + 1]
           m == Result(c, "missing")
           t == Append(q, m)
           v == StillMissing(u, missing, k)
           w == StillMissing(u, missing, k + 1)
<1>0. Len(missing) \in Nat /\ Len(r) \in Nat /\ c \in u /\ c \in Calls
  BY LenProperties DEF ListsOnce
<1>1. c \in v
  <2>1. \A j \in 1 .. k : j \in 1 .. Len(missing) /\ j < k + 1
    BY <1>0
  <2>2. \A j \in 1 .. k : missing[j] # missing[k + 1]
    BY <2>1 DEF ListsOnce
  <2> QED BY <1>0, <2>2 DEF StillMissing
<1>2. w = v \ {c}
  <2>1. 1 .. k + 1 = (1 .. k) \cup {k + 1}
    OBVIOUS
  <2>2. {missing[j] : j \in 1 .. k + 1} = {missing[j] : j \in 1 .. k} \cup {c}
    BY <2>1
  <2> QED BY <2>2 DEF StillMissing
<1>3. AllBut(q, p, v)
  OBVIOUS
<1> HIDE DEF v, w, c
<1>4. m \in Sent /\ IsResult(m) /\ CallOf(m) = c
  BY <1>0, MissingIsSent
<1> HIDE DEF m
<1>5. AllBut(t, p, w)
  BY <1>1, <1>2, <1>3, <1>4, ResultComes
<1>6. /\ q \in Seq(Sent) /\ Len(q) = Len(r) + k
      /\ \A i \in 1 .. Len(r) : q[i] = r[i]
      /\ \A j \in 1 .. k : q[Len(r) + j] = Result(missing[j], "missing")
  BY DEF Filled
<1>7. /\ t \in Seq(Sent) /\ Len(t) = Len(q) + 1
      /\ \A i \in 1 .. Len(q) : t[i] = q[i]
      /\ t[Len(q) + 1] = m
  BY <1>4, <1>6, AppendProperties
<1> HIDE DEF t
<1>8. \A i \in 1 .. Len(r) : t[i] = r[i]
  <2>1. \A i \in 1 .. Len(r) : i \in 1 .. Len(q)
    BY <1>0, <1>6
  <2> QED BY <1>6, <1>7, <2>1
<1>9. ASSUME NEW j \in 1 .. k + 1 PROVE t[Len(r) + j] = Result(missing[j], "missing")
  <2>1. CASE j = k + 1
    <3>1. Len(r) + j = Len(q) + 1
      BY <1>0, <1>6, <2>1
    <3> QED BY <1>7, <2>1, <3>1 DEF m, c
  <2>2. CASE j # k + 1
    <3>1. j \in 1 .. k /\ Len(r) + j \in 1 .. Len(q)
      BY <1>0, <1>6, <2>2
    <3> QED BY <1>6, <1>7, <3>1
  <2> QED BY <2>1, <2>2
<1>10. Len(t) = Len(r) + (k + 1)
  BY <1>0, <1>6, <1>7
<1>11. Filled(t, r, missing, k + 1)
  BY <1>7, <1>8, <1>9, <1>10 DEF Filled
<1> QED BY <1>5, <1>11 DEF t, w, m, c

LEMMA FillAll ==
    ASSUME NEW r \in Seq(Sent), NEW p, NEW u \in SUBSET Calls, AllBut(r, p, u), NEW missing, ListsOnce(missing, u)
    PROVE  \E q : /\ Filled(q, r, missing, Len(missing))
                  /\ AllBut(q, p, StillMissing(u, missing, Len(missing)))
<1> DEFINE Good(k) == \E q : Filled(q, r, missing, k) /\ AllBut(q, p, StillMissing(u, missing, k))
           Bad == {k \in 0 .. Len(missing) : ~Good(k)}
<1>0. Len(missing) \in Nat /\ Len(missing) \in 0 .. Len(missing) /\ Len(r) \in Nat
  BY LenProperties DEF ListsOnce
<1>1. Bad \subseteq Nat
  OBVIOUS
<1>2. Bad = {}
  <2> SUFFICES ASSUME Bad # {} PROVE FALSE
    OBVIOUS
  <2>1. \E k \in Bad : \A j \in Bad : k <= j
    <3> HIDE DEF Bad
    <3> QED BY <1>1, LeastOne
  <2>2. PICK k \in Bad : \A j \in Bad : k <= j
    BY <2>1
  <2>3. k \in 0 .. Len(missing) /\ ~Good(k)
    BY <2>2
  <2>4. k # 0
    <3>1. Filled(r, r, missing, 0)
      BY <1>0 DEF Filled
    <3>2. StillMissing(u, missing, 0) = u
      BY DEF StillMissing
    <3>3. AllBut(r, p, StillMissing(u, missing, 0))
      BY <3>2
    <3>4. Good(0)
      BY <3>1, <3>3
    <3> QED BY <2>3, <3>4
  <2> DEFINE l == k - 1
  <2>5. l \in Nat /\ l + 1 = k /\ l + 1 \in 1 .. Len(missing) /\ l \in 0 .. Len(missing) /\ ~(k <= l)
    BY <1>0, <2>3, <2>4
  <2> HIDE DEF l
  <2>6. Good(l)
    BY <2>2, <2>5
  <2>7. PICK q : Filled(q, r, missing, l) /\ AllBut(q, p, StillMissing(u, missing, l))
    BY <2>6
  <2> DEFINE t == Append(q, Result(missing[l + 1], "missing"))
  <2>8. Filled(t, r, missing, l + 1) /\ AllBut(t, p, StillMissing(u, missing, l + 1))
    <3>2. l \in Nat /\ l + 1 \in 1 .. Len(missing)
      BY <2>5
    <3> HIDE DEF Good, Bad
    <3> QED BY <2>7, <3>2, FillOne
  <2> HIDE DEF t
  <2>9. Good(l + 1)
    BY <2>8
  <2> QED BY <2>3, <2>5, <2>9
<1>3. Good(Len(missing))
  BY <1>0, <1>2
<1> QED BY <1>3

\* complete_exchange leaves no call without its result.
LEMMA ExchangeCompleted ==
    ASSUME NEW x, Keeps(x)
    PROVE  /\ Keeps(CompleteExchange(x))
           /\ CompleteExchange(x).unanswered = {}
<1> DEFINE r == x.result
           p == x.pending
           u == x.unanswered
           missing == MissingOf(p, u)
           more == [k \in DOMAIN missing |-> Result(missing[k], "missing")]
<1>1. r \in Seq(Sent) /\ p \in Seq(Calls) /\ u \in SUBSET Calls /\ AllBut(r, p, u)
  BY DEF Keeps, Held
<1>2. CompleteExchange(x) = [result |-> r \o more, pending |-> <<>>, unanswered |-> {}]
  BY DEF CompleteExchange, MissingOf
<1> HIDE DEF r, p, u
<1>3. IsInjective(p) /\ \A c \in u : \E k \in 1 .. Len(p) : p[k] = c
  BY <1>1 DEF AllBut
<1>40. ListsOnce(missing, u)
  BY <1>1, <1>3, MissingOnes
<1>4. missing \in Seq(Calls) /\ Len(missing) \in Nat /\ \A c \in u : \E k \in 1 .. Len(missing) : missing[k] = c
  BY <1>40 DEF ListsOnce
<1> HIDE DEF missing
<1>5. /\ more \in Seq(Sent) /\ Len(more) = Len(missing)
      /\ \A k \in 1 .. Len(missing) : more[k] = Result(missing[k], "missing")
  <2>1. DOMAIN missing = 1 .. Len(missing)
    BY <1>4, LenProperties
  <2>2. \A k \in 1 .. Len(missing) : Result(missing[k], "missing") \in Sent
    BY <1>4, ElementOfSeq, MissingIsSent
  <2>3. more = [k \in 1 .. Len(missing) |-> Result(missing[k], "missing")]
    BY <2>1
  <2> HIDE DEF more
  <2> DEFINE e(k) == Result(missing[k], "missing")
  <2>4. more = [k \in 1 .. Len(missing) |-> e(k)] /\ \A k \in 1 .. Len(missing) : e(k) \in Sent
    BY <2>2, <2>3
  <2> HIDE DEF e
  <2>5. more \in Seq(Sent) /\ Len(more) = Len(missing) /\ \A k \in 1 .. Len(missing) : more[k] = e(k)
    BY <1>4, <2>4
  <2> QED BY <2>5 DEF e
<1> HIDE DEF more
<1>6. PICK q : /\ Filled(q, r, missing, Len(missing))
               /\ AllBut(q, p, StillMissing(u, missing, Len(missing)))
  BY <1>1, <1>40, FillAll
<1>7. StillMissing(u, missing, Len(missing)) = {}
  BY <1>4 DEF StillMissing
<1>8. q = r \o more
  <2> DEFINE y == r \o more
  <2>1. /\ y \in Seq(Sent) /\ Len(y) = Len(r) + Len(more)
        /\ \A i \in 1 .. Len(r) + Len(more) : y[i] = IF i <= Len(r) THEN r[i] ELSE more[i - Len(r)]
    BY <1>1, <1>5, ConcatProperties
  <2> HIDE DEF y
  <2>2. q \in Seq(Sent) /\ Len(q) = Len(y) /\ Len(r) \in Nat
    BY <1>1, <1>5, <1>6, <2>1, LenProperties DEF Filled
  <2>3. ASSUME NEW i \in 1 .. Len(q) PROVE q[i] = y[i]
    <3>1. CASE i <= Len(r)
      <4>1. i \in 1 .. Len(r)
        BY <2>2, <3>1
      <4>2. i \in 1 .. Len(r) + Len(more)
        BY <2>1, <2>2
      <4>3. y[i] = r[i]
        BY <2>1, <3>1, <4>2
      <4> QED BY <1>6, <4>1, <4>3 DEF Filled
    <3>2. CASE ~(i <= Len(r))
      <4> DEFINE j == i - Len(r)
      <4>1. j \in 1 .. Len(missing) /\ Len(r) + j = i
        BY <1>4, <1>5, <2>1, <2>2, <3>2
      <4>2. i \in 1 .. Len(r) + Len(more)
        BY <2>1, <2>2
      <4>3. y[i] = more[j]
        BY <2>1, <3>2, <4>2
      <4> HIDE DEF j
      <4>4. q[Len(r) + j] = Result(missing[j], "missing")
        BY <1>6, <4>1 DEF Filled
      <4> QED BY <1>5, <4>1, <4>3, <4>4
    <3> QED BY <3>1, <3>2
  <2>4. q = y
    BY <2>1, <2>2, <2>3, SeqEqual
  <2> QED BY <2>4 DEF y
<1>9. AllBut(q, p, {})
  BY <1>6, <1>7
<1>10. AllBut(q, <<>>, {})
  <2>1. <<>> \in Seq(Calls) /\ IsInjective(<<>>) /\ {} \in SUBSET Calls
    BY DEF IsInjective
  <2> QED BY <1>9, <2>1 DEF AllBut
<1>11. q \in Seq(Sent) /\ <<>> \in Seq(Calls) /\ {} \in SUBSET Calls
  BY <1>10 DEF AllBut
<1>12. CompleteExchange(x) = [result |-> q, pending |-> <<>>, unanswered |-> {}]
  BY <1>2, <1>8
<1> QED BY <1>10, <1>11, <1>12 DEF Keeps, Held


LEMMA DistinctIs ==
    ASSUME NEW cs \in Seq(Calls)
    PROVE  Distinct(cs) \in Seq(Calls) /\ IsInjective(Distinct(cs))
<1> DEFINE P == {k \in DOMAIN cs : \A j \in 1 .. k - 1 : cs[j] # cs[k]}
           q == Picked(cs, P)
<1>0. DOMAIN cs = 1 .. Len(cs) /\ Len(cs) \in Nat
  BY LenProperties
<1>1. \A k \in P : k \in 1 .. Len(cs) /\ \A j \in 1 .. k - 1 : cs[j] # cs[k]
  BY <1>0
<1> HIDE DEF P
<1>2. q \in Seq(Calls) /\ \E l : Lists(l, Len(cs), P) /\ Reads(q, cs, l)
  BY PickedPlaces
<1>3. PICK l : Lists(l, Len(cs), P) /\ Reads(q, cs, l)
  BY <1>2
<1>4. DOMAIN q = 1 .. Len(q) /\ Len(q) \in Nat
  BY <1>2, LenProperties
<1>5. Distinct(cs) = q
  BY DEF Distinct, P
<1> HIDE DEF q
<1>6. \A k \in 1 .. Len(q) : k \in 1 .. Len(l) /\ q[k] = cs[l[k]]
  BY <1>3 DEF Reads
<1>7. \A k \in 1 .. Len(q) : l[k] \in 1 .. Len(cs) /\ l[k] \in P
  BY <1>3, <1>6 DEF Lists
<1>8. ASSUME NEW j \in 1 .. Len(q), NEW k \in 1 .. Len(q), j < k PROVE q[j] # q[k]
  <2>1. l[j] < l[k]
    BY <1>3, <1>6, <1>8 DEF Lists
  <2>2. l[j] \in 1 .. l[k] - 1
    BY <1>0, <1>7, <2>1
  <2>3. cs[l[j]] # cs[l[k]]
    BY <1>1, <1>7, <2>2
  <2> QED BY <1>6, <2>3
<1>9. IsInjective(q)
  <2> SUFFICES ASSUME NEW j \in 1 .. Len(q), NEW k \in 1 .. Len(q), j # k PROVE q[j] # q[k]
    BY <1>4 DEF IsInjective
  <2>1. j < k \/ k < j
    OBVIOUS
  <2> QED BY <1>8, <2>1
<1> QED BY <1>2, <1>5, <1>9

\* Whatever message comes next, the repair of it leaves no gap.
LEMMA RepairKeeps ==
    ASSUME NEW x, Keeps(x), NEW m \in Messages
    PROVE  Keeps(Repair(x, m))
<1>0. /\ x \in Held /\ AllBut(x.result, x.pending, x.unanswered) /\ m \in Sent
      /\ x.result \in Seq(Sent) /\ x.pending \in Seq(Calls) /\ x.unanswered \in SUBSET Calls
      /\ x = [result |-> x.result, pending |-> x.pending, unanswered |-> x.unanswered]
  BY DEF Keeps, Held, Sent
<1> DEFINE t == CompleteExchange(x)
<1>1. /\ t \in Held /\ AllBut(t.result, t.pending, {}) /\ Keeps(t)
      /\ t.result \in Seq(Sent) /\ t.pending \in Seq(Calls) /\ t.unanswered = {}
      /\ t = [result |-> t.result, pending |-> t.pending, unanswered |-> {}]
  <2>1. Keeps(t) /\ t.unanswered = {}
    BY ExchangeCompleted
  <2> HIDE DEF t
  <2> QED BY <2>1 DEF Keeps, Held
<1>2. CASE HasFailed(m)
  <2>1. IsAssistant(m) /\ ~IsResult(m) /\ ~IsUser(m)
    BY <1>2 DEF HasFailed, IsAssistant, IsResult, IsUser
  <2>2. Repair(x, m) = t
    BY <1>2, <2>1 DEF Repair
  <2> QED BY <1>1, <2>2
<1>3. CASE Speaks(m)
  <2> DEFINE cs == Distinct(m.calls)
             a == [m EXCEPT !.calls = cs]
  <2>1. cs \in Seq(Calls) /\ IsInjective(cs)
    BY CallsOfOne, DistinctIs
  <2>2. IsAssistant(m) /\ ~HasFailed(m) /\ ~IsResult(m) /\ ~IsUser(m)
    BY <1>3 DEF Speaks, IsAssistant, IsResult, IsUser
  <2>3. Repair(x, m) = [result |-> Append(t.result, a), pending |-> cs, unanswered |-> ToSet(cs)]
    BY <2>2 DEF Repair
  <2> HIDE DEF cs, t
  <2>4. a \in Messages /\ a.role = m.role /\ a.stop = m.stop /\ a.calls = cs
    BY <2>1 DEF Messages
  <2> HIDE DEF a
  <2>5. a \in Sent /\ IsAssistant(a) /\ Clean(a)
    BY <2>1, <2>2, <2>4 DEF Sent, Clean, IsAssistant, HasFailed
  <2>6. AllBut(Append(t.result, a), cs, ToSet(cs))
    BY <1>1, <2>4, <2>5, AnswerComes
  <2>7. Append(t.result, a) \in Seq(Sent) /\ ToSet(cs) \in SUBSET Calls
    BY <2>6 DEF AllBut
  <2> DEFINE r == Append(t.result, a)
             u == ToSet(cs)
  <2>8. AllBut(r, cs, u) /\ r \in Seq(Sent) /\ u \in SUBSET Calls
        /\ Repair(x, m) = [result |-> r, pending |-> cs, unanswered |-> u]
    BY <2>3, <2>6, <2>7
  <2> HIDE DEF r, u
  <2> DEFINE y == Repair(x, m)
  <2>9. y = [result |-> r, pending |-> cs, unanswered |-> u]
    BY <2>8
  <2> HIDE DEF y
  <2>10. y \in Held /\ y.result = r /\ y.pending = cs /\ y.unanswered = u
    BY <2>1, <2>8, <2>9 DEF Held
  <2>11. Keeps(y)
    BY <2>8, <2>10 DEF Keeps
  <2> QED BY <2>11 DEF y
<1>4. CASE IsResult(m) /\ CallOf(m) \in x.unanswered
  <2> DEFINE r == Append(x.result, m)
             u == x.unanswered \ {CallOf(m)}
             p == x.pending
  <2>1. AllBut(r, p, u)
    BY <1>0, <1>4, ResultComes
  <2>2. r \in Seq(Sent) /\ u \in SUBSET Calls /\ p \in Seq(Calls)
    BY <2>1 DEF AllBut
  <2>3. ~IsAssistant(m) /\ ~IsUser(m)
    BY <1>4 DEF IsAssistant, IsResult, IsUser
  <2>4. Repair(x, m) = [x EXCEPT !.result = Append(@, m), !.unanswered = @ \ {CallOf(m)}]
    BY <1>4, <2>3 DEF Repair
  <2>5. Repair(x, m) = [[x EXCEPT !.result = r] EXCEPT !.unanswered = u]
    BY <1>0, <2>4 DEF Held
  <2> HIDE DEF r, u
  <2>6. Repair(x, m) = [result |-> r, pending |-> p, unanswered |-> u]
    BY <1>0, <2>5 DEF Held
  <2> DEFINE y == Repair(x, m)
  <2>7. y = [result |-> r, pending |-> p, unanswered |-> u]
    BY <2>6
  <2> HIDE DEF y, p
  <2>8. y \in Held /\ y.result = r /\ y.pending = p /\ y.unanswered = u
    BY <2>2, <2>7 DEF Held
  <2>9. Keeps(y)
    BY <2>1, <2>8 DEF Keeps
  <2> QED BY <2>9 DEF y
<1>5. CASE IsResult(m) /\ CallOf(m) \notin x.unanswered
  <2>1. ~IsAssistant(m) /\ ~IsUser(m)
    BY <1>5 DEF IsAssistant, IsResult, IsUser
  <2>2. Repair(x, m) = x
    BY <1>5, <2>1 DEF Repair
  <2> QED BY <2>2
<1>6. CASE IsUser(m)
  <2>1. ~IsAssistant(m) /\ ~IsResult(m)
    BY <1>6 DEF IsAssistant, IsResult, IsUser
  <2> DEFINE r == Append(t.result, m)
             p == t.pending
  <2>2. Repair(x, m) = [t EXCEPT !.result = r]
    <3>1. Repair(x, m) = [t EXCEPT !.result = Append(@, m)]
      BY <1>6, <2>1 DEF Repair
    <3> HIDE DEF t
    <3> QED BY <1>1, <3>1
  <2> HIDE DEF t
  <2>3. AllBut(r, p, {})
    BY <1>0, <1>1, <2>1, OtherComes
  <2>4. r \in Seq(Sent) /\ p \in Seq(Calls) /\ {} \in SUBSET Calls
    BY <2>3 DEF AllBut
  <2> HIDE DEF r
  <2>5. Repair(x, m) = [result |-> r, pending |-> p, unanswered |-> {}]
    BY <1>1, <2>2
  <2> DEFINE y == Repair(x, m)
  <2>6. y = [result |-> r, pending |-> p, unanswered |-> {}]
    BY <2>5
  <2> HIDE DEF y, p
  <2>7. y \in Held /\ y.result = r /\ y.pending = p /\ y.unanswered = {}
    BY <2>4, <2>6 DEF Held
  <2>8. Keeps(y)
    BY <2>3, <2>7 DEF Keeps
  <2> QED BY <2>8 DEF y
<1>7. CASE m.role = "extension"
  <2>1. ~IsAssistant(m) /\ ~IsResult(m) /\ ~IsUser(m) /\ Inside(m)
    BY <1>7 DEF IsAssistant, IsResult, IsUser, Inside
  <2> DEFINE r == Append(x.result, m)
             p == x.pending
             u == x.unanswered
  <2>2. AllBut(r, p, u)
    BY <1>0, <2>1, OtherComes
  <2>3. r \in Seq(Sent) /\ u \in SUBSET Calls /\ p \in Seq(Calls)
    BY <2>2 DEF AllBut
  <2>4. Repair(x, m) = [x EXCEPT !.result = r]
    BY <1>0, <2>1 DEF Repair
  <2> HIDE DEF r
  <2>5. Repair(x, m) = [result |-> r, pending |-> p, unanswered |-> u]
    BY <1>0, <2>4
  <2> DEFINE y == Repair(x, m)
  <2>6. y = [result |-> r, pending |-> p, unanswered |-> u]
    BY <2>5
  <2> HIDE DEF y, p, u
  <2>7. y \in Held /\ y.result = r /\ y.pending = p /\ y.unanswered = u
    BY <2>3, <2>6 DEF Held
  <2>8. Keeps(y)
    BY <2>2, <2>7 DEF Keeps
  <2> QED BY <2>8 DEF y
<1>8. HasFailed(m) \/ Speaks(m) \/ IsResult(m) \/ IsUser(m) \/ m.role = "extension"
  BY DEF Messages, Speaks, HasFailed, IsAssistant, IsResult, IsUser
<1> QED BY <1>2, <1>3, <1>4, <1>5, <1>6, <1>7, <1>8

\* Whatever a crash, a cut or an older release has made of a history, in what a
\* request shows of it each call has its one result in its exchange, and each
\* result its call (sanitize_tool_pairs).
THEOREM TornHistoriesAreMended ==
    ASSUME NEW s \in Seq(Messages)
    PROVE  EachHasOne(Sanitized(s))
<1> DEFINE after == CHOOSE g : g = [n \in 0 .. Len(s) |-> Repairs(g, s, n)]
           Bad == {n \in 0 .. Len(s) : ~Keeps(after[n])}
<1>0. Len(s) \in Nat
  BY LenProperties
<1>1. Sanitized(s) = CompleteExchange(after[Len(s)]).result
  BY DEF Sanitized, Repairs
<1>2. after = [n \in 0 .. Len(s) |-> Repairs(after, s, n)]
  BY <1>0, RepairsExist DEF RepairsUpTo
<1> HIDE DEF after
<1>3. /\ after[0] = [result |-> <<>>, pending |-> <<>>, unanswered |-> {}]
      /\ \A n \in 1 .. Len(s) : after[n] = Repair(after[n - 1], s[n])
  <2>1. \A n \in 0 .. Len(s) : after[n] = Repairs(after, s, n)
    BY <1>2
  <2> QED BY <1>0, <2>1 DEF Repairs
<1>4. Keeps(after[0])
  <2>1. <<>> \in Seq(Sent) /\ <<>> \in Seq(Calls) /\ Len(<<>>) = 0 /\ {} \in SUBSET Calls
    OBVIOUS
  <2>2. IsInjective(<<>>)
    BY DEF IsInjective
  <2>3. AllBut(<<>>, <<>>, {})
    BY <2>1, <2>2 DEF AllBut
  <2> QED BY <1>3, <2>1, <2>3 DEF Keeps, Held
<1>5. Bad = {}
  <2> SUFFICES ASSUME Bad # {} PROVE FALSE
    OBVIOUS
  <2>1. Bad \subseteq Nat
    OBVIOUS
  <2>2. \E n \in Bad : \A j \in Bad : n <= j
    <3> HIDE DEF Bad
    <3> QED BY <2>1, LeastOne
  <2>3. PICK n \in Bad : \A j \in Bad : n <= j
    BY <2>2
  <2>4. n \in 0 .. Len(s) /\ ~Keeps(after[n])
    BY <2>3
  <2>5. n \in 1 .. Len(s) /\ n - 1 \in 0 .. Len(s) /\ ~(n <= n - 1)
    BY <1>0, <1>4, <2>4
  <2>6. Keeps(after[n - 1])
    BY <2>3, <2>5
  <2>7. s[n] \in Messages
    BY <2>5, ElementOfSeq
  <2>8. Keeps(Repair(after[n - 1], s[n]))
    BY <2>6, <2>7, RepairKeeps
  <2> QED BY <1>3, <2>4, <2>5, <2>8
<1>6. Keeps(after[Len(s)])
  BY <1>0, <1>5
<1> DEFINE y == CompleteExchange(after[Len(s)])
<1>7. Keeps(y) /\ y.unanswered = {}
  BY <1>6, ExchangeCompleted
<1>8. Sanitized(s) = y.result
  BY <1>1
<1> HIDE DEF y
<1>9. AllBut(y.result, y.pending, {})
  BY <1>7 DEF Keeps
<1>10. EachHasOne(y.result)
  BY <1>9 DEF AllBut, EachHasOne
<1> QED BY <1>8, <1>10

=============================================================================

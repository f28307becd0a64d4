--------------------------- MODULE RecordsProofs ---------------------------
(***************************************************************************)
(* Theorems about what is kept of sessions, here and in the cloud.         *)
(*                                                                         *)
(* CloudSync, for any machines, any number of clients on each, and any     *)
(* bounds: while nobody replaces the cloud copy and no run writes into a   *)
(* copy that lacks entries, every mark that says how much of a transcript  *)
(* is the cloud's tells the truth: in the metadata, in a push, in a pull,  *)
(* and in what a share will put back.  So an append to either side         *)
(* continues it, and what a sync read long ago is still a beginning of     *)
(* what it read.                                                           *)
(*                                                                         *)
(* CloudAccount, for any number of model calls, terminals, logins and      *)
(* keys: a recovery holds the refresh lock from the moment it enters, its  *)
(* own key does not work any more, and as long as nobody else writes the   *)
(* cache, the cache holds that key or none.                                *)
(*                                                                         *)
(* Dashboard, for any number of sessions, requests, chat streams and       *)
(* restarts: the invariant follows each chat stream through its stages,    *)
(* what it has sent at each of them, and that a run nobody has told to     *)
(* stop belongs to a stream that is still at work.                         *)
(***************************************************************************)
EXTENDS CloudSync, CloudAccount, Dashboard, SequenceTheorems, TLAPS

Stage == {"idle", "reading", "sending", "acked", "linking", "linked", "restoring", "forgetting",
          "measuring", "asking", "installing", "pulled"}
Kind  == {"none", "push", "force", "share", "pull", "first"}
Link  == [shared : BOOLEAN, synced : Nat]
Op    == [at : Stage, kind : Kind, after : Nat, link : Link, log : Seq(Nat), title : Nat]
Cloud == [exists : BOOLEAN, log : Seq(Nat), title : Nat]

TypeOK ==
    /\ log \in [Machines -> Seq(Nat)]
    /\ exists \in [Machines -> BOOLEAN]
    /\ title \in [Machines -> Nat]
    /\ link \in [Machines -> Link]
    /\ op \in [Actors -> Op]
    /\ remote \in Cloud
    /\ base \in Seq(Seq(Nat))
    /\ owned \in [Machines -> [title : Nat, link : Link]]
    /\ forced \in Nat /\ faults \in Nat
    /\ replaced \in BOOLEAN /\ torn \in BOOLEAN

\* Nothing is written on a machine that does not have the session.
Existence ==
    /\ \A x \in Actors : op[x].kind = "pull" => exists[Home[x]]
    /\ \A m \in Machines : Len(log[m]) > 0 => exists[m]

Begins(s, t) == Len(s) <= Len(t) /\ \A i \in 1 .. Len(s) : s[i] = t[i]

\* The cloud has k entries, and as many of them as the machine has are the machine's.
Marked(s, r, k) == k <= Len(r) /\ \A i \in 1 .. k : i <= Len(s) => s[i] = r[i]

\* Every entry was written after what precedes it.
Follows(s, b) ==
    \A i \in 1 .. Len(s) :
        /\ s[i] \in 1 .. Len(b)
        /\ Len(b[s[i]]) = i - 1
        /\ \A j \in 1 .. i - 1 : b[s[i]][j] = s[j]

\* What a client knows between two steps of the copy s of its machine and the
\* copy r of the cloud.
Knows(o, s, r) ==
    /\ Marked(s, r, o.link.synced)
    /\ o.at \in {"reading", "sending", "acked", "installing"} => Marked(s, r, o.after)
    /\ o.at \in {"sending", "pulled"} => Begins(o.log, s)
    /\ o.at \in {"measuring", "asking"} => o.kind \in {"pull", "first"}
    /\ o.at \in {"asking", "installing", "pulled"} => o.after <= Len(s)
    /\ o.at \in {"installing", "pulled"} => Begins(o.log, r)
    /\ o.at = "installing" => o.after <= Len(o.log)
    /\ o.kind = "first" => Begins(s, r)

Copies ==
    /\ \A m \in Machines : Marked(log[m], remote.log, link[m].synced) /\ Follows(log[m], base)
    /\ Follows(remote.log, base)
    /\ \A x \in Actors : Knows(op[x], log[Home[x]], remote.log)

SyncInv ==
    /\ TypeOK
    /\ Existence
    /\ OwnersKeepTheirFields
    /\ ~replaced /\ ~torn => Copies

-----------------------------------------------------------------------------
(* Copies that grow.                                                        *)

LEMMA CloudGrows ==
    ASSUME NEW s \in Seq(Nat), NEW r \in Seq(Nat), NEW q \in Seq(Nat), Begins(r, q)
    PROVE  /\ \A k \in Nat : Marked(s, r, k) => Marked(s, q, k)
           /\ \A o \in Op : Knows(o, s, r) => Knows(o, s, q)
<1>0. Len(s) \in Nat /\ Len(r) \in Nat /\ Len(q) \in Nat /\ \A t \in Seq(Nat) : Len(t) \in Nat
  BY LenProperties
<1>1. ASSUME NEW k \in Nat, Marked(s, r, k) PROVE Marked(s, q, k)
  <2>1. k <= Len(r) /\ Len(r) <= Len(q) /\ \A i \in 1 .. Len(r) : r[i] = q[i]
    BY <1>1 DEF Begins, Marked
  <2>2. k <= Len(q)
    BY <1>0, <2>1
  <2>3. ASSUME NEW i \in 1 .. k, i <= Len(s) PROVE s[i] = q[i]
    <3>1. i \in 1 .. Len(r)
      BY <1>0, <2>1
    <3>2. s[i] = r[i]
      BY <1>1, <2>3 DEF Marked
    <3> QED BY <2>1, <3>1, <3>2
  <2> QED BY <2>2, <2>3 DEF Marked
<1>2. \A t \in Seq(Nat) : Begins(t, r) => Begins(t, q)
  BY <1>0 DEF Begins
<1>3. ASSUME NEW o \in Op, Knows(o, s, r) PROVE Knows(o, s, q)
  <2>1. o.link.synced \in Nat /\ o.after \in Nat /\ o.log \in Seq(Nat)
    BY DEF Op, Link
  <2> HIDE DEF Op
  <2> QED BY <1>1, <1>2, <1>3, <2>1 DEF Knows
<1> QED BY <1>1, <1>3

\* A machine that grows within the cloud's copy.
LEMMA MachineFollows ==
    ASSUME NEW s \in Seq(Nat), NEW t \in Seq(Nat), NEW r \in Seq(Nat), Begins(s, t), Begins(t, r)
    PROVE  /\ \A k \in Nat : Marked(s, r, k) => Marked(t, r, k)
           /\ \A o \in Op : Knows(o, s, r) => Knows(o, t, r)
<1>0. Len(s) \in Nat /\ Len(r) \in Nat /\ Len(t) \in Nat /\ \A u \in Seq(Nat) : Len(u) \in Nat
  BY LenProperties
<1>1. \A k \in Nat : Marked(s, r, k) => Marked(t, r, k)
  BY <1>0 DEF Begins, Marked
<1>2. \A u \in Seq(Nat) : Begins(u, s) => Begins(u, t)
  BY <1>0 DEF Begins
<1>3. \A n \in Nat : n <= Len(s) => n <= Len(t)
  BY LenProperties DEF Begins
<1>4. ASSUME NEW o \in Op, Knows(o, s, r) PROVE Knows(o, t, r)
  <2>1. o.link.synced \in Nat /\ o.after \in Nat /\ o.log \in Seq(Nat) /\ Len(o.log) \in Nat
    BY LenProperties DEF Op, Link
  <2> HIDE DEF Op
  <2> QED BY <1>1, <1>2, <1>3, <1>4, <2>1 DEF Knows
<1> QED BY <1>1, <1>4

\* A run writes behind all that a client counts on.
LEMMA MachineWrites ==
    ASSUME NEW s \in Seq(Nat), NEW n \in Nat, NEW r \in Seq(Nat)
    PROVE  /\ \A k \in Nat : Marked(s, r, k) /\ ~(Len(s) < k) => Marked(Append(s, n), r, k)
           /\ \A o \in Op :
                 Knows(o, s, r) /\ o.kind # "first" /\ ~(Len(s) < o.after) /\ ~(Len(s) < o.link.synced)
                 => Knows(o, Append(s, n), r)
<1> DEFINE t == Append(s, n)
<1>0. t \in Seq(Nat) /\ Len(t) = Len(s) + 1 /\ Len(s) \in Nat /\ \A i \in 1 .. Len(s) : t[i] = s[i]
  BY AppendProperties, LenProperties
<1> HIDE DEF t
<1>1. \A k \in Nat : Marked(s, r, k) /\ ~(Len(s) < k) => Marked(t, r, k)
  <2> SUFFICES ASSUME NEW k \in Nat, Marked(s, r, k), ~(Len(s) < k) PROVE Marked(t, r, k)
    OBVIOUS
  <2>1. ASSUME NEW i \in 1 .. k PROVE t[i] = r[i]
    <3>1. i \in 1 .. Len(s) /\ i <= Len(s)
      BY <1>0
    <3> QED BY <1>0, <3>1 DEF Marked
  <2> QED BY <2>1 DEF Marked
<1>2. \A u \in Seq(Nat) : Begins(u, s) => Begins(u, t)
  BY <1>0, LenProperties DEF Begins
<1>3. \A k \in Nat : k <= Len(s) => k <= Len(t)
  BY <1>0
<1>4. ASSUME NEW o \in Op, Knows(o, s, r), o.kind # "first", ~(Len(s) < o.after), ~(Len(s) < o.link.synced)
      PROVE Knows(o, t, r)
  <2>1. o.link.synced \in Nat /\ o.after \in Nat /\ o.log \in Seq(Nat) /\ Len(o.log) \in Nat
    BY LenProperties DEF Op, Link
  <2> HIDE DEF Op
  <2> QED BY <1>1, <1>2, <1>3, <1>4, <2>1 DEF Knows
<1> QED BY <1>1, <1>4 DEF t

LEMMA RestOf ==
    ASSUME NEW l \in Seq(Nat), NEW k \in Nat, k <= Len(l)
    PROVE  /\ Rest(l, k) \in Seq(Nat)
           /\ Len(Rest(l, k)) = Len(l) - k
           /\ \A i \in 1 .. Len(l) - k : Rest(l, k)[i] = l[k + i]
<1>1. Len(l) \in Nat /\ \A i \in k + 1 .. Len(l) : l[i] \in Nat
  BY LenProperties
<1>2. k + 1 \in Int /\ Len(l) \in Int
  BY <1>1
<1> DEFINE e == SubSeq(l, k + 1, Len(l))
           n == Len(l)
           m == k + 1
<1>3. /\ e \in Seq(Nat)
      /\ Len(e) = IF m <= n THEN n - m + 1 ELSE 0
      /\ \A i \in 1 .. n - m + 1 : e[i] = l[m + i - 1]
  BY <1>1, <1>2, SubSeqProperties
<1> HIDE DEF e
<1>4. Len(e) = Len(l) - k
  BY <1>1, <1>3
<1>5. \A i \in 1 .. Len(l) - k : e[i] = l[k + i]
  <2> SUFFICES ASSUME NEW i \in 1 .. Len(l) - k PROVE e[i] = l[k + i]
    OBVIOUS
  <2>1. i \in 1 .. n - m + 1 /\ m + i - 1 = k + i
    BY <1>1
  <2> QED BY <1>3, <2>1
<1> QED BY <1>3, <1>4, <1>5 DEF e, Rest

LEMMA RestIsASeq == ASSUME NEW l \in Seq(Nat), NEW k \in Nat PROVE Rest(l, k) \in Seq(Nat)
<1>1. Len(l) \in Nat
  BY LenProperties
<1>2. CASE k <= Len(l)
  BY <1>2, RestOf
<1>3. CASE ~(k <= Len(l))
  <2>1. SubSeq(l, k + 1, Len(l)) = <<>>
    BY <1>1, <1>3, SubSeqEmpty
  <2> QED BY <2>1, EmptySeq DEF Rest
<1> QED BY <1>2, <1>3

LEMMA Joined ==
    ASSUME NEW s \in Seq(Nat), NEW e \in Seq(Nat)
    PROVE  /\ s \o e \in Seq(Nat)
           /\ Len(s \o e) = Len(s) + Len(e)
           /\ \A i \in 1 .. Len(s) : (s \o e)[i] = s[i]
           /\ \A i \in 1 .. Len(e) : (s \o e)[Len(s) + i] = e[i]
<1>1. Len(s) \in Nat /\ Len(e) \in Nat
  BY LenProperties
<1> DEFINE t == s \o e
<1>2. /\ t \in Seq(Nat)
      /\ Len(t) = Len(s) + Len(e)
      /\ \A i \in 1 .. Len(s) + Len(e) : t[i] = IF i <= Len(s) THEN s[i] ELSE e[i - Len(s)]
  BY ConcatProperties
<1> HIDE DEF t
<1>3. \A i \in 1 .. Len(s) : t[i] = s[i]
  BY <1>1, <1>2
<1>4. \A i \in 1 .. Len(e) : t[Len(s) + i] = e[i]
  <2> SUFFICES ASSUME NEW i \in 1 .. Len(e) PROVE t[Len(s) + i] = e[i]
    OBVIOUS
  <2>1. Len(s) + i \in 1 .. Len(s) + Len(e) /\ ~(Len(s) + i <= Len(s)) /\ (Len(s) + i) - Len(s) = i
    BY <1>1
  <2> QED BY <1>2, <2>1
<1> QED BY <1>2, <1>3, <1>4 DEF t

\* A pull that found what it had measured, or nothing to add: the machine follows the cloud.
LEMMA Installed ==
    ASSUME NEW s \in Seq(Nat), NEW l \in Seq(Nat), NEW r \in Seq(Nat), NEW k \in Nat,
           Begins(l, r), Marked(s, r, k), k <= Len(l), k <= Len(s),
           Len(s) = k \/ Rest(l, k) = <<>>
    PROVE  /\ s \o Rest(l, k) \in Seq(Nat)
           /\ s \o Rest(l, k) = s \/ (Len(s) = k /\ Begins(s, l) /\ s \o Rest(l, k) = l)
           /\ Len(l) <= Len(s \o Rest(l, k))
<1> DEFINE e == Rest(l, k)
           t == s \o e
<1>0. Len(l) \in Nat /\ Len(s) \in Nat
  BY LenProperties
<1>1. e \in Seq(Nat) /\ Len(e) = Len(l) - k /\ \A i \in 1 .. Len(l) - k : e[i] = l[k + i]
  BY RestOf
<1> HIDE DEF e
<1>2. t \in Seq(Nat) /\ Len(t) = Len(s) + Len(e) /\ (\A i \in 1 .. Len(s) : t[i] = s[i])
      /\ \A i \in 1 .. Len(e) : t[Len(s) + i] = e[i]
  BY <1>1, Joined
<1> HIDE DEF t
<1>3. CASE Len(s) = k
  <2>1. \A i \in 1 .. k : s[i] = l[i]
    <3> SUFFICES ASSUME NEW i \in 1 .. k PROVE s[i] = l[i]
      OBVIOUS
    <3>1. i \in 1 .. Len(l) /\ i <= Len(s)
      BY <1>0
    <3> QED BY <3>1 DEF Marked, Begins
  <2>2. Len(t) = Len(l)
    BY <1>0, <1>1, <1>2, <1>3
  <2>3. \A i \in 1 .. Len(l) : t[i] = l[i]
    <3> SUFFICES ASSUME NEW i \in 1 .. Len(l) PROVE t[i] = l[i]
      OBVIOUS
    <3>1. CASE i <= k
      BY <1>0, <1>2, <1>3, <2>1, <3>1
    <3>2. CASE ~(i <= k)
      <4>1. i - k \in 1 .. Len(e) /\ Len(s) + (i - k) = i /\ k + (i - k) = i
        BY <1>0, <1>1, <1>3, <3>2
      <4>2. t[Len(s) + (i - k)] = e[i - k] /\ e[i - k] = l[k + (i - k)]
        BY <1>1, <1>2, <4>1
      <4> QED BY <4>1, <4>2
    <3> QED BY <3>1, <3>2
  <2>4. t = l
    BY <1>2, <2>2, <2>3, SeqEqual
  <2>5. Begins(s, l)
    BY <1>0, <1>3, <2>1 DEF Begins
  <2> QED BY <1>0, <1>2, <1>3, <2>2, <2>4, <2>5 DEF t, e
<1>4. CASE e = <<>>
  <2>1. t = s
    BY <1>4, ConcatEmptySeq DEF t
  <2>2. Len(l) = k
    BY <1>0, <1>1, <1>4
  <2> QED BY <1>0, <1>2, <2>1, <2>2 DEF t, e
<1> QED BY <1>3, <1>4 DEF e

\* A push that the cloud accepted: it has all that the client sent.
Extended(r, l) == r \o Rest(l, Len(r))

LEMMA Pushed ==
    ASSUME NEW s \in Seq(Nat), NEW l \in Seq(Nat), NEW r \in Seq(Nat), Begins(l, s), Marked(s, r, Len(r))
    PROVE  /\ Extended(r, l) \in Seq(Nat)
           /\ Extended(r, l) \in {r, l}
           /\ Begins(r, Extended(r, l))
           /\ Marked(s, Extended(r, l), Len(Extended(r, l)))
<1> DEFINE q == Extended(r, l)
<1> USE DEF Extended
<1> DEFINE k == Len(r)
           e == Rest(l, k)
<1>0. Len(l) \in Nat /\ Len(s) \in Nat /\ k \in Nat
  BY LenProperties
<1>1. CASE Len(l) <= k
  <2>1. e = <<>>
    BY <1>0, <1>1, SubSeqEmpty DEF Rest
  <2>2. q = r
    BY <2>1, ConcatEmptySeq
  <2>3. Begins(r, r)
    BY DEF Begins
  <2>4. Marked(s, r, Len(r))
    OBVIOUS
  <2> QED BY <2>2, <2>3, <2>4
<1>2. CASE ~(Len(l) <= k)
  <2>0. \A i \in 1 .. k : r[i] = l[i]
    <3> SUFFICES ASSUME NEW i \in 1 .. k PROVE r[i] = l[i]
      OBVIOUS
    <3>1. i \in 1 .. Len(l) /\ i <= Len(s)
      BY <1>0, <1>2 DEF Begins
    <3> QED BY <3>1 DEF Marked, Begins
  <2>1. Len(r) = k /\ k <= Len(l) /\ Marked(r, l, k)
    BY <1>0, <1>2, <2>0 DEF Marked
  <2>2. Begins(l, l)
    BY DEF Begins
  <2>3. Len(r) = k \/ Rest(l, k) = <<>>
    OBVIOUS
  <2>4. k <= Len(r)
    OBVIOUS
  <2>5. q \in Seq(Nat) /\ (q = r \/ (Len(r) = k /\ Begins(r, l) /\ q = l))
    BY <2>1, <2>2, <2>3, <2>4, Installed
  <2>6. Len(l) <= Len(q)
    BY <2>1, <2>2, <2>3, <2>4, Installed
  <2>7. q = l /\ Begins(r, l)
    BY <1>0, <1>2, <2>5, <2>6
  <2>8. Marked(s, l, Len(l))
    BY <1>0 DEF Begins, Marked
  <2> QED BY <2>7, <2>8
<1> QED BY <1>1, <1>2
-----------------------------------------------------------------------------
(* The types, the owners of the metadata, and where sessions exist.         *)

LEMMA InitSyncInv == Init => SyncInv
<1> SUFFICES ASSUME Init PROVE SyncInv
  OBVIOUS
<1>1. TypeOK
  BY SyncAssumption, EmptySeq DEF Init, TypeOK, Op, Cloud, Stage, Kind, Link, Idle, NoLink, NoCopy, Opened
<1>2. Existence
  <2>1. Len(<<>>) = 0 /\ \A m \in Machines : log[m] = <<>>
    BY EmptySeq DEF Init
  <2>2. \A x \in Actors : op[x].kind = "none"
    BY DEF Init, Idle
  <2> QED BY <2>1, <2>2 DEF Existence
<1>3. OwnersKeepTheirFields
  BY DEF Init, OwnersKeepTheirFields, Opened
<1>4. Copies
  <2>1. Len(<<>>) = 0 /\ remote.log = <<>> /\ \A m \in Machines : log[m] = <<>> /\ link[m].synced = 0
    BY EmptySeq DEF Init, NoCopy, NoLink
  <2>2. \A x \in Actors : Home[x] \in Machines /\ op[x].at = "idle" /\ op[x].kind = "none" /\ op[x].link.synced = 0
    BY SyncAssumption DEF Init, Idle, NoLink
  <2>3. Follows(<<>>, base) /\ Marked(<<>>, <<>>, 0)
    BY <2>1 DEF Follows, Marked
  <2>4. ASSUME NEW x \in Actors PROVE Knows(op[x], log[Home[x]], remote.log)
    BY <2>1, <2>2, <2>3 DEF Knows
  <2> QED BY <2>1, <2>3, <2>4 DEF Copies
<1> QED BY <1>1, <1>2, <1>3, <1>4 DEF SyncInv

\* What the steps make of a client's record.
LEMMA Records ==
    ASSUME NEW o \in Op
    PROVE  /\ \A at \in Stage : [o EXCEPT !.at = at] \in Op
           /\ \A kind \in Kind : [o EXCEPT !.kind = kind] \in Op
           /\ \A at \in Stage, n \in Nat : [o EXCEPT !.at = at, !.after = n] \in Op
           /\ \A at \in Stage, l \in Link : [o EXCEPT !.at = at, !.link = l] \in Op
           /\ \A kind \in Kind, t \in Nat : [o EXCEPT !.kind = kind, !.title = t] \in Op
           /\ \A at \in Stage, s \in Seq(Nat) : [o EXCEPT !.at = at, !.log = s] \in Op
           /\ \A at \in Stage, s \in Seq(Nat), t \in Nat : [o EXCEPT !.at = at, !.log = s, !.title = t] \in Op
           /\ \A at \in Stage, kind \in Kind, n \in Nat, t \in Nat :
                 [o EXCEPT !.at = at, !.kind = kind, !.title = t, !.after = n] \in Op
           /\ \A at \in Stage, l \in Link, kind \in Kind : [o EXCEPT !.at = at, !.link = l, !.kind = kind] \in Op
BY DEF Op

LEMMA AccountTypeStep ==
    ASSUME TypeOK, [Next]_syncVars
    PROVE  TypeOK'
<1> USE SyncAssumption DEF TypeOK
<1>0. /\ Idle \in Op /\ NoLink \in Link /\ \A n \in Nat : Linked(n) \in Link
      /\ NoCopy \in Cloud
      /\ \A s \in Seq(Nat), t \in Nat : Copy(s, t) \in Cloud
  BY EmptySeq DEF Idle, Op, Cloud, Stage, Kind, NoLink, Link, Linked, NoCopy, Copy
<1>1. ASSUME NEW m \in Machines, Rename(m) PROVE TypeOK'
  <2>1. owned[m] \in [title : Nat, link : Link] /\ owned[m].title + 1 \in Nat
    OBVIOUS
  <2>2. [owned[m] EXCEPT !.title = owned[m].title + 1] \in [title : Nat, link : Link]
    BY <2>1
  <2> QED BY <1>1, <2>1, <2>2 DEF Rename, past
<1>2. ASSUME NEW m \in Machines, Save(m) PROVE TypeOK'
  BY <1>2 DEF Save, syncVars, metadata, past
<1>3. ASSUME NEW m \in Machines, Write(m) PROVE TypeOK'
  <2>1. log[m] \in Seq(Nat) /\ base' \in Seq(Seq(Nat)) /\ Len(base') \in Nat
    BY <1>3, AppendProperties, LenProperties DEF Write
  <2>2. Append(log[m], Len(base')) \in Seq(Nat)
    BY <2>1, AppendProperties
  <2>3. torn' \in BOOLEAN
    BY <1>3 DEF Write
  <2> QED BY <1>3, <2>1, <2>2, <2>3 DEF Write, metadata
<1>4. ASSUME NEW x \in Actors, NEW kind \in {"push", "force"}, Push(x, kind) PROVE TypeOK'
  <2>1. Pushing(x, kind) \in Op
    <3>1. Home[x] \in Machines /\ title[Home[x]] \in Nat /\ (IF kind = "force" THEN 0 ELSE link[Home[x]].synced) \in Nat
      BY DEF Link
    <3>2. "reading" \in Stage /\ kind \in Kind /\ op[x] \in Op
      BY DEF Stage, Kind
    <3> QED BY <3>1, <3>2, Records DEF Pushing, Here
  <2>2. forced' \in Nat
    BY <1>4 DEF Push
  <2> QED BY <1>4, <2>1, <2>2 DEF Push, Go, metadata
\* The other actions of a client change what it is doing, and may set the link.
<1>5. ASSUME NEW x \in Actors, NEW o \in Op, Go(x, o),
             \/ UNCHANGED metadata
             \/ \E l \in Link : SetLink(Home[x], l),
             UNCHANGED <<log, exists, remote, base, past>>
      PROVE  TypeOK'
  <2>1. op' \in [Actors -> Op]
    BY <1>5 DEF Go
  <2>2. ASSUME NEW l \in Link, SetLink(Home[x], l) PROVE link' \in [Machines -> Link] /\ owned' \in [Machines -> [title : Nat, link : Link]]
    <3>1. Home[x] \in Machines /\ owned[Home[x]] \in [title : Nat, link : Link]
      OBVIOUS
    <3>2. [owned[Home[x]] EXCEPT !.link = l] \in [title : Nat, link : Link]
      BY <3>1
    <3> QED BY <2>2, <3>1, <3>2 DEF SetLink
  <2>3. link' \in [Machines -> Link] /\ owned' \in [Machines -> [title : Nat, link : Link]] /\ title' = title
    BY <1>5, <2>2 DEF metadata, SetLink
  <2> QED BY <1>5, <2>1, <2>3 DEF past
<1>6. ASSUME NEW x \in Actors, ReadEntries(x) PROVE TypeOK'
  <2>1. [op[x] EXCEPT !.at = "sending", !.log = log[Here(x)]] \in Op
    <3>1. log[Here(x)] \in Seq(Nat) /\ "sending" \in Stage /\ op[x] \in Op
      BY DEF Here, Stage
    <3> QED BY <3>1, Records
  <2> QED BY <1>6, <2>1, <1>5 DEF ReadEntries
<1>7. ASSUME NEW x \in Actors, Receive(x) PROVE remote' \in Cloud /\ replaced' \in BOOLEAN
  <2>1. op[x].log \in Seq(Nat) /\ op[x].after \in Nat /\ op[x].title \in Nat /\ remote.log \in Seq(Nat)
    BY DEF Op, Cloud
  <2>3. Rest(op[x].log, op[x].after) \in Seq(Nat)
    BY <2>1, RestIsASeq
  <2>4. remote.log \o Rest(op[x].log, op[x].after) \in Seq(Nat)
    BY <2>1, <2>3, Joined
  <2> QED BY <1>0, <1>7, <2>1, <2>4 DEF Receive
<1>8. ASSUME NEW x \in Actors PROVE \A at \in Stage : [op[x] EXCEPT !.at = at] \in Op
  BY DEF Op
<1>9. ASSUME NEW x \in Actors, PushArrives(x) PROVE TypeOK'
  <2>1. remote' \in Cloud /\ replaced' \in BOOLEAN
    BY <1>7, <1>9 DEF PushArrives
  <2>2. Len(remote'.log) \in Nat
    BY <2>1, LenProperties DEF Cloud
  <2>3. [Idle EXCEPT !.at = "acked", !.after = Len(remote'.log)] \in Op
    <3>1. "acked" \in Stage
      BY DEF Stage
    <3> QED BY <1>0, <2>2, <3>1, Records
  <2> QED BY <1>9, <2>1, <2>3 DEF PushArrives, Go, metadata
<1>10. ASSUME NEW x \in Actors, Fail(x) PROVE \E o \in Op : Go(x, o)
  BY <1>0, <1>8, <1>10 DEF Fail, Stop, Stage
<1>11. ASSUME NEW x \in Actors, PushConflicts(x) PROVE TypeOK'
  <2>1. PICK o \in Op : Go(x, o)
    BY <1>10, <1>11 DEF PushConflicts
  <2> QED BY <1>5, <1>11, <2>1 DEF PushConflicts
<1>12. ASSUME NEW x \in Actors, PushLost(x) PROVE TypeOK'
  <2>1. PICK o \in Op : Go(x, o)
    BY <1>10, <1>12 DEF PushLost
  <2>2. remote' \in Cloud /\ replaced' \in BOOLEAN
    BY <1>7, <1>12 DEF PushLost
  <2> QED BY <1>12, <2>1, <2>2 DEF PushLost, Go, metadata
<1>13. ASSUME NEW x \in Actors, Acknowledge(x) PROVE TypeOK'
  <2>1. Linked(op[x].after) \in Link
    BY <1>0 DEF Op
  <2> QED BY <1>0, <1>5, <1>13, <2>1 DEF Acknowledge, Stop, Here
<1>14. ASSUME NEW x \in Actors, Share(x) PROVE TypeOK'
  <2>1. [op[x] EXCEPT !.at = "linking", !.link = link[Here(x)]] \in Op
    <3>1. link[Here(x)] \in Link /\ "linking" \in Stage /\ op[x] \in Op
      BY DEF Here, Stage
    <3> QED BY <3>1, Records
  <2> QED BY <1>5, <1>14, <2>1 DEF Share
<1>15. ASSUME NEW x \in Actors, LinkFirst(x) PROVE TypeOK'
  <2>1. Linked(op[x].link.synced) \in Link
    BY <1>0 DEF Op, Link
  <2> QED BY <1>5, <1>8, <1>15, <2>1 DEF LinkFirst, Here, Stage
<1>16. ASSUME NEW x \in Actors, PushShared(x) PROVE TypeOK'
  <2>1. Pushing(x, "share") \in Op
    <3>1. Home[x] \in Machines /\ title[Home[x]] \in Nat /\ link[Home[x]].synced \in Nat
      BY DEF Link
    <3>2. "reading" \in Stage /\ "share" \in Kind /\ op[x] \in Op /\ "share" # "force"
      BY DEF Stage, Kind
    <3> QED BY <3>1, <3>2, Records DEF Pushing, Here
  <2> QED BY <1>5, <1>8, <1>16, <2>1 DEF PushShared, Stage
<1>17. ASSUME NEW x \in Actors, Restore(x) PROVE TypeOK'
  <2>1. op[x].link \in Link
    BY DEF Op
  <2> QED BY <1>0, <1>5, <1>17, <2>1 DEF Restore, Stop, Here
<1>18. ASSUME NEW x \in Actors, Unshare(x) PROVE TypeOK'
  <2>1. [op[x] EXCEPT !.at = "forgetting"] \in Op
    BY <1>8 DEF Stage
  <2>2. remote' \in Cloud /\ replaced' \in BOOLEAN
    BY <1>0, <1>18 DEF Unshare
  <2> QED BY <1>18, <2>1, <2>2 DEF Unshare, Go, metadata
<1>19. ASSUME NEW x \in Actors, ForgetLink(x) PROVE TypeOK'
  BY <1>0, <1>5, <1>19 DEF ForgetLink, Stop, Here
<1>20. ASSUME NEW x \in Actors, Pull(x) PROVE TypeOK'
  <2>1. [op[x] EXCEPT !.at = "measuring", !.link = link[Here(x)],
                      !.kind = IF exists[Here(x)] THEN "pull" ELSE "first"] \in Op
    <3>1. link[Here(x)] \in Link /\ "measuring" \in Stage /\ op[x] \in Op
      BY DEF Here, Stage
    <3>2. (IF exists[Here(x)] THEN "pull" ELSE "first") \in Kind
      BY DEF Kind
    <3> QED BY <3>1, <3>2, Records
  <2> QED BY <1>5, <1>20, <2>1 DEF Pull
<1>21. ASSUME NEW x \in Actors, Measure(x) PROVE TypeOK'
  <2>1. Len(log[Here(x)]) \in Nat
    BY LenProperties DEF Here
  <2>2. [op[x] EXCEPT !.at = "asking", !.after = Len(log[Here(x)])] \in Op
    <3>1. "asking" \in Stage /\ op[x] \in Op
      BY DEF Stage
    <3> QED BY <2>1, <3>1, Records
  <2> QED BY <1>5, <1>21, <2>2 DEF Measure
<1>22. ASSUME NEW x \in Actors, PullAnswered(x) PROVE TypeOK'
  <2>1. [op[x] EXCEPT !.at = "installing", !.log = remote.log,
                      !.title = IF op[x].kind = "first" THEN remote.title ELSE 0] \in Op
    <3>1. /\ remote.log \in Seq(Nat) /\ "installing" \in Stage /\ op[x] \in Op
          /\ (IF op[x].kind = "first" THEN remote.title ELSE 0) \in Nat
      BY DEF Stage, Cloud
    <3> QED BY <3>1, Records
  <2> QED BY <1>0, <1>5, <1>22, <2>1 DEF PullAnswered, Stop
<1>23. ASSUME NEW x \in Actors, InstallMeta(x) PROVE TypeOK'
  <2>1. [op[x] EXCEPT !.kind = "pull", !.title = 0] \in Op
    <3>1. "pull" \in Kind /\ op[x] \in Op
      BY DEF Kind
    <3> QED BY <3>1, Records
  <2>2. Len(op[x].log) \in Nat
    BY LenProperties DEF Op
  <2>3. Linked(Len(op[x].log)) \in Link
    BY <1>0, <2>2
  <2>4. exists' \in [Machines -> BOOLEAN] /\ op' \in [Actors -> Op]
    BY <1>23, <2>1 DEF InstallMeta, Go
  <2>5. CASE UNCHANGED metadata
    BY <1>23, <2>4, <2>5 DEF InstallMeta, past, metadata
  <2>6. CASE Install(Here(x), Len(op[x].log), op[x].title)
    <3>1. [title |-> op[x].title, link |-> Linked(Len(op[x].log))] \in [title : Nat, link : Link] /\ op[x].title \in Nat
      BY <2>3 DEF Op
    <3>2. /\ link' \in [Machines -> Link] /\ owned' \in [Machines -> [title : Nat, link : Link]]
          /\ title' \in [Machines -> Nat]
      BY <2>3, <2>6, <3>1 DEF Install
    <3> QED BY <1>23, <2>4, <3>2 DEF InstallMeta, past
  <2> QED BY <1>23, <2>5, <2>6 DEF InstallMeta
<1>24. ASSUME NEW x \in Actors, InstallEntries(x) PROVE TypeOK'
  <2>1. op[x].log \in Seq(Nat) /\ op[x].after \in Nat /\ log[Here(x)] \in Seq(Nat)
    BY DEF Op, Here
  <2>3. Rest(op[x].log, op[x].after) \in Seq(Nat)
    BY <2>1, RestIsASeq
  <2>4. log[Here(x)] \o Rest(op[x].log, op[x].after) \in Seq(Nat)
    BY <2>1, <2>3, Joined
  <2>5. [op[x] EXCEPT !.at = "pulled"] \in Op
    BY <1>8 DEF Stage
  <2>6. UNCHANGED <<exists, metadata, remote, base, past>>
    BY <1>24 DEF InstallEntries
  <2>7. CASE log' = [log EXCEPT ![Here(x)] = @ \o Rest(op[x].log, op[x].after)] /\ Go(x, [op[x] EXCEPT !.at = "pulled"])
    BY <2>4, <2>5, <2>6, <2>7 DEF Go, metadata, past
  <2>8. CASE Stop(x) /\ UNCHANGED log
    BY <1>0, <2>6, <2>8 DEF Go, Stop, metadata, past
  <2> QED BY <1>24, <2>7, <2>8 DEF InstallEntries
<1>25. ASSUME NEW x \in Actors, FinishPull(x) PROVE TypeOK'
  <2>1. Len(op[x].log) \in Nat
    BY LenProperties DEF Op
  <2>2. Linked(Len(op[x].log)) \in Link
    BY <1>0, <2>1
  <2> QED BY <1>0, <1>5, <1>25, <2>2 DEF FinishPull, Stop, Here
<1>26. ASSUME NEW x \in Actors, Die(x) PROVE TypeOK'
  BY <1>0, <1>26 DEF Die, Stop, Go, metadata
<1>27. CASE UNCHANGED syncVars
  BY <1>27 DEF syncVars, metadata, past
<1> HIDE DEF TypeOK
<1> QED
  BY <1>1, <1>2, <1>3, <1>4, <1>6, <1>9, <1>11, <1>12, <1>13, <1>14, <1>15, <1>16, <1>17, <1>18, <1>19, <1>20,
     <1>21, <1>22, <1>23, <1>24, <1>25, <1>26, <1>27 DEF Next, Sync

LEMMA OwnersStep ==
    ASSUME TypeOK, OwnersKeepTheirFields, [Next]_syncVars
    PROVE  OwnersKeepTheirFields'
<1> USE SyncAssumption
<1>1. CASE UNCHANGED metadata
  BY <1>1 DEF metadata, OwnersKeepTheirFields
<1>2. ASSUME NEW m \in Machines, NEW l, SetLink(m, l) PROVE OwnersKeepTheirFields'
  <2> SUFFICES ASSUME NEW n \in Machines PROVE owned'[n] = [title |-> title'[n], link |-> link'[n]]
    BY DEF OwnersKeepTheirFields
  <2>1. owned[n] = [title |-> title[n], link |-> link[n]] /\ owned[n] \in [title : Nat, link : Link]
    BY DEF OwnersKeepTheirFields, TypeOK
  <2>2. title' = title /\ link' = [link EXCEPT ![m] = l] /\ owned' = [owned EXCEPT ![m].link = l]
    BY <1>2 DEF SetLink
  <2>3. CASE n = m
    <3>1. owned'[n] = [owned[n] EXCEPT !.link = l] /\ link'[n] = l
      BY <2>2, <2>3 DEF TypeOK
    <3> QED BY <2>1, <2>2, <3>1
  <2>4. CASE n # m
    BY <2>1, <2>2, <2>4 DEF TypeOK
  <2> QED BY <2>3, <2>4
<1>3. ASSUME NEW m \in Machines, Rename(m) PROVE OwnersKeepTheirFields'
  <2> SUFFICES ASSUME NEW n \in Machines PROVE owned'[n] = [title |-> title'[n], link |-> link'[n]]
    BY DEF OwnersKeepTheirFields
  <2>1. owned[n] = [title |-> title[n], link |-> link[n]] /\ owned[n] \in [title : Nat, link : Link]
    BY DEF OwnersKeepTheirFields, TypeOK
  <2>2. /\ link' = link /\ title' = [title EXCEPT ![m] = owned[m].title + 1]
        /\ owned' = [owned EXCEPT ![m].title = @ + 1]
    BY <1>3 DEF Rename
  <2>3. CASE n = m
    <3>1. owned'[n] = [owned[n] EXCEPT !.title = owned[n].title + 1] /\ title'[n] = owned[n].title + 1
      BY <2>2, <2>3 DEF TypeOK
    <3> QED BY <2>1, <2>2, <3>1
  <2>4. CASE n # m
    BY <2>1, <2>2, <2>4 DEF TypeOK
  <2> QED BY <2>3, <2>4
<1>4. ASSUME NEW x \in Actors, Sync(x)
      PROVE  UNCHANGED metadata \/ (\E l : SetLink(Home[x], l)) \/ (\E n, t : Install(Home[x], n, t))
  BY <1>4 DEF Sync, Push, ReadEntries, PushArrives, PushConflicts, PushLost, Acknowledge, Share, LinkFirst, PushShared,
     Restore, Unshare, ForgetLink, Pull, Measure, PullAnswered, InstallMeta, InstallEntries, FinishPull, Die, Here
<1>5. \A x \in Actors : Home[x] \in Machines
  OBVIOUS
<1>6. ASSUME NEW m \in Machines, NEW n, NEW t, Install(m, n, t) PROVE OwnersKeepTheirFields'
  BY <1>6 DEF Install, OwnersKeepTheirFields, TypeOK
<1> QED BY <1>1, <1>2, <1>3, <1>4, <1>5, <1>6 DEF Next, Save, Write, syncVars

LEMMA ExistenceStep ==
    ASSUME TypeOK, Existence, [Next]_syncVars
    PROVE  Existence'
<1> USE SyncAssumption
<1>1. \A m \in Machines : Len(log[m]) \in Nat
  BY LenProperties DEF TypeOK
<1>2. \A m \in Machines : exists[m] => exists'[m]
  BY DEF Next, Sync, Rename, Save, Write, Push, ReadEntries, PushArrives, PushConflicts, PushLost, Acknowledge, Share,
     LinkFirst, PushShared, Restore, Unshare, ForgetLink, Pull, Measure, PullAnswered, InstallMeta, InstallEntries,
     FinishPull, Die, Here, syncVars, TypeOK
<1>3. \A m \in Machines : Len(log'[m]) > 0 => exists'[m]
  <2>1. CASE UNCHANGED log
    BY <1>2, <2>1 DEF Existence
  <2>2. ASSUME NEW h \in Machines, NEW s, log' = [log EXCEPT ![h] = s], exists[h]
        PROVE  \A m \in Machines : Len(log'[m]) > 0 => exists'[m]
    BY <1>2, <2>2 DEF Existence, TypeOK
  <2>3. ASSUME NEW m \in Machines, Write(m) PROVE exists[m] /\ \E s : log' = [log EXCEPT ![m] = s]
    BY <2>3 DEF Write
  <2>4. ASSUME NEW x \in Actors, InstallEntries(x)
        PROVE  UNCHANGED log \/ (exists[Home[x]] /\ \E s : log' = [log EXCEPT ![Home[x]] = s])
    BY <2>4 DEF InstallEntries, Existence, Here
  <2>5. UNCHANGED log \/ (\E m \in Machines : Write(m)) \/ (\E x \in Actors : InstallEntries(x))
    BY DEF Next, Sync, Rename, Save, Push, ReadEntries, PushArrives, PushConflicts, PushLost, Acknowledge, Share,
       LinkFirst, PushShared, Restore, Unshare, ForgetLink, Pull, Measure, PullAnswered, InstallMeta,
       FinishPull, Die, syncVars
  <2> QED BY <2>1, <2>2, <2>3, <2>4, <2>5
<1>4. \A x \in Actors : op'[x].kind = "pull" => exists'[Home[x]]
  <2>1. CASE UNCHANGED op
    BY <1>2, <2>1 DEF Existence
  <2>2. ASSUME NEW x \in Actors, NEW o, Go(x, o), o.kind = "pull" => op[x].kind = "pull" \/ exists'[Home[x]]
        PROVE  \A y \in Actors : op'[y].kind = "pull" => exists'[Home[y]]
    BY <1>2, <2>2 DEF Go, Existence, TypeOK
  <2>3. ASSUME NEW x \in Actors, Stop(x)
        PROVE  \A y \in Actors : op'[y].kind = "pull" => exists'[Home[y]]
    <3>1. Idle.kind # "pull"
      BY DEF Idle
    <3> QED BY <2>2, <2>3, <3>1 DEF Stop
  <2>4. ASSUME NEW x \in Actors PROVE op[x] \in Op
    BY DEF TypeOK
  <2>5. ASSUME NEW x \in Actors, NEW at, Go(x, [op[x] EXCEPT !.at = at])
        PROVE  \A y \in Actors : op'[y].kind = "pull" => exists'[Home[y]]
    <3>1. [op[x] EXCEPT !.at = at].kind = op[x].kind
      BY <2>4 DEF Op
    <3> QED BY <2>2, <2>5, <3>1
  <2>6. ASSUME NEW x \in Actors, NEW kind, kind # "pull", Go(x, Pushing(x, kind))
        PROVE  \A y \in Actors : op'[y].kind = "pull" => exists'[Home[y]]
    <3>1. Pushing(x, kind).kind = kind
      BY <2>4 DEF Op, Pushing
    <3> QED BY <2>2, <2>6, <3>1
  <2>7. ASSUME NEW x \in Actors, PushConflicts(x) \/ PushLost(x)
        PROVE  \A y \in Actors : op'[y].kind = "pull" => exists'[Home[y]]
    BY <2>3, <2>5, <2>7 DEF PushConflicts, PushLost, Fail
  <2>8. ASSUME NEW x \in Actors, ReadEntries(x)
        PROVE  \A y \in Actors : op'[y].kind = "pull" => exists'[Home[y]]
    <3>1. [op[x] EXCEPT !.at = "sending", !.log = log[Here(x)]].kind = op[x].kind
      BY <2>4 DEF Op
    <3> QED BY <2>2, <2>8, <3>1 DEF ReadEntries
  <2>9. ASSUME NEW x \in Actors, PushArrives(x)
        PROVE  \A y \in Actors : op'[y].kind = "pull" => exists'[Home[y]]
    <3>1. [Idle EXCEPT !.at = "acked", !.after = Len(remote'.log)].kind = "none"
      BY DEF Idle
    <3> QED BY <2>2, <2>9, <3>1 DEF PushArrives
  <2>10. ASSUME NEW x \in Actors, Share(x)
        PROVE  \A y \in Actors : op'[y].kind = "pull" => exists'[Home[y]]
    <3>1. [op[x] EXCEPT !.at = "linking", !.link = link[Here(x)]].kind = op[x].kind
      BY <2>4 DEF Op
    <3> QED BY <2>2, <2>10, <3>1 DEF Share
  <2>11. ASSUME NEW x \in Actors, Pull(x)
        PROVE  \A y \in Actors : op'[y].kind = "pull" => exists'[Home[y]]
    <3> DEFINE o == [op[x] EXCEPT !.at = "measuring", !.link = link[Here(x)],
                                  !.kind = IF exists[Here(x)] THEN "pull" ELSE "first"]
    <3>1. o.kind = IF exists[Here(x)] THEN "pull" ELSE "first"
      BY <2>4 DEF Op
    <3>2. o.kind = "pull" => exists[Home[x]]
      BY <3>1 DEF Here
    <3>3. Go(x, o)
      BY <2>11 DEF Pull
    <3> HIDE DEF o
    <3> QED BY <1>2, <2>2, <3>2, <3>3
  <2>12. ASSUME NEW x \in Actors, Measure(x)
        PROVE  \A y \in Actors : op'[y].kind = "pull" => exists'[Home[y]]
    <3>1. [op[x] EXCEPT !.at = "asking", !.after = Len(log[Here(x)])].kind = op[x].kind
      BY <2>4 DEF Op
    <3> QED BY <2>2, <2>12, <3>1 DEF Measure
  <2>13. ASSUME NEW x \in Actors, PullAnswered(x)
        PROVE  \A y \in Actors : op'[y].kind = "pull" => exists'[Home[y]]
    <3>1. [op[x] EXCEPT !.at = "installing", !.log = remote.log,
                        !.title = IF op[x].kind = "first" THEN remote.title ELSE 0].kind = op[x].kind
      BY <2>4 DEF Op
    <3> QED BY <2>2, <2>3, <2>13, <3>1 DEF PullAnswered
  <2>14. ASSUME NEW x \in Actors, InstallMeta(x)
        PROVE  \A y \in Actors : op'[y].kind = "pull" => exists'[Home[y]]
    <3>1. exists'[Home[x]]
      BY <2>14 DEF InstallMeta, TypeOK, Here
    <3> QED BY <2>2, <2>14, <3>1 DEF InstallMeta
  <2>15. ASSUME NEW m \in Machines, Rename(m) \/ Save(m) \/ Write(m) PROVE UNCHANGED op
    BY <2>15 DEF Rename, Save, Write, syncVars
  <2>16. ASSUME NEW x \in Actors,
                \/ \E kind \in {"push", "force"} : Push(x, kind)
                \/ Acknowledge(x) \/ LinkFirst(x) \/ PushShared(x) \/ Restore(x) \/ Unshare(x) \/ ForgetLink(x)
                \/ InstallEntries(x) \/ FinishPull(x) \/ Die(x)
        PROVE  \A y \in Actors : op'[y].kind = "pull" => exists'[Home[y]]
    BY <2>3, <2>5, <2>6, <2>16 DEF Push, Acknowledge, LinkFirst, PushShared, Restore, Unshare, ForgetLink,
       InstallEntries, FinishPull, Die
  <2> QED BY <2>1, <2>7, <2>8, <2>9, <2>10, <2>11, <2>12, <2>13, <2>14, <2>15, <2>16 DEF Next, Sync, syncVars
<1> QED BY <1>3, <1>4 DEF Existence

-----------------------------------------------------------------------------
(* The copies.                                                              *)

LEMMA HistoryStays ==
    ASSUME [Next]_syncVars
    PROVE  (replaced => replaced') /\ (torn => torn')
<1>1. CASE UNCHANGED <<replaced, torn>>
  BY <1>1
<1>2. ASSUME NEW m \in Machines, Rename(m) \/ Save(m) \/ Write(m) PROVE (replaced => replaced') /\ (torn => torn')
  <2>1. CASE Rename(m) \/ Save(m)
    BY <2>1 DEF Rename, Save, past, syncVars
  <2>2. CASE Write(m)
    <3>1. UNCHANGED replaced /\ torn' = (torn \/ Lacks(m))
      BY <2>2 DEF Write
    <3> QED BY <3>1
  <2> QED BY <1>2, <2>1, <2>2
<1>3. ASSUME NEW x \in Actors, PushArrives(x) \/ PushLost(x) PROVE UNCHANGED torn /\ (replaced => replaced')
  BY <1>3 DEF PushArrives, PushLost, Receive
<1>4. ASSUME NEW x \in Actors, Unshare(x) PROVE UNCHANGED torn /\ (replaced => replaced')
  BY <1>4 DEF Unshare
<1>5. ASSUME NEW x \in Actors, Sync(x), ~PushArrives(x), ~PushLost(x), ~Unshare(x) PROVE UNCHANGED <<replaced, torn>>
  BY <1>5 DEF Sync, Push, ReadEntries, PushConflicts, Acknowledge, Share, LinkFirst, PushShared, Restore, ForgetLink,
     Pull, Measure, PullAnswered, InstallMeta, InstallEntries, FinishPull, Die, past
<1> QED BY <1>1, <1>2, <1>3, <1>4, <1>5 DEF Next, syncVars, past

LEMMA BeginningFollows ==
    ASSUME NEW l \in Seq(Nat), NEW s \in Seq(Nat), NEW b \in Seq(Seq(Nat)), Begins(l, s), Follows(s, b)
    PROVE  Follows(l, b)
<1>1. Len(l) \in Nat /\ Len(s) \in Nat
  BY LenProperties
<1> SUFFICES ASSUME NEW i \in 1 .. Len(l)
             PROVE  l[i] \in 1 .. Len(b) /\ Len(b[l[i]]) = i - 1 /\ \A j \in 1 .. i - 1 : b[l[i]][j] = l[j]
  BY DEF Follows
<1>2. i \in 1 .. Len(s) /\ l[i] = s[i] /\ \A j \in 1 .. i - 1 : l[j] = s[j]
  BY <1>1 DEF Begins
<1> QED BY <1>2 DEF Follows

\* A client goes on, and may set the link of its machine.
LEMMA ClientStep ==
    ASSUME TypeOK, Copies, NEW x \in Actors, NEW o, Go(x, o),
           Knows(o, log[Home[x]], remote.log),
           \/ UNCHANGED link
           \/ \E l \in Link : link' = [link EXCEPT ![Home[x]] = l] /\ Marked(log[Home[x]], remote.log, l.synced),
           UNCHANGED <<log, remote, base>>
    PROVE  Copies'
<1>1. \A y \in Actors : Knows(op'[y], log[Home[y]], remote.log)
  BY DEF Copies, Go, TypeOK
<1>2. \A m \in Machines : Marked(log[m], remote.log, link'[m].synced)
  BY DEF Copies, TypeOK
<1>3. \A m \in Machines : Follows(log[m], base)
  BY DEF Copies
<1>4. Follows(remote.log, base)
  BY DEF Copies
<1> QED BY <1>1, <1>2, <1>3, <1>4 DEF Copies

LEMMA CopiesStep ==
    ASSUME SyncInv, TypeOK', [Next]_syncVars, ~replaced', ~torn'
    PROVE  Copies'
<1> USE SyncAssumption
<1>0. Copies /\ TypeOK
  BY HistoryStays DEF SyncInv, TypeOK
<1>1. \A x \in Actors : /\ Home[x] \in Machines /\ op[x] \in Op /\ link[Home[x]] \in Link /\ log[Home[x]] \in Seq(Nat)
                        /\ op[x].after \in Nat /\ op[x].link \in Link /\ op[x].log \in Seq(Nat)
                        /\ Len(log[Home[x]]) \in Nat /\ Len(op[x].log) \in Nat
                        /\ link[Home[x]].synced \in Nat /\ op[x].link.synced \in Nat
  <2>1. \A x \in Actors : Home[x] \in Machines
    OBVIOUS
  <2>2. ASSUME NEW x \in Actors PROVE op[x] \in Op /\ link[Home[x]] \in Link /\ log[Home[x]] \in Seq(Nat)
    BY <1>0, <2>1 DEF TypeOK
  <2>3. ASSUME NEW x \in Actors PROVE op[x].after \in Nat /\ op[x].link \in Link /\ op[x].log \in Seq(Nat)
    BY <2>2 DEF Op
  <2>4. \A l \in Link : l.synced \in Nat
    BY DEF Link
  <2> QED BY <2>1, <2>2, <2>3, <2>4, LenProperties
<1>2. remote.log \in Seq(Nat) /\ Len(remote.log) \in Nat /\ base \in Seq(Seq(Nat)) /\ Len(base) \in Nat
  BY <1>0, LenProperties DEF TypeOK, Cloud
<1>3. \A x \in Actors : Knows(op[x], log[Home[x]], remote.log) /\ Marked(log[Home[x]], remote.log, link[Home[x]].synced)
  BY <1>0, <1>1 DEF Copies
<1>4. \A s \in Seq(Nat) : Marked(s, remote.log, 0)
  BY <1>2 DEF Marked
\* Runs and renames.
<1>5. ASSUME NEW m \in Machines, Rename(m) \/ Save(m) PROVE Copies'
  BY <1>0, <1>5 DEF Rename, Save, Copies, past, metadata, syncVars
<1>6. ASSUME NEW m \in Machines, Write(m) PROVE Copies'
  <2> DEFINE s == log[m]
             t == Append(s, Len(base'))
  <2>1. s \in Seq(Nat) /\ Len(s) \in Nat /\ Len(base') = Len(base) + 1 /\ Len(base') \in Nat
    BY <1>0, <1>2, <1>6, LenProperties, AppendProperties DEF TypeOK, Write
  <2>2. base' \in Seq(Seq(Nat)) /\ base'[Len(base')] = s /\ \A i \in 1 .. Len(base) : base'[i] = base[i]
    BY <1>2, <1>6, <2>1, AppendProperties DEF Write
  <2>3. t \in Seq(Nat) /\ Len(t) = Len(s) + 1 /\ t[Len(t)] = Len(base') /\ \A i \in 1 .. Len(s) : t[i] = s[i]
    BY <2>1, AppendProperties
  <2> HIDE DEF t
  <2>4. log' = [log EXCEPT ![m] = t] /\ UNCHANGED <<op, remote, link>> /\ ~Lacks(m)
    BY <1>6 DEF Write, metadata, t
  <2>5. ASSUME NEW f \in Seq(Nat), Follows(f, base) PROVE Follows(f, base')
    <3> SUFFICES ASSUME NEW i \in 1 .. Len(f)
                 PROVE  /\ f[i] \in 1 .. Len(base')
                        /\ Len(base'[f[i]]) = i - 1
                        /\ \A j \in 1 .. i - 1 : base'[f[i]][j] = f[j]
      BY DEF Follows
    <3>1. /\ f[i] \in 1 .. Len(base) /\ Len(base[f[i]]) = i - 1
          /\ \A j \in 1 .. i - 1 : base[f[i]][j] = f[j]
      BY <2>5 DEF Follows
    <3>2. f[i] \in 1 .. Len(base')
      BY <1>2, <2>1, <3>1
    <3>3. base'[f[i]] = base[f[i]]
      BY <2>2, <3>1
    <3> QED BY <3>1, <3>2, <3>3
  <2>6. Follows(s, base) /\ Follows(remote.log, base)
    BY <1>0 DEF Copies
  <2>7. Follows(t, base')
    <3>1. Follows(s, base')
      BY <2>1, <2>5, <2>6
    <3> SUFFICES ASSUME NEW i \in 1 .. Len(t)
                 PROVE  /\ t[i] \in 1 .. Len(base')
                        /\ Len(base'[t[i]]) = i - 1
                        /\ \A j \in 1 .. i - 1 : base'[t[i]][j] = t[j]
      BY DEF Follows
    <3>2. CASE i <= Len(s)
      <4>0. i \in 1 .. Len(s)
        <5>1. i \in Nat /\ 1 <= i
          OBVIOUS
        <5> QED BY <2>1, <3>2, <5>1
      <4> HIDE DEF s
      <4>1. \A j \in 1 .. i - 1 : j \in 1 .. Len(s)
        BY <2>1, <4>0
      <4>2. t[i] = s[i] /\ \A j \in 1 .. i - 1 : t[j] = s[j]
        BY <2>3, <4>0, <4>1
      <4> QED BY <3>1, <4>0, <4>2 DEF Follows
    <3>3. CASE ~(i <= Len(s))
      <4>0. i = Len(t) /\ i - 1 = Len(s)
        BY <2>1, <2>3, <3>3
      <4>1. t[i] = Len(base') /\ \A j \in 1 .. i - 1 : t[j] = s[j]
        BY <2>3, <4>0
      <4> QED BY <2>1, <2>2, <4>0, <4>1
    <3> QED BY <3>2, <3>3
  <2>8. \A k \in Nat : Marked(s, remote.log, k) /\ ~(Len(s) < k) => Marked(t, remote.log, k)
    BY <1>2, <2>1, MachineWrites DEF t
  <2>9. \A n \in Machines : Marked(log'[n], remote.log, link[n].synced) /\ Follows(log'[n], base')
    <3> SUFFICES ASSUME NEW n \in Machines PROVE Marked(log'[n], remote.log, link[n].synced) /\ Follows(log'[n], base')
      OBVIOUS
    <3>1. link[n].synced \in Nat /\ log[n] \in Seq(Nat) /\ Marked(log[n], remote.log, link[n].synced) /\ Follows(log[n], base)
      BY <1>0 DEF TypeOK, Copies, Link
    <3>2. CASE n = m
      <4>1. log'[n] = t /\ ~(Len(s) < link[n].synced)
        BY <1>0, <2>4, <3>2 DEF TypeOK, Lacks
      <4> QED BY <2>7, <2>8, <3>1, <3>2, <4>1
    <3>3. CASE n # m
      <4>1. log'[n] = log[n]
        BY <1>0, <2>4, <3>3 DEF TypeOK
      <4> QED BY <2>5, <3>1, <4>1
    <3> QED BY <3>2, <3>3
  <2>10. \A y \in Actors : Knows(op[y], log'[Home[y]], remote.log)
    <3> SUFFICES ASSUME NEW y \in Actors PROVE Knows(op[y], log'[Home[y]], remote.log)
      OBVIOUS
    <3>1. CASE Home[y] = m
      <4>1. log'[Home[y]] = t
        BY <1>0, <2>4, <3>1 DEF TypeOK
      <4>2. op[y] \in Op /\ Knows(op[y], s, remote.log)
        BY <1>1, <1>3, <3>1
      <4>3. op[y].kind # "first" /\ ~(Len(s) < op[y].after) /\ ~(Len(s) < op[y].link.synced)
        BY <2>4, <3>1 DEF Lacks
      <4>4. Knows(op[y], t, remote.log)
        BY <1>2, <2>1, <4>2, <4>3, MachineWrites DEF t
      <4> QED BY <4>1, <4>4
    <3>2. CASE Home[y] # m
      <4>1. log'[Home[y]] = log[Home[y]]
        BY <1>0, <1>1, <2>4, <3>2 DEF TypeOK
      <4> QED BY <1>3, <4>1
    <3> QED BY <3>1, <3>2
  <2>11. Follows(remote.log, base')
    BY <1>2, <2>5, <2>6
  <2> QED BY <2>4, <2>9, <2>10, <2>11 DEF Copies
\* The steps of a client.
<1>7. ASSUME NEW x \in Actors, NEW at \in Stage \ {"reading", "sending", "acked", "measuring", "asking", "installing", "pulled"}
      PROVE  Knows([op[x] EXCEPT !.at = at], log[Home[x]], remote.log)
  <2> DEFINE o == [op[x] EXCEPT !.at = at]
  <2>1. o.at = at /\ o.kind = op[x].kind /\ o.link = op[x].link
    BY <1>1 DEF Op
  <2> HIDE DEF o
  <2> QED BY <1>3, <2>1 DEF Knows, o
<1>8. ASSUME NEW x \in Actors PROVE Knows(Idle, log[Home[x]], remote.log)
  <2>1. Idle.at = "idle" /\ Idle.kind = "none" /\ Idle.link.synced = 0
    BY DEF Idle, NoLink
  <2> QED BY <1>1, <1>4, <2>1 DEF Knows
<1>9. ASSUME NEW x \in Actors, NEW kind \in {"push", "force", "share"} PROVE Knows(Pushing(x, kind), log[Home[x]], remote.log)
  <2> DEFINE o == Pushing(x, kind)
  <2>1. /\ o.at = "reading" /\ o.kind = kind /\ o.link = op[x].link
        /\ o.after = IF kind = "force" THEN 0 ELSE link[Home[x]].synced
    BY <1>1 DEF Op, Pushing, Here
  <2>2. Marked(log[Home[x]], remote.log, o.after)
    BY <1>1, <1>3, <1>4, <2>1
  <2> HIDE DEF o
  <2> QED BY <1>3, <2>1, <2>2 DEF Knows, o
<1>10. ASSUME NEW x \in Actors, NEW kind \in {"push", "force"}, Push(x, kind) PROVE Copies'
  BY <1>0, <1>9, <1>10, ClientStep DEF Push, metadata
<1>11. ASSUME NEW x \in Actors, ReadEntries(x) PROVE Copies'
  <2> DEFINE o == [op[x] EXCEPT !.at = "sending", !.log = log[Here(x)]]
  <2>1. /\ o.at = "sending" /\ o.kind = op[x].kind /\ o.link = op[x].link /\ o.after = op[x].after
        /\ o.log = log[Home[x]] /\ op[x].at = "reading"
    BY <1>1, <1>11 DEF Op, Here, ReadEntries, Doing
  <2>2. Begins(log[Home[x]], log[Home[x]])
    BY <1>1 DEF Begins
  <2>3. Go(x, o) /\ UNCHANGED <<log, link, remote, base>>
    BY <1>11 DEF ReadEntries, metadata
  <2> HIDE DEF o
  <2>4. Knows(o, log[Home[x]], remote.log)
    BY <1>3, <2>1, <2>2 DEF Knows
  <2> QED BY <1>0, <2>3, <2>4, ClientStep
\* What the cloud takes continues what it has.
<1>12. ASSUME NEW x \in Actors, op[x].at = "sending", Accepts(x), Receive(x)
       PROVE  /\ remote'.log \in Seq(Nat) /\ Begins(remote.log, remote'.log) /\ Follows(remote'.log, base)
              /\ Marked(log[Home[x]], remote'.log, Len(remote'.log))
  <2> DEFINE l == op[x].log
             k == op[x].after
             r == remote.log
             s == log[Home[x]]
  <2>1. op[x].kind # "force" /\ Len(r) = k /\ remote' = Copy(r \o Rest(l, k), op[x].title)
    <3>1. replaced' => FALSE
      OBVIOUS
    <3> QED BY <1>12, <3>1 DEF Accepts, Receive
  <2>2. Begins(l, s) /\ Marked(s, r, k)
    BY <1>3, <1>12 DEF Knows
  <2>3. remote'.log = r \o Rest(l, k)
    BY <2>1 DEF Copy
  <2>4. s \in Seq(Nat) /\ l \in Seq(Nat) /\ r \in Seq(Nat) /\ k \in Nat
    BY <1>1, <1>2
  <2>5. Follows(s, base) /\ Follows(r, base) /\ Len(s) \in Nat /\ Len(l) \in Nat
    BY <1>0, <1>1 DEF Copies
  <2> HIDE DEF l, k, r, s
  <2>6. Begins(l, s) /\ Marked(s, r, Len(r)) /\ remote'.log = Extended(r, l)
    BY <2>1, <2>2, <2>3 DEF Extended
  <2>7. /\ remote'.log \in Seq(Nat) /\ remote'.log \in {r, l} /\ Begins(r, remote'.log)
        /\ Marked(s, remote'.log, Len(remote'.log))
    BY <2>4, <2>6, Pushed
  <2>8. Follows(l, base)
    BY <1>2, <2>2, <2>4, <2>5, BeginningFollows
  <2> QED BY <2>5, <2>7, <2>8 DEF r, s
<1>13. ASSUME NEW x \in Actors, NEW o, Go(x, o), UNCHANGED <<log, metadata, base>>,
              remote'.log \in Seq(Nat) /\ Begins(remote.log, remote'.log) /\ Follows(remote'.log, base),
              Knows(o, log[Home[x]], remote'.log)
       PROVE  Copies'
  <2>1. \A m \in Machines : Marked(log[m], remote'.log, link[m].synced) /\ Follows(log[m], base)
    <3> SUFFICES ASSUME NEW m \in Machines PROVE Marked(log[m], remote'.log, link[m].synced) /\ Follows(log[m], base)
      OBVIOUS
    <3>1. log[m] \in Seq(Nat) /\ link[m].synced \in Nat /\ Marked(log[m], remote.log, link[m].synced) /\ Follows(log[m], base)
      BY <1>0 DEF TypeOK, Link, Copies
    <3> QED BY <1>2, <1>13, <3>1, CloudGrows
  <2>2. \A y \in Actors : Knows(op'[y], log[Home[y]], remote'.log)
    <3> SUFFICES ASSUME NEW y \in Actors PROVE Knows(op'[y], log[Home[y]], remote'.log)
      OBVIOUS
    <3>1. log[Home[y]] \in Seq(Nat) /\ op[y] \in Op /\ Knows(op[y], log[Home[y]], remote.log)
      BY <1>1, <1>3
    <3>2. Knows(op[y], log[Home[y]], remote'.log)
      BY <1>2, <1>13, <3>1, CloudGrows
    <3>3. op'[y] = op[y] \/ (y = x /\ op'[y] = o)
      BY <1>0, <1>13 DEF Go, TypeOK
    <3> QED BY <1>13, <3>2, <3>3
  <2>3. UNCHANGED <<log, link, base>>
    BY <1>13 DEF metadata
  <2> QED BY <1>13, <2>1, <2>2, <2>3 DEF Copies
<1>14. ASSUME NEW x \in Actors, PushArrives(x) PROVE Copies'
  <2> DEFINE o == [Idle EXCEPT !.at = "acked", !.after = Len(remote'.log)]
  <2>1. /\ o.at = "acked" /\ o.kind = "none" /\ o.link.synced = 0 /\ o.after = Len(remote'.log)
        /\ op[x].at = "sending"
    BY <1>1, <1>14 DEF Idle, NoLink, PushArrives, Doing
  <2>2. Go(x, o) /\ UNCHANGED <<log, metadata, base>> /\ Accepts(x) /\ Receive(x)
    BY <1>14 DEF PushArrives
  <2> HIDE DEF o
  <2>3. /\ remote'.log \in Seq(Nat) /\ Begins(remote.log, remote'.log) /\ Follows(remote'.log, base)
        /\ Marked(log[Home[x]], remote'.log, Len(remote'.log))
    BY <1>12, <2>1, <2>2
  <2>4. Marked(log[Home[x]], remote'.log, 0)
    BY <2>3, LenProperties DEF Marked
  <2>5. Knows(o, log[Home[x]], remote'.log)
    BY <2>1, <2>3, <2>4 DEF Knows
  <2> QED BY <1>13, <2>2, <2>3, <2>5
<1>15. ASSUME NEW x \in Actors, Fail(x)
       PROVE  \E o \in Op : /\ Go(x, o)
                            /\ \A r \in Seq(Nat) : Knows(op[x], log[Home[x]], r) => Knows(o, log[Home[x]], r)
  <2>1. CASE op[x].kind = "share"
    <3> DEFINE o == [op[x] EXCEPT !.at = "restoring"]
    <3>1. o \in Op
      BY <1>1, Records DEF Stage
    <3>2. o.at = "restoring" /\ o.kind = op[x].kind /\ o.link = op[x].link /\ Go(x, o)
      BY <1>1, <1>15, <2>1 DEF Op, Fail
    <3> HIDE DEF o
    <3>3. \A r \in Seq(Nat) : Knows(op[x], log[Home[x]], r) => Knows(o, log[Home[x]], r)
      BY <3>2 DEF Knows
    <3> QED BY <3>1, <3>2, <3>3
  <2>2. CASE op[x].kind # "share"
    <3>1. Go(x, Idle) /\ Idle \in Op
      BY <1>15, <2>2, EmptySeq DEF Fail, Stop, Idle, Op, Stage, Kind, NoLink, Link
    <3>2. Idle.at = "idle" /\ Idle.kind = "none" /\ Idle.link.synced = 0
      BY DEF Idle, NoLink
    <3>3. \A r \in Seq(Nat) : Marked(log[Home[x]], r, 0)
      BY LenProperties DEF Marked
    <3>4. \A r \in Seq(Nat) : Knows(Idle, log[Home[x]], r)
      BY <3>2, <3>3 DEF Knows
    <3> QED BY <3>1, <3>4
  <2> QED BY <2>1, <2>2
<1>16. ASSUME NEW x \in Actors, PushConflicts(x) PROVE Copies'
  <2>1. PICK o \in Op : Go(x, o) /\ \A r \in Seq(Nat) : Knows(op[x], log[Home[x]], r) => Knows(o, log[Home[x]], r)
    BY <1>15, <1>16 DEF PushConflicts
  <2>2. Knows(o, log[Home[x]], remote.log)
    BY <1>2, <1>3, <2>1
  <2>3. UNCHANGED <<log, link, remote, base>>
    BY <1>16 DEF PushConflicts, metadata
  <2> QED BY <1>0, <2>1, <2>2, <2>3, ClientStep
<1>17. ASSUME NEW x \in Actors, PushLost(x) PROVE Copies'
  <2>1. PICK o \in Op : Go(x, o) /\ \A r \in Seq(Nat) : Knows(op[x], log[Home[x]], r) => Knows(o, log[Home[x]], r)
    BY <1>15, <1>17 DEF PushLost
  <2>2. UNCHANGED <<log, metadata, base>> /\ op[x].at = "sending"
    BY <1>17 DEF PushLost, Doing
  <2>3. remote'.log \in Seq(Nat) /\ Begins(remote.log, remote'.log) /\ Follows(remote'.log, base)
    <3>1. CASE Accepts(x) /\ Receive(x)
      BY <1>12, <2>2, <3>1
    <3>2. CASE UNCHANGED remote
      <4>1. Begins(remote.log, remote.log)
        BY <1>2 DEF Begins
      <4> QED BY <1>0, <1>2, <3>2, <4>1 DEF Copies
    <3> QED BY <1>17, <3>1, <3>2 DEF PushLost
  <2>4. Knows(op[x], log[Home[x]], remote'.log)
    BY <1>1, <1>2, <1>3, <2>3, CloudGrows
  <2>5. Knows(o, log[Home[x]], remote'.log)
    BY <2>1, <2>3, <2>4
  <2> QED BY <1>13, <2>1, <2>2, <2>3, <2>5
\* A link that is set tells the truth.
<1>18. ASSUME NEW x \in Actors, NEW o, Go(x, o), Knows(o, log[Home[x]], remote.log),
              NEW l \in Link, SetLink(Home[x], l), Marked(log[Home[x]], remote.log, l.synced),
              UNCHANGED <<log, remote, base>>
       PROVE  Copies'
  BY <1>0, <1>18, ClientStep DEF SetLink
<1>19. \A n \in Nat : Linked(n) \in Link /\ Linked(n).synced = n
  BY DEF Linked, Link
<1>20. NoLink \in Link /\ NoLink.synced = 0
  BY DEF NoLink, Link
<1>21. ASSUME NEW x \in Actors, Acknowledge(x) PROVE Copies'
  <2>1. op[x].at = "acked"
    BY <1>21 DEF Acknowledge, Doing
  <2>2. Marked(log[Home[x]], remote.log, op[x].after)
    BY <1>3, <2>1 DEF Knows
  <2> QED BY <1>1, <1>8, <1>18, <1>19, <1>21, <2>2 DEF Acknowledge, Stop, Here
<1>22. ASSUME NEW x \in Actors, Share(x) PROVE Copies'
  <2> DEFINE o == [op[x] EXCEPT !.at = "linking", !.link = link[Here(x)]]
  <2>1. o.at = "linking" /\ o.kind = op[x].kind /\ o.link = link[Home[x]]
    BY <1>1 DEF Op, Here
  <2>2. Go(x, o) /\ UNCHANGED <<log, link, remote, base>>
    BY <1>22 DEF Share, metadata
  <2> HIDE DEF o
  <2>3. Knows(o, log[Home[x]], remote.log)
    BY <1>3, <2>1 DEF Knows
  <2> QED BY <1>0, <2>2, <2>3, ClientStep
<1>23. ASSUME NEW x \in Actors, LinkFirst(x) PROVE Copies'
  <2>1. Marked(log[Home[x]], remote.log, op[x].link.synced)
    BY <1>3 DEF Knows
  <2>2. Knows([op[x] EXCEPT !.at = "linked"], log[Home[x]], remote.log)
    BY <1>7 DEF Stage
  <2> QED BY <1>1, <1>18, <1>19, <1>23, <2>1, <2>2 DEF LinkFirst, Here
<1>24. ASSUME NEW x \in Actors, PushShared(x) PROVE Copies'
  <2>1. Knows([op[x] EXCEPT !.at = "restoring"], log[Home[x]], remote.log)
    BY <1>7 DEF Stage
  <2>2. Knows(Pushing(x, "share"), log[Home[x]], remote.log)
    BY <1>9
  <2>3. UNCHANGED <<log, link, remote, base>>
    BY <1>24 DEF PushShared, metadata
  <2> QED BY <1>0, <1>24, <2>1, <2>2, <2>3, ClientStep DEF PushShared
<1>25. ASSUME NEW x \in Actors, Restore(x) PROVE Copies'
  <2>1. Marked(log[Home[x]], remote.log, op[x].link.synced)
    BY <1>3 DEF Knows
  <2> QED BY <1>1, <1>8, <1>18, <1>25, <2>1 DEF Restore, Stop, Here
\* There was nothing to remove: the cloud copy has not been replaced.
<1>26. ASSUME NEW x \in Actors, Unshare(x) PROVE Copies'
  <2>1. Go(x, [op[x] EXCEPT !.at = "forgetting"]) /\ UNCHANGED <<log, link, remote, base>>
    BY <1>26 DEF Unshare, metadata
  <2>2. Knows([op[x] EXCEPT !.at = "forgetting"], log[Home[x]], remote.log)
    BY <1>7 DEF Stage
  <2> QED BY <1>0, <2>1, <2>2, ClientStep
<1>27. ASSUME NEW x \in Actors, ForgetLink(x) PROVE Copies'
  <2>1. Go(x, Idle) /\ UNCHANGED <<log, remote, base>> /\ (SetLink(Home[x], NoLink) \/ UNCHANGED link)
    BY <1>27 DEF ForgetLink, Stop, Here, metadata
  <2>2. CASE SetLink(Home[x], NoLink)
    BY <1>1, <1>4, <1>8, <1>18, <1>20, <2>1, <2>2
  <2>3. CASE UNCHANGED link
    BY <1>0, <1>8, <2>1, <2>3, ClientStep
  <2> QED BY <2>1, <2>2, <2>3
<1>28. ASSUME NEW x \in Actors, Pull(x) PROVE Copies'
  <2> DEFINE o == [op[x] EXCEPT !.at = "measuring", !.link = link[Here(x)],
                                !.kind = IF exists[Here(x)] THEN "pull" ELSE "first"]
  <2>1. /\ o.at = "measuring" /\ o.link = link[Home[x]]
        /\ o.kind = IF exists[Home[x]] THEN "pull" ELSE "first"
    BY <1>1 DEF Op, Here
  <2>2. Go(x, o) /\ UNCHANGED <<log, link, remote, base>>
    BY <1>28 DEF Pull, metadata
  <2> HIDE DEF o
  <2>3. ~exists[Home[x]] => Begins(log[Home[x]], remote.log)
    <3>1. ~exists[Home[x]] => Len(log[Home[x]]) = 0
      BY <1>1 DEF SyncInv, Existence
    <3> QED BY <1>2, <3>1 DEF Begins
  <2>4. Knows(o, log[Home[x]], remote.log)
    BY <1>3, <2>1, <2>3 DEF Knows
  <2> QED BY <1>0, <2>2, <2>4, ClientStep
<1>29. ASSUME NEW x \in Actors, Measure(x) PROVE Copies'
  <2> DEFINE o == [op[x] EXCEPT !.at = "asking", !.after = Len(log[Here(x)])]
  <2>1. /\ o.at = "asking" /\ o.link = op[x].link /\ o.kind = op[x].kind /\ o.after = Len(log[Home[x]])
        /\ op[x].at = "measuring"
    BY <1>1, <1>29 DEF Op, Here, Measure, Doing
  <2>2. Go(x, o) /\ UNCHANGED <<log, link, remote, base>>
    BY <1>29 DEF Measure, metadata
  <2> HIDE DEF o
  <2>3. Knows(o, log[Home[x]], remote.log)
    BY <1>1, <1>3, <2>1 DEF Knows
  <2> QED BY <1>0, <2>2, <2>3, ClientStep
<1>30. ASSUME NEW x \in Actors, PullAnswered(x) PROVE Copies'
  <2>1. UNCHANGED <<log, link, remote, base>> /\ op[x].at = "asking"
    BY <1>30 DEF PullAnswered, metadata, Doing
  <2>2. CASE Stop(x)
    BY <1>0, <1>8, <2>1, <2>2, ClientStep DEF Stop
  <2>3. CASE /\ ~Ahead(x) /\ ~UpToDate(x)
             /\ Go(x, [op[x] EXCEPT !.at = "installing", !.log = remote.log,
                                    !.title = IF op[x].kind = "first" THEN remote.title ELSE 0])
    <3> DEFINE o == [op[x] EXCEPT !.at = "installing", !.log = remote.log,
                                  !.title = IF op[x].kind = "first" THEN remote.title ELSE 0]
    <3>1. o.at = "installing" /\ o.link = op[x].link /\ o.kind = op[x].kind /\ o.after = op[x].after /\ o.log = remote.log
      BY <1>1 DEF Op
    <3> HIDE DEF o
    <3>2. op[x].kind \in {"pull", "first"} /\ op[x].after <= Len(log[Home[x]])
      BY <1>3, <2>1 DEF Knows
    <3>3. Marked(log[Home[x]], remote.log, op[x].after)
      <4>1. CASE op[x].kind = "pull"
        <5>1. op[x].after <= op[x].link.synced
          BY <1>1, <2>3, <4>1 DEF Ahead
        <5>2. Marked(log[Home[x]], remote.log, op[x].link.synced)
          BY <1>3 DEF Knows
        <5> QED BY <1>1, <1>2, <5>1, <5>2 DEF Marked
      <4>2. CASE op[x].kind = "first"
        <5>1. Begins(log[Home[x]], remote.log)
          BY <1>3, <4>2 DEF Knows
        <5> QED BY <1>1, <1>2, <3>2, <5>1 DEF Marked, Begins
      <4> QED BY <3>2, <4>1, <4>2
    <3>4. op[x].after <= Len(remote.log)
      BY <3>3 DEF Marked
    <3>5. Begins(remote.log, remote.log)
      BY <1>2 DEF Begins
    <3>6. Knows(o, log[Home[x]], remote.log)
      BY <1>3, <3>1, <3>2, <3>3, <3>4, <3>5 DEF Knows
    <3>7. Go(x, o)
      BY <2>3 DEF o
    <3> QED BY <1>0, <2>1, <3>6, <3>7, ClientStep
  <2> QED BY <1>30, <2>2, <2>3 DEF PullAnswered
<1>31. ASSUME NEW x \in Actors, InstallMeta(x) PROVE Copies'
  <2> DEFINE o == [op[x] EXCEPT !.kind = "pull", !.title = 0]
  <2>1. o.at = "installing" /\ o.link = op[x].link /\ o.kind = "pull" /\ o.after = op[x].after /\ o.log = op[x].log
    BY <1>1, <1>31 DEF Op, InstallMeta, Doing
  <2>2. Go(x, o) /\ UNCHANGED <<log, remote, base>>
    BY <1>31 DEF InstallMeta
  <2> HIDE DEF o
  <2>3. op[x].kind = "first" /\ op[x].at = "installing"
    BY <1>31 DEF InstallMeta, Doing
  <2>4. Knows(o, log[Home[x]], remote.log)
    BY <1>3, <2>1, <2>3 DEF Knows
  <2>5. Begins(log[Home[x]], remote.log) /\ Begins(op[x].log, remote.log)
    BY <1>3, <2>3 DEF Knows
  <2>6. Marked(log[Home[x]], remote.log, Len(op[x].log))
    BY <1>1, <1>2, <2>5 DEF Marked, Begins
  <2>7. CASE UNCHANGED metadata
    BY <1>0, <2>2, <2>4, <2>7, ClientStep DEF metadata
  <2>8. CASE Install(Home[x], Len(op[x].log), op[x].title)
    <3>1. Len(op[x].log) \in Nat
      BY <1>1
    <3>2. link' = [link EXCEPT ![Home[x]] = Linked(Len(op[x].log))]
      BY <2>8 DEF Install
    <3> QED BY <1>0, <1>19, <2>2, <2>4, <2>6, <3>1, <3>2, ClientStep
  <2> QED BY <1>31, <2>7, <2>8 DEF InstallMeta, Here
<1>32. ASSUME NEW x \in Actors, FinishPull(x) PROVE Copies'
  <2>1. op[x].at = "pulled"
    BY <1>32 DEF FinishPull, Doing
  <2>2. Begins(op[x].log, remote.log) /\ Begins(op[x].log, log[Home[x]])
    BY <1>3, <2>1 DEF Knows
  <2>3. Marked(log[Home[x]], remote.log, Len(op[x].log))
    BY <1>1, <1>2, <2>2 DEF Marked, Begins
  <2>4. Go(x, Idle) /\ SetLink(Home[x], Linked(Len(op[x].log))) /\ UNCHANGED <<log, remote, base>>
    BY <1>32 DEF FinishPull, Stop, Here
  <2> QED BY <1>1, <1>8, <1>18, <1>19, <2>3, <2>4
<1>33. ASSUME NEW x \in Actors, Die(x) PROVE Copies'
  <2>1. Go(x, Idle) /\ UNCHANGED <<log, link, remote, base>>
    BY <1>33 DEF Die, Stop, metadata
  <2> QED BY <1>0, <1>8, <2>1, ClientStep
\* The entries of a pull: the machine follows the cloud, or stays as it is.
<1>34. ASSUME NEW x \in Actors, InstallEntries(x) PROVE Copies'
  <2>1. UNCHANGED <<link, remote, base>> /\ op[x].at = "installing" /\ op[x].kind = "pull"
    BY <1>34 DEF InstallEntries, metadata, Doing
  <2>2. CASE Stop(x) /\ UNCHANGED log
    BY <1>0, <1>8, <2>1, <2>2, ClientStep DEF Stop
  <2>3. CASE /\ Len(log[Here(x)]) = op[x].after \/ Rest(op[x].log, op[x].after) = <<>>
             /\ log' = [log EXCEPT ![Here(x)] = @ \o Rest(op[x].log, op[x].after)]
             /\ Go(x, [op[x] EXCEPT !.at = "pulled"])
    <3> DEFINE m == Home[x]
               s == log[Home[x]]
               l == op[x].log
               k == op[x].after
               r == remote.log
               o == [op[x] EXCEPT !.at = "pulled"]
    <3>1. o.at = "pulled" /\ o.link = op[x].link /\ o.kind = "pull" /\ o.after = k /\ o.log = l
      BY <1>1, <2>1 DEF Op
    <3>2. Begins(l, r) /\ Marked(s, r, k) /\ k <= Len(l) /\ k <= Len(s)
      BY <1>3, <2>1 DEF Knows
    <3>3. Len(s) = k \/ Rest(l, k) = <<>>
      BY <2>3 DEF Here
    <3>4. s \in Seq(Nat) /\ l \in Seq(Nat) /\ r \in Seq(Nat) /\ k \in Nat /\ Len(s) \in Nat /\ Len(l) \in Nat /\ m \in Machines
      BY <1>1, <1>2
    <3>5. PICK t : t = s \o Rest(l, k)
      OBVIOUS
    <3>6. log' = [log EXCEPT ![m] = t]
      BY <2>3, <3>5 DEF Here
    <3>7. op' = [op EXCEPT ![x] = o]
      BY <2>3 DEF Go
    <3> HIDE DEF s, l, k, r, o
    <3>8. t \in Seq(Nat) /\ (t = s \/ (Len(s) = k /\ Begins(s, l) /\ t = l)) /\ Len(l) <= Len(t)
      <4>1. Begins(l, r) /\ Marked(s, r, k) /\ k <= Len(l) /\ k <= Len(s) /\ (Len(s) = k \/ Rest(l, k) = <<>>)
        BY <3>2, <3>3
      <4>2. /\ s \o Rest(l, k) \in Seq(Nat)
            /\ s \o Rest(l, k) = s \/ (Len(s) = k /\ Begins(s, l) /\ s \o Rest(l, k) = l)
            /\ Len(l) <= Len(s \o Rest(l, k))
        BY <3>4, <4>1, Installed
      <4> QED BY <3>5, <4>2
    <3>9. \/ t = s
          \/ Begins(s, t) /\ Begins(t, r)
      BY <3>2, <3>8
    <3>10. ASSUME NEW n \in Nat, Marked(s, r, n) PROVE Marked(t, r, n)
      BY <3>4, <3>8, <3>9, <3>10, MachineFollows
    <3>11. ASSUME NEW p \in Op, Knows(p, s, r) PROVE Knows(p, t, r)
      BY <3>4, <3>8, <3>9, <3>11, MachineFollows
    <3>12. Follows(t, base)
      <4>1. Follows(s, base) /\ Follows(r, base)
        BY <1>0, <3>4 DEF Copies, s, r
      <4>2. Follows(l, base)
        BY <1>2, <3>2, <3>4, <4>1, BeginningFollows
      <4> QED BY <3>8, <4>1, <4>2
    <3>13. Begins(l, t)
      <4>1. CASE t = l
        BY <3>4, <4>1 DEF Begins
      <4>2. CASE t = s
        <5>1. Len(l) <= Len(s)
          BY <3>8, <4>2
        <5>2. CASE Len(s) = k
          BY <3>2, <3>4, <4>2, <5>1, <5>2 DEF Begins, Marked
        <5>3. CASE Rest(l, k) = <<>>
          <6>0. Len(Rest(l, k)) = Len(l) - k
            BY <3>2, <3>4, RestOf
          <6>1. Len(l) = k
            BY <3>2, <3>4, <5>3, <6>0
          <6> SUFFICES ASSUME NEW i \in 1 .. Len(l) PROVE l[i] = s[i]
            BY <3>2, <3>4, <4>2, <6>1 DEF Begins
          <6>2. i \in 1 .. k /\ i <= Len(s)
            BY <3>2, <3>4, <6>1
          <6> QED BY <3>2, <6>2 DEF Begins, Marked
        <5> QED BY <3>3, <5>2, <5>3
      <4> QED BY <3>8, <4>1, <4>2
    <3>14. Knows(o, t, r)
      <4>1. Knows(op[x], t, r)
        <5>1. op[x] \in Op /\ Knows(op[x], s, r)
          BY <1>1, <1>3 DEF s, r
        <5> QED BY <3>11, <5>1
      <4> QED BY <2>1, <3>1, <3>13, <4>1 DEF Knows, l, k
    <3>15. \A n \in Machines : Marked(log'[n], r, link[n].synced) /\ Follows(log'[n], base)
      <4> SUFFICES ASSUME NEW n \in Machines PROVE Marked(log'[n], r, link[n].synced) /\ Follows(log'[n], base)
        OBVIOUS
      <4>1. link[n].synced \in Nat /\ Marked(log[n], r, link[n].synced) /\ Follows(log[n], base)
        BY <1>0 DEF TypeOK, Link, Copies, r
      <4>2. CASE n = m
        <5>1. log'[n] = t /\ log[n] = s
          BY <1>0, <3>6, <4>2 DEF TypeOK, s
        <5> QED BY <3>10, <3>12, <4>1, <5>1
      <4>3. CASE n # m
        <5>1. log'[n] = log[n]
          BY <1>0, <3>6, <4>3 DEF TypeOK
        <5> QED BY <4>1, <5>1
      <4> QED BY <4>2, <4>3
    <3>16. \A y \in Actors : Knows(op'[y], log'[Home[y]], r)
      <4> SUFFICES ASSUME NEW y \in Actors PROVE Knows(op'[y], log'[Home[y]], r)
        OBVIOUS
      <4>1. op[y] \in Op /\ Knows(op[y], log[Home[y]], r) /\ Home[y] \in Machines
        BY <1>1, <1>3 DEF r
      <4>2. CASE Home[y] = m
        <5>1. log'[Home[y]] = t /\ log[Home[y]] = s
          BY <1>0, <3>6, <4>1, <4>2 DEF TypeOK, s
        <5>2. Knows(op[y], t, r)
          BY <3>11, <4>1, <5>1
        <5>3. op'[y] = op[y] \/ (y = x /\ op'[y] = o)
          BY <1>0, <3>7 DEF TypeOK
        <5> QED BY <3>14, <5>1, <5>2, <5>3
      <4>3. CASE Home[y] # m
        <5>1. log'[Home[y]] = log[Home[y]] /\ op'[y] = op[y]
          BY <1>0, <3>6, <3>7, <4>1, <4>3 DEF TypeOK
        <5> QED BY <4>1, <5>1
      <4> QED BY <4>2, <4>3
    <3>17. Follows(r, base)
      BY <1>0 DEF Copies, r
    <3> QED BY <2>1, <3>15, <3>16, <3>17 DEF Copies, r
  <2> QED BY <1>34, <2>2, <2>3 DEF InstallEntries
<1>35. CASE UNCHANGED syncVars
  BY <1>0, <1>35 DEF syncVars, metadata, Copies
<1> QED
  BY <1>5, <1>6, <1>10, <1>11, <1>14, <1>16, <1>17, <1>21, <1>22, <1>23, <1>24, <1>25, <1>26, <1>27, <1>28, <1>29,
     <1>30, <1>31, <1>32, <1>33, <1>34, <1>35 DEF Next, Sync

-----------------------------------------------------------------------------
LEMMA SyncInvariance == Spec => []SyncInv
<1>1. SyncInv /\ [Next]_syncVars => SyncInv'
  <2> SUFFICES ASSUME SyncInv, [Next]_syncVars PROVE SyncInv'
    OBVIOUS
  <2>1. TypeOK' /\ Existence' /\ OwnersKeepTheirFields'
    BY AccountTypeStep, ExistenceStep, OwnersStep DEF SyncInv
  <2>2. ~replaced' /\ ~torn' => Copies'
    BY <2>1, CopiesStep
  <2> QED BY <2>1, <2>2 DEF SyncInv
<1> QED BY InitSyncInv, <1>1, PTL DEF Spec

\* While nobody replaces the cloud copy and no run writes into one that lacks
\* entries, whatever machines push, pull, share and lose requests, every entry of
\* every copy follows what its author had before it; and a rename or an
\* acknowledged sync is never undone by a save of an older record (sync/push.rs,
\* sync/pull.rs, storage/fs/session_meta.rs).
THEOREM CopiesAlwaysAgree == Spec => []CopiesAgree
<1>1. SyncInv => CopiesAgree
  <2> SUFFICES ASSUME SyncInv, ~replaced, ~torn PROVE NeverInterleaves
    BY DEF SyncInv, CopiesAgree, AppendsNeverInterleave
  <2> SUFFICES ASSUME NEW s \in {log[m] : m \in Machines} \cup {remote.log}, NEW i \in DOMAIN s
               PROVE  SubSeq(s, 1, i - 1) = base[s[i]]
    BY DEF NeverInterleaves
  <2>1. s \in Seq(Nat) /\ Follows(s, base) /\ base \in Seq(Seq(Nat))
    BY DEF SyncInv, TypeOK, Cloud, Copies
  <2>2. i \in 1 .. Len(s) /\ Len(s) \in Nat
    BY <2>1, LenProperties
  <2>3. s[i] \in 1 .. Len(base) /\ Len(base[s[i]]) = i - 1 /\ \A j \in 1 .. i - 1 : base[s[i]][j] = s[j]
    BY <2>1, <2>2 DEF Follows
  <2>4. base[s[i]] \in Seq(Nat)
    BY <2>1, <2>3
  <2> DEFINE p == SubSeq(s, 1, i - 1)
             n == i - 1
  <2>5. n \in Int /\ \A j \in 1 .. n : s[j] \in Nat
    BY <2>1, <2>2, LenProperties
  <2>6. /\ p \in Seq(Nat)
        /\ Len(p) = IF 1 <= n THEN n - 1 + 1 ELSE 0
        /\ \A j \in 1 .. n - 1 + 1 : p[j] = s[1 + j - 1]
    BY <2>5, SubSeqProperties
  <2> HIDE DEF p
  <2>7. Len(p) = i - 1 /\ \A j \in 1 .. i - 1 : p[j] = s[j]
    BY <2>2, <2>6
  <2>8. p = base[s[i]]
    BY <2>3, <2>4, <2>6, <2>7, SeqEqual
  <2> QED BY <2>8 DEF p
<1> QED BY SyncInvariance, <1>1, PTL

-----------------------------------------------------------------------------
(* The account.                                                              *)

Logins == 1 .. MaxLogins
Keys   == 1 .. MaxKeys

CallType == [stage : {"idle", "calling", "waiting", "inside", "fetching", "checking", "saving"},
             key : 0 .. MaxKeys, tries : {0, 1}, login : 0 .. MaxLogins, got : 0 .. MaxKeys,
             passed : BOOLEAN]
JobType  == [stage : {"idle", "polling", "fetching", "saving", "clearing", "emptying"},
             kind : {"none", "login", "sync", "repair", "patch", "logout"},
             login : 0 .. MaxLogins, got : 0 .. MaxKeys]

AccountTypes == /\ AccountTypeOK
         /\ codes \in Seq({"waiting", "approved", "refused"}) /\ Len(codes) <= MaxLogins
         /\ call \in [Calls -> CallType]
         /\ job \in [Terminals -> JobType]
         /\ foreign \in BOOLEAN
         /\ outages \in 0 .. MaxOutages

\* A request for a catalogue carries a login.
Asks == /\ \A c \in Calls : call[c].stage = "fetching" => call[c].login # None
        /\ \A t \in Terminals : job[t].stage \in {"polling", "fetching"} => job[t].login # None

\* Who repairs a key holds the lock, and nobody else does.
Holding == {"inside", "fetching", "checking", "saving"}
LockIsHeld == \A c \in Calls : call[c].stage \in Holding <=> refresh = c

\* The key under repair is revoked, and the cache holds no other that works.
KeyIsDead(c) ==
    /\ call[c].stage \in {"waiting"} \cup Holding => call[c].key \in revoked
    /\ ~foreign /\ call[c].stage \in {"fetching", "checking", "saving"} => cache \in {None, call[c].key}

\* An answer knows whether its login is still the one signed in.
KnowsPassed(c) ==
    /\ call[c].stage \in {"fetching", "checking"} => call[c].passed = (auth # call[c].login)
    /\ call[c].stage = "saving" => ~call[c].passed

AccountInv ==
    /\ AccountTypes /\ Asks
    /\ LockIsHeld
    /\ \A c \in Calls : KeyIsDead(c)
    /\ \A c \in Calls : KnowsPassed(c)

CallActs(c) ==
    \/ Begin(c) \/ Answer(c) \/ Enter(c) \/ Reuse(c) \/ Ask(c) \/ Fetched(c)
    \/ Compare(c) \/ SaveKey(c) \/ Cancel(c)
TerminalActs(t) ==
    \/ StartLogin(t) \/ Poll(t) \/ Polled(t)
    \/ \E kind \in {"sync", "repair"} : StartSync(t, kind)
    \/ Synced(t) \/ SaveCatalogue(t) \/ ReadCache(t)
    \/ StartLogout(t) \/ ClearAuth(t) \/ RemoveCache(t)
ServerActs ==
    \/ \E k \in DOMAIN keys : RevokeKey(k)
    \/ \E l \in DOMAIN codes : EndLogin(l) \/ \E how \in {"approved", "refused"} : Decide(l, how)

LEMMA AccountSteps ==
    ASSUME [AccountNext]_accountVars
    PROVE  \/ ServerActs
           \/ \E c \in Calls : CallActs(c)
           \/ \E t \in Terminals : TerminalActs(t)
           \/ UNCHANGED accountVars
BY DEF AccountNext, ServerActs, CallActs, TerminalActs

\* What the types say, one fact to a line.
LEMMA Typed ==
    ASSUME AccountTypes
    PROVE  /\ MaxLogins \in Nat /\ MaxKeys \in Nat /\ MaxOutages \in Nat
           /\ auth \in 0 .. MaxLogins /\ cache \in 0 .. MaxKeys /\ pending \in 0 .. MaxLogins
           /\ keys \in Seq(1 .. MaxLogins) /\ Len(keys) \in Nat /\ Len(keys) <= MaxKeys
           /\ codes \in Seq({"waiting", "approved", "refused"}) /\ Len(codes) \in Nat /\ Len(codes) <= MaxLogins
           /\ revoked \subseteq 1 .. MaxKeys /\ dead \subseteq 1 .. MaxLogins
           /\ refresh \in Calls \cup {Unlocked}
           /\ call \in [Calls -> CallType] /\ job \in [Terminals -> JobType]
           /\ foreign \in BOOLEAN /\ outages \in 0 .. MaxOutages
BY AccountAssumption, LenProperties DEF AccountTypes, AccountTypeOK

-----------------------------------------------------------------------------
(* The server's own state: every step keeps its types.                      *)

LEMMA MintedType ==
    ASSUME AccountTypes, NEW l \in 1 .. MaxLogins, Minted(l)
    PROVE  /\ keys' \in Seq(1 .. MaxLogins) /\ Len(keys') \in Nat /\ Len(keys') <= MaxKeys
           /\ Len(keys') \in 0 .. MaxKeys /\ Len(keys') # None
           /\ UNCHANGED <<codes, revoked, dead, outages>>
<1>1. keys \in Seq(1 .. MaxLogins) /\ Len(keys) \in Nat /\ MaxKeys \in Nat /\ Len(keys) < MaxKeys
  BY Typed DEF Minted
<1>2. keys' = Append(keys, l)
  BY DEF Minted
<1>3. Append(keys, l) \in Seq(1 .. MaxLogins) /\ Len(Append(keys, l)) = Len(keys) + 1
  BY <1>1, AppendProperties
<1> QED BY <1>1, <1>2, <1>3 DEF Minted, None

ServerTypes ==
    /\ keys \in Seq(1 .. MaxLogins) /\ Len(keys) <= MaxKeys
    /\ codes \in Seq({"waiting", "approved", "refused"}) /\ Len(codes) <= MaxLogins
    /\ revoked \subseteq 1 .. MaxKeys /\ dead \subseteq 1 .. MaxLogins
    /\ outages \in 0 .. MaxOutages

LEMMA ServerStep ==
    ASSUME AccountTypes, Asks, [AccountNext]_accountVars
    PROVE  ServerTypes' /\ revoked \subseteq revoked'
<1>1. /\ ServerTypes
      /\ MaxLogins \in Nat /\ MaxKeys \in Nat /\ MaxOutages \in Nat
      /\ Len(keys) \in Nat /\ Len(codes) \in Nat
      /\ call \in [Calls -> CallType] /\ job \in [Terminals -> JobType]
  BY Typed DEF ServerTypes
<1>2. CASE UNCHANGED server /\ outages' = outages
  BY <1>1, <1>2 DEF server, ServerTypes
<1>3. ASSUME NEW l \in 1 .. MaxLogins, Minted(l) PROVE ServerTypes' /\ revoked \subseteq revoked'
  BY <1>1, <1>3, MintedType DEF ServerTypes
<1>4. CASE Outage
  BY <1>1, <1>4 DEF Outage, server, ServerTypes
<1>5. ASSUME NEW k \in DOMAIN keys, RevokeKey(k) PROVE ServerTypes' /\ revoked \subseteq revoked'
  <2>1. k \in 1 .. MaxKeys
    BY <1>1 DEF ServerTypes
  <2> QED BY <1>1, <1>5, <2>1 DEF RevokeKey, ServerTypes
<1>6. ASSUME NEW l \in DOMAIN codes, EndLogin(l) PROVE ServerTypes' /\ revoked \subseteq revoked'
  <2>1. l \in 1 .. MaxLogins
    BY <1>1 DEF ServerTypes
  <2>2. {k \in DOMAIN keys : keys[k] = l} \subseteq 1 .. MaxKeys
    BY <1>1 DEF ServerTypes
  <2> QED BY <1>1, <1>6, <2>1, <2>2 DEF EndLogin, ServerTypes
<1>7. ASSUME NEW l \in DOMAIN codes, NEW how \in {"approved", "refused"}, Decide(l, how)
      PROVE  ServerTypes' /\ revoked \subseteq revoked'
  <2> DEFINE Codes == {"waiting", "approved", "refused"}
  <2>1. codes' = [codes EXCEPT ![l] = how]
    BY <1>7 DEF Decide
  <2>2. codes \in Seq(Codes) /\ l \in 1 .. Len(codes) /\ how \in Codes
    BY <1>1 DEF ServerTypes
  <2> HIDE DEF Codes
  <2>3. codes' \in Seq(Codes) /\ Len(codes') = Len(codes)
    BY <2>1, <2>2, ExceptSeq
  <2> QED BY <1>1, <1>7, <2>3 DEF Decide, ServerTypes, Codes
<1>8. ASSUME NEW c \in Calls, CallActs(c) PROVE ServerTypes' /\ revoked \subseteq revoked'
  <2>1. CASE Fetched(c)
    <3>1. call[c].login \in 1 .. MaxLogins
      BY <1>1, <2>1 DEF Fetched, Asks, CallType, None
    <3>2. UNCHANGED <<server, outages>> \/ Minted(call[c].login) \/ Outage
      BY <2>1 DEF Fetched
    <3> QED BY <1>2, <1>3, <1>4, <3>1, <3>2
  <2>2. CASE ~Fetched(c)
    BY <1>2, <1>8, <2>2 DEF CallActs, Begin, Answer, Enter, Reuse, Ask, Compare, SaveKey, Cancel
  <2> QED BY <2>1, <2>2
<1>9. ASSUME NEW t \in Terminals, TerminalActs(t) PROVE ServerTypes' /\ revoked \subseteq revoked'
  <2>1. CASE Synced(t)
    <3>1. job[t].login \in 1 .. MaxLogins
      BY <1>1, <2>1 DEF Synced, Asks, JobType, None
    <3>2. UNCHANGED <<server, outages>> \/ Minted(job[t].login) \/ Outage
      BY <2>1 DEF Synced
    <3> QED BY <1>2, <1>3, <1>4, <3>1, <3>2
  <2>2. CASE StartLogin(t)
    <3>1. codes' = Append(codes, "waiting") /\ Len(codes) < MaxLogins /\ UNCHANGED <<keys, revoked, dead, outages>>
      BY <2>2 DEF StartLogin
    <3> DEFINE Codes == {"waiting", "approved", "refused"}
    <3>2. codes \in Seq(Codes) /\ "waiting" \in Codes
      BY <1>1 DEF ServerTypes
    <3> HIDE DEF Codes
    <3>3. codes' \in Seq(Codes) /\ Len(codes') = Len(codes) + 1
      BY <3>1, <3>2, AppendProperties
    <3> QED BY <1>1, <3>1, <3>3 DEF ServerTypes, Codes
  <2>3. CASE ~Synced(t) /\ ~StartLogin(t)
    BY <1>2, <1>9, <2>3 DEF TerminalActs, Poll, Polled, StartSync, SaveCatalogue, ReadCache, StartLogout, ClearAuth,
                            RemoveCache
  <2> QED BY <2>1, <2>2, <2>3
<1>10. CASE UNCHANGED accountVars
  BY <1>2, <1>10 DEF accountVars, server
<1> QED BY <1>5, <1>6, <1>7, <1>8, <1>9, <1>10, AccountSteps DEF ServerActs

-----------------------------------------------------------------------------
(* A step of a model call.                                                  *)

\* What a call in state k may know, of the keys, the cache and the login.
KnowsKey(k) ==
    /\ k.stage \in {"waiting"} \cup Holding => k.key \in revoked
    /\ ~foreign /\ k.stage \in {"fetching", "checking", "saving"} => cache \in {None, k.key}
    /\ k.stage \in {"fetching", "checking"} => k.passed = (auth # k.login)
    /\ k.stage = "saving" => ~k.passed
    /\ k.stage = "fetching" => k.login # None

\* What it may know after the step.
KnowsNext(k) ==
    /\ k.stage \in {"waiting"} \cup Holding => k.key \in revoked'
    /\ ~foreign' /\ k.stage \in {"fetching", "checking", "saving"} => cache' \in {None, k.key}
    /\ k.stage \in {"fetching", "checking"} => k.passed = (auth' # k.login)
    /\ k.stage = "saving" => ~k.passed
    /\ k.stage = "fetching" => k.login # None

\* The call becomes new; it takes the lock if it may and gives it back when it
\* stops repairing.
Becomes(c, new) ==
    /\ call' = [call EXCEPT ![c] = new]
    /\ new \in CallType
    /\ new.stage \in Holding => refresh' = c /\ refresh \in {c, Unlocked}
    /\ new.stage \notin Holding => refresh' = IF refresh = c THEN Unlocked ELSE refresh

Repairs(c) ==
    /\ \E new \in CallType : Becomes(c, new) /\ KnowsNext(new)
    /\ UNCHANGED <<auth, pending, job, foreign>>
    /\ cache' = cache \/ (call[c].stage = "saving" /\ cache' \in 0 .. MaxKeys)

LEMMA CallSteps ==
    ASSUME AccountInv, NEW c \in Calls, CallActs(c)
    PROVE  Repairs(c)
<1>1. /\ AccountTypes /\ call \in [Calls -> CallType] /\ call[c] \in CallType
      /\ auth \in 0 .. MaxLogins /\ cache \in 0 .. MaxKeys /\ MaxKeys \in Nat /\ MaxLogins \in Nat
      /\ (call[c].stage \in Holding <=> refresh = c)
      /\ KnowsKey(call[c])
      /\ "free" \notin Calls
  BY Typed, AccountAssumption DEF AccountInv, LockIsHeld, KeyIsDead, KnowsPassed, KnowsKey, Asks
<1> DEFINE k == call[c]
<1>2. /\ IdleCall \in CallType /\ IdleCall.stage = "idle"
  BY <1>1 DEF IdleCall, CallType, None
<1>3. KnowsNext(IdleCall)
  BY <1>2 DEF KnowsKey, KnowsNext, Holding
<1>4. Leaves(c, IdleCall) => Becomes(c, IdleCall)
  BY <1>2 DEF Leaves, Becomes, Holding
<1>5. CASE Begin(c)
  <2> DEFINE new == [IdleCall EXCEPT !.stage = "calling", !.key = cache]
  <2>1. new \in CallType /\ new.stage = "calling"
    BY <1>1, <1>2 DEF CallType
  <2>2. call' = [call EXCEPT ![c] = new] /\ k.stage = "idle" /\ UNCHANGED <<auth, cache, pending, job, foreign, refresh>>
    BY <1>5 DEF Begin
  <2> HIDE DEF new
  <2>3. Becomes(c, new) /\ KnowsNext(new)
    BY <1>1, <2>1, <2>2 DEF Becomes, KnowsKey, KnowsNext, Holding
  <2> QED BY <2>1, <2>2, <2>3 DEF Repairs
<1>6. CASE Answer(c)
  <2>1. k.stage = "calling" /\ UNCHANGED <<auth, cache, pending, job, foreign, refresh, revoked>>
    BY <1>6 DEF Answer, server
  <2>2. CASE k.key \in revoked /\ k.tries = 0
    <3> DEFINE new == [k EXCEPT !.stage = "waiting", !.tries = 1]
    <3>1. new \in CallType /\ new.stage = "waiting" /\ new.key = k.key
      BY <1>1 DEF CallType
    <3>2. call' = [call EXCEPT ![c] = new]
      BY <1>6, <2>2 DEF Answer
    <3> HIDE DEF new
    <3>3. Becomes(c, new)
      BY <1>1, <2>1, <3>1, <3>2 DEF Becomes, Holding
    <3>4. KnowsNext(new)
      BY <2>1, <2>2, <3>1 DEF KnowsKey, KnowsNext, Holding
    <3> QED BY <2>1, <3>1, <3>3, <3>4 DEF Repairs
  <2>3. CASE ~(k.key \in revoked /\ k.tries = 0)
    <3>1. call' = [call EXCEPT ![c] = IdleCall]
      BY <1>6, <2>3 DEF Answer
    <3>2. Becomes(c, IdleCall)
      BY <1>1, <1>2, <2>1, <3>1 DEF Becomes, Holding
    <3> QED BY <1>2, <1>3, <2>1, <3>2 DEF Repairs
  <2> QED BY <2>2, <2>3
<1>7. CASE Enter(c)
  <2> DEFINE new == [k EXCEPT !.stage = "inside"]
  <2>1. new \in CallType /\ new.stage = "inside" /\ new.key = k.key
    BY <1>1 DEF CallType
  <2>2. /\ call' = [call EXCEPT ![c] = new] /\ k.stage = "waiting" /\ refresh = Unlocked /\ refresh' = c
        /\ UNCHANGED <<auth, cache, pending, job, foreign, revoked>>
    BY <1>7 DEF Enter, server
  <2> HIDE DEF new
  <2>3. Becomes(c, new)
    BY <2>1, <2>2 DEF Becomes, Holding
  <2>4. KnowsNext(new)
    BY <1>1, <2>1, <2>2 DEF KnowsKey, KnowsNext, Holding
  <2> QED BY <2>1, <2>2, <2>3, <2>4 DEF Repairs
<1>8. CASE Reuse(c)
  <2> DEFINE new == [k EXCEPT !.stage = "calling", !.key = cache]
  <2>1. new \in CallType /\ new.stage = "calling"
    BY <1>1 DEF CallType
  <2>2. Leaves(c, new) /\ UNCHANGED <<auth, cache, pending, job, foreign>>
    BY <1>8 DEF Reuse
  <2> HIDE DEF new
  <2>3. Becomes(c, new) /\ KnowsNext(new)
    BY <2>1, <2>2 DEF Becomes, Leaves, KnowsKey, KnowsNext, Holding
  <2> QED BY <2>1, <2>2, <2>3 DEF Repairs
<1>9. CASE Ask(c)
  <2>1. k.stage = "inside" /\ ~Shared(c) /\ UNCHANGED <<auth, cache, pending, job, foreign, revoked>>
    BY <1>9 DEF Ask, server
  <2>2. CASE auth = None
    BY <1>2, <1>3, <1>4, <1>9, <2>1, <2>2 DEF Ask, Repairs
  <2>3. CASE auth # None
    <3> DEFINE new == [k EXCEPT !.stage = "fetching", !.login = auth, !.passed = FALSE]
    <3>1. new \in CallType /\ new.stage = "fetching" /\ new.key = k.key /\ new.login = auth /\ new.passed = FALSE
      BY <1>1 DEF CallType
    <3>2. call' = [call EXCEPT ![c] = new] /\ refresh' = refresh
      BY <1>9, <2>3 DEF Ask
    <3> HIDE DEF new
    <3>3. Becomes(c, new)
      BY <1>1, <2>1, <3>1, <3>2 DEF Becomes, Holding
    <3>4. k.key \in revoked /\ cache \in {None, k.key}
      BY <1>1, <2>1 DEF KnowsKey, Holding, Shared
    <3>5. KnowsNext(new)
      BY <2>1, <2>3, <3>1, <3>4 DEF KnowsKey, KnowsNext, Holding
    <3> QED BY <2>1, <3>1, <3>3, <3>5 DEF Repairs
  <2> QED BY <2>2, <2>3
<1>10. CASE Fetched(c)
  <2>1. k.stage = "fetching" /\ UNCHANGED <<auth, cache, pending, job, foreign>>
    BY <1>10 DEF Fetched
  <2>2. CASE Leaves(c, IdleCall)
    BY <1>2, <1>3, <1>4, <2>1, <2>2 DEF Repairs
  <2>3. CASE /\ Minted(k.login) /\ refresh' = refresh
             /\ call' = [call EXCEPT ![c].stage = "checking", ![c].got = Len(keys')]
    <3>1. k.login \in 1 .. MaxLogins
      BY <1>1, <2>1 DEF KnowsKey, CallType, None
    <3>2. Len(keys') \in 0 .. MaxKeys /\ revoked' = revoked
      BY <1>1, <2>3, <3>1, MintedType
    <3> DEFINE n == Len(keys')
    <3> HIDE DEF n
    <3> DEFINE new == [k EXCEPT !.stage = "checking", !.got = n]
    <3>3. /\ new \in CallType /\ new.stage = "checking" /\ new.key = k.key /\ new.login = k.login
          /\ new.passed = k.passed
      BY <1>1, <3>2 DEF CallType, n
    <3>4. call' = [call EXCEPT ![c] = new]
      BY <1>1, <2>3 DEF n
    <3> HIDE DEF new
    <3>5. Becomes(c, new)
      BY <1>1, <2>1, <2>3, <3>3, <3>4 DEF Becomes, Holding
    <3>6. KnowsNext(new)
      BY <1>1, <2>1, <3>2, <3>3 DEF KnowsKey, KnowsNext, Holding
    <3> QED BY <2>1, <3>3, <3>5, <3>6 DEF Repairs
  <2> QED BY <1>10, <2>2, <2>3 DEF Fetched
<1>11. CASE Compare(c)
  <2>1. k.stage = "checking" /\ UNCHANGED <<auth, cache, pending, job, foreign, revoked>>
    BY <1>11 DEF Compare, server
  <2>2. CASE ~StillCurrent(c)
    BY <1>2, <1>3, <1>4, <1>11, <2>1, <2>2 DEF Compare, Repairs
  <2>3. CASE StillCurrent(c)
    <3> DEFINE new == [k EXCEPT !.stage = "saving"]
    <3>1. new \in CallType /\ new.stage = "saving" /\ new.key = k.key /\ new.passed = k.passed
      BY <1>1 DEF CallType
    <3>2. call' = [call EXCEPT ![c] = new] /\ refresh' = refresh
      BY <1>11, <2>3 DEF Compare
    <3> HIDE DEF new
    <3>3. Becomes(c, new)
      BY <1>1, <2>1, <3>1, <3>2 DEF Becomes, Holding
    <3>4. ~k.passed
      BY <1>1, <2>1, <2>3 DEF KnowsKey, StillCurrent
    <3>5. KnowsNext(new)
      BY <1>1, <2>1, <3>1, <3>4 DEF KnowsKey, KnowsNext, Holding
    <3> QED BY <2>1, <3>1, <3>3, <3>5 DEF Repairs
  <2> QED BY <2>2, <2>3
<1>12. CASE SaveKey(c)
  <2> DEFINE new == [k EXCEPT !.stage = "calling", !.key = k.got]
  <2>1. new \in CallType /\ new.stage = "calling"
    BY <1>1 DEF CallType
  <2>2. k.stage = "saving" /\ Leaves(c, new) /\ cache' = k.got /\ UNCHANGED <<auth, pending, job, foreign>>
    BY <1>12 DEF SaveKey
  <2>3. k.got \in 0 .. MaxKeys
    BY <1>1 DEF CallType
  <2> HIDE DEF new
  <2>4. Becomes(c, new) /\ KnowsNext(new)
    BY <2>1, <2>2 DEF Becomes, Leaves, KnowsKey, KnowsNext, Holding
  <2> QED BY <2>1, <2>2, <2>3, <2>4 DEF Repairs
<1>13. CASE Cancel(c)
  BY <1>2, <1>3, <1>4, <1>13 DEF Cancel, Repairs
<1> QED BY <1>5, <1>6, <1>7, <1>8, <1>9, <1>10, <1>11, <1>12, <1>13 DEF CallActs

-----------------------------------------------------------------------------
(* A step of a terminal or of the dashboard.                                *)

JobOk(j) == j \in JobType /\ (j.stage \in {"polling", "fetching"} => j.login # None)

\* The job changes; a login that changes passes the answers under way by; a cache
\* that changes is no longer the recoveries' alone.
Works(t) ==
    /\ \E new \in JobType : job' = [job EXCEPT ![t] = new] /\ JobOk(new)
    /\ refresh' = refresh /\ revoked' = revoked
    /\ \/ auth' = auth /\ call' = call
       \/ auth' \in 0 .. MaxLogins /\ call' = Passed(auth')
    /\ \/ cache' = cache /\ foreign' = foreign
       \/ cache' \in 0 .. MaxKeys /\ foreign' = TRUE
    /\ pending' \in 0 .. MaxLogins

LEMMA TerminalSteps ==
    ASSUME AccountTypes, Asks, NEW t \in Terminals, TerminalActs(t)
    PROVE  Works(t)
<1>1. /\ AccountTypes /\ job \in [Terminals -> JobType] /\ job[t] \in JobType
      /\ auth \in 0 .. MaxLogins /\ cache \in 0 .. MaxKeys /\ pending \in 0 .. MaxLogins
      /\ MaxKeys \in Nat /\ MaxLogins \in Nat
      /\ Len(codes) \in Nat
      /\ (job[t].stage \in {"polling", "fetching"} => job[t].login # None)
  BY Typed DEF Asks
<1> DEFINE j == job[t]
<1> DEFINE Kinds == {"none", "login", "sync", "repair", "patch", "logout"}
<1> DEFINE Stages == {"idle", "polling", "fetching", "saving", "clearing", "emptying"}
<1>2. ASSUME NEW stage \in Stages, NEW kind \in Kinds, NEW login \in 0 .. MaxLogins, NEW got \in 0 .. MaxKeys,
             Work(t, stage, kind, login, got), stage \in {"polling", "fetching"} => login # None
      PROVE  \E new \in JobType : job' = [job EXCEPT ![t] = new] /\ JobOk(new)
  <2> DEFINE new == [stage |-> stage, kind |-> kind, login |-> login, got |-> got]
  <2>1. new \in JobType /\ JobOk(new)
    BY <1>2 DEF JobType, JobOk
  <2>2. job' = [job EXCEPT ![t] = new]
    BY <1>2 DEF Work
  <2> HIDE DEF new
  <2> QED BY <2>1, <2>2
<1>3. Done(t) => \E new \in JobType : job' = [job EXCEPT ![t] = new] /\ JobOk(new)
  <2>1. IdleJob \in JobType /\ JobOk(IdleJob)
    BY <1>1 DEF IdleJob, JobType, JobOk, None
  <2> QED BY <2>1 DEF Done
<1>4. None \in 0 .. MaxLogins /\ None \in 0 .. MaxKeys
  BY <1>1 DEF None
<1>5. CASE StartLogin(t)
  <2>1. /\ j.stage = "idle" /\ job' = job
        /\ UNCHANGED <<auth, cache, revoked, refresh, call, foreign>>
        /\ codes' = Append(codes, "waiting") /\ Len(codes) < MaxLogins /\ pending' = Len(codes')
    BY <1>5 DEF StartLogin
  <2>2. job' = [job EXCEPT ![t] = j] /\ JobOk(j)
    BY <1>1, <2>1 DEF JobOk
  <2>3. Len(codes') = Len(codes) + 1
    BY <1>1, <2>1, Typed, AppendProperties
  <2>4. pending' \in 0 .. MaxLogins
    BY <1>1, <2>1, <2>3
  <2> QED BY <1>1, <2>1, <2>2, <2>4 DEF Works
<1>6. CASE Poll(t)
  <2>1. /\ Work(t, "polling", "login", pending, None) /\ pending # None
        /\ UNCHANGED <<auth, cache, pending, revoked, refresh, call, foreign>>
    BY <1>6 DEF Poll, server
  <2> QED BY <1>1, <1>2, <1>4, <2>1 DEF Works
<1>7. CASE Polled(t)
  <2>1. j.stage = "polling" /\ UNCHANGED <<cache, revoked, refresh, foreign>> /\ j.login \in 0 .. MaxLogins
        /\ j.login # None
    BY <1>1, <1>7 DEF Polled, server, JobType
  <2>2. CASE codes[j.login] = "waiting"
    <3>1. Done(t) /\ UNCHANGED <<auth, call, pending>>
      BY <1>7, <2>2 DEF Polled
    <3> QED BY <1>1, <1>3, <2>1, <3>1 DEF Works
  <2>3. CASE codes[j.login] = "refused"
    <3>1. Done(t) /\ pending' = None /\ UNCHANGED <<auth, call>>
      BY <1>7, <2>3 DEF Polled
    <3> QED BY <1>1, <1>3, <1>4, <2>1, <3>1 DEF Works
  <2>4. CASE codes[j.login] \notin {"waiting", "refused"}
    <3>1. /\ pending' = None /\ auth' = j.login /\ call' = Passed(j.login)
          /\ Work(t, "fetching", "login", j.login, None)
      BY <1>7, <2>4 DEF Polled, LoginBecomes
    <3> QED BY <1>1, <1>2, <1>4, <2>1, <3>1 DEF Works
  <2> QED BY <2>2, <2>3, <2>4
<1>8. ASSUME NEW kind \in {"sync", "repair"}, StartSync(t, kind) PROVE Works(t)
  <2>1. /\ Work(t, "fetching", kind, auth, None) /\ auth # None
        /\ UNCHANGED <<auth, cache, pending, revoked, refresh, call, foreign>>
    BY <1>8 DEF StartSync, server
  <2> QED BY <1>1, <1>2, <1>4, <2>1 DEF Works
<1>9. CASE Synced(t)
  <2>1. j.stage = "fetching" /\ UNCHANGED <<auth, cache, pending, refresh, call, foreign>>
        /\ j.login \in 1 .. MaxLogins /\ j.kind \in Kinds
    BY <1>1, <1>9 DEF Synced, JobType, None
  <2>2. CASE Minted(j.login) /\ Work(t, "saving", j.kind, j.login, Len(keys'))
    <3>1. Len(keys') \in 0 .. MaxKeys /\ revoked' = revoked
      BY <1>1, <2>1, <2>2, MintedType
    <3> DEFINE n == Len(keys')
    <3>2. n \in 0 .. MaxKeys /\ Work(t, "saving", j.kind, j.login, n)
      BY <2>2, <3>1
    <3> HIDE DEF n
    <3>3. job' = [job EXCEPT ![t] = [stage |-> "saving", kind |-> j.kind, login |-> j.login, got |-> n]]
      BY <3>2 DEF Work
    <3>4. [stage |-> "saving", kind |-> j.kind, login |-> j.login, got |-> n] \in JobType
      BY <1>1, <2>1, <3>2 DEF JobType
    <3>5. JobOk([stage |-> "saving", kind |-> j.kind, login |-> j.login, got |-> n])
      BY <3>4 DEF JobOk
    <3> QED BY <1>1, <2>1, <3>1, <3>3, <3>4, <3>5 DEF Works
  <2>3. CASE Work(t, "clearing", "repair", None, None) /\ UNCHANGED server
    BY <1>1, <1>2, <1>4, <2>1, <2>3 DEF Works, server
  <2>4. CASE Done(t) /\ UNCHANGED server
    BY <1>1, <1>3, <2>1, <2>4 DEF Works, server
  <2> QED BY <1>9, <2>2, <2>3, <2>4 DEF Synced, Outage
<1>10. CASE SaveCatalogue(t)
  <2>1. Done(t) /\ cache' = j.got /\ foreign' = TRUE /\ UNCHANGED <<auth, pending, revoked, refresh, call>>
    BY <1>10 DEF SaveCatalogue, server
  <2>2. j.got \in 0 .. MaxKeys
    BY <1>1 DEF JobType
  <2> QED BY <1>1, <1>3, <2>1, <2>2 DEF Works
<1>11. CASE ReadCache(t)
  <2>1. /\ Work(t, "saving", "patch", None, cache)
        /\ UNCHANGED <<auth, cache, pending, revoked, refresh, call, foreign>>
    BY <1>11 DEF ReadCache, server
  <2> QED BY <1>1, <1>2, <1>4, <2>1 DEF Works
<1>12. CASE StartLogout(t)
  <2>1. /\ Work(t, "clearing", "logout", None, None)
        /\ UNCHANGED <<auth, cache, pending, revoked, refresh, call, foreign>>
    BY <1>12 DEF StartLogout, server
  <2> QED BY <1>1, <1>2, <1>4, <2>1 DEF Works
<1>13. CASE ClearAuth(t)
  <2>1. /\ Work(t, "emptying", j.kind, None, None) /\ auth' = None /\ call' = Passed(None)
        /\ UNCHANGED <<cache, pending, revoked, refresh, foreign>>
    BY <1>13 DEF ClearAuth, LoginBecomes, server
  <2>2. j.kind \in Kinds
    BY <1>1 DEF JobType
  <2> QED BY <1>1, <1>2, <1>4, <2>1, <2>2 DEF Works
<1>14. CASE RemoveCache(t)
  <2>1. Done(t) /\ cache' = None /\ foreign' = TRUE /\ UNCHANGED <<auth, pending, revoked, refresh, call>>
    BY <1>14 DEF RemoveCache, server
  <2> QED BY <1>1, <1>3, <1>4, <2>1 DEF Works
<1> QED BY <1>5, <1>6, <1>7, <1>8, <1>9, <1>10, <1>11, <1>12, <1>13, <1>14 DEF TerminalActs

-----------------------------------------------------------------------------
(* The invariant.                                                           *)

LEMMA InitAccountInv == AccountInit => AccountInv
<1> SUFFICES ASSUME AccountInit PROVE AccountInv
  OBVIOUS
<1>1. MaxLogins \in Nat \ {0} /\ MaxKeys \in Nat \ {0} /\ MaxOutages \in Nat /\ "free" \notin Calls
  BY AccountAssumption
<1>2. IdleCall \in CallType /\ IdleCall.stage = "idle"
  BY <1>1 DEF IdleCall, CallType, None
<1>3. IdleJob \in JobType /\ IdleJob.stage = "idle"
  BY <1>1 DEF IdleJob, JobType, None
<1>4. keys \in Seq(1 .. MaxLogins) /\ Len(keys) <= MaxKeys
  BY <1>1 DEF AccountInit
<1>5. codes \in Seq({"waiting", "approved", "refused"}) /\ Len(codes) <= MaxLogins
  <2> DEFINE Codes == {"waiting", "approved", "refused"}
  <2>1. "approved" \in Codes
    OBVIOUS
  <2> HIDE DEF Codes
  <2>2. ASSUME NEW x \in Codes PROVE <<x>> \in Seq(Codes) /\ Len(<<x>>) = 1
    OBVIOUS
  <2> QED BY <1>1, <2>1, <2>2 DEF AccountInit, Codes
<1>6. AccountTypeOK
  BY <1>1, <1>4 DEF AccountInit, AccountTypeOK, None
<1>7. AccountTypes
  <2>1. call \in [Calls -> CallType] /\ job \in [Terminals -> JobType]
    BY <1>2, <1>3 DEF AccountInit
  <2>2. foreign \in BOOLEAN /\ outages \in 0 .. MaxOutages
    <3>1. foreign = FALSE /\ outages = 0
      BY DEF AccountInit
    <3>2. foreign \in BOOLEAN
      BY <3>1
    <3>3. 0 \in 0 .. MaxOutages
      BY <1>1
    <3> QED BY <3>1, <3>2, <3>3
  <2> QED BY <1>5, <1>6, <2>1, <2>2 DEF AccountTypes
<1>8. Asks
  BY <1>2, <1>3 DEF AccountInit, Asks
<1>9. LockIsHeld /\ \A c \in Calls : KeyIsDead(c) /\ KnowsPassed(c)
  BY <1>1, <1>2 DEF AccountInit, LockIsHeld, KeyIsDead, KnowsPassed, Holding, Unlocked
<1> QED BY <1>7, <1>8, <1>9 DEF AccountInv

\* The types of what is not the server's.
OwnTypes ==
    /\ auth \in 0 .. MaxLogins /\ cache \in 0 .. MaxKeys /\ pending \in 0 .. MaxLogins
    /\ refresh \in Calls \cup {Unlocked}
    /\ call \in [Calls -> CallType] /\ job \in [Terminals -> JobType]
    /\ foreign \in BOOLEAN

LEMMA RepairStep ==
    ASSUME AccountInv, NEW c \in Calls, CallActs(c), revoked \subseteq revoked'
    PROVE  /\ OwnTypes' /\ Asks' /\ LockIsHeld'
           /\ \A d \in Calls : KeyIsDead(d)' /\ KnowsPassed(d)'
<1>1. /\ OwnTypes /\ Asks
      /\ \A d \in Calls : call[d].stage \in Holding <=> refresh = d
      /\ \A d \in Calls : KeyIsDead(d) /\ KnowsPassed(d)
      /\ Unlocked \notin Calls
  BY Typed, AccountAssumption DEF AccountInv, LockIsHeld, OwnTypes, Unlocked
<1>2. Repairs(c)
  BY CallSteps
<1>3. PICK new \in CallType : Becomes(c, new) /\ KnowsNext(new)
  BY <1>2 DEF Repairs
<1>4. /\ UNCHANGED <<auth, pending, job, foreign>>
      /\ cache' = cache \/ (call[c].stage = "saving" /\ cache' \in 0 .. MaxKeys)
  BY <1>2 DEF Repairs
<1>5. call' = [call EXCEPT ![c] = new]
  BY <1>3 DEF Becomes
<1>6. call'[c] = new /\ \A d \in Calls : d # c => call'[d] = call[d]
  BY <1>1, <1>5 DEF OwnTypes
<1>7. OwnTypes'
  BY <1>1, <1>3, <1>4, <1>5 DEF OwnTypes, Becomes
<1>8. Asks'
  BY <1>1, <1>3, <1>4, <1>6 DEF Asks, KnowsNext
<1>9. \A d \in Calls : call'[d].stage \in Holding <=> refresh' = d
  <2>1. CASE new.stage \in Holding
    BY <1>1, <1>3, <1>6, <2>1 DEF Becomes
  <2>2. CASE new.stage \notin Holding
    BY <1>1, <1>3, <1>6, <2>2 DEF Becomes
  <2> QED BY <2>1, <2>2
<1>10. ASSUME NEW d \in Calls PROVE KeyIsDead(d)' /\ KnowsPassed(d)'
  <2>1. CASE d = c
    BY <1>3, <1>6, <2>1 DEF KnowsNext, KeyIsDead, KnowsPassed
  <2>2. CASE d # c
    <3>1. call'[d] = call[d] /\ KeyIsDead(d) /\ KnowsPassed(d)
      BY <1>1, <1>6, <2>2
    <3>2. KnowsPassed(d)'
      BY <1>4, <3>1 DEF KnowsPassed
    <3>3. call[d].stage \in Holding => cache' = cache
      BY <1>1, <1>4, <2>2 DEF Holding
    <3>4. KeyIsDead(d)'
      BY <1>4, <3>1, <3>3 DEF KeyIsDead, Holding
    <3> QED BY <3>2, <3>4
  <2> QED BY <2>1, <2>2
<1> QED BY <1>7, <1>8, <1>9, <1>10 DEF LockIsHeld

LEMMA WorkStep ==
    ASSUME AccountInv, NEW t \in Terminals, TerminalActs(t)
    PROVE  /\ OwnTypes' /\ Asks' /\ LockIsHeld'
           /\ \A d \in Calls : KeyIsDead(d)' /\ KnowsPassed(d)'
<1>1. /\ OwnTypes /\ Asks /\ AccountTypes
      /\ \A d \in Calls : call[d].stage \in Holding <=> refresh = d
      /\ \A d \in Calls : KeyIsDead(d) /\ KnowsPassed(d)
  BY Typed DEF AccountInv, LockIsHeld, OwnTypes
<1>2. Works(t)
  BY <1>1, TerminalSteps
<1>3. PICK new \in JobType : job' = [job EXCEPT ![t] = new] /\ JobOk(new)
  BY <1>2 DEF Works
<1>4. /\ refresh' = refresh /\ revoked' = revoked
      /\ (cache' = cache /\ foreign' = foreign) \/ (cache' \in 0 .. MaxKeys /\ foreign' = TRUE)
      /\ pending' \in 0 .. MaxLogins
      /\ (auth' = auth /\ call' = call) \/ (auth' \in 0 .. MaxLogins /\ call' = Passed(auth'))
  BY <1>2 DEF Works
<1>5. ASSUME call' = Passed(auth'), auth' \in 0 .. MaxLogins
      PROVE  /\ call' \in [Calls -> CallType]
             /\ \A d \in Calls :
                 /\ call'[d].stage = call[d].stage /\ call'[d].key = call[d].key /\ call'[d].login = call[d].login
                 /\ call[d].stage \in {"fetching", "checking"} => call'[d].passed = (auth' # call[d].login)
                 /\ call[d].stage = "saving" => call'[d].passed = call[d].passed
  <2> DEFINE p(d) == IF call[d].stage \in {"fetching", "checking"} THEN call[d].login # auth' ELSE call[d].passed
  <2>1. call' = [d \in Calls |-> [call[d] EXCEPT !.passed = p(d)]]
    BY <1>5 DEF Passed
  <2>2. \A d \in Calls : p(d) \in BOOLEAN /\ call[d] \in CallType
    BY <1>1 DEF OwnTypes, CallType
  <2>3. \A d \in Calls :
            /\ call[d].stage \in {"fetching", "checking"} => p(d) = (auth' # call[d].login)
            /\ call[d].stage = "saving" => p(d) = call[d].passed
    OBVIOUS
  <2> HIDE DEF p
  <2>4. ASSUME NEW d \in Calls
        PROVE  LET n == [call[d] EXCEPT !.passed = p(d)] IN
                   n \in CallType /\ n.stage = call[d].stage /\ n.key = call[d].key /\ n.login = call[d].login
                   /\ n.passed = p(d)
    BY <2>2 DEF CallType
  <2>5. \A d \in Calls : call'[d] = [call[d] EXCEPT !.passed = p(d)]
    BY <2>1
  <2>6. call' \in [Calls -> CallType]
    BY <2>1, <2>4
  <2>7. \A d \in Calls : /\ call'[d].stage = call[d].stage /\ call'[d].key = call[d].key
                         /\ call'[d].login = call[d].login /\ call'[d].passed = p(d)
    BY <2>4, <2>5
  <2> QED BY <2>3, <2>6, <2>7
<1>6. /\ call' \in [Calls -> CallType]
      /\ \A d \in Calls :
          /\ call'[d].stage = call[d].stage /\ call'[d].key = call[d].key /\ call'[d].login = call[d].login
          /\ call[d].stage \in {"fetching", "checking"} => call'[d].passed = (auth' # call[d].login)
          /\ call[d].stage = "saving" => call'[d].passed = call[d].passed
  <2>1. CASE auth' = auth /\ call' = call
    BY <1>1, <2>1 DEF OwnTypes, KnowsPassed
  <2> QED BY <1>4, <1>5, <2>1
<1>7. OwnTypes'
  BY <1>1, <1>3, <1>4, <1>6 DEF OwnTypes
<1>8. Asks'
  BY <1>1, <1>3, <1>6 DEF Asks, JobOk, OwnTypes
<1>9. LockIsHeld'
  BY <1>1, <1>4, <1>6 DEF LockIsHeld
<1>10. ASSUME NEW d \in Calls PROVE KeyIsDead(d)' /\ KnowsPassed(d)'
  <2>1. KeyIsDead(d)'
    BY <1>1, <1>4, <1>6 DEF KeyIsDead, Holding
  <2>2. KnowsPassed(d)'
    BY <1>1, <1>6 DEF KnowsPassed
  <2> QED BY <2>1, <2>2
<1> QED BY <1>7, <1>8, <1>9, <1>10

LEMMA AccountInvariance == AccountSpec => []AccountInv
<1>1. AccountInit => AccountInv
  BY InitAccountInv
<1>2. AccountInv /\ [AccountNext]_accountVars => AccountInv'
  <2> SUFFICES ASSUME AccountInv, [AccountNext]_accountVars PROVE AccountInv'
    OBVIOUS
  <2>1. ServerTypes' /\ revoked \subseteq revoked'
    BY ServerStep DEF AccountInv
  <2>2. /\ OwnTypes /\ Asks /\ LockIsHeld /\ \A d \in Calls : KeyIsDead(d) /\ KnowsPassed(d)
    BY Typed DEF AccountInv, OwnTypes
  <2>3. CASE UNCHANGED <<auth, cache, pending, refresh, call, job, foreign>>
    <3>1. OwnTypes' /\ Asks' /\ LockIsHeld'
      BY <2>2, <2>3 DEF OwnTypes, Asks, LockIsHeld
    <3>2. \A d \in Calls : KeyIsDead(d)' /\ KnowsPassed(d)'
      BY <2>1, <2>2, <2>3 DEF KeyIsDead, KnowsPassed
    <3>3. AccountInv'
      BY <2>1, <3>1, <3>2 DEF AccountInv, AccountTypes, AccountTypeOK, OwnTypes, ServerTypes
    <3> QED BY <3>3
  <2>4. CASE ServerActs \/ UNCHANGED accountVars
    <3>1. UNCHANGED <<auth, cache, pending, refresh, call, job, foreign>>
      BY <2>4 DEF ServerActs, RevokeKey, EndLogin, Decide, accountVars
    <3> QED BY <2>3, <3>1
  <2>5. ASSUME OwnTypes' /\ Asks' /\ LockIsHeld' /\ \A d \in Calls : KeyIsDead(d)' /\ KnowsPassed(d)'
        PROVE  AccountInv'
    BY <2>1, <2>5 DEF AccountInv, AccountTypes, AccountTypeOK, OwnTypes, ServerTypes
  <2>6. ASSUME NEW c \in Calls, CallActs(c) PROVE AccountInv'
    BY <2>1, <2>5, <2>6, RepairStep
  <2>7. ASSUME NEW t \in Terminals, TerminalActs(t) PROVE AccountInv'
    BY <2>5, <2>7, WorkStep
  <2> QED BY <2>4, <2>6, <2>7, AccountSteps
<1> QED BY <1>1, <1>2, PTL DEF AccountSpec

\* Every variable keeps its type.
THEOREM AccountTypeCorrect == AccountSpec => []AccountTypes
<1>1. AccountInv => AccountTypes
  BY DEF AccountInv
<1> QED BY <1>1, AccountInvariance, PTL

\* Whatever keys are revoked, logins replaced, cleared or ended and calls cancelled
\* meanwhile: a recovery about to publish a key finds none that works, unless someone
\* signed in or synced, and it publishes none for a login that was gone when its
\* answer came (auth/recovery.rs).
THEOREM KeysStayShared == AccountSpec => []KeysAreShared
<1>1. AccountInv => KeysAreShared
  <2> SUFFICES ASSUME AccountInv PROVE KeysAreShared
    OBVIOUS
  <2>1. MintsAreShared
    BY DEF AccountInv, MintsAreShared, KeyIsDead, LockIsHeld, Holding
  <2>2. PassedAnswersAreDropped
    BY DEF AccountInv, PassedAnswersAreDropped, KnowsPassed
  <2> QED BY <2>1, <2>2 DEF KeysAreShared
<1> QED BY <1>1, AccountInvariance, PTL
-----------------------------------------------------------------------------
(* The sessions of the dashboard.                                            *)

Frames == {<<>>, <<"session">>, <<"session", "node">>,
           <<"text", "done">>, <<"session", "done">>, <<"session", "node", "done">>}

RequestType == [stage : {"idle", "listing", "deleting", "sweeping", "creating"},
                left : SUBSET Sessions, removed : SUBSET Sessions,
                hit : BOOLEAN, shown : SUBSET Sessions]
ChatType == [stage : {"idle", "resolved", "starting", "opening", "draining", "over"},
             session : Sessions \cup {Free}, known : {"none", "draft", "kept"},
             gone : BOOLEAN, sent : Frames]
RunType == [at : {"none", "live", "stopping"}, by : Chats \cup {Free}, told : BOOLEAN]

ConsoleTypes == /\ DashboardTypeOK
         /\ request \in [Requests -> RequestType]
         /\ chat \in [Chats -> ChatType]

\* What a stream has sent, and knows, at each stage.
Streams(k) ==
    /\ k.stage # "idle" => k.session \in Sessions
    /\ k.stage \in {"resolved", "starting"} => k.known # "none"
    /\ k.stage \in {"resolved", "starting", "opening"} => k.sent = <<>>
    /\ k.stage = "draining" => k.sent \in {<<"session">>, <<"session", "node">>}
    /\ k.stage = "over" /\ ~k.gone =>
         k.sent \in {<<"text", "done">>, <<"session", "done">>, <<"session", "node", "done">>}

\* A run that nobody told to stop belongs to a stream at work in its session.
HasClient(s) ==
    run[s].at = "live" =>
        /\ run[s].by \in Chats
        /\ chat[run[s].by].session = s
        /\ chat[run[s].by].stage \in {"opening", "draining"}

\* Nobody has made a session again that is known to be removed.
StayRemoved == \A s \in sure : meta[s] = "none"

IInv == /\ ConsoleTypes
        /\ \A c \in Chats : Streams(chat[c])
        /\ \A s \in Sessions : HasClient(s)
        /\ DeletesLeaveNothing
        /\ StayRemoved
        /\ DeletedRowsDisappear

ChatActs(c) ==
    \/ \E s \in Sessions : OpenChat(c, s)
    \/ AnswerOnly(c) \/ EnterRun(c) \/ StartFails(c) \/ StartRun(c)
    \/ SendSession(c) \/ SendNode(c) \/ DropRun(c) \/ EndChat(c) \/ Leave(c)

RequestActs(r) ==
    \/ ReadRows(r) \/ StoreRows(r) \/ NewChat(r) \/ EndDelete(r) \/ EndSweep(r)
    \/ \E ids \in SUBSET Sessions \ {{}} : Delete(r, ids)
    \/ \E s \in Sessions : \/ AbortFirst(r, s) \/ EnterDelete(r, s)
                           \/ DeleteSession(r, s) \/ DeleteFails(r, s)
                           \/ CreateSession(r, s)

SessionActs(s) == Persist(s) \/ Finish(s) \/ Forget(s)

LEMMA ConsoleSteps ==
    ASSUME [DashboardNext]_dashboardVars
    PROVE  \/ \E s \in Sessions : SessionActs(s)
           \/ Expire
           \/ Crash
           \/ \E r \in Requests : RequestActs(r)
           \/ \E c \in Chats : ChatActs(c)
           \/ UNCHANGED dashboardVars
BY DEF DashboardNext, SessionActs, RequestActs, ChatActs

-----------------------------------------------------------------------------
(* What a step makes of a chat stream.                                     *)

\* The stream a stage leads to.
Succeeds(c) ==
    /\ chat' = [chat EXCEPT ![c] = chat'[c]]
    /\ chat'[c] \in ChatType
    /\ Streams(chat'[c])

LEMMA PairGrows ==
    ASSUME NEW S, NEW s \in Seq(S), NEW x \in S
    PROVE  Len(s) = 2 =>
               /\ Append(s, x) \in Seq(S) /\ Len(Append(s, x)) = 3
               /\ Append(s, x)[1] = s[1] /\ Append(s, x)[2] = s[2] /\ Append(s, x)[3] = x
<1>1. /\ Append(s, x) \in Seq(S) /\ Len(Append(s, x)) = Len(s) + 1
      /\ \A i \in 1 .. Len(s) : Append(s, x)[i] = s[i]
      /\ Append(s, x)[Len(s) + 1] = x
  BY AppendProperties
<1> DEFINE t == Append(s, x)
<1> HIDE DEF t
<1> SUFFICES ASSUME Len(s) = 2
             PROVE  t \in Seq(S) /\ Len(t) = 3 /\ t[1] = s[1] /\ t[2] = s[2] /\ t[3] = x
  BY DEF t
<1>2. t \in Seq(S) /\ Len(t) = 3 /\ (\A i \in 1 .. 2 : t[i] = s[i]) /\ t[3] = x
  BY <1>1 DEF t
<1>3. t[1] = s[1] /\ t[2] = s[2]
  BY <1>2
<1> QED BY <1>2, <1>3

LEMMA Appended ==
    ASSUME NEW a, NEW b, NEW x
    PROVE  /\ Append(<<>>, x) = <<x>>
           /\ Append(<<a>>, x) = <<a, x>>
           /\ Append(<<a, b>>, x) = <<a, b, x>>
<1> DEFINE S == {a, b, x}
<1>1. Append(<<>>, x) = <<x>>
  OBVIOUS
<1> HIDE DEF S
<1>0. a \in S /\ b \in S /\ x \in S
  BY DEF S
<1>2. Append(<<a>>, x) = <<a, x>>
  <2> DEFINE one == <<a>>
  <2> DEFINE two == <<a, x>>
  <2>1. one \in Seq(S) /\ Len(one) = 1 /\ one[1] = a
    BY <1>0
  <2>2. two \in Seq(S) /\ Len(two) = 2 /\ two[1] = a /\ two[2] = x
    BY <1>0
  <2> HIDE DEF one, two
  <2> DEFINE t == Append(one, x)
  <2>3. t \in Seq(S) /\ Len(t) = 1 + 1 /\ (\A i \in 1 .. 1 : t[i] = one[i]) /\ t[1 + 1] = x
    BY <1>0, <2>1, AppendProperties
  <2> HIDE DEF t
  <2>4. \A i \in 1 .. Len(t) : t[i] = two[i]
    BY <2>1, <2>2, <2>3
  <2>5. t = two
    BY <2>2, <2>3, <2>4, SeqEqual
  <2> QED BY <2>5 DEF one, two, t
<1>3. Append(<<a, b>>, x) = <<a, b, x>>
  <2> DEFINE two == <<a, b>>
  <2> DEFINE three == <<a, b, x>>
  <2>1. two \in Seq(S) /\ Len(two) = 2 /\ two[1] = a /\ two[2] = b
    BY <1>0
  <2>2. three \in Seq(S) /\ Len(three) = 3 /\ three[1] = a /\ three[2] = b /\ three[3] = x
    BY <1>0
  <2> HIDE DEF two, three
  <2>3. Append(two, x) \in Seq(S) /\ Len(Append(two, x)) = 3
    BY <1>0, <2>1, PairGrows
  <2>4. Append(two, x)[1] = two[1] /\ Append(two, x)[2] = two[2] /\ Append(two, x)[3] = x
    BY <1>0, <2>1, PairGrows
  <2> DEFINE t == Append(two, x)
  <2>5. t \in Seq(S) /\ Len(t) = 3 /\ t[1] = a /\ t[2] = b /\ t[3] = x
    BY <2>1, <2>3, <2>4
  <2> HIDE DEF t
  <2>6. \A i \in 1 .. 3 : t[i] = three[i]
    BY <2>2, <2>5
  <2>7. t = three
    BY <2>2, <2>5, <2>6, SeqEqual
  <2> QED BY <2>7 DEF two, three, t
<1> QED BY <1>1, <1>2, <1>3

LEMMA Ends ==
    ASSUME NEW a, NEW b
    PROVE  /\ <<a>>[Len(<<a>>)] = a /\ <<a, b>>[Len(<<a, b>>)] = b
           /\ <<a>> # <<>> /\ <<a, b>> # <<>>
           /\ <<>> \o <<a, b>> = <<a, b>>
<1>1. <<a, b>> \in Seq({a, b})
  OBVIOUS
<1>2. <<>> \o <<a, b>> = <<a, b>>
  BY <1>1, ConcatEmptySeq
<1> QED BY <1>2

LEMMA FramesAreTold ==
    /\ <<>> \o <<"text", "done">> = <<"text", "done">>
    /\ Append(<<>>, "session") = <<"session">>
    /\ Append(<<"session">>, "node") = <<"session", "node">>
    /\ Append(<<"session">>, "done") = <<"session", "done">>
    /\ Append(<<"session", "node">>, "done") = <<"session", "node", "done">>
    /\ <<"session">>[Len(<<"session">>)] = "session"
    /\ <<"session", "node">>[Len(<<"session", "node">>)] = "node"
    /\ <<"session">> # <<>>
    /\ <<"session", "node">> # <<>>
BY Appended, Ends

LEMMA ChatSteps ==
    ASSUME ConsoleTypes, NEW c \in Chats, Streams(chat[c]), ChatActs(c)
    PROVE  Succeeds(c)
<1>1. chat[c] \in ChatType /\ chat \in [Chats -> ChatType]
  BY DEF ConsoleTypes
<1> DEFINE k == chat[c]
<1>2. CASE \E s \in Sessions : OpenChat(c, s)
  <2> PICK s \in Sessions : OpenChat(c, s)
    BY <1>2
  <2> DEFINE known == IF meta[s] = "kept" THEN "kept" ELSE "draft"
  <2> DEFINE new == [IdleChat EXCEPT !.stage = "resolved", !.session = s, !.known = known]
  <2>1. chat' = [chat EXCEPT ![c] = new]
    BY DEF OpenChat
  <2>3. known \in {"draft", "kept"}
    OBVIOUS
  <2> HIDE DEF known
  <2>2. IdleChat \in ChatType
    BY DEF IdleChat, ChatType, Frames
  <2>4. new \in ChatType
    BY <2>2, <2>3 DEF ChatType
  <2>6. new.stage = "resolved" /\ new.session = s /\ new.known = known /\ new.sent = IdleChat.sent
    BY <2>2 DEF ChatType
  <2>7. IdleChat.sent = <<>>
    BY DEF IdleChat
  <2> HIDE DEF new
  <2>5. Streams(new)
    BY <2>3, <2>6, <2>7 DEF Streams
  <2> QED BY <1>1, <2>1, <2>4, <2>5 DEF Succeeds
<1>3. CASE AnswerOnly(c) \/ StartFails(c)
  <2>1. chat' = [chat EXCEPT ![c] = Closing(c, "text")] /\ k.stage \in {"resolved", "starting"}
    BY <1>3 DEF AnswerOnly, StartFails
  <2> DEFINE new == [k EXCEPT !.stage = "over", !.sent = IF k.gone THEN @ ELSE @ \o <<"text", "done">>]
  <2>2. k.sent = <<>> /\ k.session \in Sessions
    BY <2>1 DEF Streams
  <2>3. k.sent \o <<"text", "done">> = <<"text", "done">>
    BY <2>2, FramesAreTold
  <2>4. new = [k EXCEPT !.stage = "over", !.sent = IF k.gone THEN <<>> ELSE <<"text", "done">>]
    BY <2>2, <2>3
  <2>5. new \in ChatType
    BY <1>1, <2>4 DEF ChatType, Frames
  <2>6. Streams(new)
    BY <1>1, <2>2, <2>4 DEF Streams, ChatType
  <2>7. Closing(c, "text") = new
    BY DEF Closing
  <2> QED BY <1>1, <2>1, <2>5, <2>6, <2>7 DEF Succeeds
<1>4. CASE EnterRun(c)
  <2> DEFINE new == [k EXCEPT !.stage = "starting"]
  <2>1. chat' = [chat EXCEPT ![c] = new] /\ k.stage = "resolved"
    BY <1>4 DEF EnterRun
  <2>2. new \in ChatType /\ Streams(new)
    BY <1>1, <2>1 DEF Streams, ChatType
  <2> QED BY <1>1, <2>1, <2>2 DEF Succeeds
<1>5. CASE StartRun(c)
  <2> DEFINE new == [k EXCEPT !.stage = "opening"]
  <2>1. chat' = [chat EXCEPT ![c] = new] /\ k.stage = "starting"
    BY <1>5 DEF StartRun
  <2>2. new \in ChatType /\ Streams(new)
    BY <1>1, <2>1 DEF Streams, ChatType
  <2> QED BY <1>1, <2>1, <2>2 DEF Succeeds
<1>6. CASE SendSession(c)
  <2>1. k.stage = "opening" /\ k.sent = <<>> /\ k.session \in Sessions
    BY <1>6 DEF SendSession, Streams
  <2>2. CASE k.gone
    <3> DEFINE new == [k EXCEPT !.stage = "over"]
    <3>1. chat' = [chat EXCEPT ![c] = new]
      BY <1>6, <2>2 DEF SendSession
    <3>2. new \in ChatType /\ Streams(new)
      BY <1>1, <2>1, <2>2 DEF Streams, ChatType
    <3> QED BY <1>1, <3>1, <3>2 DEF Succeeds
  <2>3. CASE ~k.gone
    <3> DEFINE new == [k EXCEPT !.stage = "draining", !.sent = <<"session">>]
    <3>1. Sends(c, "session") = <<"session">>
      BY <2>1, <2>3, FramesAreTold DEF Sends
    <3>2. chat' = [chat EXCEPT ![c] = new]
      BY <1>6, <2>3, <3>1 DEF SendSession
    <3>3. new \in ChatType /\ Streams(new)
      BY <1>1, <2>1 DEF Streams, ChatType, Frames
    <3> QED BY <1>1, <3>2, <3>3 DEF Succeeds
  <2> QED BY <2>2, <2>3
<1>7. CASE SendNode(c)
  <2>1. k.stage = "draining" /\ ~k.gone /\ k.session \in Sessions
        /\ k.sent \in {<<"session">>, <<"session", "node">>}
    BY <1>7 DEF SendNode, Streams
  <2> DEFINE new == [k EXCEPT !.sent = <<"session", "node">>]
  <2>2. Sends(c, "node") = <<"session", "node">>
    BY <2>1, FramesAreTold DEF Sends
  <2>3. chat' = [chat EXCEPT ![c] = new]
    BY <1>7, <2>2 DEF SendNode
  <2>4. new \in ChatType /\ Streams(new)
    BY <1>1, <2>1 DEF Streams, ChatType, Frames
  <2> QED BY <1>1, <2>3, <2>4 DEF Succeeds
<1>8. CASE DropRun(c)
  <2> DEFINE new == [k EXCEPT !.stage = "over"]
  <2>1. chat' = [chat EXCEPT ![c] = new] /\ k.stage = "draining" /\ k.gone
    BY <1>8 DEF DropRun
  <2>2. new \in ChatType /\ Streams(new)
    BY <1>1, <2>1 DEF Streams, ChatType
  <2> QED BY <1>1, <2>1, <2>2 DEF Succeeds
<1>9. CASE EndChat(c)
  <2>1. k.stage = "draining" /\ k.session \in Sessions
        /\ k.sent \in {<<"session">>, <<"session", "node">>}
    BY <1>9 DEF EndChat, Streams
  <2> DEFINE said == IF k.gone THEN k.sent ELSE Append(k.sent, "done")
  <2> DEFINE new == [k EXCEPT !.stage = "over", !.sent = said]
  <2>2. /\ said \in Frames
        /\ ~k.gone => said \in {<<"session", "done">>, <<"session", "node", "done">>}
    BY <2>1, FramesAreTold DEF Frames
  <2>3. chat' = [chat EXCEPT ![c] = new]
    BY <1>9 DEF EndChat
  <2> HIDE DEF said
  <2>4. new \in ChatType /\ Streams(new)
    BY <1>1, <2>1, <2>2 DEF Streams, ChatType
  <2> QED BY <1>1, <2>3, <2>4 DEF Succeeds
<1>10. CASE Leave(c)
  <2> DEFINE new == [k EXCEPT !.gone = TRUE]
  <2>1. chat' = [chat EXCEPT ![c] = new] /\ k.stage \notin {"idle", "over"}
    BY <1>10 DEF Leave
  <2>2. new \in ChatType /\ Streams(new)
    BY <1>1, <2>1 DEF Streams, ChatType
  <2> QED BY <1>1, <2>1, <2>2 DEF Succeeds
<1> QED BY <1>2, <1>3, <1>4, <1>5, <1>6, <1>7, <1>8, <1>9, <1>10 DEF ChatActs

LEMMA ChatsFollow ==
    ASSUME IInv, [DashboardNext]_dashboardVars
    PROVE  /\ chat' \in [Chats -> ChatType]
           /\ \A c \in Chats : Streams(chat'[c])
<1>1. chat \in [Chats -> ChatType] /\ \A c \in Chats : Streams(chat[c])
  BY DEF IInv, ConsoleTypes
<1>2. CASE UNCHANGED chat
  BY <1>1, <1>2
<1>3. ASSUME NEW d \in Chats, ChatActs(d)
      PROVE  chat' \in [Chats -> ChatType] /\ \A c \in Chats : Streams(chat'[c])
  <2>1. Succeeds(d)
    BY <1>1, <1>3, ChatSteps DEF IInv
  <2>2. chat' = [chat EXCEPT ![d] = chat'[d]] /\ chat'[d] \in ChatType /\ Streams(chat'[d])
    BY <2>1 DEF Succeeds
  <2> DEFINE new == chat'[d]
  <2> HIDE DEF new
  <2>3. chat' = [chat EXCEPT ![d] = new] /\ new \in ChatType /\ Streams(new)
    BY <2>2 DEF new
  <2> QED BY <1>1, <2>3
<1>4. CASE Crash
  <2>1. chat' = [c \in Chats |-> IdleChat]
    BY <1>4 DEF Crash
  <2>2. IdleChat \in ChatType /\ Streams(IdleChat)
    BY DEF IdleChat, ChatType, Frames, Streams
  <2> QED BY <2>1, <2>2
<1>5. ASSUME \/ \E s \in Sessions : SessionActs(s)
             \/ Expire
             \/ \E r \in Requests : RequestActs(r)
             \/ UNCHANGED dashboardVars
      PROVE  UNCHANGED chat
  BY <1>5 DEF SessionActs, RequestActs, Persist, Finish, Forget, Expire, ReadRows, StoreRows, NewChat, EndDelete,
              EndSweep, Delete, AbortFirst, EnterDelete, DeleteSession, DeleteFails, CreateSession, dashboardVars
<1> QED BY <1>2, <1>3, <1>4, <1>5, ConsoleSteps

-----------------------------------------------------------------------------
(* What a step makes of requests, runs and sessions.                        *)

\* Nothing but these steps changes these variables.
LEMMA MetaChanges ==
    ASSUME [DashboardNext]_dashboardVars
    PROVE  \/ meta' = meta
           \/ \E s \in Sessions : Finish(s) \/ Forget(s)
           \/ \E r \in Requests, s \in Sessions : DeleteSession(r, s) \/ CreateSession(r, s)
           \/ \E c \in Chats : StartRun(c) \/ \E s \in Sessions : OpenChat(c, s)
<1>1. ASSUME NEW s \in Sessions, SessionActs(s) PROVE meta' = meta \/ Finish(s) \/ Forget(s)
  BY <1>1 DEF SessionActs, Persist
<1>2. ASSUME NEW r \in Requests, RequestActs(r)
      PROVE  meta' = meta \/ \E s \in Sessions : DeleteSession(r, s) \/ CreateSession(r, s)
  BY <1>2 DEF RequestActs, ReadRows, StoreRows, NewChat, EndDelete, EndSweep, Delete, AbortFirst, EnterDelete,
              DeleteFails
<1>3. ASSUME NEW c \in Chats, ChatActs(c)
      PROVE  meta' = meta \/ StartRun(c) \/ \E s \in Sessions : OpenChat(c, s)
  BY <1>3 DEF ChatActs, AnswerOnly, EnterRun, StartFails, SendSession, SendNode, DropRun, EndChat, Leave
<1>4. Expire \/ Crash \/ UNCHANGED dashboardVars => meta' = meta
  BY DEF Expire, Crash, dashboardVars
<1> QED BY <1>1, <1>2, <1>3, <1>4, ConsoleSteps

LEMMA EntriesChange ==
    ASSUME [DashboardNext]_dashboardVars
    PROVE  \/ entries' = entries
           \/ \E s \in Sessions : Finish(s) \/ Persist(s)
           \/ \E r \in Requests, s \in Sessions : DeleteSession(r, s)
<1>1. ASSUME NEW s \in Sessions, SessionActs(s) PROVE entries' = entries \/ Finish(s) \/ Persist(s)
  BY <1>1 DEF SessionActs, Forget
<1>2. ASSUME NEW r \in Requests, RequestActs(r)
      PROVE  entries' = entries \/ \E s \in Sessions : DeleteSession(r, s)
  BY <1>2 DEF RequestActs, ReadRows, StoreRows, NewChat, EndDelete, EndSweep, Delete, AbortFirst, EnterDelete,
              DeleteFails, CreateSession
<1>3. ASSUME NEW c \in Chats, ChatActs(c) PROVE entries' = entries
  BY <1>3 DEF ChatActs, OpenChat, AnswerOnly, EnterRun, StartFails, StartRun, SendSession, SendNode, DropRun,
              EndChat, Leave
<1>4. Expire \/ Crash \/ UNCHANGED dashboardVars => entries' = entries
  BY DEF Expire, Crash, dashboardVars
<1> QED BY <1>1, <1>2, <1>3, <1>4, ConsoleSteps

\* A run is told something, ends, is told to stop, begins or dies with the process.
Stopped(s) == run' = Aborted(run, s)
LEMMA RunsChange ==
    ASSUME [DashboardNext]_dashboardVars
    PROVE  \/ run' = run
           \/ \E s \in Sessions : Finish(s) \/ Persist(s)
           \/ \E s \in Sessions : Stopped(s)
           \/ \E c \in Chats : (SendSession(c) \/ DropRun(c) \/ EnterRun(c)) /\ Stopped(chat[c].session)
           \/ \E c \in Chats : StartRun(c)
           \/ Crash
<1>1. ASSUME NEW s \in Sessions, SessionActs(s) PROVE run' = run \/ Finish(s) \/ Persist(s)
  BY <1>1 DEF SessionActs, Forget
<1>2. ASSUME NEW r \in Requests, RequestActs(r)
      PROVE  run' = run \/ \E s \in Sessions : Stopped(s)
  BY <1>2 DEF RequestActs, ReadRows, StoreRows, NewChat, EndDelete, EndSweep, Delete, AbortFirst, EnterDelete,
              DeleteSession, DeleteFails, CreateSession, Stopped
<1>3. ASSUME NEW c \in Chats, ChatActs(c)
      PROVE  \/ run' = run
             \/ (SendSession(c) \/ DropRun(c) \/ EnterRun(c)) /\ Stopped(chat[c].session)
             \/ StartRun(c)
  <2>1. CASE EnterRun(c)
    BY <2>1 DEF EnterRun, Stopped
  <2>2. CASE SendSession(c) \/ DropRun(c)
    BY <2>2 DEF SendSession, DropRun, AbortMine, Stopped
  <2>3. CASE (\E s \in Sessions : OpenChat(c, s)) \/ AnswerOnly(c) \/ StartFails(c) \/ SendNode(c) \/ EndChat(c)
             \/ Leave(c)
    BY <2>3 DEF OpenChat, AnswerOnly, StartFails, SendNode, EndChat, Leave
  <2> QED BY <1>3, <2>1, <2>2, <2>3 DEF ChatActs
<1>4. Expire \/ UNCHANGED dashboardVars => run' = run
  BY DEF Expire, dashboardVars
<1> QED BY <1>1, <1>2, <1>3, <1>4, ConsoleSteps

\* The snapshot and the listings: a request starts to list, stores what it read,
\* invalidates, or does none of it.
LEMMA RowsChange ==
    ASSUME [DashboardNext]_dashboardVars
    PROVE  \/ rows' = rows \/ Expire \/ Crash
           \/ \E r \in Requests : \/ StoreRows(r)
                                  \/ (EndDelete(r) \/ EndSweep(r)) /\ Invalidated(r)
                                  \/ \E s \in Sessions : CreateSession(r, s)
<1>1. ASSUME NEW s \in Sessions, SessionActs(s) PROVE rows' = rows
  BY <1>1 DEF SessionActs, Forget, Persist, Finish
<1>2. ASSUME NEW r \in Requests, RequestActs(r)
      PROVE  \/ rows' = rows
             \/ StoreRows(r)
             \/ (EndDelete(r) \/ EndSweep(r)) /\ Invalidated(r)
             \/ \E s \in Sessions : CreateSession(r, s)
  <2>1. CASE EndDelete(r) \/ EndSweep(r)
    BY <2>1 DEF EndDelete, EndSweep
  <2>2. CASE ~(EndDelete(r) \/ EndSweep(r))
    BY <1>2, <2>2 DEF RequestActs, ReadRows, NewChat, Delete, AbortFirst, EnterDelete,
                      DeleteSession, DeleteFails
  <2> QED BY <2>1, <2>2
<1>3. ASSUME NEW c \in Chats, ChatActs(c) PROVE rows' = rows
  BY <1>3 DEF ChatActs, OpenChat, AnswerOnly, EnterRun, StartFails, StartRun, SendSession, SendNode, DropRun,
              EndChat, Leave
<1>4. UNCHANGED dashboardVars => rows' = rows
  BY DEF dashboardVars
<1> QED BY <1>1, <1>2, <1>3, <1>4, ConsoleSteps

LEMMA SureChanges ==
    ASSUME [DashboardNext]_dashboardVars
    PROVE  \/ sure' = sure
           \/ \E r \in Requests : \/ (EndDelete(r) \/ EndSweep(r)) /\ Invalidated(r)
                                  \/ \E s \in Sessions : CreateSession(r, s)
           \/ \E c \in Chats : StartRun(c) \/ \E s \in Sessions : OpenChat(c, s)
<1>1. ASSUME NEW s \in Sessions, SessionActs(s) PROVE sure' = sure
  BY <1>1 DEF SessionActs, Forget, Persist, Finish
<1>2. ASSUME NEW r \in Requests, RequestActs(r)
      PROVE  \/ sure' = sure
             \/ (EndDelete(r) \/ EndSweep(r)) /\ Invalidated(r)
             \/ \E s \in Sessions : CreateSession(r, s)
  <2>1. CASE EndDelete(r) \/ EndSweep(r)
    BY <2>1 DEF EndDelete, EndSweep
  <2>2. CASE ~(EndDelete(r) \/ EndSweep(r))
    BY <1>2, <2>2 DEF RequestActs, ReadRows, StoreRows, NewChat, Delete, AbortFirst, EnterDelete,
                      DeleteSession, DeleteFails
  <2> QED BY <2>1, <2>2
<1>3. ASSUME NEW c \in Chats, ChatActs(c)
      PROVE  sure' = sure \/ StartRun(c) \/ \E s \in Sessions : OpenChat(c, s)
  BY <1>3 DEF ChatActs, AnswerOnly, EnterRun, StartFails, SendSession, SendNode, DropRun, EndChat, Leave
<1>4. Expire \/ Crash \/ UNCHANGED dashboardVars => sure' = sure
  BY DEF Expire, Crash, dashboardVars
<1> QED BY <1>1, <1>2, <1>3, <1>4, ConsoleSteps

\* A listing goes on with what it has read, or has read the directory just now.
Lists(r) == request'[r].stage = "listing" =>
                \/ request[r].stage = "listing" /\ request'[r].shown = request[r].shown
                \/ ReadRows(r) /\ request'[r].shown = Visible

LEMMA RequestSteps ==
    ASSUME ConsoleTypes, NEW r \in Requests, RequestActs(r)
    PROVE  /\ request' = [request EXCEPT ![r] = request'[r]]
           /\ request'[r] \in RequestType
           /\ Lists(r)
<1>1. request \in [Requests -> RequestType] /\ request[r] \in RequestType
  BY DEF ConsoleTypes
<1>2. IdleRequest \in RequestType /\ IdleRequest.stage = "idle"
  BY DEF IdleRequest, RequestType
<1>3. rows.of \in SUBSET Sessions /\ Visible \in SUBSET Sessions /\ Stale \in SUBSET Sessions
  BY DEF ConsoleTypes, DashboardTypeOK, Visible, Stale
<1> DEFINE q == request[r]
<1> DEFINE Goes(new) == request' = [request EXCEPT ![r] = new] /\ new \in RequestType
<1>4. ASSUME NEW new, Goes(new), new.stage # "listing"
      PROVE  request' = [request EXCEPT ![r] = request'[r]] /\ request'[r] \in RequestType /\ Lists(r)
  BY <1>1, <1>4 DEF Lists
<1>5. CASE ReadRows(r)
  <2>1. CASE rows.fresh
    <3> DEFINE new == [IdleRequest EXCEPT !.shown = rows.of]
    <3>1. new \in RequestType /\ new.stage # "listing"
      BY <1>2, <1>3 DEF RequestType
    <3>2. request' = [request EXCEPT ![r] = new]
      BY <1>5, <2>1 DEF ReadRows
    <3> HIDE DEF new
    <3> QED BY <1>4, <3>1, <3>2
  <2>2. CASE ~rows.fresh
    <3> DEFINE new == [IdleRequest EXCEPT !.stage = "listing", !.shown = Visible]
    <3>1. new \in RequestType /\ new.shown = Visible
      BY <1>2, <1>3 DEF RequestType
    <3>2. request' = [request EXCEPT ![r] = new]
      BY <1>5, <2>2 DEF ReadRows
    <3> HIDE DEF new
    <3>3. request'[r] = new
      BY <1>1, <3>2
    <3> QED BY <1>1, <1>5, <3>1, <3>2, <3>3 DEF Lists
  <2> QED BY <2>1, <2>2
<1>6. CASE StoreRows(r)
  <2> DEFINE new == [q EXCEPT !.stage = "idle"]
  <2>1. new \in RequestType /\ new.stage # "listing"
    BY <1>1 DEF RequestType
  <2>2. request' = [request EXCEPT ![r] = new]
    BY <1>6 DEF StoreRows
  <2> HIDE DEF new
  <2> QED BY <1>4, <2>1, <2>2
<1>7. CASE NewChat(r)
  <2> DEFINE new == [IdleRequest EXCEPT !.stage = "sweeping", !.left = Stale, !.hit = Stale # {}]
  <2>1. new \in RequestType /\ new.stage # "listing"
    BY <1>2, <1>3 DEF RequestType
  <2>2. request' = [request EXCEPT ![r] = new]
    BY <1>7 DEF NewChat
  <2> HIDE DEF new
  <2> QED BY <1>4, <2>1, <2>2
<1>8. CASE EndDelete(r) \/ \E s \in Sessions : CreateSession(r, s)
  <2>1. request' = [request EXCEPT ![r] = IdleRequest]
    BY <1>8 DEF EndDelete, CreateSession
  <2> QED BY <1>2, <1>4, <2>1
<1>9. CASE EndSweep(r)
  <2> DEFINE new == [q EXCEPT !.stage = "creating"]
  <2>1. new \in RequestType /\ new.stage # "listing"
    BY <1>1 DEF RequestType
  <2>2. request' = [request EXCEPT ![r] = new]
    BY <1>9 DEF EndSweep
  <2> HIDE DEF new
  <2> QED BY <1>4, <2>1, <2>2
<1>10. ASSUME NEW ids \in SUBSET Sessions, Delete(r, ids)
       PROVE  request' = [request EXCEPT ![r] = request'[r]] /\ request'[r] \in RequestType /\ Lists(r)
  <2> DEFINE new == [IdleRequest EXCEPT !.stage = "deleting", !.left = ids]
  <2>1. new \in RequestType /\ new.stage # "listing"
    BY <1>2 DEF RequestType
  <2>2. request' = [request EXCEPT ![r] = new]
    BY <1>10 DEF Delete
  <2> HIDE DEF new
  <2> QED BY <1>4, <2>1, <2>2
<1>11. CASE \E s \in Sessions : AbortFirst(r, s) \/ EnterDelete(r, s)
  <2>1. request' = request
    BY <1>11 DEF AbortFirst, EnterDelete
  <2> QED BY <1>1, <2>1 DEF Lists
<1>12. ASSUME NEW s \in Sessions, DeleteSession(r, s)
       PROVE  request' = [request EXCEPT ![r] = request'[r]] /\ request'[r] \in RequestType /\ Lists(r)
  <2> DEFINE seen == q.hit \/ meta[s] # "none"
  <2> DEFINE new == [q EXCEPT !.left = q.left \ {s}, !.removed = q.removed \cup {s}, !.hit = seen]
  <2>1. q.left \ {s} \in SUBSET Sessions /\ q.removed \cup {s} \in SUBSET Sessions /\ seen \in BOOLEAN
    BY <1>1 DEF RequestType
  <2>2. q.stage # "listing"
    BY <1>12 DEF DeleteSession, Removing
  <2>3. request' = [request EXCEPT ![r] = new]
    BY <1>1, <1>12 DEF DeleteSession, Removed
  <2> HIDE DEF seen
  <2>4. new \in RequestType /\ new.stage # "listing"
    BY <1>1, <2>1, <2>2 DEF RequestType
  <2> HIDE DEF new
  <2> QED BY <1>4, <2>3, <2>4
<1>13. ASSUME NEW s \in Sessions, DeleteFails(r, s)
       PROVE  request' = [request EXCEPT ![r] = request'[r]] /\ request'[r] \in RequestType /\ Lists(r)
  <2> DEFINE new == [q EXCEPT !.left = q.left \ {s}]
  <2>1. q.stage # "listing"
    BY <1>13 DEF DeleteFails, Removing
  <2>2. request' = [request EXCEPT ![r] = new]
    BY <1>1, <1>13 DEF DeleteFails
  <2>3. q.left \ {s} \in SUBSET Sessions
    BY <1>1 DEF RequestType
  <2>4. new \in RequestType /\ new.stage # "listing"
    BY <1>1, <2>1, <2>3 DEF RequestType
  <2> HIDE DEF new
  <2> QED BY <1>4, <2>2, <2>4
<1> QED BY <1>5, <1>6, <1>7, <1>8, <1>9, <1>10, <1>11, <1>12, <1>13 DEF RequestActs

LEMMA RequestsFollow ==
    ASSUME ConsoleTypes, [DashboardNext]_dashboardVars
    PROVE  /\ request' \in [Requests -> RequestType]
           /\ \A r \in Requests : Lists(r)
<1>1. request \in [Requests -> RequestType]
  BY DEF ConsoleTypes
<1>2. ASSUME NEW q \in Requests, RequestActs(q)
      PROVE  request' \in [Requests -> RequestType] /\ \A r \in Requests : Lists(r)
  <2> DEFINE new == request'[q]
  <2>1. request' = [request EXCEPT ![q] = new] /\ new \in RequestType /\ Lists(q)
    BY <1>2, RequestSteps
  <2> HIDE DEF new
  <2>2. \A r \in Requests : r # q => Lists(r)
    BY <1>1, <2>1 DEF Lists
  <2> QED BY <1>1, <2>1, <2>2
<1>3. CASE Crash
  <2>1. request' = [r \in Requests |-> IdleRequest]
    BY <1>3 DEF Crash
  <2>2. IdleRequest \in RequestType /\ IdleRequest.stage = "idle"
    BY DEF IdleRequest, RequestType
  <2> QED BY <2>1, <2>2 DEF Lists
<1>4. CASE request' = request
  BY <1>1, <1>4 DEF Lists
<1>5. ASSUME \/ \E s \in Sessions : SessionActs(s)
             \/ Expire
             \/ UNCHANGED dashboardVars
      PROVE  request' = request
  BY <1>5 DEF SessionActs, Persist, Finish, Forget, Expire, dashboardVars
<1>6. ASSUME NEW c \in Chats, ChatActs(c) PROVE request' = request
  BY <1>6 DEF ChatActs, OpenChat, AnswerOnly, EnterRun, StartFails, StartRun, SendSession, SendNode, DropRun,
              EndChat, Leave
<1> QED BY <1>2, <1>3, <1>4, <1>5, <1>6, ConsoleSteps

-----------------------------------------------------------------------------
(* The invariant.                                                           *)

LEMMA InitIInv == DashboardInit => IInv
<1> SUFFICES ASSUME DashboardInit PROVE IInv
  OBVIOUS
<1>1. IdleRequest \in RequestType /\ IdleRequest.stage = "idle"
  BY DEF IdleRequest, RequestType
<1>2. IdleChat \in ChatType /\ Streams(IdleChat)
  BY DEF IdleChat, ChatType, Frames, Streams
<1>3. DashboardTypeOK
  <2>1. meta \in [Sessions -> {"none", "draft", "forgotten", "kept"}]
        /\ entries \in [Sessions -> {"none", "stats", "words"}]
    BY DEF DashboardInit
  <2>2. run \in [Sessions -> [at : {"none", "live", "stopping"}, by : Chats \cup {Free}, told : BOOLEAN]]
        /\ gate \in [Sessions -> Chats \cup Requests \cup {Free}]
    BY DEF DashboardInit, NoRun
  <2>3. rows \in [fresh : BOOLEAN, of : SUBSET Sessions] /\ sure \subseteq Sessions /\ crashes \in 0 .. MaxCrashes
    BY DashboardAssumption DEF DashboardInit, NoRows
  <2> QED BY <2>1, <2>2, <2>3 DEF DashboardTypeOK
<1>4. ConsoleTypes /\ \A c \in Chats : Streams(chat[c])
  BY <1>1, <1>2, <1>3 DEF DashboardInit, ConsoleTypes
<1>5. (\A s \in Sessions : HasClient(s)) /\ DeletesLeaveNothing
  BY DEF DashboardInit, NoRun, HasClient, DeletesLeaveNothing
<1>6. StayRemoved /\ DeletedRowsDisappear
  BY <1>1 DEF DashboardInit, NoRows, StayRemoved, DeletedRowsDisappear
<1> QED BY <1>4, <1>5, <1>6 DEF IInv

LEMMA StoppedRun ==
    ASSUME run \in [Sessions -> RunType], NEW t \in Sessions, Stopped(t)
    PROVE  /\ run' \in [Sessions -> RunType]
           /\ \A s \in Sessions : /\ run'[s].by = run[s].by
                                  /\ run'[s].at = "live" => run[s].at = "live" /\ s # t
                                  /\ run'[s].at = "none" <=> run[s].at = "none"
<1>1. CASE run[t].at = "live"
  <2> DEFINE new == [run[t] EXCEPT !.at = "stopping"]
  <2>1. new \in RunType /\ new.at = "stopping" /\ new.by = run[t].by
    BY DEF RunType
  <2>2. run' = [run EXCEPT ![t] = new]
    BY <1>1 DEF Stopped, Aborted
  <2> HIDE DEF new
  <2> QED BY <1>1, <2>1, <2>2
<1>2. CASE run[t].at # "live"
  BY <1>2 DEF Stopped, Aborted
<1> QED BY <1>1, <1>2

LEMMA ConsoleTypeStep ==
    ASSUME IInv, [DashboardNext]_dashboardVars
    PROVE  ConsoleTypes'
<1>1. ConsoleTypes /\ \A c \in Chats : Streams(chat[c])
  BY DEF IInv
<1>2. meta' \in [Sessions -> {"none", "draft", "forgotten", "kept"}]
  <2>1. meta \in [Sessions -> {"none", "draft", "forgotten", "kept"}]
    BY <1>1 DEF ConsoleTypes, DashboardTypeOK
  <2>2. ASSUME NEW s \in Sessions, Finish(s) \/ Forget(s)
        PROVE  meta' \in [Sessions -> {"none", "draft", "forgotten", "kept"}]
    BY <2>1, <2>2 DEF Finish, Forget
  <2>3. ASSUME NEW r \in Requests, NEW s \in Sessions, DeleteSession(r, s) \/ CreateSession(r, s)
        PROVE  meta' \in [Sessions -> {"none", "draft", "forgotten", "kept"}]
    BY <2>1, <2>3 DEF DeleteSession, Removed, CreateSession
  <2>4. ASSUME NEW c \in Chats, StartRun(c)
        PROVE  meta' \in [Sessions -> {"none", "draft", "forgotten", "kept"}]
    <3>1. chat[c].known \in {"none", "draft", "kept"}
      BY <1>1 DEF ConsoleTypes, ChatType
    <3> QED BY <2>1, <2>4, <3>1 DEF StartRun
  <2>5. ASSUME NEW c \in Chats, NEW s \in Sessions, OpenChat(c, s)
        PROVE  meta' \in [Sessions -> {"none", "draft", "forgotten", "kept"}]
    BY <2>1, <2>5 DEF OpenChat
  <2> QED BY <2>1, <2>2, <2>3, <2>4, <2>5, MetaChanges
<1>3. entries' \in [Sessions -> {"none", "stats", "words"}]
  <2>1. entries \in [Sessions -> {"none", "stats", "words"}]
    BY <1>1 DEF ConsoleTypes, DashboardTypeOK
  <2>2. ASSUME NEW s \in Sessions, Finish(s) \/ Persist(s)
        PROVE  entries' \in [Sessions -> {"none", "stats", "words"}]
    BY <2>1, <2>2 DEF Finish, Persist
  <2>3. ASSUME NEW r \in Requests, NEW s \in Sessions, DeleteSession(r, s)
        PROVE  entries' \in [Sessions -> {"none", "stats", "words"}]
    BY <2>1, <2>3 DEF DeleteSession, Removed
  <2> QED BY <2>1, <2>2, <2>3, EntriesChange
<1>4. run' \in [Sessions -> RunType]
  <2>1. run \in [Sessions -> RunType] /\ NoRun \in RunType
    BY <1>1 DEF ConsoleTypes, DashboardTypeOK, RunType, NoRun
  <2>2. ASSUME NEW s \in Sessions, Finish(s) PROVE run' \in [Sessions -> RunType]
    BY <2>1, <2>2 DEF Finish
  <2>3. ASSUME NEW s \in Sessions, Persist(s) PROVE run' \in [Sessions -> RunType]
    <3>1. run' = [run EXCEPT ![s] = [run[s] EXCEPT !.told = TRUE]]
      BY <2>3 DEF Persist
    <3>2. [run[s] EXCEPT !.told = TRUE] \in RunType
      BY <2>1 DEF RunType
    <3> QED BY <2>1, <3>1, <3>2
  <2>4. ASSUME NEW s \in Sessions, Stopped(s) PROVE run' \in [Sessions -> RunType]
    BY <2>1, <2>4, StoppedRun
  <2>5. ASSUME NEW c \in Chats, StartRun(c) PROVE run' \in [Sessions -> RunType]
    <3>1. [at |-> "live", by |-> c, told |-> FALSE] \in RunType
      BY DEF RunType
    <3>2. run' = [run EXCEPT ![chat[c].session] = [at |-> "live", by |-> c, told |-> FALSE]]
      BY <2>5 DEF StartRun
    <3> QED BY <2>1, <3>1, <3>2
  <2>6. CASE Crash
    BY <2>1, <2>6 DEF Crash
  <2>7. ASSUME NEW c \in Chats, SendSession(c) \/ DropRun(c) \/ EnterRun(c) PROVE chat[c].session \in Sessions
    BY <1>1, <2>7 DEF Streams, SendSession, DropRun, EnterRun
  <2> QED BY <2>1, <2>2, <2>3, <2>4, <2>5, <2>6, <2>7, RunsChange
<1>5. gate' \in [Sessions -> Chats \cup Requests \cup {Free}]
  <2>1. gate \in [Sessions -> Chats \cup Requests \cup {Free}]
    BY <1>1 DEF ConsoleTypes, DashboardTypeOK
  <2>2. ASSUME NEW s \in Sessions, SessionActs(s) PROVE gate' = gate
    BY <2>2 DEF SessionActs, Persist, Finish, Forget
  <2>3. ASSUME NEW r \in Requests, RequestActs(r)
        PROVE  gate' = gate \/ \E s \in Sessions : gate' = [gate EXCEPT ![s] = r] \/ gate' = [gate EXCEPT ![s] = Free]
    BY <2>3 DEF RequestActs, ReadRows, StoreRows, NewChat, EndDelete, EndSweep, Delete, AbortFirst, EnterDelete,
                DeleteSession, Removed, DeleteFails, CreateSession
  <2>4. ASSUME NEW c \in Chats, ChatActs(c)
        PROVE  \/ gate' = gate
               \/ gate' = [gate EXCEPT ![chat[c].session] = c]
               \/ gate' = [gate EXCEPT ![chat[c].session] = Free]
    BY <2>4 DEF ChatActs, OpenChat, AnswerOnly, EnterRun, StartFails, StartRun, SendSession, SendNode, DropRun,
                EndChat, Leave
  <2>5. CASE Crash
    BY <2>5 DEF Crash
  <2>6. Expire \/ UNCHANGED dashboardVars => gate' = gate
    BY DEF Expire, dashboardVars
  <2> QED BY <2>1, <2>2, <2>3, <2>4, <2>5, <2>6, ConsoleSteps
<1>6. rows' \in [fresh : BOOLEAN, of : SUBSET Sessions]
  <2>1. rows \in [fresh : BOOLEAN, of : SUBSET Sessions] /\ NoRows \in [fresh : BOOLEAN, of : SUBSET Sessions]
    BY <1>1 DEF ConsoleTypes, DashboardTypeOK, NoRows
  <2>2. ASSUME NEW r \in Requests, StoreRows(r) PROVE rows' \in [fresh : BOOLEAN, of : SUBSET Sessions]
    <3>1. request[r].shown \in SUBSET Sessions
      BY <1>1 DEF ConsoleTypes, RequestType
    <3> QED BY <2>2, <3>1 DEF StoreRows
  <2>3. ASSUME NEW r \in Requests, Invalidated(r) \/ \E s \in Sessions : CreateSession(r, s)
        PROVE  rows' = NoRows
    BY <2>3 DEF Invalidated, CreateSession
  <2>4. Expire \/ Crash => rows' \in [fresh : BOOLEAN, of : SUBSET Sessions]
    BY <2>1 DEF Expire, Crash
  <2> QED BY <2>1, <2>2, <2>3, <2>4, RowsChange
<1>7. sure' \subseteq Sessions
  <2>1. sure \subseteq Sessions
    BY <1>1 DEF ConsoleTypes, DashboardTypeOK
  <2>2. ASSUME NEW r \in Requests, Invalidated(r) PROVE sure' \subseteq Sessions
    <3>1. request[r].removed \subseteq Sessions
      BY <1>1 DEF ConsoleTypes, RequestType
    <3> QED BY <2>1, <2>2, <3>1 DEF Invalidated
  <2>3. ASSUME NEW r \in Requests, NEW s \in Sessions, CreateSession(r, s) PROVE sure' \subseteq sure
    BY <2>3 DEF CreateSession
  <2>4. ASSUME NEW c \in Chats, StartRun(c) \/ \E s \in Sessions : OpenChat(c, s) PROVE sure' \subseteq sure
    BY <2>4 DEF StartRun, OpenChat
  <2> QED BY <2>1, <2>2, <2>3, <2>4, SureChanges
<1>8. crashes' \in 0 .. MaxCrashes
  <2>1. crashes \in 0 .. MaxCrashes
    BY <1>1 DEF ConsoleTypes, DashboardTypeOK
  <2>2. CASE Crash
    BY <2>1, <2>2, DashboardAssumption DEF Crash
  <2>3. ASSUME NEW s \in Sessions, SessionActs(s) PROVE crashes' = crashes
    BY <2>3 DEF SessionActs, Persist, Finish, Forget
  <2>4. ASSUME NEW r \in Requests, RequestActs(r) PROVE crashes' = crashes
    BY <2>4 DEF RequestActs, ReadRows, StoreRows, NewChat, EndDelete, EndSweep, Delete, AbortFirst, EnterDelete,
                DeleteSession, DeleteFails, CreateSession
  <2>5. ASSUME NEW c \in Chats, ChatActs(c) PROVE crashes' = crashes
    BY <2>5 DEF ChatActs, OpenChat, AnswerOnly, EnterRun, StartFails, StartRun, SendSession, SendNode, DropRun,
                EndChat, Leave
  <2>6. Expire \/ UNCHANGED dashboardVars => crashes' = crashes
    BY DEF Expire, dashboardVars
  <2> QED BY <2>1, <2>2, <2>3, <2>4, <2>5, <2>6, ConsoleSteps
<1>9. DashboardTypeOK'
  BY <1>2, <1>3, <1>4, <1>5, <1>6, <1>7, <1>8 DEF DashboardTypeOK, RunType
<1> QED BY <1>1, <1>9, ChatsFollow, RequestsFollow DEF ConsoleTypes

\* Its own stream stays at work with a run, or tells it to stop.
LEMMA ClientsStep ==
    ASSUME IInv, [DashboardNext]_dashboardVars
    PROVE  \A s \in Sessions : HasClient(s)'
<1>1. /\ run \in [Sessions -> RunType]
      /\ chat \in [Chats -> ChatType]
      /\ \A c \in Chats : Streams(chat[c])
      /\ \A s \in Sessions : HasClient(s)
  BY DEF IInv, ConsoleTypes, DashboardTypeOK, RunType
<1>2. ASSUME NEW t \in Sessions, SessionActs(t) PROVE \A s \in Sessions : HasClient(s)'
  <2>1. chat' = chat
    BY <1>2 DEF SessionActs, Persist, Finish, Forget
  <2>2. \A s \in Sessions : run'[s].at = "live" => run[s].at = "live" /\ run'[s].by = run[s].by
    <3>1. CASE Persist(t)
      <4>1. run' = [run EXCEPT ![t] = [run[t] EXCEPT !.told = TRUE]]
        BY <3>1 DEF Persist
      <4>2. [run[t] EXCEPT !.told = TRUE].at = run[t].at /\ [run[t] EXCEPT !.told = TRUE].by = run[t].by
        BY <1>1 DEF RunType
      <4> QED BY <1>1, <4>1, <4>2
    <3>2. CASE Finish(t)
      BY <1>1, <3>2 DEF Finish, NoRun
    <3>3. CASE Forget(t)
      BY <3>3 DEF Forget
    <3> QED BY <1>2, <3>1, <3>2, <3>3 DEF SessionActs
  <2> QED BY <1>1, <2>1, <2>2 DEF HasClient
<1>3. ASSUME NEW r \in Requests, RequestActs(r) PROVE \A s \in Sessions : HasClient(s)'
  <2>1. chat' = chat
    BY <1>3 DEF RequestActs, ReadRows, StoreRows, NewChat, EndDelete, EndSweep, Delete, AbortFirst, EnterDelete,
                DeleteSession, DeleteFails, CreateSession
  <2>2. run' = run \/ \E t \in Sessions : Stopped(t)
    BY <1>3 DEF RequestActs, ReadRows, StoreRows, NewChat, EndDelete, EndSweep, Delete, AbortFirst, EnterDelete,
                DeleteSession, DeleteFails, CreateSession, Stopped
  <2>3. \A s \in Sessions : run'[s].at = "live" => run[s].at = "live" /\ run'[s].by = run[s].by
    BY <1>1, <2>2, StoppedRun
  <2> QED BY <1>1, <2>1, <2>3 DEF HasClient
<1>4. ASSUME NEW c \in Chats, ChatActs(c) PROVE \A s \in Sessions : HasClient(s)'
  <2>1. \A d \in Chats : d # c => chat'[d] = chat[d]
    <3>1. Succeeds(c)
      BY <1>1, <1>4, ChatSteps DEF IInv
    <3> DEFINE new == chat'[c]
    <3>2. chat' = [chat EXCEPT ![c] = new]
      BY <3>1 DEF Succeeds
    <3> HIDE DEF new
    <3> QED BY <1>1, <3>2
  <2>2. ASSUME NEW s \in Sessions, run'[s].at = "live", run[s].at = "live", run'[s].by = run[s].by, run[s].by # c
        PROVE  HasClient(s)'
    BY <1>1, <2>1, <2>2 DEF HasClient
  <2>3. \A s \in Sessions : run[s].at = "live" /\ run[s].by = c
          => chat[c].session = s /\ chat[c].stage \in {"opening", "draining"}
    BY <1>1 DEF HasClient
  <2>4. CASE (\E s \in Sessions : OpenChat(c, s)) \/ AnswerOnly(c) \/ StartFails(c)
    <3>1. run' = run /\ chat[c].stage \notin {"opening", "draining"}
      BY <2>4 DEF OpenChat, AnswerOnly, StartFails
    <3> QED BY <2>2, <2>3, <3>1 DEF HasClient
  <2>5. CASE EnterRun(c)
    <3>1. Stopped(chat[c].session) /\ chat[c].stage = "resolved" /\ chat[c].session \in Sessions
      BY <1>1, <2>5 DEF EnterRun, Stopped, Streams
    <3>2. \A s \in Sessions : run'[s].at = "live" => run[s].at = "live" /\ run'[s].by = run[s].by
      BY <1>1, <3>1, StoppedRun
    <3> QED BY <2>2, <2>3, <3>1, <3>2 DEF HasClient
  <2>6. CASE StartRun(c)
    <3> DEFINE t == chat[c].session
    <3>1. /\ chat[c].stage = "starting" /\ t \in Sessions
          /\ run' = [run EXCEPT ![t] = [at |-> "live", by |-> c, told |-> FALSE]]
          /\ chat' = [chat EXCEPT ![c].stage = "opening"]
      BY <1>1, <2>6 DEF StartRun, Streams
    <3>2. chat'[c].session = t /\ chat'[c].stage = "opening"
      BY <1>1, <3>1 DEF ChatType
    <3>3. HasClient(t)'
      BY <1>1, <3>1, <3>2 DEF HasClient
    <3>4. \A s \in Sessions : s # t => run'[s] = run[s]
      BY <1>1, <3>1
    <3> QED BY <2>2, <2>3, <3>1, <3>3, <3>4 DEF HasClient
  <2>7. CASE (SendSession(c) /\ chat[c].gone) \/ DropRun(c)
    <3>1. run' = AbortMine(c)
      BY <2>7 DEF SendSession, DropRun
    <3>2. CASE Mine(c)
      <4>1. Stopped(chat[c].session) /\ chat[c].session \in Sessions
        BY <1>1, <2>7, <3>1, <3>2 DEF AbortMine, Stopped, Streams, SendSession, DropRun
      <4>2. \A s \in Sessions : run'[s].at = "live" =>
                run[s].at = "live" /\ s # chat[c].session /\ run'[s].by = run[s].by
        BY <1>1, <4>1, StoppedRun
      <4> QED BY <2>2, <2>3, <4>2 DEF HasClient
    <3>3. CASE ~Mine(c)
      <4>1. run' = run
        BY <3>1, <3>3 DEF AbortMine
      <4>2. \A s \in Sessions : run[s].at = "live" => run[s].by # c
        BY <2>3, <3>3 DEF Mine
      <4> QED BY <2>2, <4>1, <4>2 DEF HasClient
    <3> QED BY <3>2, <3>3
  <2>8. CASE EndChat(c)
    <3>1. run' = run /\ ~Mine(c)
      BY <2>8 DEF EndChat
    <3>2. \A s \in Sessions : run[s].at = "live" => run[s].by # c
      BY <2>3, <3>1 DEF Mine
    <3> QED BY <2>2, <3>1, <3>2 DEF HasClient
  <2>9. CASE (SendSession(c) /\ ~chat[c].gone) \/ SendNode(c) \/ Leave(c)
    <3>1. run' = run
      BY <2>9 DEF SendSession, SendNode, Leave
    <3>2. chat[c].stage \in {"opening", "draining"} =>
              chat'[c].stage \in {"opening", "draining"} /\ chat'[c].session = chat[c].session
      BY <1>1, <2>9 DEF SendSession, SendNode, Leave, ChatType
    <3>3. ASSUME NEW s \in Sessions, run[s].at = "live", run[s].by = c PROVE HasClient(s)'
      BY <2>3, <3>1, <3>2, <3>3 DEF HasClient
    <3> QED BY <2>2, <3>1, <3>3 DEF HasClient
  <2> QED BY <1>4, <2>4, <2>5, <2>6, <2>7, <2>8, <2>9 DEF ChatActs
<1>5. CASE Crash
  BY <1>5 DEF Crash, NoRun, HasClient
<1>6. CASE Expire \/ UNCHANGED dashboardVars
  <2>1. run' = run /\ chat' = chat
    BY <1>6 DEF Expire, dashboardVars
  <2> QED BY <1>1, <2>1 DEF HasClient
<1> QED BY <1>2, <1>3, <1>4, <1>5, <1>6, ConsoleSteps

\* Whoever makes metadata, a run or an entry finds or makes the others.
LEMMA NothingIsLeft ==
    ASSUME IInv, [DashboardNext]_dashboardVars
    PROVE  DeletesLeaveNothing'
<1>1. /\ meta \in [Sessions -> {"none", "draft", "forgotten", "kept"}]
      /\ entries \in [Sessions -> {"none", "stats", "words"}]
      /\ run \in [Sessions -> RunType]
      /\ chat \in [Chats -> ChatType]
      /\ \A c \in Chats : Streams(chat[c])
  BY DEF IInv, ConsoleTypes, DashboardTypeOK, RunType
<1>2. \A s \in Sessions : meta[s] = "none" => entries[s] = "none" /\ run[s].at = "none"
  BY DEF IInv, DeletesLeaveNothing
<1> SUFFICES ASSUME NEW s \in Sessions, meta'[s] = "none" PROVE entries'[s] = "none" /\ run'[s].at = "none"
  BY DEF DeletesLeaveNothing
<1>3. \/ meta[s] = "none"
      \/ \E r \in Requests : DeleteSession(r, s)
  <2>1. ASSUME NEW t \in Sessions, Finish(t) \/ Forget(t) PROVE meta[s] = "none"
    BY <1>1, <2>1 DEF Finish, Forget
  <2>2. ASSUME NEW r \in Requests, NEW t \in Sessions, DeleteSession(r, t) \/ CreateSession(r, t), meta[s] # "none"
        PROVE  DeleteSession(r, s)
    BY <1>1, <2>2 DEF DeleteSession, Removed, CreateSession
  <2>3. ASSUME NEW c \in Chats, StartRun(c) \/ \E t \in Sessions : OpenChat(c, t) PROVE meta[s] = "none"
    <3>1. CASE StartRun(c)
      <4>1. chat[c].known # "none"
        BY <1>1, <3>1 DEF StartRun, Streams
      <4> QED BY <1>1, <3>1, <4>1 DEF StartRun
    <3>2. ASSUME NEW t \in Sessions, OpenChat(c, t) PROVE meta[s] = "none"
      BY <1>1, <3>2 DEF OpenChat
    <3> QED BY <2>3, <3>1, <3>2
  <2> QED BY <2>1, <2>2, <2>3, MetaChanges
<1>4. ASSUME NEW r \in Requests, DeleteSession(r, s) PROVE entries'[s] = "none" /\ run'[s].at = "none"
  BY <1>1, <1>4 DEF DeleteSession, Removed, Active
<1>5. CASE meta[s] = "none"
  <2>1. entries[s] = "none" /\ run[s].at = "none"
    BY <1>2, <1>5
  <2>2. ASSUME NEW t \in Sessions, Finish(t) \/ Persist(t)
        PROVE  t # s
    BY <2>1, <2>2 DEF Finish, Persist, Active
  <2>3. entries'[s] = "none"
    <3>1. ASSUME NEW t \in Sessions, Finish(t) \/ Persist(t) PROVE entries'[s] = "none"
      BY <1>1, <2>1, <2>2, <3>1 DEF Finish, Persist
    <3>2. ASSUME NEW r \in Requests, NEW t \in Sessions, DeleteSession(r, t) PROVE entries'[s] = "none"
      BY <1>1, <2>1, <3>2 DEF DeleteSession, Removed
    <3> QED BY <2>1, <3>1, <3>2, EntriesChange
  <2>4. run'[s].at = "none"
    <3>1. ASSUME NEW t \in Sessions, Finish(t) \/ Persist(t) PROVE run'[s].at = "none"
      BY <1>1, <2>1, <2>2, <3>1 DEF Finish, Persist
    <3>2. ASSUME NEW t \in Sessions, Stopped(t) PROVE run'[s].at = "none"
      BY <1>1, <2>1, <3>2, StoppedRun
    <3>3. ASSUME NEW c \in Chats, SendSession(c) \/ DropRun(c) \/ EnterRun(c) PROVE chat[c].session \in Sessions
      BY <1>1, <3>3 DEF Streams, SendSession, DropRun, EnterRun
    <3>4. ASSUME NEW c \in Chats, StartRun(c) PROVE run'[s].at = "none"
      <4>1. chat[c].known # "none" /\ chat[c].session \in Sessions
        BY <1>1, <3>4 DEF StartRun, Streams
      <4>2. meta'[chat[c].session] # "none"
        BY <1>1, <3>4, <4>1 DEF StartRun
      <4>3. chat[c].session # s
        BY <4>2
      <4> QED BY <1>1, <2>1, <3>4, <4>1, <4>3 DEF StartRun
    <3>5. CASE Crash
      BY <3>5 DEF Crash, NoRun
    <3> QED BY <2>1, <3>1, <3>2, <3>3, <3>4, <3>5, RunsChange
  <2> QED BY <2>3, <2>4
<1> QED BY <1>3, <1>4, <1>5

LEMMA RemovedStep ==
    ASSUME IInv, [DashboardNext]_dashboardVars
    PROVE  StayRemoved'
<1>1. /\ meta \in [Sessions -> {"none", "draft", "forgotten", "kept"}]
      /\ sure \subseteq Sessions
      /\ chat \in [Chats -> ChatType]
      /\ \A c \in Chats : Streams(chat[c])
      /\ \A s \in sure : meta[s] = "none"
  BY DEF IInv, ConsoleTypes, DashboardTypeOK, StayRemoved
<1>2. ASSUME NEW t \in Sessions, SessionActs(t) PROVE StayRemoved'
  <2>1. sure' = sure
    BY <1>2 DEF SessionActs, Persist, Finish, Forget
  <2>2. CASE Persist(t)
    BY <1>1, <2>1, <2>2 DEF Persist, StayRemoved
  <2>3. CASE Finish(t) \/ Forget(t)
    <3>1. meta[t] # "none"
      BY <2>3 DEF Finish, Forget, Active, IInv, DeletesLeaveNothing
    <3>2. \A s \in Sessions : s # t => meta'[s] = meta[s]
      BY <1>1, <2>3 DEF Finish, Forget
    <3> QED BY <1>1, <2>1, <3>1, <3>2 DEF StayRemoved
  <2> QED BY <1>2, <2>2, <2>3 DEF SessionActs
<1>3. ASSUME NEW r \in Requests, RequestActs(r) PROVE StayRemoved'
  <2>1. ASSUME NEW t \in Sessions, CreateSession(r, t) PROVE StayRemoved'
    BY <1>1, <2>1 DEF CreateSession, StayRemoved
  <2>2. ASSUME NEW t \in Sessions, DeleteSession(r, t) PROVE StayRemoved'
    BY <1>1, <2>2 DEF DeleteSession, Removed, StayRemoved
  <2>3. CASE EndDelete(r) \/ EndSweep(r)
    <3>1. meta' = meta
      BY <2>3 DEF EndDelete, EndSweep
    <3>2. sure' = sure \/ sure' = sure \cup {s \in request[r].removed : meta[s] = "none"}
      BY <2>3 DEF EndDelete, EndSweep, Invalidated
    <3> QED BY <1>1, <3>1, <3>2 DEF StayRemoved
  <2>4. CASE \/ ReadRows(r) \/ StoreRows(r) \/ NewChat(r)
             \/ \E ids \in SUBSET Sessions \ {{}} : Delete(r, ids)
             \/ \E s \in Sessions : AbortFirst(r, s) \/ EnterDelete(r, s) \/ DeleteFails(r, s)
    <3>1. meta' = meta /\ sure' = sure
      BY <2>4 DEF ReadRows, StoreRows, NewChat, Delete, AbortFirst, EnterDelete, DeleteFails
    <3> QED BY <1>1, <3>1 DEF StayRemoved
  <2> QED BY <1>3, <2>1, <2>2, <2>3, <2>4 DEF RequestActs
<1>4. ASSUME NEW c \in Chats, ChatActs(c) PROVE StayRemoved'
  <2>1. CASE StartRun(c)
    BY <1>1, <2>1 DEF StartRun, StayRemoved
  <2>2. ASSUME NEW t \in Sessions, OpenChat(c, t) PROVE StayRemoved'
    BY <1>1, <2>2 DEF OpenChat, StayRemoved
  <2>3. CASE \/ AnswerOnly(c) \/ EnterRun(c) \/ StartFails(c) \/ SendSession(c) \/ SendNode(c) \/ DropRun(c)
             \/ EndChat(c) \/ Leave(c)
    <3>1. meta' = meta /\ sure' = sure
      BY <2>3 DEF AnswerOnly, EnterRun, StartFails, SendSession, SendNode, DropRun, EndChat, Leave
    <3> QED BY <1>1, <3>1 DEF StayRemoved
  <2> QED BY <1>4, <2>1, <2>2, <2>3 DEF ChatActs
<1>5. CASE Expire \/ Crash \/ UNCHANGED dashboardVars
  <2>1. meta' = meta /\ sure' = sure
    BY <1>5 DEF Expire, Crash, dashboardVars
  <2> QED BY <1>1, <2>1 DEF StayRemoved
<1> QED BY <1>2, <1>3, <1>4, <1>5, ConsoleSteps

\* What becomes sure to be removed is shown by no snapshot and by no listing:
\* there is no listing, and the snapshot goes.
LEMMA RowsStep ==
    ASSUME IInv, [DashboardNext]_dashboardVars
    PROVE  DeletedRowsDisappear'
<1>1. /\ ConsoleTypes
      /\ \A s \in sure : meta[s] = "none"
      /\ rows.fresh => rows.of \cap sure = {}
      /\ \A r \in Requests : request[r].stage = "listing" => request[r].shown \cap sure = {}
  BY DEF IInv, StayRemoved, DeletedRowsDisappear
<1>2. \A r \in Requests : Lists(r)
  BY <1>1, RequestsFollow
<1>3. \/ sure' \subseteq sure
      \/ /\ rows' = NoRows
         /\ \A q \in Requests : request[q].stage # "listing"
  <2>1. ASSUME NEW r \in Requests, Invalidated(r)
        PROVE  sure' \subseteq sure \/ (rows' = NoRows /\ \A q \in Requests : request[q].stage # "listing")
    BY <2>1 DEF Invalidated
  <2>2. ASSUME NEW r \in Requests, NEW s \in Sessions, CreateSession(r, s) PROVE sure' \subseteq sure
    BY <2>2 DEF CreateSession
  <2>3. ASSUME NEW c \in Chats, StartRun(c) \/ \E s \in Sessions : OpenChat(c, s) PROVE sure' \subseteq sure
    BY <2>3 DEF StartRun, OpenChat
  <2> QED BY <2>1, <2>2, <2>3, SureChanges
<1>4. rows'.fresh => rows'.of \cap sure' = {}
  <2>1. CASE rows' = NoRows
    BY <2>1 DEF NoRows
  <2>2. CASE rows' # NoRows
    <3>1. sure' \subseteq sure
      BY <1>3, <2>2
    <3>2. \/ rows' = rows \/ Expire
          \/ \E r \in Requests : StoreRows(r)
      BY <2>2, RowsChange DEF Crash, Invalidated, CreateSession
    <3>3. CASE rows' = rows
      BY <1>1, <3>1, <3>3
    <3>4. CASE Expire
      <4>1. rows' = [rows EXCEPT !.fresh = FALSE] /\ rows \in [fresh : BOOLEAN, of : SUBSET Sessions]
        BY <1>1, <3>4 DEF Expire, ConsoleTypes, DashboardTypeOK
      <4> QED BY <4>1
    <3>5. ASSUME NEW r \in Requests, StoreRows(r) PROVE rows'.of \cap sure' = {}
      <4>1. rows'.of = request[r].shown /\ request[r].stage = "listing"
        BY <3>5 DEF StoreRows
      <4> QED BY <1>1, <3>1, <4>1
    <3> QED BY <3>2, <3>3, <3>4, <3>5
  <2> QED BY <2>1, <2>2
<1>5. ASSUME NEW r \in Requests, request'[r].stage = "listing"
      PROVE  request'[r].shown \cap sure' = {}
  <2>1. CASE ReadRows(r) /\ request'[r].shown = Visible
    <3>1. sure' = sure
      BY <2>1 DEF ReadRows
    <3> QED BY <1>1, <2>1, <3>1 DEF Visible
  <2>2. CASE request[r].stage = "listing" /\ request'[r].shown = request[r].shown
    <3>1. sure' \subseteq sure
      BY <1>3, <2>2
    <3> QED BY <1>1, <2>2, <3>1
  <2> QED BY <1>2, <1>5, <2>1, <2>2 DEF Lists
<1> QED BY <1>4, <1>5 DEF DeletedRowsDisappear

LEMMA Invariance == DashboardSpec => []IInv
<1>1. DashboardInit => IInv
  BY InitIInv
<1>2. IInv /\ [DashboardNext]_dashboardVars => IInv'
  <2> SUFFICES ASSUME IInv, [DashboardNext]_dashboardVars PROVE IInv'
    OBVIOUS
  <2>1. ConsoleTypes' /\ \A s \in Sessions : HasClient(s)'
    BY ConsoleTypeStep, ClientsStep
  <2>2. \A c \in Chats : Streams(chat[c])'
    <3>1. \A c \in Chats : Streams(chat'[c])
      BY ChatsFollow
    <3> QED BY <3>1 DEF Streams
  <2>3. DeletesLeaveNothing' /\ StayRemoved' /\ DeletedRowsDisappear'
    BY NothingIsLeft, RemovedStep, RowsStep
  <2> QED BY <2>1, <2>2, <2>3 DEF IInv
<1> QED BY <1>1, <1>2, PTL DEF DashboardSpec

\* Every variable keeps its type.
THEOREM ConsoleTypeCorrect == DashboardSpec => []ConsoleTypes
<1>1. IInv => ConsoleTypes
  BY DEF IInv
<1> QED BY <1>1, Invariance, PTL

\* However chats start, end and are left while sessions are listed, made, swept
\* and deleted, and the process is restarted: a run that nobody told to stop has a
\* stream at work, a session that is gone has left nothing, and no list shows it
\* (chat_stream, delete_sessions, sweep_stale_drafts, recent_snapshot).
THEOREM SessionsStayAccountedFor == DashboardSpec => []SessionsAreAccountedFor
<1>1. IInv => SessionsAreAccountedFor
  <2> SUFFICES ASSUME IInv PROVE SessionsAreAccountedFor
    OBVIOUS
  <2>1. NoRunWithoutClient
    BY DEF NoRunWithoutClient, IInv, HasClient, Streams
  <2> QED BY <2>1 DEF SessionsAreAccountedFor, IInv
<1> QED BY <1>1, Invariance, PTL
=============================================================================

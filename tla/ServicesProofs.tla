--------------------------- MODULE ServicesProofs ---------------------------
(* Theorems about the services around a run.  Automation: work goes on      *)
(* under a lease, so that no two dispatchers work on one run, and what is   *)
(* reported is what happened.  RunEvents: what a listener is shown is what  *)
(* was sent and what the transcript keeps.                                  *)
EXTENDS Automation, RunEvents, FiniteSetTheorems, SequenceTheorems, WellFoundedInduction, TLAPS

-----------------------------------------------------------------------------
(* What the dispatchers and the cloud rely on.                               *)

Tokens   == Devices \X Nat
Statuses == {"none", "needs_attention", "failed", "succeeded"}
Outcomes == {"none", "not_requested", "sent", "failed"}
Stages   == {"starting", "collecting", "delivering", "reporting"}
Leases   == [run : DueRuns, token : Tokens]
Works    == [stage : Stages, status : Statuses, delivery : Outcomes, left : SUBSET Targets, tries : Nat]
Verdicts == [status : Statuses, delivery : Outcomes, token : Tokens]
Ends     == {"answered", "unanswered", "lost"}
Holds(d) == pc[d] # "polling"

AutoType ==
    /\ pc \in [Devices -> {"polling", "proving", "proved", "refused", "working"}]
    /\ request \in [Devices -> Nat] /\ clock \in [Devices -> Nat]
    /\ held \in [Devices -> Leases \cup {NoLease}]
    /\ work \in [Devices -> Works \cup {NoWork}]
    /\ lease \in [DueRuns -> Tokens \cup {NoToken}]
    /\ silence \in [DueRuns -> Nat]
    /\ verdict \in [DueRuns -> Verdicts \cup {NoVerdict}]
    /\ spent \subseteq Tokens /\ IsFiniteSet(spent)
    /\ answered \subseteq spent
    /\ sends \subseteq answered \X Targets \X Ends
    /\ faults \in Nat

\* A dispatcher that holds a lease holds one of its own, which has been
\* answered; the id of its next request never has been.
HoldersAreKnown ==
    \A d \in Devices :
        /\ Token(d) \notin answered
        /\ Holds(d) => held[d] \in Leases /\ held[d].token[1] = d /\ held[d].token \in answered /\ work[d] \in Works

\* The cloud leases what has no verdict, under tokens it has granted, and a grant
\* whose answer was lost comes back to the id that asked for it.
LeasesAreKnown ==
    \A r \in DueRuns :
        /\ lease[r] # NoToken =>
              /\ lease[r] \in spent /\ verdict[r] = NoVerdict
              /\ lease[r] \in answered \/ \E d \in Devices : lease[r] = Token(d)
        /\ verdict[r] # NoVerdict => verdict[r].token \in answered

TokenInv == AutoType /\ HoldersAreKnown /\ LeasesAreKnown

\* How long ago the cloud has seen the token of a dispatcher that works, or is
\* about to go on: a heartbeat shows it, and nothing takes longer than its timer.
LeaseIsCurrent(d) ==
    LET r == held[d].run IN
    /\ pc[d] = "proving" => clock[d] <= Timeout
    /\ pc[d] = "proved" =>
          lease[r] = held[d].token /\ silence[r] <= clock[d] /\ clock[d] <= Timeout
    /\ pc[d] = "working" =>
          \/ lease[r] = held[d].token /\ silence[r] <= Timeout + clock[d] /\ clock[d] <= Interval
          \/ verdict[r].token = held[d].token
LeaseInv == \A d \in Devices : LeaseIsCurrent(d)

\* What was sent to the targets under a token, and what may be said of it.
Tells(delivery, token) ==
    /\ delivery = "sent" => Confirmed(token) = Targets
    /\ delivery = "failed" => Confirmed(token) # Targets
    /\ delivery \notin {"sent", "failed"} => Tried(token) = {}
Begun(d) ==
    work[d].stage \in {"starting", "collecting"} =>
        Tried(held[d].token) = {} /\ \A r \in DueRuns : verdict[r].token # held[d].token
Delivering(d) ==
    work[d].stage = "delivering" =>
        /\ work[d].delivery \in {"sent", "failed"}
        /\ Tried(held[d].token) \cap work[d].left = {}
        /\ work[d].delivery = "sent" => Targets \ work[d].left \subseteq Confirmed(held[d].token)
        /\ work[d].delivery = "failed" => \E t \in Targets \ work[d].left : t \notin Confirmed(held[d].token)
        /\ \A r \in DueRuns : verdict[r].token # held[d].token
Reporting(d) == work[d].stage = "reporting" => Tells(work[d].delivery, held[d].token)
ReportInv ==
    /\ \A d \in Devices : Holds(d) => Begun(d) /\ Delivering(d) /\ Reporting(d)
    /\ \A r \in DueRuns : verdict[r] # NoVerdict => Tells(verdict[r].delivery, verdict[r].token)

-----------------------------------------------------------------------------
(* Tokens.                                                                   *)

LEMMA TokenShape ==
    ASSUME NEW t \in Tokens
    PROVE  t # NoToken /\ t = <<t[1], t[2]>> /\ t[1] \in Devices /\ t[2] \in Nat
<1>1. PICK d \in Devices, n \in Nat : t = <<d, n>>
  BY DEF Tokens
<1>2. Len(<<d, n>>) = 2 /\ Len(<<>>) = 0
  OBVIOUS
<1>3. t # NoToken
  BY <1>1, <1>2 DEF NoToken
<1> QED BY <1>1, <1>3

LEMMA OwnToken ==
    ASSUME NEW d, NEW n
    PROVE  <<d, n>>[1] = d /\ <<d, n>>[2] = n
OBVIOUS

LEMMA LeastOne ==
    ASSUME NEW S, S \subseteq Nat, S # {}
    PROVE  \E x \in S : \A y \in S : x <= y
<1>1. PICK x \in S : \A y \in S : ~(<<y, x>> \in OpToRel(<, Nat))
  BY NatLessThanWellFounded, WFMin
<1>2. \A y \in S : ~(y < x)
  BY <1>1 DEF OpToRel
<1> QED BY <1>2

LEMMA LeastOf ==
    ASSUME NEW S, S \subseteq Nat, S # {}
    PROVE  Min(S) \in S
<1>1. \E x \in S : \A y \in S : x <= y
  BY LeastOne
<1> QED BY <1>1 DEF Min

\* Among one more number than are used, one is not.
LEMMA SomeAreLeft ==
    ASSUME NEW U, IsFiniteSet(U)
    PROVE  Min(1 .. Cardinality(U) + 1 \ U) \in Nat \ U
<1> DEFINE n == Cardinality(U)
           S == 1 .. n + 1
<1>1. n \in Nat
  BY FS_CardinalityType
<1>2. IsFiniteSet(S) /\ Cardinality(S) = n + 1
  <2>1. IsFiniteSet(1 .. n + 1) /\ Cardinality(1 .. n + 1) = IF 1 > n + 1 THEN 0 ELSE (n + 1) - 1 + 1
    BY <1>1, FS_Interval
  <2> QED BY <1>1, <2>1
<1>3. S \ U # {}
  <2> SUFFICES ASSUME S \subseteq U PROVE FALSE
    OBVIOUS
  <2>1. S \in SUBSET U
    OBVIOUS
  <2>2. Cardinality(S) <= Cardinality(U)
    <3> HIDE DEF S, n
    <3> QED BY <2>1, FS_Subset
  <2> QED BY <1>1, <1>2, <2>2
<1>4. S \ U \subseteq Nat
  BY <1>1
<1>5. Min(S \ U) \in S \ U
  <2> HIDE DEF S
  <2> QED BY <1>3, <1>4, LeastOf
<1> QED BY <1>4, <1>5

LEMMA NewRequest ==
    ASSUME NEW d \in Devices, spent' \subseteq Tokens, IsFiniteSet(spent')
    PROVE  Fresh(d) \in Nat /\ <<d, Fresh(d)>> \notin spent'
<1> DEFINE V == {u \in spent' : u[1] = d}
           U == Used(d)
           f == [t \in V |-> t[2]]
<1>1. IsFiniteSet(V)
  <2>1. V \in SUBSET spent'
    OBVIOUS
  <2> HIDE DEF V
  <2> QED BY <2>1, FS_Subset
<1>2. U = {t[2] : t \in V}
  BY DEF Used
<1> HIDE DEF V, U
<1>3. f \in Surjection(V, U)
  BY <1>2 DEF Surjection
<1>4. IsFiniteSet(U)
  <2> HIDE DEF f
  <2> QED BY <1>1, <1>3, FS_Surjection
<1>5. Fresh(d) = Min(1 .. Cardinality(U) + 1 \ U)
  BY DEF Fresh, U
<1>6. Fresh(d) \in Nat \ U
  BY <1>4, <1>5, SomeAreLeft
<1>7. ASSUME <<d, Fresh(d)>> \in spent' PROVE FALSE
  <2> DEFINE t == <<d, Fresh(d)>>
  <2>1. t[1] = d /\ t[2] = Fresh(d)
    OBVIOUS
  <2>2. t \in V
    BY <1>7, <2>1 DEF V
  <2>3. t[2] \in U
    BY <1>2, <2>2
  <2> QED BY <1>6, <2>1, <2>3
<1> QED BY <1>6, <1>7


-----------------------------------------------------------------------------
(* What the steps leave of the tokens.                                       *)

\* Steps after which no one holds anything new, and the cloud leases nothing new.
NothingNew ==
    /\ UNCHANGED <<request, spent, answered>>
    /\ \A e \in Devices : Holds(e)' => Holds(e) /\ held'[e] = held[e] /\ work'[e] \in Works
    /\ \A r \in DueRuns : lease'[r] # NoToken => lease'[r] = lease[r] /\ verdict'[r] = verdict[r]
    /\ \A r \in DueRuns : verdict'[r] = verdict[r] \/ verdict'[r].token \in answered

LEMMA TokensStay ==
    ASSUME TokenInv, AutoType', NothingNew
    PROVE  TokenInv'
<1>1. HoldersAreKnown'
  <2> SUFFICES ASSUME NEW e \in Devices
               PROVE  /\ Token(e)' \notin answered'
                      /\ Holds(e)' => held'[e] \in Leases /\ held'[e].token[1] = e /\ held'[e].token \in answered'
                                      /\ work'[e] \in Works
    BY DEF HoldersAreKnown, Holds, Token
  <2>1. Token(e)' = Token(e) /\ answered' = answered
    BY DEF NothingNew, Token
  <2>2. Token(e) \notin answered
    BY DEF TokenInv, HoldersAreKnown
  <2>3. ASSUME Holds(e)'
        PROVE  held'[e] \in Leases /\ held'[e].token[1] = e /\ held'[e].token \in answered' /\ work'[e] \in Works
    <3>1. Holds(e) /\ held'[e] = held[e] /\ work'[e] \in Works
      BY <2>3 DEF NothingNew
    <3>2. held[e] \in Leases /\ held[e].token[1] = e /\ held[e].token \in answered
      BY <3>1 DEF TokenInv, HoldersAreKnown
    <3> QED BY <2>1, <3>1, <3>2
  <2> QED BY <2>1, <2>2, <2>3
<1>2. LeasesAreKnown'
  <2> SUFFICES ASSUME NEW r \in DueRuns
               PROVE  /\ lease'[r] # NoToken =>
                            /\ lease'[r] \in spent' /\ verdict'[r] = NoVerdict
                            /\ lease'[r] \in answered' \/ \E d \in Devices : lease'[r] = Token(d)'
                      /\ verdict'[r] # NoVerdict => verdict'[r].token \in answered'
    BY DEF LeasesAreKnown, Token
  <2>1. spent' = spent /\ answered' = answered /\ \A d \in Devices : Token(d)' = Token(d)
    BY DEF NothingNew, Token
  <2>2. /\ lease[r] # NoToken =>
              /\ lease[r] \in spent /\ verdict[r] = NoVerdict
              /\ lease[r] \in answered \/ \E d \in Devices : lease[r] = Token(d)
        /\ verdict[r] # NoVerdict => verdict[r].token \in answered
    BY DEF TokenInv, LeasesAreKnown
  <2>3. lease'[r] # NoToken => lease'[r] = lease[r] /\ verdict'[r] = verdict[r]
    BY DEF NothingNew
  <2>4. verdict'[r] = verdict[r] \/ verdict'[r].token \in answered
    BY DEF NothingNew
  <2> QED BY <2>1, <2>2, <2>3, <2>4
<1> QED BY <1>1, <1>2 DEF TokenInv

LEMMA IdleTypes == NoLease \notin Leases /\ NoWork \in [stage : {"none"}, status : Statuses, delivery : Outcomes, left : SUBSET Targets, tries : Nat]
<1>1. NoLease.token = NoToken
  BY DEF NoLease
<1>2. \A l \in Leases : l.token \in Tokens
  BY DEF Leases
<1>3. NoLease \notin Leases
  BY <1>1, <1>2, TokenShape
<1> QED BY <1>3 DEF NoWork, Statuses, Outcomes

\* What becomes of a dispatcher that lets go.
LEMMA Lets ==
    ASSUME TokenInv, NEW d \in Devices, Release(d)
    PROVE  /\ pc' \in [Devices -> {"polling", "proving", "proved", "refused", "working"}]
           /\ clock' \in [Devices -> Nat]
           /\ held' \in [Devices -> Leases \cup {NoLease}] /\ work' \in [Devices -> Works \cup {NoWork}]
           /\ ~Holds(d)'
           /\ \A e \in Devices \ {d} : /\ pc'[e] = pc[e] /\ clock'[e] = clock[e]
                                       /\ held'[e] = held[e] /\ work'[e] = work[e]
BY DEF TokenInv, AutoType, Release, Holds

\* A run that is granted has no verdict, and is leased to nobody else.
LEMMA Granting ==
    ASSUME TokenInv, NEW d \in Devices, NEW r \in DueRuns, Grant(d, r)
    PROVE  /\ Token(d) \in Tokens /\ verdict[r] = NoVerdict /\ lease[r] \in {NoToken, Token(d)}
           /\ lease' = [lease EXCEPT ![r] = Token(d)] /\ lease' \in [DueRuns -> Tokens \cup {NoToken}]
           /\ silence' \in [DueRuns -> Nat] /\ \A s \in DueRuns : silence'[s] <= silence[s]
           /\ spent' = spent \cup {Token(d)} /\ spent' \subseteq Tokens /\ IsFiniteSet(spent')
           /\ verdict' = verdict
<1>0. AutoType /\ LeasesAreKnown
  BY DEF TokenInv
<1>1. Token(d) \in Tokens
  BY <1>0 DEF AutoType, Token, Tokens
<1>2. verdict[r] = NoVerdict /\ lease[r] \in {NoToken, Token(d)}
  <2>1. r \in Grantable(d)
    BY DEF Grant
  <2>2. CASE r \in Granted(d)
    <3>1. lease[r] = Token(d)
      BY <2>2 DEF Granted
    <3>2. Token(d) # NoToken
      BY <1>1, TokenShape
    <3> QED BY <1>0, <3>1, <3>2 DEF LeasesAreKnown
  <2>3. CASE r \notin Granted(d)
    <3>1. IsDue(r)
      BY <2>1, <2>3 DEF Grantable
    <3> QED BY <3>1 DEF IsDue
  <2> QED BY <2>2, <2>3
<1>3. silence' \in [DueRuns -> Nat] /\ \A s \in DueRuns : silence'[s] <= silence[s]
  <2>1. silence \in [DueRuns -> Nat]
    BY <1>0 DEF AutoType
  <2>2. silence' = [silence EXCEPT ![r] = IF IsDue(r) THEN 0 ELSE @]
    BY DEF Grant
  <2>3. CASE IsDue(r)
    BY <2>1, <2>2, <2>3
  <2>4. CASE ~IsDue(r)
    BY <2>1, <2>2, <2>4
  <2> QED BY <2>3, <2>4
<1>4. spent' = spent \cup {Token(d)}
  BY DEF Grant
<1>5. IsFiniteSet(spent')
  <2>1. IsFiniteSet(spent)
    BY <1>0 DEF AutoType
  <2> QED BY <1>4, <2>1, FS_AddElement
<1>6. spent' \subseteq Tokens
  BY <1>0, <1>1, <1>4 DEF AutoType
<1>7. lease' = [lease EXCEPT ![r] = Token(d)] /\ lease' \in [DueRuns -> Tokens \cup {NoToken}]
  BY <1>0, <1>1 DEF Grant, AutoType
<1>8. verdict' = verdict
  BY DEF Grant
<1> QED BY <1>1, <1>2, <1>3, <1>4, <1>5, <1>6, <1>7, <1>8


\* What execute does between two heartbeats.
WorksOn(d, w) ==
    /\ pc[d] = "working" /\ clock[d] < Interval /\ work[d].stage \in Stages
    /\ w \in Works /\ work' = [work EXCEPT ![d] = w]
    /\ UNCHANGED <<pc, request, held, clock, cloud, answered>>


LEMMA ReportsAre ==
    ASSUME NEW s \in Statuses, NEW o \in Outcomes
    PROVE  Reports(s, o) \in Works /\ Reports(s, o).stage = "reporting" /\ Reports(s, o).delivery = o
BY DEF Reports, NoWork, Works, Stages

LEMMA WorkingHolds ==
    ASSUME TokenInv, NEW d \in Devices, Holds(d)
    PROVE  /\ held[d] \in Leases /\ held[d].run \in DueRuns /\ held[d].token \in Tokens
           /\ held[d].token[1] = d /\ held[d].token \in answered /\ held[d].token # NoToken
           /\ work[d] \in Works /\ work[d].left \in SUBSET Targets /\ work[d].delivery \in Outcomes
           /\ work[d].status \in Statuses /\ work[d].stage \in Stages /\ work[d].tries \in Nat
<1>1. held[d] \in Leases /\ held[d].token[1] = d /\ held[d].token \in answered /\ work[d] \in Works
  BY DEF TokenInv, HoldersAreKnown
<1>2. held[d].run \in DueRuns /\ held[d].token \in Tokens
  BY <1>1 DEF Leases
<1>3. held[d].token # NoToken
  BY <1>2, TokenShape
<1> QED BY <1>1, <1>2, <1>3 DEF Works

LEMMA WorkIsWork ==
    ASSUME TokenInv, NEW d \in Devices, Holds(d)
    PROVE  /\ WorkEnds(d) \/ Submit(d) \/ Collect(d) \/ Delivered(d) => sends' = sends /\ faults' = faults /\ \E w : WorksOn(d, w)
           /\ Deliver(d) => \E w : WorksOn(d, w)
<1> DEFINE v == work[d]
<1>1. v \in Works
  BY WorkingHolds
<1>2. ASSUME NEW w \in Works, NEW s \in Stages, Working(d, s), Becomes(d, w), UNCHANGED <<pc, request, held, clock, cloud, answered>>
      PROVE  WorksOn(d, w)
  BY <1>2 DEF Working, Becomes, WorksOn
<1>3. ASSUME WorkEnds(d) PROVE \E w : WorksOn(d, w)
  <2>1. /\ Reports("needs_attention", "not_requested") \in Works
        /\ Reports("failed", "not_requested") \in Works
    BY ReportsAre DEF Statuses, Outcomes
  <2> QED BY <1>2, <1>3, <2>1 DEF WorkEnds, Stages
<1>4. ASSUME Submit(d) PROVE \E w : WorksOn(d, w)
  <2> DEFINE w == [work[d] EXCEPT !.stage = "collecting"]
  <2>1. w \in Works
    BY <1>1 DEF Works, Stages
  <2>2. Working(d, "starting") /\ Becomes(d, w) /\ UNCHANGED <<pc, request, held, clock, cloud, answered>>
    BY <1>4 DEF Submit
  <2>3. "starting" \in Stages
    BY DEF Stages
  <2> HIDE DEF w
  <2> QED BY <1>2, <2>1, <2>2, <2>3
<1>5. ASSUME Collect(d) PROVE \E w : WorksOn(d, w)
  <2> DEFINE w == [work[d] EXCEPT !.stage = "delivering", !.delivery = "sent", !.left = Targets]
  <2>1. w \in Works /\ Reports("succeeded", "not_requested") \in Works /\ Reports("succeeded", "failed") \in Works
    <3>1. Reports("succeeded", "not_requested") \in Works /\ Reports("succeeded", "failed") \in Works
      BY ReportsAre DEF Statuses, Outcomes
    <3>2. w \in Works
      BY <1>1 DEF Works, Stages, Outcomes
    <3> QED BY <3>1, <3>2
  <2>2. /\ Working(d, "collecting") /\ UNCHANGED <<pc, request, held, clock, cloud, answered>>
        /\ \/ Becomes(d, Reports("succeeded", "not_requested"))
           \/ Becomes(d, w)
           \/ Becomes(d, Reports("succeeded", "failed"))
    BY <1>5 DEF Collect
  <2>3. "collecting" \in Stages
    BY DEF Stages
  <2> HIDE DEF w
  <2> QED BY <1>2, <2>1, <2>2, <2>3
<1>6. ASSUME Delivered(d) PROVE \E w : WorksOn(d, w)
  <2> DEFINE w == Reports("succeeded", work[d].delivery)
  <2>1. w \in Works
    <3>1. work[d].delivery \in Outcomes
      BY <1>1 DEF Works
    <3> QED BY <3>1, ReportsAre DEF Statuses
  <2>2. Working(d, "delivering") /\ Becomes(d, w) /\ UNCHANGED <<pc, request, held, clock, cloud, answered>>
    BY <1>6 DEF Delivered
  <2>3. "delivering" \in Stages
    BY DEF Stages
  <2> HIDE DEF w
  <2> QED BY <1>2, <2>1, <2>2, <2>3
<1>7. ASSUME Deliver(d) PROVE \E w : WorksOn(d, w)
  <2>1. PICK t \in work[d].left :
          \/ Becomes(d, [work[d] EXCEPT !.left = @ \ {t}])
          \/ Becomes(d, [[work[d] EXCEPT !.left = @ \ {t}] EXCEPT !.delivery = "failed"])
    BY <1>7 DEF Deliver
  <2>2. Working(d, "delivering") /\ UNCHANGED <<pc, request, held, clock, cloud, answered>>
    BY <1>7 DEF Deliver
  <2> DEFINE w == [work[d] EXCEPT !.left = @ \ {t}]
             u == [w EXCEPT !.delivery = "failed"]
  <2>3. w \in Works
    BY <1>1 DEF Works
  <2> HIDE DEF w
  <2>4. u \in Works
    BY <2>3 DEF Works, Outcomes
  <2> HIDE DEF u
  <2>5. Becomes(d, w) \/ Becomes(d, u)
    BY <2>1 DEF w, u
  <2>6. "delivering" \in Stages
    BY DEF Stages
  <2> QED BY <1>2, <2>2, <2>3, <2>4, <2>5, <2>6
<1>8. WorkEnds(d) \/ Submit(d) \/ Collect(d) \/ Delivered(d) => sends' = sends /\ faults' = faults
  BY DEF WorkEnds, Submit, Collect, Delivered
<1> QED BY <1>3, <1>4, <1>5, <1>6, <1>7, <1>8


-----------------------------------------------------------------------------
\* What is sent to a target is sent under the token of its sender.
LEMMA Sends ==
    ASSUME TokenInv, NEW d \in Devices, Deliver(d)
    PROVE  /\ sends \subseteq sends' /\ sends' \subseteq answered \X Targets \X Ends /\ faults' \in Nat
           /\ \A x \in sends' \ sends : x[1] = held[d].token
<1>1. PICK t \in work[d].left, how \in Ends : sends' = sends \cup {<<held[d].token, t, how>>} /\ (Fault \/ faults' = faults)
  BY DEF Deliver, SendsTo, Ends
<1>2. Holds(d)
  BY DEF Deliver, Working, Holds
<1>3. held[d].token \in answered /\ t \in Targets
  <2>1. held[d].token \in answered /\ work[d].left \in SUBSET Targets
    BY <1>2, WorkingHolds
  <2> QED BY <2>1
<1>4. sends \subseteq answered \X Targets \X Ends /\ faults \in Nat
  BY DEF TokenInv, AutoType
<1>5. faults' \in Nat
  BY <1>1, <1>4 DEF Fault
<1>6. <<held[d].token, t, how>> \in answered \X Targets \X Ends /\ <<held[d].token, t, how>>[1] = held[d].token
  BY <1>3
<1> QED BY <1>1, <1>4, <1>5, <1>6

LEMMA FaultCounts == ASSUME TokenInv, Fault PROVE faults' \in Nat
BY DEF TokenInv, AutoType, Fault

LEMMA Settles ==
    ASSUME TokenInv, NEW d \in Devices, Holds(d), Settle(d)
    PROVE  /\ lease[held[d].run] = held[d].token /\ verdict[held[d].run] = NoVerdict
           /\ lease' = [lease EXCEPT ![held[d].run] = NoToken] /\ lease' \in [DueRuns -> Tokens \cup {NoToken}]
           /\ verdict' = [verdict EXCEPT ![held[d].run] = [status |-> work[d].status, delivery |-> work[d].delivery,
                                                         token |-> held[d].token]]
           /\ verdict' \in [DueRuns -> Verdicts \cup {NoVerdict}]
           /\ UNCHANGED <<silence, spent>>
<1>1. held[d].run \in DueRuns /\ held[d].token \in Tokens /\ held[d].token # NoToken
      /\ work[d].status \in Statuses /\ work[d].delivery \in Outcomes
  BY WorkingHolds
<1>2. lease[held[d].run] = held[d].token /\ UNCHANGED <<silence, spent>>
      /\ lease' = [lease EXCEPT ![held[d].run] = NoToken]
      /\ verdict' = [verdict EXCEPT ![held[d].run] = [status |-> work[d].status, delivery |-> work[d].delivery,
                                                    token |-> held[d].token]]
  BY DEF Settle
<1>3. verdict[held[d].run] = NoVerdict
  BY <1>1, <1>2 DEF TokenInv, LeasesAreKnown
<1>4. [status |-> work[d].status, delivery |-> work[d].delivery, token |-> held[d].token] \in Verdicts
  BY <1>1 DEF Verdicts
<1>5. verdict' \in [DueRuns -> Verdicts \cup {NoVerdict}] /\ lease' \in [DueRuns -> Tokens \cup {NoToken}]
  BY <1>2, <1>4 DEF TokenInv, AutoType
<1> QED BY <1>2, <1>3, <1>5

LEMMA Retries ==
    ASSUME TokenInv, NEW d \in Devices, Holds(d), work[d].stage = "reporting", TryAgain(d)
    PROVE  \/ Release(d)
           \/ \E w \in Works : /\ Becomes(d, w) /\ UNCHANGED <<pc, held, clock>>
                               /\ w.stage = "reporting" /\ w.delivery = work[d].delivery
<1>1. work[d] \in Works /\ work[d].tries \in Nat
  BY WorkingHolds
<1>2. CASE work[d].tries = 2
  BY <1>2 DEF TryAgain
<1>3. CASE work[d].tries # 2
  <2> DEFINE w == [work[d] EXCEPT !.tries = @ + 1]
  <2>1. w \in Works /\ w.stage = "reporting" /\ w.delivery = work[d].delivery
    BY <1>1 DEF Works
  <2>2. Becomes(d, w) /\ UNCHANGED <<pc, held, clock>>
    BY <1>3 DEF TryAgain
  <2> HIDE DEF w
  <2> QED BY <2>1, <2>2
<1> QED BY <1>2, <1>3

\* Letting go changes nothing else, or only settles the run.
LEMMA AutoTypeStep ==
    ASSUME TokenInv, [Next]_autoVars
    PROVE  AutoType'
<1> USE AutomationAssumption
<1>0. AutoType
  BY DEF TokenInv
<1>1. CASE UNCHANGED autoVars
  BY <1>0, <1>1 DEF AutoType, autoVars, dispatcher, cloud
<1>2. ASSUME NEW d \in Devices, ClaimAnswered(d) PROVE AutoType'
  <2>1. PICK r \in DueRuns : Grant(d, r) /\ held' = [held EXCEPT ![d] = [run |-> r, token |-> Token(d)]]
    BY <1>2 DEF ClaimAnswered
  <2>2. /\ Token(d) \in Tokens /\ lease' \in [DueRuns -> Tokens \cup {NoToken}] /\ silence' \in [DueRuns -> Nat]
        /\ spent' = spent \cup {Token(d)} /\ spent' \subseteq Tokens /\ IsFiniteSet(spent') /\ verdict' = verdict
    BY <2>1, Granting
  <2>3. /\ answered' = answered \cup {Token(d)} /\ work' = [work EXCEPT ![d] = Started]
        /\ pc' = [pc EXCEPT ![d] = "proving"] /\ clock' = [clock EXCEPT ![d] = 0]
        /\ request' = [request EXCEPT ![d] = Fresh(d)] /\ UNCHANGED <<sends, faults>>
    BY <1>2 DEF ClaimAnswered, Renew
  <2>4. Fresh(d) \in Nat
    BY <2>2, NewRequest
  <2>5. [run |-> r, token |-> Token(d)] \in Leases
    BY <2>2 DEF Leases
  <2>6. Started \in Works
    BY DEF Started, NoWork, Works, Stages, Statuses, Outcomes
  <2>7. pc' \in [Devices -> {"polling", "proving", "proved", "refused", "working"}] /\ clock' \in [Devices -> Nat]
    BY <1>0, <2>3 DEF AutoType
  <2>8. request' \in [Devices -> Nat]
    BY <1>0, <2>3, <2>4 DEF AutoType
  <2>9. held' \in [Devices -> Leases \cup {NoLease}]
    BY <1>0, <2>1, <2>5 DEF AutoType
  <2>10. work' \in [Devices -> Works \cup {NoWork}]
    BY <1>0, <2>3, <2>6 DEF AutoType
  <2>11. verdict' \in [DueRuns -> Verdicts \cup {NoVerdict}] /\ faults' \in Nat
    BY <1>0, <2>2, <2>3 DEF AutoType
  <2>12. answered' \subseteq spent' /\ sends' \subseteq answered' \X Targets \X Ends
    BY <1>0, <2>2, <2>3 DEF AutoType
  <2> QED BY <2>2, <2>7, <2>8, <2>9, <2>10, <2>11, <2>12 DEF AutoType
<1>3. ASSUME NEW d \in Devices, ClaimNone(d) PROVE AutoType'
  <2>1. /\ spent' = spent /\ request' = [request EXCEPT ![d] = IF Token(d) \in spent THEN Fresh(d) ELSE @]
        /\ UNCHANGED <<pc, held, clock, work, lease, silence, verdict, answered, sends, faults>>
    BY <1>3 DEF ClaimNone
  <2>2. Fresh(d) \in Nat
    BY <1>0, <2>1, NewRequest DEF AutoType
  <2>3. request' \in [Devices -> Nat]
    <3>1. CASE Token(d) \in spent
      BY <1>0, <2>1, <2>2, <3>1 DEF AutoType
    <3>2. CASE Token(d) \notin spent
      BY <1>0, <2>1, <3>2 DEF AutoType
    <3> QED BY <3>1, <3>2
  <2> QED BY <1>0, <2>1, <2>3 DEF AutoType
<1>4. ASSUME NEW d \in Devices, Beat(d) PROVE AutoType'
  <2>1. CASE Freeze(d) \/ BeatAnswered(d)
    BY <1>0, <2>1 DEF AutoType, Freeze, BeatAnswered, cloud
  <2>2. CASE BeatArrives(d)
    <3> DEFINE r == held[d].run
               current == lease[r] = held[d].token
    <3>1. /\ pc' = [pc EXCEPT ![d] = IF current THEN "proved" ELSE "refused"]
          /\ silence' = [silence EXCEPT ![r] = IF current THEN 0 ELSE @]
          /\ UNCHANGED <<request, held, clock, work, lease, verdict, spent, answered, sends, faults>>
      BY <2>2 DEF BeatArrives
    <3> HIDE DEF r, current
    <3>2. pc' \in [Devices -> {"polling", "proving", "proved", "refused", "working"}]
      <4>1. CASE current
        BY <1>0, <3>1, <4>1 DEF AutoType
      <4>2. CASE ~current
        BY <1>0, <3>1, <4>2 DEF AutoType
      <4> QED BY <4>1, <4>2
    <3>3. silence' \in [DueRuns -> Nat]
      <4>1. CASE current
        BY <1>0, <3>1, <4>1 DEF AutoType
      <4>2. CASE ~current
        BY <1>0, <3>1, <4>2 DEF AutoType
      <4> QED BY <4>1, <4>2
    <3> QED BY <1>0, <3>1, <3>2, <3>3 DEF AutoType
  <2>3. CASE BeatRefused(d)
    <3>1. Release(d) /\ UNCHANGED <<request, cloud, answered, sends, faults>>
      BY <2>3 DEF BeatRefused
    <3> QED BY <1>0, <3>1, Lets DEF AutoType, cloud
  <2> QED BY <1>4, <2>1, <2>2, <2>3 DEF Beat
<1>5. ASSUME NEW d \in Devices, NEW w, WorksOn(d, w), sends' \subseteq answered \X Targets \X Ends, faults' \in Nat PROVE AutoType'
  BY <1>0, <1>5 DEF AutoType, WorksOn, cloud
<1>6. ASSUME NEW d \in Devices, Execute(d) PROVE AutoType'
  <2>1. Holds(d)
    BY <1>6 DEF Execute, WorkEnds, Submit, Collect, Deliver, Delivered, ReportAnswered, ReportRefused, Working, Holds
  <2>2. CASE WorkEnds(d) \/ Submit(d) \/ Collect(d) \/ Delivered(d)
    <3>1. sends' = sends /\ faults' = faults /\ \E w : WorksOn(d, w)
      BY <2>1, <2>2, WorkIsWork
    <3>2. sends' \subseteq answered \X Targets \X Ends /\ faults' \in Nat
      BY <1>0, <3>1 DEF AutoType
    <3> QED BY <1>5, <3>1, <3>2
  <2>3. CASE Deliver(d)
    <3>1. \E w : WorksOn(d, w)
      BY <2>1, <2>3, WorkIsWork
    <3>2. sends' \subseteq answered \X Targets \X Ends /\ faults' \in Nat
      BY <2>3, Sends
    <3> QED BY <1>5, <3>1, <3>2
  <2>4. CASE ReportAnswered(d)
    <3>1. Settle(d) /\ Release(d) /\ UNCHANGED <<request, answered, sends, faults>>
      BY <2>4 DEF ReportAnswered
    <3>2. /\ lease' \in [DueRuns -> Tokens \cup {NoToken}] /\ verdict' \in [DueRuns -> Verdicts \cup {NoVerdict}]
          /\ UNCHANGED <<silence, spent>>
      BY <2>1, <3>1, Settles
    <3> QED BY <1>0, <3>1, <3>2, Lets DEF AutoType
  <2>5. CASE ReportRefused(d)
    <3>1. TryAgain(d) /\ UNCHANGED <<request, cloud, answered, sends, faults>> /\ work[d].stage = "reporting"
      BY <2>5 DEF ReportRefused, Working
    <3>2. CASE Release(d)
      BY <1>0, <3>1, <3>2, Lets DEF AutoType, cloud
    <3>3. ASSUME NEW w \in Works, Becomes(d, w), UNCHANGED <<pc, held, clock>> PROVE AutoType'
      BY <1>0, <3>1, <3>3 DEF AutoType, cloud, Becomes
    <3> QED BY <2>1, <3>1, <3>2, <3>3, Retries
  <2> QED BY <1>6, <2>2, <2>3, <2>4, <2>5 DEF Execute
<1>7. ASSUME NEW d \in Devices, ReportLost(d) PROVE AutoType'
  <2>1. /\ TryAgain(d) /\ UNCHANGED <<request, answered, sends>> /\ work[d].stage = "reporting" /\ Holds(d)
        /\ Settle(d) \/ UNCHANGED cloud
        /\ Fault
    BY <1>7 DEF ReportLost, Working, Holds
  <2>2. /\ lease' \in [DueRuns -> Tokens \cup {NoToken}] /\ verdict' \in [DueRuns -> Verdicts \cup {NoVerdict}]
        /\ UNCHANGED <<silence, spent>>
    <3>1. CASE Settle(d)
      BY <2>1, <3>1, Settles
    <3>2. CASE UNCHANGED cloud
      BY <1>0, <3>2 DEF AutoType, cloud
    <3> QED BY <2>1, <3>1, <3>2
  <2>3. faults' \in Nat
    BY <2>1, FaultCounts
  <2>4. CASE Release(d)
    BY <1>0, <2>1, <2>2, <2>3, <2>4, Lets DEF AutoType
  <2>5. ASSUME NEW w \in Works, Becomes(d, w), UNCHANGED <<pc, held, clock>> PROVE AutoType'
    BY <1>0, <2>1, <2>2, <2>3, <2>5 DEF AutoType, Becomes
  <2> QED BY <2>1, <2>4, <2>5, Retries
<1>8. ASSUME NEW d \in Devices, BeatLost(d) PROVE AutoType'
  <2>1. Release(d) /\ UNCHANGED <<request, cloud, answered, sends>> /\ Fault
    BY <1>8 DEF BeatLost
  <2> QED BY <1>0, <2>1, Lets, FaultCounts DEF AutoType, cloud
<1>9. ASSUME NEW d \in Devices, ClaimLost(d) PROVE AutoType'
  <2>1. PICK r \in DueRuns : Grant(d, r)
    BY <1>9 DEF ClaimLost
  <2>2. UNCHANGED <<dispatcher, answered, sends>> /\ Fault
    BY <1>9 DEF ClaimLost
  <2>3. /\ lease' \in [DueRuns -> Tokens \cup {NoToken}] /\ silence' \in [DueRuns -> Nat] /\ verdict' = verdict
        /\ spent' = spent \cup {Token(d)} /\ spent' \subseteq Tokens /\ IsFiniteSet(spent')
    BY <2>1, Granting
  <2> QED BY <1>0, <2>2, <2>3, FaultCounts DEF AutoType, dispatcher
<1>10. ASSUME NEW d \in Devices, Stop(d) PROVE AutoType'
  <2>1. /\ Fault /\ Release(d) /\ answered' = answered \cup {Token(d)} /\ spent' = spent \cup {Token(d)}
        /\ request' = [request EXCEPT ![d] = Fresh(d)] /\ UNCHANGED <<lease, silence, verdict, sends>>
    BY <1>10 DEF Stop, Renew
  <2>2. spent' \subseteq Tokens /\ IsFiniteSet(spent')
    <3>1. Token(d) \in Tokens /\ IsFiniteSet(spent)
      BY <1>0 DEF AutoType, Token, Tokens
    <3>2. IsFiniteSet(spent')
      BY <2>1, <3>1, FS_AddElement
    <3> QED BY <1>0, <2>1, <3>1, <3>2 DEF AutoType
  <2>3. Fresh(d) \in Nat
    BY <2>2, NewRequest
  <2>4. request' \in [Devices -> Nat]
    BY <1>0, <2>1, <2>3 DEF AutoType
  <2>5. answered' \subseteq spent' /\ sends' \subseteq answered' \X Targets \X Ends
    BY <1>0, <2>1 DEF AutoType
  <2> QED BY <1>0, <2>1, <2>2, <2>4, <2>5, Lets, FaultCounts DEF AutoType
<1>11. ASSUME NEW r \in DueRuns, Expire(r) PROVE AutoType'
  BY <1>0, <1>11 DEF AutoType, Expire, dispatcher
<1>12. ASSUME Tick PROVE AutoType'
  <2>1. /\ clock' = [d \in Devices |-> IF pc[d] = "polling" THEN 0 ELSE clock[d] + 1]
        /\ silence' = [r \in DueRuns |-> IF lease[r] = NoToken \/ silence[r] = Term THEN silence[r] ELSE silence[r] + 1]
        /\ UNCHANGED <<pc, request, held, work, lease, verdict, spent, answered, sends, faults>>
    BY <1>12 DEF Tick
  <2>2. clock' \in [Devices -> Nat] /\ silence' \in [DueRuns -> Nat]
    BY <1>0, <2>1 DEF AutoType
  <2> QED BY <1>0, <2>1, <2>2 DEF AutoType
<1> QED BY <1>1, <1>2, <1>3, <1>4, <1>6, <1>7, <1>8, <1>9, <1>10, <1>11, <1>12 DEF Next, Claim, Breaks


\* A new id has no answer yet, and what the old one was granted is known.
LEMMA TokenStep ==
    ASSUME TokenInv, [Next]_autoVars
    PROVE  TokenInv'
<1>0. AutoType /\ HoldersAreKnown /\ LeasesAreKnown /\ AutoType'
  BY AutoTypeStep DEF TokenInv
<1>1. ASSUME NothingNew PROVE TokenInv'
  BY <1>0, <1>1, TokensStay
<1>2. CASE UNCHANGED autoVars
  <2>1. UNCHANGED <<pc, request, held, work, lease, verdict, spent, answered>>
    BY <1>2 DEF autoVars, dispatcher, cloud
  <2>2. NothingNew
    BY <1>0, <2>1 DEF NothingNew, HoldersAreKnown, Holds
  <2> QED BY <1>1, <2>2
<1>3. ASSUME NEW d \in Devices, UNCHANGED <<request, spent, answered>>,
             Release(d) \/ (Holds(d) /\ \E w \in Works : work' = [work EXCEPT ![d] = w] /\ UNCHANGED <<pc, held>>),
             UNCHANGED <<lease, verdict>> \/ (Holds(d) /\ Settle(d))
      PROVE  NothingNew
  <2>1. ASSUME NEW e \in Devices, Holds(e)' PROVE Holds(e) /\ held'[e] = held[e] /\ work'[e] \in Works
    <3>1. CASE Release(d)
      <4>1. e # d
        BY <2>1, <3>1, Lets
      <4>2. Holds(e) /\ held'[e] = held[e] /\ work'[e] = work[e]
        BY <2>1, <3>1, <4>1, Lets DEF Holds
      <4> QED BY <1>0, <4>2 DEF HoldersAreKnown
    <3>2. ASSUME NEW w \in Works, work' = [work EXCEPT ![d] = w], UNCHANGED <<pc, held>>, Holds(d)
          PROVE Holds(e) /\ held'[e] = held[e] /\ work'[e] \in Works
      <4>1. Holds(e) /\ held'[e] = held[e]
        BY <2>1, <3>2 DEF Holds
      <4>2. work[e] \in Works
        BY <1>0, <4>1 DEF HoldersAreKnown
      <4>3. work'[e] \in Works
        BY <1>0, <3>2, <4>2 DEF AutoType
      <4> QED BY <4>1, <4>3
    <3> QED BY <1>3, <3>1, <3>2
  <2>2. ASSUME NEW r \in DueRuns
        PROVE  /\ lease'[r] # NoToken => lease'[r] = lease[r] /\ verdict'[r] = verdict[r]
               /\ verdict'[r] = verdict[r] \/ verdict'[r].token \in answered
    <3>1. CASE Holds(d) /\ Settle(d)
      <4>1. /\ lease' = [lease EXCEPT ![held[d].run] = NoToken]
            /\ verdict' = [verdict EXCEPT ![held[d].run] = [status |-> work[d].status, delivery |-> work[d].delivery,
                                                          token |-> held[d].token]]
        BY <3>1, Settles
      <4>2. held[d].token \in answered
        BY <3>1, WorkingHolds
      <4> QED BY <1>0, <4>1, <4>2 DEF AutoType
    <3>2. CASE UNCHANGED <<lease, verdict>>
      BY <3>2
    <3> QED BY <1>3, <3>1, <3>2
  <2> QED BY <1>3, <2>1, <2>2 DEF NothingNew
<1>4. ASSUME NEW d \in Devices, Beat(d) \/ BeatLost(d) PROVE NothingNew
  <2>1. CASE Freeze(d) \/ BeatArrives(d) \/ BeatAnswered(d)
    <3>1. /\ UNCHANGED <<request, held, work, lease, verdict, spent, answered>>
          /\ Holds(d) /\ \E p : pc' = [pc EXCEPT ![d] = p]
      BY <2>1 DEF Freeze, BeatArrives, BeatAnswered, cloud, Holds
    <3>2. ASSUME NEW e \in Devices, Holds(e)' PROVE Holds(e)
      BY <1>0, <3>1, <3>2 DEF Holds, AutoType
    <3> QED BY <1>0, <3>1, <3>2 DEF NothingNew, HoldersAreKnown
  <2>2. CASE BeatRefused(d) \/ BeatLost(d)
    <3>1. Release(d) /\ UNCHANGED <<request, cloud, answered>>
      BY <2>2 DEF BeatRefused, BeatLost
    <3> QED BY <1>3, <3>1 DEF cloud
  <2> QED BY <1>4, <2>1, <2>2 DEF Beat
<1>5. ASSUME NEW d \in Devices, Execute(d) \/ ReportLost(d) PROVE NothingNew
  <2>1. Holds(d)
    BY <1>5 DEF Execute, WorkEnds, Submit, Collect, Deliver, Delivered, ReportAnswered, ReportRefused, ReportLost,
       Working, Holds
  <2>2. CASE WorkEnds(d) \/ Submit(d) \/ Collect(d) \/ Deliver(d) \/ Delivered(d)
    <3>1. PICK w : WorksOn(d, w)
      BY <2>1, <2>2, WorkIsWork
    <3>2. w \in Works /\ work' = [work EXCEPT ![d] = w] /\ UNCHANGED <<pc, held>>
          /\ UNCHANGED <<request, spent, answered, lease, verdict>>
      BY <3>1 DEF WorksOn, cloud
    <3> QED BY <1>3, <2>1, <3>2
  <2>3. CASE ReportAnswered(d)
    <3>1. Settle(d) /\ Release(d) /\ UNCHANGED <<request, answered>>
      BY <2>3 DEF ReportAnswered
    <3>2. UNCHANGED spent
      BY <3>1 DEF Settle
    <3> QED BY <1>3, <2>1, <3>1, <3>2
  <2>4. CASE ReportLost(d) \/ ReportRefused(d)
    <3>1. /\ TryAgain(d) /\ UNCHANGED <<request, answered>> /\ work[d].stage = "reporting"
          /\ Settle(d) \/ UNCHANGED cloud
      BY <2>4 DEF ReportLost, ReportRefused, Working
    <3>2. UNCHANGED spent
      BY <3>1 DEF Settle, cloud
    <3>3. Release(d) \/ \E w \in Works : work' = [work EXCEPT ![d] = w] /\ UNCHANGED <<pc, held>>
      BY <2>1, <3>1, Retries DEF Becomes
    <3> QED BY <1>3, <2>1, <3>1, <3>2, <3>3 DEF cloud
  <2> QED BY <1>5, <2>2, <2>3, <2>4 DEF Execute
<1>6. ASSUME NEW r \in DueRuns, Expire(r) PROVE NothingNew
  BY <1>0, <1>6 DEF NothingNew, Expire, dispatcher, HoldersAreKnown, Holds, AutoType
<1>7. ASSUME Tick PROVE NothingNew
  BY <1>0, <1>7 DEF NothingNew, Tick, HoldersAreKnown, Holds
<1>8. ASSUME NEW d \in Devices, NEW e \in Devices, e # d, request' = [request EXCEPT ![d] = Fresh(d)] \/ request' = request
      PROVE  Token(e)' = Token(e) /\ Token(e) # Token(d) /\ Token(e) \notin answered /\ Token(e)[1] = e /\ Token(d)[1] = d
  <2>1. Token(e) \notin answered
    BY <1>0 DEF HoldersAreKnown
  <2>2. Token(e)' = Token(e)
    BY <1>0, <1>8 DEF AutoType, Token
  <2>3. Token(e) # Token(d) /\ Token(e)[1] = e /\ Token(d)[1] = d
    BY <1>8 DEF Token
  <2> QED BY <2>1, <2>2, <2>3
\* Its own token is new, and those of the others have not been answered.
<1>9. ASSUME NEW d \in Devices, request' = [request EXCEPT ![d] = Fresh(d)], spent' = spent \cup {Token(d)} \/ spent' = spent,
             answered' \subseteq answered \cup {Token(d)}, NEW e \in Devices
      PROVE  Token(e)' \notin answered'
  <2>1. CASE e = d
    <3>1. Token(d)' = <<d, Fresh(d)>>
      BY <1>0, <1>9 DEF Token, AutoType
    <3>2. <<d, Fresh(d)>> \notin spent'
      BY <1>0, NewRequest DEF AutoType
    <3>3. answered' \subseteq spent'
      BY <1>0 DEF AutoType
    <3> QED BY <2>1, <3>1, <3>2, <3>3
  <2>2. CASE e # d
    BY <1>8, <1>9, <2>2
  <2> QED BY <2>1, <2>2
<1>10. ASSUME NEW d \in Devices, ClaimAnswered(d) PROVE TokenInv'
  <2>1. PICK r \in DueRuns : Grant(d, r) /\ held' = [held EXCEPT ![d] = [run |-> r, token |-> Token(d)]]
    BY <1>10 DEF ClaimAnswered
  <2>2. /\ Token(d) \in Tokens /\ lease' = [lease EXCEPT ![r] = Token(d)] /\ verdict[r] = NoVerdict
        /\ spent' = spent \cup {Token(d)} /\ verdict' = verdict
    BY <2>1, Granting
  <2>3. /\ answered' = answered \cup {Token(d)} /\ work' = [work EXCEPT ![d] = Started]
        /\ pc' = [pc EXCEPT ![d] = "proving"] /\ request' = [request EXCEPT ![d] = Fresh(d)]
    BY <1>10 DEF ClaimAnswered, Renew
  <2>4. HoldersAreKnown'
    <3> SUFFICES ASSUME NEW e \in Devices
                 PROVE  /\ Token(e)' \notin answered'
                        /\ Holds(e)' => held'[e] \in Leases /\ held'[e].token[1] = e /\ held'[e].token \in answered'
                                        /\ work'[e] \in Works
      BY DEF HoldersAreKnown, Holds, Token
    <3>1. Token(e)' \notin answered'
      BY <1>9, <2>2, <2>3
    <3>2. CASE e = d
      <4>1. held'[d] = [run |-> r, token |-> Token(d)] /\ work'[d] = Started
        BY <1>0, <2>1, <2>3 DEF AutoType
      <4>2. Token(d)[1] = d
        BY DEF Token
      <4>3. Started \in Works
        BY DEF Started, NoWork, Works, Stages, Statuses, Outcomes
      <4>4. [run |-> r, token |-> Token(d)] \in Leases
        BY <2>2 DEF Leases
      <4> QED BY <2>3, <3>1, <3>2, <4>1, <4>2, <4>3, <4>4
    <3>3. CASE e # d
      <4>1. held'[e] = held[e] /\ work'[e] = work[e] /\ pc'[e] = pc[e]
        BY <1>0, <2>1, <2>3, <3>3 DEF AutoType
      <4>2. Holds(e)' => held[e] \in Leases /\ held[e].token[1] = e /\ held[e].token \in answered /\ work[e] \in Works
        BY <1>0, <4>1 DEF HoldersAreKnown, Holds
      <4> QED BY <2>3, <3>1, <4>1, <4>2
    <3> QED BY <3>2, <3>3
  <2>5. LeasesAreKnown'
    <3> SUFFICES ASSUME NEW s \in DueRuns
                 PROVE  /\ lease'[s] # NoToken =>
                              /\ lease'[s] \in spent' /\ verdict'[s] = NoVerdict
                              /\ lease'[s] \in answered' \/ \E e \in Devices : lease'[s] = Token(e)'
                        /\ verdict'[s] # NoVerdict => verdict'[s].token \in answered'
      BY DEF LeasesAreKnown, Token
    <3>1. CASE s = r
      <4>1. lease'[r] = Token(d)
        BY <1>0, <2>2 DEF AutoType
      <4> QED BY <2>2, <2>3, <3>1, <4>1
    <3>2. CASE s # r
      <4>1. lease'[s] = lease[s] /\ verdict'[s] = verdict[s]
        BY <1>0, <2>2, <3>2 DEF AutoType
      <4>2. /\ lease[s] # NoToken =>
                  /\ lease[s] \in spent /\ verdict[s] = NoVerdict
                  /\ lease[s] \in answered \/ \E e \in Devices : lease[s] = Token(e)
            /\ verdict[s] # NoVerdict => verdict[s].token \in answered
        BY <1>0 DEF LeasesAreKnown
      <4>3. ASSUME NEW e \in Devices, lease[s] = Token(e)
            PROVE  lease[s] \in answered' \/ \E f \in Devices : lease[s] = Token(f)'
        <5>1. CASE e = d
          BY <2>3, <4>3, <5>1
        <5>2. CASE e # d
          BY <1>8, <2>3, <4>3, <5>2
        <5> QED BY <5>1, <5>2
      <4> QED BY <2>2, <2>3, <4>1, <4>2, <4>3
    <3> QED BY <3>1, <3>2
  <2> QED BY <1>0, <2>4, <2>5 DEF TokenInv

<1>11. ASSUME NEW d \in Devices, ClaimNone(d) PROVE TokenInv'
  <2>1. /\ UNCHANGED <<pc, held, work, lease, verdict, answered, spent>> /\ Grantable(d) = {}
        /\ request' = [request EXCEPT ![d] = IF Token(d) \in spent THEN Fresh(d) ELSE @]
    BY <1>11 DEF ClaimNone
  <2>2. \A r \in DueRuns : lease[r] # Token(d)
    BY <2>1 DEF Grantable, Granted
  <2>3. request' = [request EXCEPT ![d] = Fresh(d)] \/ request' = request
    BY <1>0, <2>1 DEF AutoType
  <2>4. ASSUME NEW e \in Devices PROVE Token(e)' \notin answered'
    <3>1. CASE request' = [request EXCEPT ![d] = Fresh(d)]
      BY <1>9, <2>1, <3>1
    <3>2. CASE request' = request
      BY <1>0, <2>1, <3>2 DEF Token, HoldersAreKnown
    <3> QED BY <2>3, <3>1, <3>2
  <2>5. HoldersAreKnown'
    BY <1>0, <2>1, <2>4 DEF HoldersAreKnown, Holds
  <2>6. ASSUME NEW r \in DueRuns, NEW e \in Devices, lease[r] = Token(e) PROVE lease[r] = Token(e)'
    BY <1>8, <2>2, <2>3, <2>6
  <2>7. LeasesAreKnown'
    BY <1>0, <2>1, <2>6 DEF LeasesAreKnown
  <2> QED BY <1>0, <2>5, <2>7 DEF TokenInv
<1>12. ASSUME NEW d \in Devices, ClaimLost(d) PROVE TokenInv'
  <2>1. PICK r \in DueRuns : Grant(d, r)
    BY <1>12 DEF ClaimLost
  <2>2. UNCHANGED <<pc, held, work, request, answered>>
    BY <1>12 DEF ClaimLost, dispatcher
  <2>3. /\ lease' = [lease EXCEPT ![r] = Token(d)] /\ verdict[r] = NoVerdict
        /\ spent' = spent \cup {Token(d)} /\ verdict' = verdict
    BY <2>1, Granting
  <2>4. HoldersAreKnown'
    BY <1>0, <2>2 DEF HoldersAreKnown, Holds, Token
  <2>5. \A e \in Devices : Token(e)' = Token(e)
    BY <2>2 DEF Token
  <2>6. LeasesAreKnown'
    <3> SUFFICES ASSUME NEW s \in DueRuns
                 PROVE  /\ lease'[s] # NoToken =>
                              /\ lease'[s] \in spent' /\ verdict'[s] = NoVerdict
                              /\ lease'[s] \in answered' \/ \E e \in Devices : lease'[s] = Token(e)'
                        /\ verdict'[s] # NoVerdict => verdict'[s].token \in answered'
      BY DEF LeasesAreKnown, Token
    <3>1. CASE s = r
      <4>1. lease'[r] = Token(d)
        BY <1>0, <2>3 DEF AutoType
      <4> QED BY <2>3, <2>5, <3>1, <4>1
    <3>2. CASE s # r
      <4>1. lease'[s] = lease[s] /\ verdict'[s] = verdict[s]
        BY <1>0, <2>3, <3>2 DEF AutoType
      <4> QED BY <1>0, <2>2, <2>3, <2>5, <4>1 DEF LeasesAreKnown
    <3> QED BY <3>1, <3>2
  <2> QED BY <1>0, <2>4, <2>6 DEF TokenInv
<1>13. ASSUME NEW d \in Devices, Stop(d) PROVE TokenInv'
  <2>1. /\ Release(d) /\ answered' = answered \cup {Token(d)} /\ spent' = spent \cup {Token(d)}
        /\ request' = [request EXCEPT ![d] = Fresh(d)] /\ UNCHANGED <<lease, verdict>>
    BY <1>13 DEF Stop, Renew
  <2>2. \A e \in Devices : Token(e)' \notin answered'
    BY <1>9, <2>1
  <2>3. HoldersAreKnown'
    <3> SUFFICES ASSUME NEW e \in Devices, Holds(e)'
                 PROVE  /\ held'[e] \in Leases /\ held'[e].token[1] = e /\ held'[e].token \in answered'
                        /\ work'[e] \in Works
      BY <2>2 DEF HoldersAreKnown, Holds, Token
    <3>1. e # d
      BY <2>1, Lets
    <3>2. pc'[e] = pc[e] /\ held'[e] = held[e] /\ work'[e] = work[e]
      BY <2>1, <3>1, Lets
    <3>3. held[e] \in Leases /\ held[e].token[1] = e /\ held[e].token \in answered /\ work[e] \in Works
      BY <1>0, <3>2 DEF HoldersAreKnown, Holds
    <3> QED BY <2>1, <3>2, <3>3
  <2>4. ASSUME NEW r \in DueRuns, NEW e \in Devices, lease[r] = Token(e)
        PROVE  lease[r] \in answered' \/ lease[r] = Token(e)'
    <3>1. CASE e = d
      BY <2>1, <2>4, <3>1
    <3>2. CASE e # d
      BY <1>8, <2>1, <2>4, <3>2
    <3> QED BY <3>1, <3>2
  <2>5. LeasesAreKnown'
    BY <1>0, <2>1, <2>4 DEF LeasesAreKnown
  <2> QED BY <1>0, <2>3, <2>5 DEF TokenInv
<1> QED BY <1>1, <1>2, <1>4, <1>5, <1>6, <1>7, <1>10, <1>11, <1>12, <1>13 DEF Next, Claim, Breaks


-----------------------------------------------------------------------------
(* What a dispatcher leaves alone.                                           *)

\* Whoever acts changes nothing of the others, neither at their desks nor
\* under their tokens.
Spares(d) ==
    /\ \A e \in Devices \ {d} :
          pc'[e] = pc[e] /\ held'[e] = held[e] /\ clock'[e] = clock[e] /\ work'[e] = work[e]
    /\ \A r \in DueRuns :
          /\ lease[r] # NoToken /\ lease[r][1] # d => lease'[r] = lease[r] /\ silence'[r] <= silence[r]
          /\ verdict'[r] # verdict[r] => verdict[r] = NoVerdict /\ verdict'[r].token[1] = d
    /\ sends \subseteq sends' /\ \A x \in sends' \ sends : x[1][1] = d

LEMMA OthersAreSpared ==
    ASSUME TokenInv, NEW d \in Devices, Claim(d) \/ Beat(d) \/ Execute(d) \/ Breaks(d)
    PROVE  Spares(d)
<1>0. AutoType
  BY DEF TokenInv
<1> DEFINE Desks == \A e \in Devices \ {d} :
                       pc'[e] = pc[e] /\ held'[e] = held[e] /\ clock'[e] = clock[e] /\ work'[e] = work[e]
           Cloud == \A r \in DueRuns :
                       /\ lease[r] # NoToken /\ lease[r][1] # d => lease'[r] = lease[r] /\ silence'[r] <= silence[r]
                       /\ verdict'[r] # verdict[r] => verdict[r] = NoVerdict /\ verdict'[r].token[1] = d
<1>1. ASSUME UNCHANGED cloud PROVE Cloud
  BY <1>0, <1>1 DEF cloud, AutoType
<1>2. ASSUME NEW r \in DueRuns, Grant(d, r) PROVE Cloud
  <2>1. /\ lease[r] \in {NoToken, Token(d)} /\ lease' = [lease EXCEPT ![r] = Token(d)]
        /\ \A s \in DueRuns : silence'[s] <= silence[s]
        /\ verdict' = verdict
    BY <1>2, Granting
  <2>2. Token(d)[1] = d
    BY DEF Token
  <2> QED BY <1>0, <2>1, <2>2 DEF AutoType
<1>3. ASSUME Holds(d), Settle(d) PROVE Cloud
  <2> DEFINE r == held[d].run
             v == [status |-> work[d].status, delivery |-> work[d].delivery, token |-> held[d].token]
  <2>1. held[d].token[1] = d /\ r \in DueRuns
    BY <1>3, WorkingHolds
  <2>2. /\ lease[r] = held[d].token /\ verdict[r] = NoVerdict /\ lease' = [lease EXCEPT ![r] = NoToken]
        /\ verdict' = [verdict EXCEPT ![r] = v] /\ silence' = silence
    BY <1>3, Settles
  <2>3. v.token = held[d].token
    OBVIOUS
  <2> HIDE DEF v, r
  <2>4. \A s \in DueRuns : silence'[s] <= silence[s]
    BY <1>0, <2>2 DEF AutoType
  <2>5. \A s \in DueRuns : verdict'[s] # verdict[s] => s = r /\ verdict'[s] = v
    BY <1>0, <2>2 DEF AutoType
  <2>6. \A s \in DueRuns : lease[s] # NoToken /\ lease[s][1] # d => s # r /\ lease'[s] = lease[s]
    BY <1>0, <2>1, <2>2 DEF AutoType
  <2> QED BY <2>1, <2>2, <2>3, <2>4, <2>5, <2>6
<1>4. ASSUME Desks, Cloud, sends' = sends PROVE Spares(d)
  BY <1>4 DEF Spares
<1>5. ASSUME Release(d) PROVE Desks
  BY <1>5, Lets
<1>6. CASE ClaimAnswered(d)
  <2>1. (\E r \in DueRuns : Grant(d, r) /\ held' = [held EXCEPT ![d] = [run |-> r, token |-> Token(d)]]) /\ sends' = sends
    BY <1>6 DEF ClaimAnswered
  <2>2. Desks
    BY <1>0, <1>6, <2>1 DEF ClaimAnswered, AutoType
  <2>3. Cloud
    BY <1>2, <2>1
  <2> HIDE DEF Desks, Cloud
  <2> QED BY <1>4, <2>1, <2>2, <2>3
<1>7. CASE ClaimNone(d)
  <2>1. UNCHANGED <<pc, held, clock, work, lease, silence, verdict, sends, spent>>
    BY <1>7 DEF ClaimNone
  <2>2. Desks /\ UNCHANGED cloud
    BY <2>1 DEF cloud
  <2>3. Cloud
    BY <1>1, <2>2
  <2> HIDE DEF Desks, Cloud
  <2> QED BY <1>4, <2>1, <2>2, <2>3
<1>8. CASE ClaimLost(d)
  <2>1. (\E r \in DueRuns : Grant(d, r)) /\ UNCHANGED <<dispatcher, sends>>
    BY <1>8 DEF ClaimLost
  <2>2. Desks
    BY <2>1 DEF dispatcher
  <2>3. Cloud
    BY <1>2, <2>1
  <2> HIDE DEF Desks, Cloud
  <2> QED BY <1>4, <2>1, <2>2, <2>3
<1>9. CASE Freeze(d) \/ BeatAnswered(d)
  <2>1. Desks /\ UNCHANGED cloud /\ sends' = sends
    BY <1>0, <1>9 DEF Freeze, BeatAnswered, AutoType
  <2>2. Cloud
    BY <1>1, <2>1
  <2> HIDE DEF Desks, Cloud
  <2> QED BY <1>4, <2>1, <2>2
<1>10. CASE BeatArrives(d)
  <2> DEFINE r == held[d].run
             current == lease[r] = held[d].token
  <2>1. /\ pc' = [pc EXCEPT ![d] = IF current THEN "proved" ELSE "refused"]
        /\ silence' = [silence EXCEPT ![r] = IF current THEN 0 ELSE @]
        /\ UNCHANGED <<held, clock, work, lease, verdict, sends>>
    BY <1>10 DEF BeatArrives
  <2> HIDE DEF r, current
  <2>2. Desks
    BY <1>0, <2>1 DEF AutoType
  <2>3. Cloud
    <3>1. \A s \in DueRuns : silence'[s] <= silence[s]
      <4>1. CASE current
        BY <1>0, <2>1, <4>1 DEF AutoType
      <4>2. CASE ~current
        BY <1>0, <2>1, <4>2 DEF AutoType
      <4> QED BY <4>1, <4>2
    <3> QED BY <2>1, <3>1
  <2> HIDE DEF Desks, Cloud
  <2> QED BY <1>4, <2>1, <2>2, <2>3
<1>11. CASE BeatRefused(d) \/ BeatLost(d)
  <2>1. Release(d) /\ UNCHANGED cloud /\ sends' = sends
    BY <1>11 DEF BeatRefused, BeatLost
  <2>2. Desks /\ Cloud
    BY <1>1, <1>5, <2>1
  <2> HIDE DEF Desks, Cloud
  <2> QED BY <1>4, <2>1, <2>2
<1>12. CASE WorkEnds(d) \/ Submit(d) \/ Collect(d) \/ Deliver(d) \/ Delivered(d)
  <2>1. Holds(d)
    BY <1>12 DEF WorkEnds, Submit, Collect, Deliver, Delivered, Working, Holds
  <2>2. PICK w : WorksOn(d, w)
    BY <1>12, <2>1, WorkIsWork
  <2>3. Desks /\ UNCHANGED cloud
    BY <1>0, <2>2 DEF WorksOn, AutoType
  <2>4. Cloud
    BY <1>1, <2>3
  <2>5. sends \subseteq sends' /\ \A x \in sends' \ sends : x[1][1] = d
    <3>1. CASE Deliver(d)
      BY <2>1, <3>1, Sends, WorkingHolds
    <3>2. CASE ~Deliver(d)
      BY <1>12, <2>1, <3>2, WorkIsWork
    <3> QED BY <3>1, <3>2
  <2> QED BY <2>3, <2>4, <2>5 DEF Spares
<1>13. CASE ReportAnswered(d)
  <2>1. Settle(d) /\ Release(d) /\ sends' = sends /\ Holds(d)
    BY <1>13 DEF ReportAnswered, Working, Holds
  <2>2. Desks /\ Cloud
    BY <1>3, <1>5, <2>1
  <2> HIDE DEF Desks, Cloud
  <2> QED BY <1>4, <2>1, <2>2
<1>14. CASE ReportLost(d) \/ ReportRefused(d)
  <2>1. /\ TryAgain(d) /\ work[d].stage = "reporting" /\ Holds(d) /\ sends' = sends
        /\ Settle(d) \/ UNCHANGED cloud
    BY <1>14 DEF ReportLost, ReportRefused, Working, Holds
  <2>2. Cloud
    BY <1>1, <1>3, <2>1
  <2>3. Desks
    <3>1. CASE Release(d)
      BY <1>5, <3>1
    <3>2. ASSUME NEW w \in Works, Becomes(d, w), UNCHANGED <<pc, held, clock>> PROVE Desks
      BY <1>0, <3>2 DEF Becomes, AutoType
    <3> QED BY <2>1, <3>1, <3>2, Retries
  <2> HIDE DEF Desks, Cloud
  <2> QED BY <1>4, <2>1, <2>2, <2>3
<1>15. CASE Stop(d)
  <2>1. Release(d) /\ UNCHANGED <<lease, silence, verdict, sends>>
    BY <1>15 DEF Stop
  <2>2. Desks
    BY <1>5, <2>1
  <2>3. Cloud
    BY <1>0, <2>1 DEF AutoType
  <2> HIDE DEF Desks, Cloud
  <2> QED BY <1>4, <2>1, <2>2, <2>3
<1> QED BY <1>6, <1>7, <1>8, <1>9, <1>10, <1>11, <1>12, <1>13, <1>14, <1>15 DEF Claim, Beat, Execute, Breaks


-----------------------------------------------------------------------------
(* Leases.                                                                   *)

LEMMA TokensTellApart ==
    ASSUME TokenInv, NEW d \in Devices, NEW e \in Devices \ {d}, Spares(d), Holds(e)
    PROVE  /\ held'[e] = held[e] /\ held[e].run \in DueRuns
           /\ lease[held[e].run] = held[e].token =>
                 lease'[held[e].run] = held[e].token /\ silence'[held[e].run] <= silence[held[e].run]
           /\ \A r \in DueRuns : verdict[r].token = held[e].token => verdict'[r].token = held[e].token
           /\ \A r \in DueRuns : verdict'[r].token = held[e].token => verdict[r].token = held[e].token
           /\ Tried(held[e].token)' = Tried(held[e].token) /\ Confirmed(held[e].token)' = Confirmed(held[e].token)
<1>1. held'[e] = held[e] /\ held[e].run \in DueRuns /\ held[e].token # NoToken /\ held[e].token[1] = e
  BY WorkingHolds DEF Spares
<1>2. lease[held[e].run] = held[e].token =>
         lease'[held[e].run] = held[e].token /\ silence'[held[e].run] <= silence[held[e].run]
  BY <1>1 DEF Spares
<1>3. NoVerdict.token = NoToken
  BY DEF NoVerdict
<1>4. ASSUME NEW r \in DueRuns PROVE verdict[r].token = held[e].token <=> verdict'[r].token = held[e].token
  <2>1. verdict'[r] # verdict[r] => verdict[r] = NoVerdict /\ verdict'[r].token[1] = d
    BY DEF Spares
  <2> QED BY <1>1, <1>3, <2>1
<1>5. Tried(held[e].token)' = Tried(held[e].token) /\ Confirmed(held[e].token)' = Confirmed(held[e].token)
  <2>1. ASSUME NEW t \in Targets, NEW how
        PROVE  <<held[e].token, t, how>> \in sends' <=> <<held[e].token, t, how>> \in sends
    <3>1. <<held[e].token, t, how>>[1] = held[e].token
      OBVIOUS
    <3> QED BY <1>1, <3>1 DEF Spares
  <2> QED BY <1>1, <2>1 DEF Tried, Confirmed
<1> QED BY <1>1, <1>2, <1>4, <1>5

LEMMA OthersLeasesHold ==
    ASSUME TokenInv, LeaseInv, AutoType', NEW d \in Devices, Spares(d), NEW e \in Devices \ {d}
    PROVE  LeaseIsCurrent(e)'
<1>0. pc'[e] = pc[e] /\ clock'[e] = clock[e] /\ clock[e] \in Nat
  BY DEF Spares, TokenInv, AutoType
<1>1. CASE ~Holds(e)
  BY <1>0, <1>1 DEF Holds, LeaseIsCurrent
<1>2. CASE Holds(e)
  <2> DEFINE r == held[e].run
             t == held[e].token
  <2>1. /\ held'[e] = held[e] /\ r \in DueRuns
        /\ lease[r] = t => lease'[r] = t /\ silence'[r] <= silence[r]
        /\ verdict[r].token = t => verdict'[r].token = t
    BY <1>2, TokensTellApart
  <2>2. silence[r] \in Nat
    BY <2>1 DEF TokenInv, AutoType
  <2>4. LeaseIsCurrent(e)
    BY DEF LeaseInv
  <2>5. silence'[r] \in Nat
    BY <2>1 DEF AutoType
  <2> QED BY <1>0, <2>1, <2>2, <2>4, <2>5, AutomationAssumption DEF LeaseIsCurrent
<1> QED BY <1>1, <1>2


LEMMA LeaseStep ==
    ASSUME TokenInv, LeaseInv, [Next]_autoVars
    PROVE  LeaseInv'
<1> USE AutomationAssumption
<1>0. AutoType /\ AutoType' /\ TokenInv'
  BY TokenStep DEF TokenInv
<1>1. CASE UNCHANGED autoVars
  BY <1>1 DEF autoVars, dispatcher, cloud, LeaseInv, LeaseIsCurrent
\* Who acts keeps to its own lease.
<1>2. ASSUME NEW d \in Devices, Claim(d) \/ Beat(d) \/ Execute(d) \/ Breaks(d), LeaseIsCurrent(d)' PROVE LeaseInv'
  <2>1. Spares(d)
    BY <1>2, OthersAreSpared
  <2>2. ASSUME NEW e \in Devices \ {d} PROVE LeaseIsCurrent(e)'
    BY <1>0, <2>1, OthersLeasesHold
  <2>3. \A e \in Devices : LeaseIsCurrent(e)'
    BY <1>2, <2>2
  <2> QED BY <2>3 DEF LeaseInv
<1>3. ASSUME NEW d \in Devices, ~Holds(d)' PROVE LeaseIsCurrent(d)'
  BY <1>3 DEF Holds, LeaseIsCurrent
<1>4. ASSUME NEW d \in Devices, Claim(d) PROVE LeaseIsCurrent(d)'
  <2>1. CASE ClaimAnswered(d)
    <3>1. pc' = [pc EXCEPT ![d] = "proving"] /\ clock' = [clock EXCEPT ![d] = 0]
      BY <2>1 DEF ClaimAnswered
    <3>2. pc'[d] = "proving" /\ clock'[d] = 0
      BY <1>0, <3>1 DEF AutoType
    <3> QED BY <3>2 DEF LeaseIsCurrent
  <2>2. CASE ClaimNone(d)
    BY <1>3, <2>2 DEF ClaimNone, Holds
  <2> QED BY <1>4, <2>1, <2>2 DEF Claim
<1>5. ASSUME NEW d \in Devices, Beat(d) PROVE LeaseIsCurrent(d)'
  <2>0. LeaseIsCurrent(d) /\ clock[d] \in Nat
    BY <1>0 DEF LeaseInv, AutoType
  <2>1. CASE Freeze(d)
    <3>1. pc' = [pc EXCEPT ![d] = "proving"] /\ clock' = [clock EXCEPT ![d] = 0]
      BY <2>1 DEF Freeze
    <3>2. pc'[d] = "proving" /\ clock'[d] = 0
      BY <1>0, <3>1 DEF AutoType
    <3> QED BY <3>2 DEF LeaseIsCurrent
  <2>2. CASE BeatArrives(d)
    <3> DEFINE r == held[d].run
               current == lease[r] = held[d].token
    <3>1. /\ pc[d] = "proving" /\ pc' = [pc EXCEPT ![d] = IF current THEN "proved" ELSE "refused"]
          /\ silence' = [silence EXCEPT ![r] = IF current THEN 0 ELSE @]
          /\ UNCHANGED <<held, clock, lease, verdict>>
      BY <2>2 DEF BeatArrives
    <3>2. r \in DueRuns
      BY <3>1, WorkingHolds DEF Holds
    <3>3. clock[d] <= Timeout
      BY <2>0, <3>1 DEF LeaseIsCurrent
    <3>4. CASE current
      <4>1. pc'[d] = "proved" /\ silence'[r] = 0
        BY <1>0, <3>1, <3>2, <3>4 DEF AutoType
      <4> QED BY <2>0, <3>1, <3>3, <3>4, <4>1 DEF LeaseIsCurrent
    <3>5. CASE ~current
      <4>1. pc'[d] = "refused"
        BY <1>0, <3>1, <3>5 DEF AutoType
      <4> QED BY <4>1 DEF LeaseIsCurrent
    <3> QED BY <3>4, <3>5
  <2>3. CASE BeatAnswered(d)
    <3>1. /\ pc[d] = "proved" /\ pc' = [pc EXCEPT ![d] = "working"] /\ clock' = [clock EXCEPT ![d] = 0]
          /\ UNCHANGED <<held, lease, silence, verdict>>
      BY <2>3 DEF BeatAnswered, cloud
    <3>2. pc'[d] = "working" /\ clock'[d] = 0
      BY <1>0, <3>1 DEF AutoType
    <3>3. lease[held[d].run] = held[d].token /\ silence[held[d].run] <= clock[d] /\ clock[d] <= Timeout
      BY <2>0, <3>1 DEF LeaseIsCurrent
    <3>4. silence[held[d].run] \in Nat
      BY <1>0, <3>1, WorkingHolds DEF Holds, AutoType
    <3>5. silence[held[d].run] <= Timeout + 0 /\ 0 <= Interval
      BY <2>0, <3>3, <3>4
    <3> QED BY <3>1, <3>2, <3>3, <3>5 DEF LeaseIsCurrent
  <2>4. CASE BeatRefused(d)
    BY <1>3, <2>4, Lets DEF BeatRefused
  <2> QED BY <1>5, <2>1, <2>2, <2>3, <2>4 DEF Beat
\* Reporting a run ends its lease, with its own verdict.
<1>6. ASSUME NEW d \in Devices, pc[d] = "working", UNCHANGED <<pc, held, clock, silence>>,
             UNCHANGED <<lease, verdict>> \/ Settle(d)
      PROVE  LeaseIsCurrent(d)'
  <2>0. LeaseIsCurrent(d) /\ Holds(d)
    BY <1>6 DEF LeaseInv, Holds
  <2>1. CASE UNCHANGED <<lease, verdict>>
    BY <1>6, <2>0, <2>1 DEF LeaseIsCurrent
  <2>2. CASE Settle(d)
    <3> DEFINE v == [status |-> work[d].status, delivery |-> work[d].delivery, token |-> held[d].token]
    <3>1. verdict' = [verdict EXCEPT ![held[d].run] = v] /\ held[d].run \in DueRuns
      BY <2>0, <2>2, Settles, WorkingHolds
    <3>2. v.token = held[d].token
      OBVIOUS
    <3> HIDE DEF v
    <3>3. verdict'[held[d].run].token = held[d].token
      BY <1>0, <3>1, <3>2 DEF AutoType
    <3> QED BY <1>6, <3>3 DEF LeaseIsCurrent
  <2> QED BY <1>6, <2>1, <2>2
<1>7. ASSUME NEW d \in Devices, Execute(d) \/ ReportLost(d) PROVE LeaseIsCurrent(d)'
  <2>1. Holds(d) /\ pc[d] = "working"
    BY <1>7 DEF Execute, WorkEnds, Submit, Collect, Deliver, Delivered, ReportAnswered, ReportRefused, ReportLost,
       Working, Holds
  <2>2. CASE WorkEnds(d) \/ Submit(d) \/ Collect(d) \/ Deliver(d) \/ Delivered(d)
    <3>1. PICK w : WorksOn(d, w)
      BY <2>1, <2>2, WorkIsWork
    <3>2. UNCHANGED <<pc, held, clock, silence>> /\ UNCHANGED <<lease, verdict>>
      BY <3>1 DEF WorksOn, cloud
    <3> QED BY <1>6, <2>1, <3>2
  <2>3. CASE ReportAnswered(d)
    BY <1>3, <2>3, Lets DEF ReportAnswered
  <2>4. CASE ReportLost(d) \/ ReportRefused(d)
    <3>1. TryAgain(d) /\ work[d].stage = "reporting" /\ (Settle(d) \/ UNCHANGED cloud)
      BY <2>4 DEF ReportLost, ReportRefused, Working
    <3>2. UNCHANGED silence /\ (Settle(d) \/ UNCHANGED <<lease, verdict>>)
      BY <3>1 DEF Settle, cloud
    <3>3. CASE Release(d)
      BY <1>3, <3>3, Lets
    <3>4. CASE UNCHANGED <<pc, held, clock>>
      BY <1>6, <2>1, <3>2, <3>4
    <3> QED BY <2>1, <3>1, <3>3, <3>4, Retries
  <2> QED BY <1>7, <2>2, <2>3, <2>4 DEF Execute
<1>8. ASSUME NEW d \in Devices, Breaks(d) PROVE LeaseIsCurrent(d)'
  <2>1. CASE ClaimLost(d)
    BY <1>3, <2>1 DEF ClaimLost, dispatcher, Holds
  <2>2. CASE BeatLost(d) \/ Stop(d)
    BY <1>3, <2>2, Lets DEF BeatLost, Stop
  <2> QED BY <1>7, <1>8, <2>1, <2>2 DEF Breaks
\* The cloud takes back only what has been silent for longer than any work goes on.
<1>9. ASSUME NEW r \in DueRuns, Expire(r) PROVE LeaseInv'
  <2>1. /\ lease[r] # NoToken /\ silence[r] >= Term /\ lease' = [lease EXCEPT ![r] = NoToken]
        /\ UNCHANGED <<pc, held, clock, silence, verdict>>
    BY <1>9 DEF Expire, dispatcher
  <2>2. ASSUME NEW d \in Devices PROVE LeaseIsCurrent(d)'
    <3>0. LeaseIsCurrent(d) /\ clock[d] \in Nat /\ silence[r] \in Nat
      BY <1>0 DEF LeaseInv, AutoType
    <3>1. CASE held[d].run # r
      <4>1. lease'[held[d].run] = lease[held[d].run]
        BY <1>0, <2>1, <3>1 DEF AutoType
      <4> QED BY <2>1, <3>0, <4>1 DEF LeaseIsCurrent
    <3>2. CASE held[d].run = r
      <4>1. pc[d] # "proved"
        BY <2>1, <3>0, <3>2 DEF LeaseIsCurrent
      <4>2. pc[d] = "working" => verdict[r].token = held[d].token
        BY <2>1, <3>0, <3>2 DEF LeaseIsCurrent
      <4> QED BY <2>1, <3>0, <3>2, <4>1, <4>2 DEF LeaseIsCurrent
    <3> QED BY <3>1, <3>2
  <2> QED BY <2>2 DEF LeaseInv
<1>10. ASSUME Tick PROVE LeaseInv'
  <2>1. /\ \A d \in Devices : CASE pc[d] = "working" -> clock[d] < Interval
                                [] pc[d] = "polling" -> TRUE
                                [] OTHER -> clock[d] < Timeout
        /\ clock' = [d \in Devices |-> IF pc[d] = "polling" THEN 0 ELSE clock[d] + 1]
        /\ silence' = [r \in DueRuns |-> IF lease[r] = NoToken \/ silence[r] = Term THEN silence[r] ELSE silence[r] + 1]
        /\ UNCHANGED <<pc, held, lease, verdict>>
    BY <1>10 DEF Tick
  <2>2. ASSUME NEW d \in Devices PROVE LeaseIsCurrent(d)'
    <3>0. LeaseIsCurrent(d) /\ clock[d] \in Nat
      BY <1>0 DEF LeaseInv, AutoType
    <3>1. CASE ~Holds(d)
      BY <2>1, <3>1 DEF LeaseIsCurrent, Holds
    <3>2. CASE Holds(d)
      <4>1. held[d].run \in DueRuns /\ silence[held[d].run] \in Nat
        BY <1>0, <3>2, WorkingHolds DEF AutoType
      <4>2. clock'[d] = clock[d] + 1
        BY <2>1, <3>2 DEF Holds
      <4>3. silence'[held[d].run] <= silence[held[d].run] + 1 /\ silence'[held[d].run] \in Nat
        BY <2>1, <4>1
      <4>4. pc[d] = "working" => clock[d] < Interval
        BY <2>1
      <4>5. pc[d] \in {"proving", "proved"} => clock[d] < Timeout
        BY <2>1
      <4> QED BY <2>1, <3>0, <4>1, <4>2, <4>3, <4>4, <4>5 DEF LeaseIsCurrent
    <3> QED BY <3>1, <3>2
  <2> QED BY <2>2 DEF LeaseInv
<1>11. ASSUME NEW d \in Devices, Claim(d) \/ Beat(d) \/ Execute(d) \/ Breaks(d) PROVE LeaseInv'
  <2>1. LeaseIsCurrent(d)'
    BY <1>4, <1>5, <1>7, <1>8, <1>11
  <2> QED BY <1>2, <1>11, <2>1
<1> QED BY <1>1, <1>9, <1>10, <1>11 DEF Next


-----------------------------------------------------------------------------
(* Reports.                                                                  *)

\* What is known of the work of a dispatcher.
Knows(d) == Holds(d) => Begun(d) /\ Delivering(d) /\ Reporting(d)

LEMMA OthersReportsHold ==
    ASSUME TokenInv, ReportInv, NEW d \in Devices, Spares(d), NEW e \in Devices \ {d}
    PROVE  Knows(e)'
<1>0. pc'[e] = pc[e] /\ work'[e] = work[e]
  BY DEF Spares
<1>1. CASE ~Holds(e)
  BY <1>0, <1>1 DEF Knows, Holds
<1>2. CASE Holds(e)
  <2> DEFINE t == held[e].token
  <2>1. /\ held'[e] = held[e] /\ Tried(t)' = Tried(t) /\ Confirmed(t)' = Confirmed(t)
        /\ \A r \in DueRuns : verdict'[r].token = t => verdict[r].token = t
    BY <1>2, TokensTellApart
  <2>2. Begun(e) /\ Delivering(e) /\ Reporting(e)
    BY <1>2 DEF ReportInv
  <2>3. Tried(held[e].token)' = Tried(t) /\ Confirmed(held[e].token)' = Confirmed(t)
    BY <2>1
  <2>4. Begun(e)'
    BY <1>0, <2>1, <2>2, <2>3 DEF Begun
  <2>5. Delivering(e)'
    BY <1>0, <2>1, <2>2, <2>3 DEF Delivering
  <2>6. Reporting(e)'
    BY <1>0, <2>1, <2>2, <2>3 DEF Reporting, Tells
  <2> QED BY <2>4, <2>5, <2>6 DEF Knows
<1> QED BY <1>1, <1>2


VerdictsTell == \A r \in DueRuns : verdict[r] # NoVerdict => Tells(verdict[r].delivery, verdict[r].token)

LEMMA ReportStep ==
    ASSUME TokenInv, ReportInv, [Next]_autoVars
    PROVE  ReportInv'
<1>0. AutoType /\ AutoType' /\ VerdictsTell /\ \A d \in Devices : Knows(d)
  BY TokenStep DEF TokenInv, ReportInv, VerdictsTell, Knows
<1>1. ASSUME VerdictsTell', \A d \in Devices : Knows(d)' PROVE ReportInv'
  BY <1>1 DEF ReportInv, VerdictsTell, Knows
<1>2. ASSUME NEW d \in Devices, Claim(d) \/ Beat(d) \/ Execute(d) \/ Breaks(d), Knows(d)', VerdictsTell' PROVE ReportInv'
  <2>1. Spares(d)
    BY <1>2, OthersAreSpared
  <2>2. ASSUME NEW e \in Devices \ {d} PROVE Knows(e)'
    BY <2>1, OthersReportsHold
  <2>3. \A e \in Devices : Knows(e)'
    BY <1>2, <2>2
  <2> QED BY <1>1, <1>2, <2>3
<1>3. ASSUME sends' = sends PROVE \A t : Tried(t)' = Tried(t) /\ Confirmed(t)' = Confirmed(t)
  BY <1>3 DEF Tried, Confirmed
<1>4. ASSUME sends' = sends, verdict' = verdict PROVE VerdictsTell'
  BY <1>0, <1>3, <1>4 DEF VerdictsTell, Tells
<1>5. ASSUME NEW d \in Devices, UNCHANGED <<held, work, verdict, sends>>, Holds(d) PROVE Knows(d)'
  <2>1. Begun(d) /\ Delivering(d) /\ Reporting(d)
    BY <1>0, <1>5 DEF Knows
  <2>2. Begun(d)' /\ Delivering(d)' /\ Reporting(d)'
    BY <1>5, <2>1 DEF Begun, Delivering, Reporting, Tried, Confirmed, Tells
  <2> QED BY <2>2 DEF Knows
<1>6. ASSUME NEW d \in Devices, ~Holds(d)' PROVE Knows(d)'
  BY <1>6 DEF Knows
\* What a report says is settled as it was, or settled already.
<1>7. ASSUME NEW d \in Devices, Holds(d), work[d].stage = "reporting", sends' = sends, Settle(d) \/ verdict' = verdict
      PROVE  VerdictsTell'
  <2>1. CASE verdict' = verdict
    BY <1>4, <1>7, <2>1
  <2>2. CASE Settle(d)
    <3> DEFINE v == [status |-> work[d].status, delivery |-> work[d].delivery, token |-> held[d].token]
    <3>1. verdict' = [verdict EXCEPT ![held[d].run] = v]
      BY <1>7, <2>2, Settles
    <3>2. v.delivery = work[d].delivery /\ v.token = held[d].token
      OBVIOUS
    <3> HIDE DEF v
    <3>3. Tells(v.delivery, v.token)
      BY <1>0, <1>7, <3>2 DEF Knows, Reporting
    <3>4. ASSUME NEW r \in DueRuns, verdict'[r] # NoVerdict
          PROVE  Tells(verdict'[r].delivery, verdict'[r].token)
      <4>1. CASE r = held[d].run
        BY <1>0, <3>1, <3>3, <4>1 DEF AutoType
      <4>2. CASE r # held[d].run
        <5>1. verdict'[r] = verdict[r]
          BY <1>0, <3>1, <4>2 DEF AutoType
        <5> QED BY <1>0, <3>4, <5>1 DEF VerdictsTell
      <4> QED BY <4>1, <4>2
    <3> QED BY <1>7, <3>4 DEF VerdictsTell, Tells, Tried, Confirmed
  <2> QED BY <1>7, <2>1, <2>2
<1>8. CASE UNCHANGED autoVars
  <2>1. UNCHANGED <<pc, held, work, verdict, sends>>
    BY <1>8 DEF autoVars, dispatcher, cloud
  <2>2. ASSUME NEW d \in Devices PROVE Knows(d)'
    BY <1>5, <1>6, <2>1 DEF Holds
  <2> QED BY <1>1, <1>4, <2>1, <2>2
<1>9. ASSUME (\E r \in DueRuns : Expire(r)) \/ Tick PROVE ReportInv'
  <2>1. UNCHANGED <<pc, held, work, verdict, sends>>
    BY <1>9 DEF Expire, Tick, dispatcher
  <2>2. ASSUME NEW d \in Devices PROVE Knows(d)'
    BY <1>5, <1>6, <2>1 DEF Holds
  <2> QED BY <1>1, <1>4, <2>1, <2>2
\* Nothing has been sent under a token whose answer has only come now.
<1>10. ASSUME NEW d \in Devices, Claim(d) PROVE ReportInv'
  <2>1. CASE ClaimNone(d)
    <3>1. ~Holds(d)' /\ sends' = sends /\ verdict' = verdict
      BY <2>1 DEF ClaimNone, Holds
    <3> QED BY <1>2, <1>4, <1>6, <1>10, <3>1
  <2>2. CASE ClaimAnswered(d)
    <3>1. PICK r \in DueRuns : Grant(d, r) /\ held' = [held EXCEPT ![d] = [run |-> r, token |-> Token(d)]]
      BY <2>2 DEF ClaimAnswered
    <3>2. verdict' = verdict /\ sends' = sends /\ work' = [work EXCEPT ![d] = Started] /\ Token(d) \in Tokens
      BY <2>2, <3>1, Granting DEF ClaimAnswered
    <3>3. held'[d].token = Token(d) /\ work'[d].stage = "starting"
      <4>1. held'[d] = [run |-> r, token |-> Token(d)] /\ work'[d] = Started
        BY <1>0, <3>1, <3>2 DEF AutoType
      <4>2. Started.stage = "starting"
        BY DEF Started, NoWork
      <4> QED BY <4>1, <4>2
    <3>4. Token(d) \notin answered
      BY DEF TokenInv, HoldersAreKnown
    <3>5. Tried(Token(d)) = {}
      BY <1>0, <3>4 DEF Tried, AutoType
    <3>6. ASSUME NEW s \in DueRuns PROVE verdict[s].token # Token(d)
      <4>1. CASE verdict[s] = NoVerdict
        BY <3>2, <4>1, TokenShape DEF NoVerdict
      <4>2. CASE verdict[s] # NoVerdict
        BY <3>4, <4>2 DEF TokenInv, LeasesAreKnown
      <4> QED BY <4>1, <4>2
    <3>7. Begun(d)' /\ Delivering(d)' /\ Reporting(d)'
      BY <3>2, <3>3, <3>5, <3>6 DEF Begun, Delivering, Reporting, Tried
    <3>8. Knows(d)'
      BY <3>7 DEF Knows
    <3> QED BY <1>2, <1>4, <1>10, <3>2, <3>8
  <2> QED BY <1>10, <2>1, <2>2 DEF Claim
<1>11. ASSUME NEW d \in Devices, Beat(d) PROVE ReportInv'
  <2>1. CASE Freeze(d) \/ BeatArrives(d) \/ BeatAnswered(d)
    <3>1. UNCHANGED <<held, work, verdict, sends>> /\ Holds(d)
      BY <2>1 DEF Freeze, BeatArrives, BeatAnswered, cloud, Holds
    <3> QED BY <1>2, <1>4, <1>5, <1>11, <3>1
  <2>2. CASE BeatRefused(d)
    <3>1. Release(d) /\ sends' = sends /\ verdict' = verdict
      BY <2>2 DEF BeatRefused, cloud
    <3>2. ~Holds(d)'
      BY <3>1, Lets
    <3> QED BY <1>2, <1>4, <1>6, <1>11, <3>1, <3>2
  <2> QED BY <1>11, <2>1, <2>2 DEF Beat
<1>12. ASSUME NEW d \in Devices, ClaimLost(d) \/ BeatLost(d) \/ Stop(d) PROVE ReportInv'
  <2>1. sends' = sends /\ verdict' = verdict
    BY <1>12 DEF ClaimLost, BeatLost, Stop, Grant, cloud
  <2>2. ~Holds(d)'
    <3>1. CASE ClaimLost(d)
      BY <3>1 DEF ClaimLost, dispatcher, Holds
    <3>2. CASE BeatLost(d) \/ Stop(d)
      BY <3>2, Lets DEF BeatLost, Stop
    <3> QED BY <1>12, <3>1, <3>2
  <2> QED BY <1>2, <1>4, <1>6, <1>12, <2>1, <2>2 DEF Breaks

\* What a dispatcher that works knows of itself, and what it makes of it.
<1>13. ASSUME NEW d \in Devices, NEW w, WorksOn(d, w)
       PROVE  /\ Holds(d) /\ work'[d] = w /\ held' = held /\ verdict' = verdict
              /\ Begun(d) /\ Delivering(d) /\ Reporting(d)
  <2>1. Holds(d) /\ held' = held /\ verdict' = verdict /\ work' = [work EXCEPT ![d] = w]
    BY <1>13 DEF WorksOn, Holds, cloud
  <2>2. work'[d] = w
    BY <1>0, <2>1 DEF AutoType
  <2> QED BY <1>0, <2>1, <2>2 DEF Knows
<1>14. ASSUME NEW d \in Devices, WorkEnds(d) \/ Submit(d) \/ Collect(d) \/ Delivered(d) PROVE ReportInv'
  <2> DEFINE t == held[d].token
             NotTold == \A r \in DueRuns : verdict[r].token # t
  <2>1. Holds(d)
    BY <1>14 DEF WorkEnds, Submit, Collect, Delivered, Working, Holds
  <2>2. sends' = sends
    BY <1>14, <2>1, WorkIsWork
  <2>3. PICK v : WorksOn(d, v)
    BY <1>14, <2>1, WorkIsWork
  <2>4. /\ work'[d] = v /\ held' = held /\ verdict' = verdict
        /\ Begun(d) /\ Delivering(d) /\ Reporting(d)
    BY <1>13, <2>3
  <2>5. \A w : Becomes(d, w) => work'[d] = w
    BY <1>0 DEF Becomes, AutoType
  <2>6. \A s : Tried(s)' = Tried(s) /\ Confirmed(s)' = Confirmed(s)
    BY <1>3, <2>2
  <2>7. t' = t /\ Tried(held[d].token)' = Tried(t) /\ Confirmed(held[d].token)' = Confirmed(t)
    BY <2>4, <2>6 DEF Tried, Confirmed
  <2>8. work[d] \in Works /\ work[d].delivery \in Outcomes
    BY <2>1, WorkingHolds
  \* It has something to report,
  <2>9. ASSUME work'[d].stage = "reporting", Tells(work'[d].delivery, t) PROVE Knows(d)'
    <3>1. Begun(d)' /\ Delivering(d)'
      BY <2>9 DEF Begun, Delivering
    <3>2. Reporting(d)'
      BY <2>6, <2>7, <2>9 DEF Reporting, Tells
    <3> QED BY <3>1, <3>2 DEF Knows
  <2>10. ASSUME NEW s \in Statuses, Becomes(d, Reports(s, "not_requested")), Tried(t) = {} PROVE Knows(d)'
    <3>1. work'[d].stage = "reporting" /\ work'[d].delivery = "not_requested"
      BY <2>5, <2>10, ReportsAre DEF Outcomes
    <3> QED BY <2>9, <2>10, <3>1 DEF Tells
  <2>11. ASSUME WorkEnds(d) PROVE Knows(d)'
    <3>1. Tried(t) = {}
      BY <2>4, <2>11 DEF WorkEnds, Working, Begun
    <3>2. Becomes(d, Reports("needs_attention", "not_requested")) \/ Becomes(d, Reports("failed", "not_requested"))
      BY <2>11 DEF WorkEnds
    <3> QED BY <2>10, <3>1, <3>2 DEF Statuses
  \* or it goes on, and nothing has been sent.
  <2>12. ASSUME Submit(d) PROVE Knows(d)'
    <3> DEFINE w == [work[d] EXCEPT !.stage = "collecting"]
    <3>1. w.stage = "collecting"
      BY <2>8 DEF Works
    <3>2. Becomes(d, w) /\ work[d].stage = "starting"
      BY <2>12 DEF Submit, Working
    <3> HIDE DEF w
    <3>3. work'[d].stage = "collecting"
      BY <2>5, <3>1, <3>2
    <3>4. Tried(t) = {} /\ NotTold
      BY <2>4, <3>2 DEF Begun
    <3>5. Begun(d)'
      BY <2>4, <2>6, <2>7, <3>4 DEF Begun
    <3>6. Delivering(d)' /\ Reporting(d)'
      BY <3>3 DEF Delivering, Reporting
    <3> QED BY <3>5, <3>6 DEF Knows
  <2>13. ASSUME Collect(d) PROVE Knows(d)'
    <3> DEFINE w == [work[d] EXCEPT !.stage = "delivering", !.delivery = "sent", !.left = Targets]
    <3>1. w.stage = "delivering" /\ w.delivery = "sent" /\ w.left = Targets
      BY <2>8 DEF Works
    <3>2. Tried(t) = {} /\ NotTold
      BY <2>4, <2>13 DEF Collect, Working, Begun
    <3>3. Becomes(d, Reports("succeeded", "not_requested")) \/ Becomes(d, w) \/ Becomes(d, Reports("succeeded", "failed"))
      BY <2>13 DEF Collect
    <3> HIDE DEF w
    <3>4. CASE Becomes(d, Reports("succeeded", "not_requested"))
      BY <2>10, <3>2, <3>4 DEF Statuses
    <3>5. CASE Becomes(d, w)
      <4>1. work'[d].stage = "delivering" /\ work'[d].delivery = "sent" /\ work'[d].left = Targets
        BY <2>5, <3>1, <3>5
      <4>2. Begun(d)' /\ Reporting(d)'
        BY <4>1 DEF Begun, Reporting
      <4>3. Delivering(d)'
        BY <2>4, <2>6, <2>7, <3>2, <4>1 DEF Delivering
      <4> QED BY <4>2, <4>3 DEF Knows
    <3>6. CASE Becomes(d, Reports("succeeded", "failed"))
      <4>1. work'[d].stage = "reporting" /\ work'[d].delivery = "failed"
        BY <2>5, <3>6, ReportsAre DEF Statuses, Outcomes
      <4>2. Confirmed(t) # Targets
        BY <3>2, AutomationAssumption DEF Tried, Confirmed
      <4> QED BY <2>9, <4>1, <4>2 DEF Tells
    <3> QED BY <3>3, <3>4, <3>5, <3>6
  <2>14. ASSUME Delivered(d) PROVE Knows(d)'
    <3>1. work[d].stage = "delivering" /\ work[d].left = {} /\ Becomes(d, Reports("succeeded", work[d].delivery))
      BY <2>14 DEF Delivered, Working
    <3>2. work'[d].stage = "reporting" /\ work'[d].delivery = work[d].delivery
      <4>1. Reports("succeeded", work[d].delivery).stage = "reporting"
            /\ Reports("succeeded", work[d].delivery).delivery = work[d].delivery
        BY <2>8, ReportsAre DEF Statuses
      <4> QED BY <2>5, <3>1, <4>1
    <3>3. Tells(work[d].delivery, t)
      <4>1. /\ work[d].delivery \in {"sent", "failed"}
            /\ work[d].delivery = "sent" => Targets \subseteq Confirmed(t)
            /\ work[d].delivery = "failed" => \E x \in Targets : x \notin Confirmed(t)
        BY <2>4, <3>1 DEF Delivering
      <4>2. Confirmed(t) \subseteq Targets
        BY DEF Confirmed
      <4> QED BY <4>1, <4>2 DEF Tells
    <3> QED BY <2>9, <3>2, <3>3
  <2>15. Knows(d)'
    BY <1>14, <2>11, <2>12, <2>13, <2>14
  <2>16. VerdictsTell'
    BY <1>4, <2>2, <2>4
  <2> QED BY <1>2, <1>14, <2>15, <2>16 DEF Execute
\* One more target has been tried; it is written down if it did not answer.
<1>15. ASSUME NEW d \in Devices, Deliver(d) PROVE ReportInv'
  <2> DEFINE t == held[d].token
  <2>1. Holds(d) /\ work[d].stage = "delivering"
    BY <1>15 DEF Deliver, Working, Holds
  <2>2. PICK v : WorksOn(d, v)
    BY <1>15, <2>1, WorkIsWork
  <2>3. held' = held /\ verdict' = verdict /\ Delivering(d)
    BY <1>13, <2>2
  <2>4. \A w : Becomes(d, w) => work'[d] = w
    BY <1>0 DEF Becomes, AutoType
  <2>5. t' = t /\ \A r \in DueRuns : verdict[r].token # t
    BY <2>1, <2>3 DEF Delivering
  <2>6. work[d] \in Works /\ work[d].left \in SUBSET Targets
    BY <2>1, WorkingHolds
  <2>7. PICK x \in work[d].left, how \in Ends :
          /\ SendsTo(d, x, how)
          /\ \/ how = "answered" /\ Becomes(d, [work[d] EXCEPT !.left = @ \ {x}])
             \/ how # "answered" /\ Becomes(d, [[work[d] EXCEPT !.left = @ \ {x}] EXCEPT !.delivery = "failed"])
    BY <1>15 DEF Deliver, Ends
  <2> DEFINE w == [work[d] EXCEPT !.left = @ \ {x}]
             u == [w EXCEPT !.delivery = "failed"]
  <2>8. /\ w.stage = "delivering" /\ w.left = work[d].left \ {x} /\ w.delivery = work[d].delivery
        /\ u.stage = "delivering" /\ u.left = work[d].left \ {x} /\ u.delivery = "failed"
    BY <2>1, <2>6 DEF Works
  <2>9. \/ how = "answered" /\ Becomes(d, w)
        \/ how # "answered" /\ Becomes(d, u)
    BY <2>7
  <2> HIDE DEF w, u
  <2>10. x \in Targets /\ x \notin Tried(t)
    BY <2>1, <2>3, <2>6 DEF Delivering
  <2>11. \A s, y, h : <<s, y, h>> \in sends' <=> <<s, y, h>> \in sends \/ (s = t /\ y = x /\ h = how)
    <3>1. sends' = sends \cup {<<t, x, how>>}
      BY <2>7 DEF SendsTo
    <3>2. \A s, y, h : <<s, y, h>> = <<t, x, how>> <=> (s = t /\ y = x /\ h = how)
      OBVIOUS
    <3> QED BY <3>1, <3>2
  <2>12. VerdictsTell'
    <3>1. ASSUME NEW s, s # t PROVE Tried(s)' = Tried(s) /\ Confirmed(s)' = Confirmed(s)
      BY <2>11, <3>1 DEF Tried, Confirmed
    <3> QED BY <1>0, <2>3, <2>5, <3>1 DEF VerdictsTell, Tells
  <2>13. Tried(t)' = Tried(t) \cup {x}
    BY <2>5, <2>10, <2>11 DEF Tried, Ends
  <2>14. Confirmed(t)' = IF how = "answered" THEN Confirmed(t) \cup {x} ELSE Confirmed(t)
    BY <2>5, <2>10, <2>11 DEF Confirmed
  <2>15. x \notin Confirmed(t)
    BY <2>10 DEF Tried, Confirmed
  <2>16. Knows(d)'
    <3>1. /\ work[d].delivery \in {"sent", "failed"}
          /\ Tried(t) \cap work[d].left = {}
          /\ work[d].delivery = "sent" => Targets \ work[d].left \subseteq Confirmed(t)
          /\ work[d].delivery = "failed" => \E y \in Targets \ work[d].left : y \notin Confirmed(t)
      BY <2>1, <2>3 DEF Delivering
    <3>2. /\ held'[d].token = t /\ verdict' = verdict
          /\ Tried(held[d].token)' = Tried(t) \cup {x} /\ Confirmed(held[d].token)' = Confirmed(t)'
      BY <2>3, <2>5, <2>13
    <3>3. CASE how = "answered" /\ Becomes(d, w)
      <4>1. work'[d] = w
        BY <2>4, <3>3
      <4>2. Delivering(d)'
        BY <2>5, <2>6, <2>8, <2>14, <3>1, <3>2, <3>3, <4>1 DEF Delivering
      <4>3. Begun(d)' /\ Reporting(d)'
        BY <2>8, <4>1 DEF Begun, Reporting
      <4> QED BY <4>2, <4>3 DEF Knows
    <3>4. CASE how # "answered" /\ Becomes(d, u)
      <4>1. work'[d] = u
        BY <2>4, <3>4
      <4>2. Delivering(d)'
        BY <2>5, <2>6, <2>8, <2>10, <2>14, <2>15, <3>1, <3>2, <3>4, <4>1 DEF Delivering
      <4>3. Begun(d)' /\ Reporting(d)'
        BY <2>8, <4>1 DEF Begun, Reporting
      <4> QED BY <4>2, <4>3 DEF Knows
    <3> QED BY <2>9, <3>3, <3>4
  <2> QED BY <1>2, <1>15, <2>12, <2>16 DEF Execute
<1>16. ASSUME NEW d \in Devices, ReportAnswered(d) PROVE ReportInv'
  <2>1. Holds(d) /\ work[d].stage = "reporting" /\ Settle(d) /\ Release(d) /\ sends' = sends
    BY <1>16 DEF ReportAnswered, Working, Holds
  <2>2. ~Holds(d)'
    BY <2>1, Lets
  <2>3. VerdictsTell'
    BY <1>7, <2>1
  <2> QED BY <1>2, <1>6, <1>16, <2>2, <2>3 DEF Execute
\* Another attempt says the same.
<1>17. ASSUME NEW d \in Devices, ReportLost(d) \/ ReportRefused(d) PROVE ReportInv'
  <2>1. /\ Holds(d) /\ work[d].stage = "reporting" /\ TryAgain(d) /\ sends' = sends
        /\ Settle(d) \/ verdict' = verdict
    BY <1>17 DEF ReportLost, ReportRefused, Working, Holds, cloud
  <2>2. VerdictsTell'
    BY <1>7, <2>1
  <2>3. CASE Release(d)
    <3>1. ~Holds(d)'
      BY <2>3, Lets
    <3> QED BY <1>2, <1>6, <1>17, <2>2, <3>1 DEF Execute, Breaks
  <2>4. ASSUME NEW w \in Works, Becomes(d, w), UNCHANGED <<pc, held, clock>>, w.stage = "reporting",
               w.delivery = work[d].delivery
        PROVE  ReportInv'
    <3>1. work'[d] = w
      BY <1>0, <2>4 DEF Becomes, AutoType
    <3>2. Tells(work[d].delivery, held[d].token)
      BY <1>0, <2>1 DEF Knows, Reporting
    <3>3. Reporting(d)'
      BY <1>3, <2>1, <2>4, <3>1, <3>2 DEF Reporting, Tells
    <3>4. Begun(d)' /\ Delivering(d)'
      BY <2>4, <3>1 DEF Begun, Delivering
    <3>5. Knows(d)'
      BY <3>3, <3>4 DEF Knows
    <3> QED BY <1>2, <1>17, <2>2, <3>5 DEF Execute, Breaks
  <2> QED BY <2>1, <2>3, <2>4, Retries
<1> QED BY <1>8, <1>9, <1>10, <1>11, <1>12, <1>14, <1>15, <1>16, <1>17 DEF Next, Claim, Execute, Breaks

-----------------------------------------------------------------------------
(* The theorems.                                                             *)

LEMMA ServicesBegin ==
    ASSUME Init
    PROVE  TokenInv /\ LeaseInv /\ ReportInv
<1>1. \A d \in Devices : /\ pc[d] = "polling" /\ request[d] = 1 /\ held[d] = NoLease /\ clock[d] = 0 /\ work[d] = NoWork
  BY DEF Init
<1>2. \A r \in DueRuns : lease[r] = NoToken /\ silence[r] = 0 /\ verdict[r] = NoVerdict
  BY DEF Init
<1>3. spent = {} /\ answered = {} /\ sends = {} /\ faults = 0
  BY DEF Init
<1>4. AutoType
  <2>1. pc \in [Devices -> {"polling", "proving", "proved", "refused", "working"}]
    BY DEF Init
  <2>2. request \in [Devices -> Nat] /\ clock \in [Devices -> Nat] /\ silence \in [DueRuns -> Nat]
    BY DEF Init
  <2>3. held \in [Devices -> Leases \cup {NoLease}] /\ work \in [Devices -> Works \cup {NoWork}]
    BY DEF Init
  <2>4. lease \in [DueRuns -> Tokens \cup {NoToken}] /\ verdict \in [DueRuns -> Verdicts \cup {NoVerdict}]
    BY DEF Init
  <2>5. IsFiniteSet(spent)
    BY <1>3, FS_EmptySet
  <2> QED BY <1>3, <2>1, <2>2, <2>3, <2>4, <2>5 DEF AutoType
<1>5. \A d \in Devices : ~Holds(d)
  BY <1>1 DEF Holds
<1>6. TokenInv
  BY <1>2, <1>3, <1>4, <1>5 DEF TokenInv, HoldersAreKnown, LeasesAreKnown
<1>7. LeaseInv
  BY <1>1 DEF LeaseInv, LeaseIsCurrent
<1>8. ReportInv
  BY <1>2, <1>5 DEF ReportInv
<1> QED BY <1>6, <1>7, <1>8

LEMMA ServicesAreSafe == Spec => [](TokenInv /\ LeaseInv /\ ReportInv)
<1>1. Init => TokenInv /\ LeaseInv /\ ReportInv
  BY ServicesBegin
<1>2. TokenInv /\ LeaseInv /\ ReportInv /\ [Next]_autoVars => (TokenInv /\ LeaseInv /\ ReportInv)'
  BY TokenStep, LeaseStep, ReportStep
<1> QED BY <1>1, <1>2, PTL DEF Spec

\* Every dispatcher, lease, report and token is of its kind throughout, and no
\* answer is ever counted for a token the cloud did not grant (dispatcher.rs).
THEOREM DispatchersTypeCorrect == Spec => []AutoType
<1>1. TokenInv => AutoType
  BY DEF TokenInv
<1> QED BY <1>1, ServicesAreSafe, PTL

\* Work goes on only under a lease that the cloud still honours, or that ended
\* with its own report, whatever gets lost and whoever stops; and a grant whose
\* answer was lost is there for the same request id (lease::guard).  It holds
\* because Term exceeds one interval and two timeouts.
THEOREM LeasesStayHonoured == Spec => []LeasesAreHonoured
<1>1. ASSUME TokenInv, LeaseInv PROVE LeasesAreHonoured
  <2>1. ASSUME NEW d \in Devices, pc[d] = "working"
        PROVE  held[d].token \in {lease[held[d].run], verdict[held[d].run].token}
    BY <1>1, <2>1 DEF LeaseInv, LeaseIsCurrent
  <2>2. ASSUME NEW r \in DueRuns, lease[r] # NoToken
        PROVE  lease[r] \in answered \/ \E d \in Devices : lease[r] = Token(d)
    BY <1>1, <2>2 DEF TokenInv, LeasesAreKnown
  <2> QED BY <2>1, <2>2 DEF LeasesAreHonoured
<1> QED BY <1>1, ServicesAreSafe, PTL

\* All dispatchers of a user are one executor to the cloud, so nothing but the
\* lease keeps two of them from one run; and it does (dispatcher.rs).
OneWorksOnARun ==
    \A d, e \in Devices : pc[d] = "working" /\ pc[e] = "working" /\ held[d].run = held[e].run => d = e
THEOREM OneDispatcherWorks == Spec => []OneWorksOnARun
<1>1. ASSUME TokenInv, LeaseInv PROVE OneWorksOnARun
  <2> SUFFICES ASSUME NEW d \in Devices, NEW e \in Devices, pc[d] = "working", pc[e] = "working",
                      held[d].run = held[e].run
               PROVE  d = e
    BY DEF OneWorksOnARun
  <2> DEFINE r == held[d].run
  <2>1. /\ r \in DueRuns /\ held[d].token[1] = d /\ held[d].token # NoToken
        /\ held[e].token[1] = e /\ held[e].token # NoToken
    BY <1>1, WorkingHolds DEF Holds
  <2>2. /\ lease[r] = held[d].token \/ verdict[r].token = held[d].token
        /\ lease[r] = held[e].token \/ verdict[r].token = held[e].token
    BY <1>1 DEF LeaseInv, LeaseIsCurrent
  <2>3. lease[r] # NoToken => verdict[r].token = NoToken
    BY <1>1, <2>1 DEF TokenInv, LeasesAreKnown, NoVerdict
  <2>4. held[d].token = held[e].token
    BY <2>1, <2>2, <2>3
  <2> QED BY <2>1, <2>4
<1> QED BY <1>1, ServicesAreSafe, PTL

\* What the cloud is told of a run is what happened under that lease: "sent", that
\* every target has confirmed the result; "failed", that some target has not, though
\* it may have received it; anything else, that nothing was sent
\* (delivery::deliver, dispatcher::finish).
THEOREM ReportsStayTrue == Spec => []ReportsAreTrue
<1>1. ASSUME TokenInv, ReportInv PROVE ReportsAreTrue
  <2>1. ASSUME NEW r \in DueRuns, verdict[r] # NoVerdict PROVE Tells(verdict[r].delivery, verdict[r].token)
    BY <1>1, <2>1 DEF ReportInv
  <2> QED BY <2>1 DEF ReportsAreTrue, Tells
<1> QED BY <1>1, ServicesAreSafe, PTL

-----------------------------------------------------------------------------
(* The events of a run.  First sequences of sequences, joined.               *)

\* The function that FlattenSeq is defined by: the first sequences, joined.
Joins(g, s, i) == IF i = 1 THEN s[i] ELSE g[i - 1] \o s[i]
JoinsUpTo(g, s, m) == g = [i \in 1 .. m |-> Joins(g, s, i)]

LEMMA JoinsExist ==
    ASSUME NEW s, Len(s) \in Nat
    PROVE  \E g : JoinsUpTo(g, s, Len(s))
<1> DEFINE Bad == {m \in 0 .. Len(s) : ~ \E g : JoinsUpTo(g, s, m)}
<1>1. Bad \subseteq Nat
  OBVIOUS
<1> SUFFICES ASSUME Bad # {} PROVE FALSE
  OBVIOUS
<1>2. \E m \in Bad : \A k \in Bad : m <= k
  <2> HIDE DEF Bad
  <2> QED BY <1>1, LeastOne
<1>3. PICK m \in Bad : \A k \in Bad : m <= k
  BY <1>2
<1>4. m \in 0 .. Len(s) /\ ~ \E g : JoinsUpTo(g, s, m)
  BY <1>3
<1>5. m # 0
  <2> DEFINE g == [i \in 1 .. 0 |-> <<>>]
  <2>1. g = [i \in 1 .. 0 |-> Joins(g, s, i)]
    OBVIOUS
  <2>2. JoinsUpTo(g, s, 0)
    BY <2>1 DEF JoinsUpTo
  <2> QED BY <2>2, <1>4
<1>6. m - 1 \in 0 .. Len(s) /\ ~(m <= m - 1)
  BY <1>4, <1>5
<1>7. m - 1 \notin Bad
  BY <1>3, <1>6
<1>8. PICK g : JoinsUpTo(g, s, m - 1)
  BY <1>6, <1>7
<1> DEFINE h == [i \in 1 .. m |-> Joins(g, s, i)]
<1>9. \A i \in 1 .. m - 1 : h[i] = g[i]
  BY <1>4, <1>8 DEF JoinsUpTo
<1>10. \A i \in 1 .. m : Joins(h, s, i) = Joins(g, s, i)
  <2> HIDE DEF h
  <2> TAKE i \in 1 .. m
  <2>1. CASE i = 1
    BY <2>1 DEF Joins
  <2>2. CASE i # 1
    <3>1. i - 1 \in 1 .. m - 1
      BY <1>4, <2>2
    <3>2. h[i - 1] = g[i - 1]
      BY <1>9, <3>1
    <3> QED BY <2>2, <3>2 DEF Joins
  <2> QED BY <2>1, <2>2
<1>11. h = [i \in 1 .. m |-> Joins(h, s, i)]
  BY <1>10
<1>12. JoinsUpTo(h, s, m)
  BY <1>11 DEF JoinsUpTo
<1> QED BY <1>4, <1>12

LEMMA FlattenedIs ==
    ASSUME NEW s, Len(s) \in Nat \ {0}
    PROVE  \E f : /\ FlattenSeq(s) = f[Len(s)] /\ f[1] = s[1]
                  /\ \A i \in 2 .. Len(s) : f[i] = f[i - 1] \o s[i]
<1> DEFINE f == CHOOSE g : g = [i \in 1 .. Len(s) |-> Joins(g, s, i)]
<1>1. FlattenSeq(s) = f[Len(s)]
  BY DEF FlattenSeq, Joins
<1>2. f = [i \in 1 .. Len(s) |-> Joins(f, s, i)]
  BY JoinsExist DEF JoinsUpTo
<1> HIDE DEF f
<1>3. \A i \in 1 .. Len(s) : f[i] = Joins(f, s, i)
  BY <1>2
<1>4. f[1] = s[1]
  BY <1>3 DEF Joins
<1>5. ASSUME NEW i \in 2 .. Len(s) PROVE f[i] = f[i - 1] \o s[i]
  <2>1. i \in 1 .. Len(s) /\ i # 1
    OBVIOUS
  <2> QED BY <1>3, <2>1 DEF Joins
<1> QED BY <1>1, <1>4, <1>5

LEMMA FlattenedNone == FlattenSeq(<<>>) = <<>>
BY DEF FlattenSeq

LEMMA FlattenedTyped ==
    ASSUME NEW T, NEW s \in Seq(Seq(T))
    PROVE  FlattenSeq(s) \in Seq(T)
<1>0. Len(s) \in Nat /\ \A i \in 1 .. Len(s) : s[i] \in Seq(T)
  BY LenProperties, ElementOfSeq
<1>1. CASE Len(s) = 0
  BY <1>1, EmptySeq, FlattenedNone
<1>2. CASE Len(s) # 0
  <2>1. PICK f : /\ FlattenSeq(s) = f[Len(s)] /\ f[1] = s[1]
                 /\ \A i \in 2 .. Len(s) : f[i] = f[i - 1] \o s[i]
    BY <1>0, <1>2, FlattenedIs
  <2> DEFINE Bad == {i \in 1 .. Len(s) : f[i] \notin Seq(T)}
  <2>2. Bad = {}
    <3> SUFFICES ASSUME Bad # {} PROVE FALSE
      OBVIOUS
    <3>1. Bad \subseteq Nat
      OBVIOUS
    <3>2. \E i \in Bad : \A j \in Bad : i <= j
      <4> HIDE DEF Bad
      <4> QED BY <3>1, LeastOne
    <3>3. PICK i \in Bad : \A j \in Bad : i <= j
      BY <3>2
    <3>4. i \in 1 .. Len(s) /\ f[i] \notin Seq(T) /\ i # 1
      BY <1>0, <2>1, <3>3
    <3>5. i - 1 \in 1 .. Len(s) /\ i \in 2 .. Len(s) /\ ~(i <= i - 1)
      BY <1>0, <3>4
    <3>6. f[i - 1] \in Seq(T)
      BY <3>3, <3>5
    <3>7. f[i] = f[i - 1] \o s[i] /\ s[i] \in Seq(T)
      BY <1>0, <2>1, <3>4, <3>5
    <3> QED BY <3>4, <3>6, <3>7, ConcatProperties
  <2>3. Len(s) \in 1 .. Len(s)
    BY <1>0, <1>2
  <2> QED BY <2>1, <2>2, <2>3
<1> QED BY <1>1, <1>2

LEMMA FlattenedGrows ==
    ASSUME NEW T, NEW s \in Seq(Seq(T)), NEW x \in Seq(T)
    PROVE  FlattenSeq(Append(s, x)) = FlattenSeq(s) \o x
<1> DEFINE t == Append(s, x)
           n == Len(s)
<1>0. /\ n \in Nat /\ Len(t) = n + 1 /\ t[n + 1] = x
      /\ \A i \in 1 .. n : t[i] = s[i]
  BY LenProperties, AppendProperties
<1> HIDE DEF t, n
<1>1. PICK f : /\ FlattenSeq(t) = f[n + 1] /\ f[1] = t[1]
               /\ \A i \in 2 .. n + 1 : f[i] = f[i - 1] \o t[i]
  <2>1. Len(t) \in Nat \ {0}
    BY <1>0
  <2>2. \E f : /\ FlattenSeq(t) = f[Len(t)] /\ f[1] = t[1]
               /\ \A i \in 2 .. Len(t) : f[i] = f[i - 1] \o t[i]
    BY <2>1, FlattenedIs
  <2> QED BY <1>0, <2>2
<1>2. CASE n = 0
  <2>1. FlattenSeq(t) = x
    BY <1>0, <1>1, <1>2
  <2>2. s = <<>>
    BY <1>2, EmptySeq DEF n
  <2>3. <<>> \o x = x
    BY ConcatEmptySeq
  <2> QED BY <2>1, <2>2, <2>3, FlattenedNone DEF t
<1>3. CASE n # 0
  <2>1. PICK g : /\ FlattenSeq(s) = g[n] /\ g[1] = s[1]
                 /\ \A i \in 2 .. n : g[i] = g[i - 1] \o s[i]
    <3>1. Len(s) \in Nat \ {0}
      BY <1>0, <1>3 DEF n
    <3> QED BY <3>1, FlattenedIs DEF n
  <2> DEFINE Bad == {i \in 1 .. n : f[i] # g[i]}
  <2>2. Bad = {}
    <3> SUFFICES ASSUME Bad # {} PROVE FALSE
      OBVIOUS
    <3>1. Bad \subseteq Nat
      OBVIOUS
    <3>2. \E i \in Bad : \A j \in Bad : i <= j
      <4> HIDE DEF Bad
      <4> QED BY <3>1, LeastOne
    <3>3. PICK i \in Bad : \A j \in Bad : i <= j
      BY <3>2
    <3>4. i \in 1 .. n /\ f[i] # g[i]
      BY <3>3
    <3>5. i # 1
      BY <1>0, <1>1, <2>1, <3>4
    <3>6. i - 1 \in 1 .. n /\ i \in 2 .. n /\ i \in 2 .. n + 1 /\ ~(i <= i - 1)
      BY <1>0, <3>4, <3>5
    <3>7. f[i - 1] = g[i - 1]
      BY <3>3, <3>6
    <3> QED BY <1>0, <1>1, <2>1, <3>4, <3>6, <3>7
  <2>3. n \in 1 .. n /\ n + 1 \in 2 .. n + 1 /\ (n + 1) - 1 = n
    BY <1>0, <1>3
  <2>4. f[n + 1] = f[n] \o x
    BY <1>0, <1>1, <2>3
  <2>5. f[n] = g[n]
    BY <2>2, <2>3
  <2> QED BY <1>1, <2>1, <2>4, <2>5 DEF t
<1> QED BY <1>2, <1>3

-----------------------------------------------------------------------------
(* Bytes.                                                                    *)

Adds(g, q, n) == IF n = 0 THEN 0 ELSE g[n - 1] + q[n].bytes
AddsUpTo(g, q, m) == g = [n \in 0 .. m |-> Adds(g, q, n)]
Sums(g, q) == g[0] = 0 /\ \A n \in 1 .. Len(q) : g[n] = g[n - 1] + q[n].bytes

LEMMA AddsExist ==
    ASSUME NEW q, Len(q) \in Nat
    PROVE  \E g : AddsUpTo(g, q, Len(q))
<1> DEFINE Bad == {m \in 0 .. Len(q) : ~ \E g : AddsUpTo(g, q, m)}
<1>1. Bad \subseteq Nat
  OBVIOUS
<1> SUFFICES ASSUME Bad # {} PROVE FALSE
  OBVIOUS
<1>2. \E m \in Bad : \A k \in Bad : m <= k
  <2> HIDE DEF Bad
  <2> QED BY <1>1, LeastOne
<1>3. PICK m \in Bad : \A k \in Bad : m <= k
  BY <1>2
<1>4. m \in 0 .. Len(q) /\ ~ \E g : AddsUpTo(g, q, m)
  BY <1>3
<1>5. m # 0
  <2> DEFINE g == [n \in 0 .. 0 |-> 0]
  <2>1. \A n \in 0 .. 0 : Adds(g, q, n) = 0
    BY DEF Adds
  <2>2. AddsUpTo(g, q, 0)
    BY <2>1 DEF AddsUpTo
  <2> QED BY <2>2, <1>4
<1>6. m - 1 \in 0 .. Len(q) /\ ~(m <= m - 1)
  BY <1>4, <1>5
<1>7. m - 1 \notin Bad
  BY <1>3, <1>6
<1>8. PICK g : AddsUpTo(g, q, m - 1)
  BY <1>6, <1>7
<1> DEFINE h == [n \in 0 .. m |-> Adds(g, q, n)]
<1>9. \A n \in 0 .. m - 1 : h[n] = g[n]
  BY <1>4, <1>8 DEF AddsUpTo
<1>10. \A n \in 0 .. m : Adds(h, q, n) = Adds(g, q, n)
  <2> HIDE DEF h
  <2> TAKE n \in 0 .. m
  <2>1. CASE n = 0
    BY <2>1 DEF Adds
  <2>2. CASE n # 0
    <3>1. n - 1 \in 0 .. m - 1
      BY <1>4, <2>2
    <3>2. h[n - 1] = g[n - 1]
      BY <1>9, <3>1
    <3> QED BY <2>2, <3>2 DEF Adds
  <2> QED BY <2>1, <2>2
<1>11. h = [n \in 0 .. m |-> Adds(h, q, n)]
  BY <1>10
<1>12. AddsUpTo(h, q, m)
  BY <1>11 DEF AddsUpTo
<1> QED BY <1>4, <1>12

LEMMA BytesAreSums ==
    ASSUME NEW q, Len(q) \in Nat
    PROVE  \E f : Sums(f, q) /\ BytesOf(q) = f[Len(q)]
<1> DEFINE f == CHOOSE g : g = [n \in 0 .. Len(q) |-> Adds(g, q, n)]
<1>1. BytesOf(q) = f[Len(q)]
  BY DEF BytesOf, Adds
<1>2. f = [n \in 0 .. Len(q) |-> Adds(f, q, n)]
  BY AddsExist DEF AddsUpTo
<1> HIDE DEF f
<1>3. \A n \in 0 .. Len(q) : f[n] = Adds(f, q, n)
  BY <1>2
<1>4. f[0] = 0
  BY <1>3 DEF Adds
<1>5. ASSUME NEW n \in 1 .. Len(q) PROVE f[n] = f[n - 1] + q[n].bytes
  <2>1. n \in 0 .. Len(q) /\ n # 0
    OBVIOUS
  <2> QED BY <1>3, <2>1 DEF Adds
<1> QED BY <1>1, <1>4, <1>5 DEF Sums

LEMMA SumsAreBytes ==
    ASSUME NEW q, Len(q) \in Nat, NEW g, Sums(g, q)
    PROVE  BytesOf(q) = g[Len(q)]
<1>1. PICK f : Sums(f, q) /\ BytesOf(q) = f[Len(q)]
  BY BytesAreSums
<1> DEFINE Bad == {n \in 0 .. Len(q) : f[n] # g[n]}
<1>2. Bad = {}
  <2> SUFFICES ASSUME Bad # {} PROVE FALSE
    OBVIOUS
  <2>1. Bad \subseteq Nat
    OBVIOUS
  <2>2. \E n \in Bad : \A k \in Bad : n <= k
    <3> HIDE DEF Bad
    <3> QED BY <2>1, LeastOne
  <2>3. PICK n \in Bad : \A k \in Bad : n <= k
    BY <2>2
  <2>4. n \in 0 .. Len(q) /\ f[n] # g[n]
    BY <2>3
  <2>5. n # 0
    BY <1>1, <2>4 DEF Sums
  <2>6. n - 1 \in 0 .. Len(q) /\ n \in 1 .. Len(q) /\ ~(n <= n - 1)
    BY <2>4, <2>5
  <2>7. f[n - 1] = g[n - 1]
    BY <2>3, <2>6
  <2> QED BY <1>1, <2>4, <2>6, <2>7 DEF Sums
<1>3. Len(q) \in 0 .. Len(q)
  OBVIOUS
<1> QED BY <1>1, <1>2, <1>3

Entries(T) == [event : T, bytes : Nat]

LEMMA BytesOfNone == BytesOf(<<>>) = 0
<1>1. Len(<<>>) = 0
  OBVIOUS
<1>2. PICK f : Sums(f, <<>>) /\ BytesOf(<<>>) = f[Len(<<>>)]
  BY <1>1, BytesAreSums
<1> QED BY <1>1, <1>2 DEF Sums

LEMMA BytesAreCounted ==
    ASSUME NEW T, NEW q \in Seq(Entries(T))
    PROVE  \E f : /\ Sums(f, q) /\ BytesOf(q) = f[Len(q)]
                  /\ \A n \in 0 .. Len(q) : f[n] \in Nat
<1>0. Len(q) \in Nat /\ \A n \in 1 .. Len(q) : q[n].bytes \in Nat
  <2>1. Len(q) \in Nat /\ \A n \in 1 .. Len(q) : q[n] \in Entries(T)
    BY LenProperties, ElementOfSeq
  <2> QED BY <2>1 DEF Entries
<1>1. PICK f : Sums(f, q) /\ BytesOf(q) = f[Len(q)]
  BY <1>0, BytesAreSums
<1> DEFINE Bad == {n \in 0 .. Len(q) : f[n] \notin Nat}
<1>2. Bad = {}
  <2> SUFFICES ASSUME Bad # {} PROVE FALSE
    OBVIOUS
  <2>1. Bad \subseteq Nat
    OBVIOUS
  <2>2. \E n \in Bad : \A k \in Bad : n <= k
    <3> HIDE DEF Bad
    <3> QED BY <2>1, LeastOne
  <2>3. PICK n \in Bad : \A k \in Bad : n <= k
    BY <2>2
  <2>4. n \in 0 .. Len(q) /\ f[n] \notin Nat
    BY <2>3
  <2>5. n # 0
    BY <1>1, <2>4 DEF Sums
  <2>6. n - 1 \in 0 .. Len(q) /\ n \in 1 .. Len(q) /\ ~(n <= n - 1)
    BY <1>0, <2>4, <2>5
  <2>7. f[n - 1] \in Nat
    BY <2>3, <2>6
  <2>8. f[n] = f[n - 1] + q[n].bytes
    BY <1>1, <2>6 DEF Sums
  <2> QED BY <1>0, <2>4, <2>6, <2>7, <2>8
<1> QED BY <1>1, <1>2

\* One entry more counts what it weighs.
LEMMA BytesGrow ==
    ASSUME NEW T, NEW q \in Seq(Entries(T)), NEW x \in Entries(T)
    PROVE  BytesOf(Append(q, x)) = BytesOf(q) + x.bytes /\ BytesOf(q) \in Nat
<1> DEFINE r == Append(q, x)
           n == Len(q)
<1>0. /\ n \in Nat /\ Len(r) = n + 1 /\ r[n + 1] = x
      /\ \A i \in 1 .. n : r[i] = q[i]
  BY LenProperties, AppendProperties
<1> HIDE DEF r
<1>1. PICK f : Sums(f, r) /\ BytesOf(r) = f[Len(r)]
  BY <1>0, BytesAreSums
<1>2. Sums(f, q)
  <2>1. ASSUME NEW i \in 1 .. Len(q) PROVE f[i] = f[i - 1] + q[i].bytes
    <3>1. i \in 1 .. Len(r)
      BY <1>0
    <3> QED BY <1>0, <1>1, <3>1 DEF Sums
  <2> QED BY <1>1, <2>1 DEF Sums
<1>3. BytesOf(q) = f[n]
  BY <1>0, <1>2, SumsAreBytes
<1>4. f[n + 1] = f[n] + x.bytes
  <2>1. n + 1 \in 1 .. Len(r) /\ (n + 1) - 1 = n
    BY <1>0
  <2>2. f[n + 1] = f[(n + 1) - 1] + r[n + 1].bytes
    BY <1>1, <2>1 DEF Sums
  <2> QED BY <1>0, <2>1, <2>2
<1>5. BytesOf(q) \in Nat
  <2>1. PICK g : BytesOf(q) = g[Len(q)] /\ \A i \in 0 .. Len(q) : g[i] \in Nat
    BY BytesAreCounted
  <2>2. Len(q) \in 0 .. Len(q)
    BY <1>0
  <2> QED BY <2>1, <2>2
<1> QED BY <1>0, <1>1, <1>3, <1>4, <1>5 DEF r

\* Without its first entry the queue weighs what that one weighed less.
LEMMA BytesShrink ==
    ASSUME NEW T, NEW q \in Seq(Entries(T)), q # <<>>
    PROVE  BytesOf(Tail(q)) = BytesOf(q) - Head(q).bytes /\ BytesOf(Tail(q)) \in Nat
<1> DEFINE r == Tail(q)
           n == Len(q)
<1>0. /\ n \in Nat \ {0} /\ Len(r) = n - 1 /\ \A i \in 1 .. Len(r) : r[i] = q[i + 1]
      /\ Head(q) = q[1] /\ r \in Seq(Entries(T))
  <2>1. n \in Nat \ {0}
    BY EmptySeq
  <2> QED BY <2>1, HeadTailProperties
<1> HIDE DEF r
<1>1. PICK f : /\ Sums(f, q) /\ BytesOf(q) = f[Len(q)] /\ \A i \in 0 .. Len(q) : f[i] \in Nat
  BY BytesAreCounted
<1> DEFINE g == [i \in 0 .. n - 1 |-> f[i + 1] - f[1]]
<1>2. Sums(g, r)
  <2>1. g[0] = 0
    <3>1. 0 \in 0 .. n - 1 /\ 0 + 1 = 1 /\ 1 \in 0 .. Len(q)
      BY <1>0
    <3>2. f[1] \in Nat
      BY <1>1, <3>1
    <3> QED BY <3>1, <3>2
  <2>2. ASSUME NEW i \in 1 .. Len(r) PROVE g[i] = g[i - 1] + r[i].bytes
    <3>1. i \in 0 .. n - 1 /\ i - 1 \in 0 .. n - 1 /\ (i - 1) + 1 = i /\ i + 1 \in 1 .. n /\ (i + 1) - 1 = i
          /\ i \in 0 .. n /\ 1 \in 0 .. n /\ i + 1 \in 0 .. n
      BY <1>0
    <3>2. g[i] = f[i + 1] - f[1] /\ g[i - 1] = f[i] - f[1]
      BY <3>1
    <3>3. f[i + 1] = f[i] + q[i + 1].bytes
      BY <1>1, <3>1 DEF Sums
    <3>4. f[i] \in Nat /\ f[1] \in Nat /\ f[i + 1] \in Nat
      BY <1>1, <3>1
    <3>5. r[i] = q[i + 1]
      BY <1>0
    <3>6. q[i + 1].bytes \in Nat
      <4>1. q[i + 1] \in Entries(T)
        BY <3>1, ElementOfSeq
      <4> QED BY <4>1 DEF Entries
    <3> HIDE DEF g
    <3> QED BY <3>2, <3>3, <3>4, <3>5, <3>6
  <2> HIDE DEF g
  <2> QED BY <2>1, <2>2 DEF Sums
<1>3. BytesOf(r) = g[Len(r)]
  <2>1. Len(r) \in Nat
    BY <1>0
  <2> HIDE DEF g
  <2> QED BY <1>2, <2>1, SumsAreBytes
<1>4. g[Len(r)] = f[n] - f[1] /\ f[1] = Head(q).bytes
  <2>1. n - 1 \in 0 .. n - 1 /\ (n - 1) + 1 = n /\ 1 \in 1 .. n /\ 1 - 1 = 0
    BY <1>0
  <2>2. f[1] = f[0] + q[1].bytes /\ f[0] = 0
    BY <1>1, <2>1 DEF Sums
  <2>3. q[1].bytes \in Nat
    <3>1. q[1] \in Entries(T)
      BY <2>1, ElementOfSeq
    <3> QED BY <3>1 DEF Entries
  <2> QED BY <1>0, <2>1, <2>2, <2>3
<1>5. BytesOf(r) \in Nat
  <2>1. PICK h : BytesOf(r) = h[Len(r)] /\ \A i \in 0 .. Len(r) : h[i] \in Nat
    BY <1>0, BytesAreCounted
  <2>2. Len(r) \in 0 .. Len(r)
    BY <1>0
  <2> QED BY <2>1, <2>2
<1> HIDE DEF g
<1> QED BY <1>1, <1>3, <1>4, <1>5 DEF r

-----------------------------------------------------------------------------
(* Events, and what they come to.                                            *)

Kinds == {"turnStart", "user", "compacted", "unchanged", "callStart", "delta", "retry", "callEnd", "answer", "running",
          "result", "resultMessage", "turnEnd", "agentEnd", "pruned", "stats", "finished", "none"}
Keys  == {<<>>, <<"text", 0>>, <<"tool", 1>>}
Stops == StopReasons \cup {"none"}
Event == [kind : Kinds, n : Nat, key : Keys, parts : Seq(Nat), stop : Stops]
\* As the engine makes them: a piece is one.
Atom(e) == e \in Event /\ (e.kind = "delta" => e = Piece(e.key, e.n))

LEMMA PlainIs ==
    ASSUME NEW kind \in Kinds, NEW n \in Nat
    PROVE  /\ Plain(kind, n) \in Event /\ Plain(kind, n).kind = kind /\ Plain(kind, n).n = n
           /\ kind # "delta" => Atom(Plain(kind, n))
<1>1. <<>> \in Seq(Nat)
  OBVIOUS
<1>2. Plain(kind, n) \in Event /\ Plain(kind, n).kind = kind /\ Plain(kind, n).n = n
  BY <1>1 DEF Plain, Event, Keys, Stops
<1> QED BY <1>2 DEF Atom

LEMMA PieceIs ==
    ASSUME NEW key \in Keys, NEW n \in Nat
    PROVE  /\ Piece(key, n) \in Event /\ Piece(key, n).kind = "delta" /\ Piece(key, n).key = key
           /\ Piece(key, n).n = n /\ Piece(key, n).parts = <<n>> /\ Atom(Piece(key, n))
<1>1. <<n>> \in Seq(Nat)
  OBVIOUS
<1>2. /\ Piece(key, n).kind = "delta" /\ Piece(key, n).key = key /\ Piece(key, n).n = n
      /\ Piece(key, n).parts = <<n>>
  BY DEF Piece, Plain
<1>3. Piece(key, n) \in Event
  <2> DEFINE p == Plain("delta", n)
  <2>1. p \in Event
    BY PlainIs DEF Kinds
  <2>2. Piece(key, n) = [p EXCEPT !.key = key, !.parts = <<n>>]
    BY DEF Piece
  <2> HIDE DEF p
  <2> QED BY <1>1, <2>1, <2>2 DEF Event
<1> QED BY <1>2, <1>3 DEF Atom

\* The pieces of an event.
LEMMA PiecesTyped ==
    ASSUME NEW e \in Event
    PROVE  Pieces(e) \in Seq(Event)
<1>1. e.key \in Keys /\ e.parts \in Seq(Nat)
  BY DEF Event
<1>2. CASE e.kind = "delta"
  <2>1. Len(e.parts) \in Nat /\ \A i \in 1 .. Len(e.parts) : e.parts[i] \in Nat
    BY <1>1, LenProperties, ElementOfSeq
  <2>2. \A i \in 1 .. Len(e.parts) : Piece(e.key, e.parts[i]) \in Event
    BY <1>1, <2>1, PieceIs
  <2>3. Pieces(e) = [i \in 1 .. Len(e.parts) |-> Piece(e.key, e.parts[i])]
    BY <1>2 DEF Pieces
  <2> QED BY <2>1, <2>2, <2>3
<1>3. CASE e.kind # "delta"
  BY <1>3 DEF Pieces
<1> QED BY <1>2, <1>3

LEMMA AtomIsWhole ==
    ASSUME NEW e, Atom(e)
    PROVE  Pieces(e) = <<e>>
<1>1. CASE e.kind = "delta"
  <2>1. e = Piece(e.key, e.n) /\ e.key \in Keys /\ e.n \in Nat
    BY <1>1 DEF Atom, Event
  <2>2. e.parts = <<e.n>>
    BY <2>1, PieceIs
  <2>3. Pieces(e) = [i \in 1 .. Len(e.parts) |-> Piece(e.key, e.parts[i])]
    BY <1>1 DEF Pieces
  <2>4. Len(<<e.n>>) = 1 /\ <<e.n>>[1] = e.n
    OBVIOUS
  <2>5. \A i \in 1 .. 1 : Piece(e.key, e.parts[i]) = e
    BY <2>1, <2>2, <2>4
  <2>6. Pieces(e) = [i \in 1 .. 1 |-> e]
    BY <2>2, <2>3, <2>4, <2>5
  <2>7. [i \in 1 .. 1 |-> e] = <<e>>
    OBVIOUS
  <2> QED BY <2>6, <2>7
<1>2. CASE e.kind # "delta"
  BY <1>2 DEF Pieces
<1> QED BY <1>1, <1>2

Merged(v, e) == [v EXCEPT !.parts = @ \o e.parts]

LEMMA MergedIs ==
    ASSUME NEW v \in Event, NEW e, Atom(e), v.kind = "delta", e.kind = "delta", v.key = e.key
    PROVE  Merged(v, e) \in Event /\ Pieces(Merged(v, e)) = Append(Pieces(v), e)
<1>1. /\ e = Piece(e.key, e.n) /\ e.key \in Keys /\ e.n \in Nat /\ e \in Event
      /\ v.key \in Keys /\ v.parts \in Seq(Nat)
  BY DEF Atom, Event
<1>2. e.parts = <<e.n>>
  BY <1>1, PieceIs
<1> DEFINE w == Merged(v, e)
           n == Len(v.parts)
<1>3. v.parts \o e.parts = Append(v.parts, e.n)
  BY <1>1, <1>2, AppendIsConcat
<1>4. /\ n \in Nat /\ Len(Append(v.parts, e.n)) = n + 1 /\ Append(v.parts, e.n)[n + 1] = e.n
      /\ Append(v.parts, e.n) \in Seq(Nat)
      /\ \A i \in 1 .. n : Append(v.parts, e.n)[i] = v.parts[i]
  BY <1>1, LenProperties, AppendProperties
<1>5. w \in Event /\ w.kind = "delta" /\ w.key = v.key /\ w.parts = Append(v.parts, e.n)
  BY <1>3, <1>4 DEF Merged, Event
<1> HIDE DEF w, n
<1>6. Pieces(v) \in Seq(Event)
  BY PiecesTyped
<1>7. Pieces(w) = [i \in 1 .. n + 1 |-> Piece(v.key, w.parts[i])] /\ Pieces(v) = [i \in 1 .. n |-> Piece(v.key, v.parts[i])]
  BY <1>4, <1>5 DEF Pieces, n
<1>8. Len(Pieces(v)) = n
  BY <1>4, <1>6, <1>7, LenProperties
<1> DEFINE a == Append(Pieces(v), e)
<1>9. a \in Seq(Event) /\ Len(a) = n + 1 /\ a[n + 1] = e /\ \A i \in 1 .. n : a[i] = Pieces(v)[i]
  BY <1>1, <1>6, <1>8, AppendProperties
<1> HIDE DEF a
<1>10. Pieces(w) \in Seq(Event) /\ Len(Pieces(w)) = n + 1
  <2>1. Pieces(w) \in Seq(Event)
    BY <1>5, PiecesTyped
  <2> QED BY <1>4, <1>7, <2>1, LenProperties
<1>11. ASSUME NEW i \in 1 .. n + 1 PROVE Pieces(w)[i] = a[i]
  <2>1. Pieces(w)[i] = Piece(v.key, w.parts[i])
    BY <1>7
  <2>2. CASE i \in 1 .. n
    BY <1>4, <1>5, <1>7, <1>9, <2>1, <2>2
  <2>3. CASE i = n + 1
    BY <1>1, <1>4, <1>5, <1>9, <2>1, <2>3
  <2> QED BY <1>4, <2>2, <2>3
<1>12. Pieces(w) = a
  <2>1. \A s, t \in Seq(Event) : Len(s) = Len(t) /\ (\A i \in 1 .. Len(s) : s[i] = t[i]) => s = t
    BY SeqEqual
  <2> QED BY <1>9, <1>10, <1>11, <2>1
<1> QED BY <1>5, <1>12 DEF a, w

\* A list of sequences that has one more, flattened.
LEMMA FlattenedExtends ==
    ASSUME NEW T, NEW u \in Seq(Seq(T)), NEW v \in Seq(Seq(T)), NEW x \in Seq(T),
           Len(v) = Len(u) + 1, \A i \in 1 .. Len(u) : v[i] = u[i], v[Len(u) + 1] = x
    PROVE  FlattenSeq(v) = FlattenSeq(u) \o x
<1> DEFINE a == Append(u, x)
<1>1. a \in Seq(Seq(T)) /\ Len(a) = Len(u) + 1 /\ a[Len(u) + 1] = x /\ \A i \in 1 .. Len(u) : a[i] = u[i]
  BY AppendProperties
<1>2. FlattenSeq(a) = FlattenSeq(u) \o x
  BY FlattenedGrows
<1>3. Len(u) \in Nat
  BY LenProperties
<1> HIDE DEF a
<1>4. ASSUME NEW i \in 1 .. Len(v) PROVE v[i] = a[i]
  <2>1. i \in 1 .. Len(u) \/ i = Len(u) + 1
    BY <1>3
  <2> QED BY <1>1, <2>1
<1>5. v = a
  BY <1>1, <1>4, SeqEqual
<1> QED BY <1>2, <1>5

\* What a list comes to, of which each element comes to a sequence.
Maps(F, S, T) == F \in [S -> Seq(T)]
Each(F, s) == FlattenSeq([i \in 1 .. Len(s) |-> F[s[i]]])

LEMMA EachGrows ==
    ASSUME NEW S, NEW T, NEW F, Maps(F, S, T), NEW s \in Seq(S), NEW e \in S
    PROVE  Each(F, Append(s, e)) = Each(F, s) \o F[e] /\ Each(F, s) \in Seq(T)
<1> DEFINE t == Append(s, e)
           u == [i \in 1 .. Len(s) |-> F[s[i]]]
           v == [i \in 1 .. Len(t) |-> F[t[i]]]
<1>0. /\ Len(s) \in Nat /\ Len(t) = Len(s) + 1 /\ t[Len(s) + 1] = e /\ \A i \in 1 .. Len(s) : t[i] = s[i]
      /\ \A i \in 1 .. Len(s) : s[i] \in S
      /\ \A i \in 1 .. Len(t) : t[i] \in S
  <2>1. t \in Seq(S) /\ Len(t) = Len(s) + 1 /\ t[Len(s) + 1] = e /\ \A i \in 1 .. Len(s) : t[i] = s[i]
    BY AppendProperties
  <2> HIDE DEF t
  <2> QED BY <2>1, LenProperties, ElementOfSeq
<1> HIDE DEF t
<1>1. u \in Seq(Seq(T)) /\ v \in Seq(Seq(T))
  BY <1>0 DEF Maps
<1>2. Len(u) = Len(s) /\ Len(v) = Len(t)
  BY <1>0, <1>1, LenProperties
<1>3. (\A i \in 1 .. Len(u) : v[i] = u[i]) /\ v[Len(u) + 1] = F[e]
  BY <1>0, <1>2
<1>4. Each(F, s) = FlattenSeq(u) /\ Each(F, t) = FlattenSeq(v)
  BY DEF Each
<1> HIDE DEF u, v
<1>5. FlattenSeq(v) = FlattenSeq(u) \o F[e]
  <2>1. F[e] \in Seq(T) /\ Len(v) = Len(u) + 1
    BY <1>0, <1>2 DEF Maps
  <2> QED BY <1>1, <1>3, <2>1, FlattenedExtends
<1>6. FlattenSeq(u) \in Seq(T)
  BY <1>1, FlattenedTyped
<1> QED BY <1>4, <1>5, <1>6 DEF t

LEMMA EachNone ==
    ASSUME NEW F
    PROVE  Each(F, <<>>) = <<>>
<1>1. [i \in 1 .. Len(<<>>) |-> F[<<>>[i]]] = <<>>
  OBVIOUS
<1> QED BY <1>1, FlattenedNone DEF Each

LEMMA TwoAre ==
    ASSUME NEW T, NEW a \in T, NEW b \in T
    PROVE  Append(<<a>>, b) = <<a, b>> /\ <<a>> \o <<b>> = <<a, b>> /\ <<a>> \in Seq(T) /\ <<b>> \in Seq(T)
<1>1. <<a>> \in Seq(T) /\ <<b>> \in Seq(T) /\ <<a, b>> \in Seq(T)
  OBVIOUS
<1>2. Len(<<a>>) = 1 /\ <<a>>[1] = a
  OBVIOUS
<1>3. Append(<<a>>, b) = <<a>> \o <<b>>
  BY <1>1, AppendIsConcat
<1> DEFINE s == Append(<<a>>, b)
           t == <<a, b>>
<1>4. s \in Seq(T) /\ Len(s) = 2 /\ s[1] = a /\ s[2] = b
  BY <1>1, <1>2, AppendProperties
<1>5. t \in Seq(T) /\ Len(t) = 2 /\ t[1] = a /\ t[2] = b
  OBVIOUS
<1> HIDE DEF s, t
<1>6. s = t
  BY <1>4, <1>5, SeqEqual
<1> QED BY <1>1, <1>3, <1>6 DEF s, t

-----------------------------------------------------------------------------
(* Nodes.                                                                    *)

NodeKinds == {"tail", "cap", "compact", "user", "answer", "result", "delta", "retry", "callStart", "running"}
SomeNodes == [node : NodeKinds, n : Nat, stop : Stops]
Kept(m) == IF m.node \in {"answer", "result"} THEN <<m>> ELSE <<>>
Lasts(e) == e.kind \in {"answer", "result"}
Told(e) == IF Lasts(e) THEN <<Node(e.kind, e)>> ELSE <<>>

LEMMA SettledGrows ==
    ASSUME NEW ns \in Seq(SomeNodes), NEW m \in SomeNodes
    PROVE  Settled(Append(ns, m)) = Settled(ns) \o Kept(m) /\ Settled(ns) \in Seq(SomeNodes)
<1> DEFINE F == [x \in SomeNodes |-> Kept(x)]
<1>1. \A x \in SomeNodes : Kept(x) \in Seq(SomeNodes)
  BY DEF Kept
<1>2. Maps(F, SomeNodes, SomeNodes) /\ F[m] = Kept(m)
  BY <1>1 DEF Maps
<1>3. ASSUME NEW q \in Seq(SomeNodes) PROVE Settled(q) = Each(F, q)
  <2>1. \A i \in 1 .. Len(q) : F[q[i]] = Kept(q[i])
    BY ElementOfSeq
  <2> HIDE DEF F
  <2> QED BY <2>1 DEF Settled, Each, Kept
<1> HIDE DEF F
<1>4. Append(ns, m) \in Seq(SomeNodes)
  BY AppendProperties
<1>5. Each(F, Append(ns, m)) = Each(F, ns) \o F[m] /\ Each(F, ns) \in Seq(SomeNodes)
  BY <1>2, EachGrows
<1> QED BY <1>2, <1>3, <1>4, <1>5

LEMMA SomeNode == \E m : m \in SomeNodes
<1> DEFINE m == [node |-> "tail", n |-> 0, stop |-> "none"]
<1>1. m \in SomeNodes
  BY DEF SomeNodes, NodeKinds, Stops
<1> QED BY <1>1

LEMMA SettledNone == Settled(<<>>) = <<>>
<1>1. Len(<<>>) = 0
  OBVIOUS
<1>2. [i \in 1 .. Len(<<>>) |-> IF <<>>[i].node \in {"answer", "result"} THEN << <<>>[i] >> ELSE <<>>] = <<>>
  BY <1>1
<1> QED BY <1>2, FlattenedNone DEF Settled

\* What an event adds to the screen, and what an item adds to it on a replay.
LEMMA NodesSettle ==
    ASSUME NEW ns \in Seq(SomeNodes), NEW e \in Event
    PROVE  /\ Nodes(e) \in Seq(SomeNodes) /\ Settled(ns \o Nodes(e)) = Settled(ns) \o Told(e)
           /\ Replayed(e) \in Seq(SomeNodes) /\ Settled(ns \o Replayed(e)) = Settled(ns) \o Told(e)
<1>0. e.kind \in Kinds /\ e.n \in Nat /\ e.stop \in Stops
  BY DEF Event
<1>1. ASSUME NEW k \in NodeKinds
      PROVE  Node(k, e) \in SomeNodes /\ Node(k, e).node = k
  BY <1>0 DEF Node, SomeNodes
<1>2. Settled(ns) \in Seq(SomeNodes) /\ Settled(ns) \o <<>> = Settled(ns) /\ ns \o <<>> = ns
  <2>1. Node("tail", e) \in SomeNodes
    BY <1>1 DEF NodeKinds
  <2>2. Settled(ns) \in Seq(SomeNodes)
    BY <2>1, SettledGrows
  <2> QED BY <2>2, ConcatEmptySeq
<1>3. ASSUME NEW k \in NodeKinds
      PROVE  /\ <<Node(k, e)>> \in Seq(SomeNodes)
             /\ Settled(ns \o <<Node(k, e)>>) = Settled(ns) \o (IF k \in {"answer", "result"} THEN <<Node(k, e)>> ELSE <<>>)
  <2>1. Node(k, e) \in SomeNodes /\ Node(k, e).node = k
    BY <1>1
  <2>2. ns \o <<Node(k, e)>> = Append(ns, Node(k, e))
    BY <2>1, AppendIsConcat
  <2>3. Settled(Append(ns, Node(k, e))) = Settled(ns) \o Kept(Node(k, e))
    BY <2>1, SettledGrows
  <2>4. Kept(Node(k, e)) = IF k \in {"answer", "result"} THEN <<Node(k, e)>> ELSE <<>>
    BY <2>1 DEF Kept
  <2>5. \A x \in SomeNodes : <<x>> \in Seq(SomeNodes)
    OBVIOUS
  <2>6. <<Node(k, e)>> \in Seq(SomeNodes)
    BY <2>1, <2>5
  <2> QED BY <2>2, <2>3, <2>4, <2>6
<1>4. ASSUME NEW k \in NodeKinds \ {"answer", "result"}
      PROVE  <<Node(k, e)>> \in Seq(SomeNodes) /\ Settled(ns \o <<Node(k, e)>>) = Settled(ns)
  BY <1>2, <1>3
\* The notice of a capped answer comes on top.
<1>5. <<Node("tail", e), Node("cap", e)>> \in Seq(SomeNodes) /\ Settled(ns \o <<Node("tail", e), Node("cap", e)>>) = Settled(ns)
  <2> DEFINE a == Node("tail", e)
             b == Node("cap", e)
  <2>1. a \in SomeNodes /\ b \in SomeNodes /\ Kept(a) = <<>> /\ Kept(b) = <<>>
    BY <1>1 DEF NodeKinds, Kept
  <2> HIDE DEF a, b
  <2>2. <<a, b>> \in Seq(SomeNodes)
    BY <2>1
  <2>3. Append(ns, a) \in Seq(SomeNodes) /\ ns \o <<a>> = Append(ns, a) /\ Append(ns, a) \o <<b>> = Append(Append(ns, a), b)
    BY <2>1, AppendProperties, AppendIsConcat
  <2>4. ns \o <<a, b>> = Append(Append(ns, a), b)
    <3>1. <<a>> \o <<b>> = <<a, b>> /\ <<a>> \in Seq(SomeNodes) /\ <<b>> \in Seq(SomeNodes)
      BY <2>1, TwoAre
    <3>2. (ns \o <<a>>) \o <<b>> = ns \o (<<a>> \o <<b>>)
      BY <3>1, ConcatAssociative
    <3> QED BY <2>3, <3>1, <3>2
  <2>5. Settled(Append(Append(ns, a), b)) = Settled(Append(ns, a)) \o Kept(b)
    BY <2>1, <2>3, SettledGrows
  <2>6. Settled(Append(ns, a)) = Settled(ns) \o Kept(a)
    BY <2>1, SettledGrows
  <2> QED BY <1>2, <2>1, <2>2, <2>4, <2>5, <2>6 DEF a, b
<1>6. CASE Lasts(e)
  <2>1. Nodes(e) = <<Node(e.kind, e)>> /\ Replayed(e) = <<Node(e.kind, e)>> /\ Told(e) = <<Node(e.kind, e)>>
    BY <1>6 DEF Lasts, Nodes, Replayed, Told
  <2>2. e.kind \in NodeKinds /\ e.kind \in {"answer", "result"}
    BY <1>6 DEF Lasts, NodeKinds
  <2> QED BY <1>3, <2>1, <2>2
<1>7. CASE ~Lasts(e)
  <2>0. Told(e) = <<>> /\ <<>> \in Seq(SomeNodes)
    BY <1>7 DEF Told
  <2>1. \/ Nodes(e) = <<>> \/ Nodes(e) = <<Node("tail", e), Node("cap", e)>>
        \/ \E k \in NodeKinds \ {"answer", "result"} : Nodes(e) = <<Node(k, e)>>
    <3>1. CASE e.kind = "callEnd"
      BY <3>1 DEF Nodes, CallNodes, NodeKinds
    <3>2. CASE e.kind \in {"compacted", "unchanged"}
      BY <3>2 DEF Nodes, NodeKinds
    <3>3. CASE e.kind \in {"delta", "retry", "callStart", "running"}
      BY <3>3 DEF Nodes, NodeKinds
    <3>4. CASE e.kind \notin {"callEnd", "compacted", "unchanged", "delta", "retry", "callStart", "running"}
      BY <1>7, <3>4 DEF Lasts, Nodes
    <3> QED BY <3>1, <3>2, <3>3, <3>4
  <2>2. Replayed(e) = <<>> \/ \E k \in NodeKinds \ {"answer", "result"} : Replayed(e) = <<Node(k, e)>>
    BY <1>7 DEF Lasts, Replayed, NodeKinds
  <2> QED BY <1>2, <1>4, <1>5, <2>0, <2>1, <2>2
<1> QED BY <1>6, <1>7

\* What the screen shows of the events, and what a replay shows of the items, that are settled.
Screen(es) == Settled(FlattenSeq([i \in 1 .. Len(es) |-> Nodes(es[i])]))
Replay(es) == Settled(FlattenSeq([i \in 1 .. Len(es) |-> Replayed(es[i])]))

LEMMA ScreenGrows ==
    ASSUME NEW s \in Seq(Event), NEW e \in Event
    PROVE  Screen(Append(s, e)) = Screen(s) \o Told(e) /\ Screen(s) \in Seq(SomeNodes)
<1> DEFINE F == [x \in Event |-> Nodes(x)]
<1>1. \A x \in Event : Nodes(x) \in Seq(SomeNodes)
  BY NodesSettle, EmptySeq
<1>2. Maps(F, Event, SomeNodes) /\ F[e] = Nodes(e)
  BY <1>1 DEF Maps
<1>3. ASSUME NEW q \in Seq(Event) PROVE Screen(q) = Settled(Each(F, q))
  <2>1. \A i \in 1 .. Len(q) : F[q[i]] = Nodes(q[i])
    BY ElementOfSeq
  <2> HIDE DEF F
  <2> QED BY <2>1 DEF Screen, Each
<1> HIDE DEF F
<1>4. Append(s, e) \in Seq(Event)
  BY AppendProperties
<1>5. Each(F, Append(s, e)) = Each(F, s) \o Nodes(e) /\ Each(F, s) \in Seq(SomeNodes)
  BY <1>2, EachGrows
<1>6. Settled(Each(F, s) \o Nodes(e)) = Settled(Each(F, s)) \o Told(e)
  BY <1>5, NodesSettle
<1>7. \A ns \in Seq(SomeNodes) : Settled(ns) \in Seq(SomeNodes)
  BY SomeNode, SettledGrows
<1> QED BY <1>3, <1>4, <1>5, <1>6, <1>7

LEMMA ReplayGrows ==
    ASSUME NEW s \in Seq(Event), NEW e \in Event
    PROVE  Replay(Append(s, e)) = Replay(s) \o Told(e) /\ Replay(s) \in Seq(SomeNodes)
<1> DEFINE F == [x \in Event |-> Replayed(x)]
<1>1. \A x \in Event : Replayed(x) \in Seq(SomeNodes)
  BY NodesSettle, EmptySeq
<1>2. Maps(F, Event, SomeNodes) /\ F[e] = Replayed(e)
  BY <1>1 DEF Maps
<1>3. ASSUME NEW q \in Seq(Event) PROVE Replay(q) = Settled(Each(F, q))
  <2>1. \A i \in 1 .. Len(q) : F[q[i]] = Replayed(q[i])
    BY ElementOfSeq
  <2> HIDE DEF F
  <2> QED BY <2>1 DEF Replay, Each
<1> HIDE DEF F
<1>4. Append(s, e) \in Seq(Event)
  BY AppendProperties
<1>5. Each(F, Append(s, e)) = Each(F, s) \o Replayed(e) /\ Each(F, s) \in Seq(SomeNodes)
  BY <1>2, EachGrows
<1>6. Settled(Each(F, s) \o Replayed(e)) = Settled(Each(F, s)) \o Told(e)
  BY <1>5, NodesSettle
<1>7. \A ns \in Seq(SomeNodes) : Settled(ns) \in Seq(SomeNodes)
  BY SomeNode, SettledGrows
<1> QED BY <1>3, <1>4, <1>5, <1>6, <1>7

\* The pieces the events of a list were merged from.
Joined(es) == FlattenSeq([i \in 1 .. Len(es) |-> Pieces(es[i])])

LEMMA JoinedGrows ==
    ASSUME NEW s \in Seq(Event), NEW e \in Event
    PROVE  Joined(Append(s, e)) = Joined(s) \o Pieces(e) /\ Joined(s) \in Seq(Event)
<1> DEFINE F == [x \in Event |-> Pieces(x)]
<1>1. Maps(F, Event, Event) /\ F[e] = Pieces(e)
  BY PiecesTyped DEF Maps
<1>2. ASSUME NEW q \in Seq(Event) PROVE Joined(q) = Each(F, q)
  <2>1. \A i \in 1 .. Len(q) : F[q[i]] = Pieces(q[i])
    BY ElementOfSeq
  <2> HIDE DEF F
  <2> QED BY <2>1 DEF Joined, Each
<1> HIDE DEF F
<1>3. Append(s, e) \in Seq(Event)
  BY AppendProperties
<1>4. Each(F, Append(s, e)) = Each(F, s) \o F[e] /\ Each(F, s) \in Seq(Event)
  BY <1>1, EachGrows
<1> QED BY <1>1, <1>2, <1>3, <1>4

-----------------------------------------------------------------------------
(* The queue.                                                                *)

EventsIn(q) == [i \in 1 .. Len(q) |-> q[i].event]

LEMMA EntryIs ==
    ASSUME NEW x \in Entries(Event)
    PROVE  /\ x = [event |-> x.event, bytes |-> x.bytes]
           /\ \A p : [x EXCEPT !.event.parts = p] = [event |-> [x.event EXCEPT !.parts = p], bytes |-> x.bytes]
<1>1. x = [event |-> x.event, bytes |-> x.bytes]
  BY DEF Entries
<1>2. ASSUME NEW p
      PROVE  [x EXCEPT !.event.parts = p] = [event |-> [x.event EXCEPT !.parts = p], bytes |-> x.bytes]
  <2> DEFINE v == x.event
             b == x.bytes
  <2>1. x = [event |-> v, bytes |-> b]
    BY <1>1
  <2> HIDE DEF v, b
  <2>2. [[event |-> v, bytes |-> b] EXCEPT !.event.parts = p] = [event |-> [v EXCEPT !.parts = p], bytes |-> b]
    OBVIOUS
  <2> QED BY <2>1, <2>2 DEF v, b
<1> QED BY <1>1, <1>2

LEMMA EventsAreTyped ==
    ASSUME NEW q \in Seq(Entries(Event))
    PROVE  EventsIn(q) \in Seq(Event) /\ Len(EventsIn(q)) = Len(q) /\ \A i \in 1 .. Len(q) : EventsIn(q)[i] = q[i].event
<1>1. Len(q) \in Nat /\ \A i \in 1 .. Len(q) : q[i] \in Entries(Event)
  BY LenProperties, ElementOfSeq
<1>2. \A i \in 1 .. Len(q) : q[i].event \in Event
  BY <1>1 DEF Entries
<1>3. EventsIn(q) \in Seq(Event)
  BY <1>1, <1>2 DEF EventsIn
<1>4. \A i \in 1 .. Len(q) : EventsIn(q)[i] = q[i].event
  BY DEF EventsIn
<1>5. DOMAIN EventsIn(q) = 1 .. Len(q)
  BY DEF EventsIn
<1> QED BY <1>1, <1>3, <1>4, <1>5, LenProperties

LEMMA EventsGrow ==
    ASSUME NEW q \in Seq(Entries(Event)), NEW x \in Entries(Event)
    PROVE  EventsIn(Append(q, x)) = Append(EventsIn(q), x.event)
<1> DEFINE r == Append(q, x)
           a == EventsIn(q)
           s == EventsIn(r)
           t == Append(a, x.event)
<1>1. /\ r \in Seq(Entries(Event)) /\ Len(r) = Len(q) + 1 /\ r[Len(q) + 1] = x
      /\ \A i \in 1 .. Len(q) : r[i] = q[i]
  BY AppendProperties
<1> HIDE DEF r
<1>2. a \in Seq(Event) /\ Len(a) = Len(q) /\ \A i \in 1 .. Len(q) : a[i] = q[i].event
  BY EventsAreTyped
<1>3. s \in Seq(Event) /\ Len(s) = Len(r) /\ \A i \in 1 .. Len(r) : s[i] = r[i].event
  BY <1>1, EventsAreTyped
<1> HIDE DEF a, s
<1>4. x.event \in Event
  BY DEF Entries
<1>5. /\ t \in Seq(Event) /\ Len(t) = Len(a) + 1 /\ t[Len(a) + 1] = x.event
      /\ \A i \in 1 .. Len(a) : t[i] = a[i]
  BY <1>2, <1>4, AppendProperties
<1> HIDE DEF t
<1>6. Len(q) \in Nat
  BY LenProperties
<1>7. ASSUME NEW i \in 1 .. Len(s) PROVE s[i] = t[i]
  <2>1. i \in 1 .. Len(q) \/ i = Len(q) + 1
    BY <1>1, <1>3, <1>6
  <2> QED BY <1>1, <1>2, <1>3, <1>5, <2>1
<1>8. s = t
  BY <1>1, <1>2, <1>3, <1>5, <1>7, SeqEqual
<1> QED BY <1>8 DEF r, a, s, t

LEMMA EventsLeave ==
    ASSUME NEW q \in Seq(Entries(Event)), q # <<>>
    PROVE  /\ Head(q).event \in Event /\ Tail(q) \in Seq(Entries(Event))
           /\ EventsIn(q) = <<Head(q).event>> \o EventsIn(Tail(q))
<1> DEFINE r == Tail(q)
           h == Head(q)
           a == EventsIn(q)
           b == EventsIn(r)
           t == <<h.event>> \o b
<1>1. Len(q) \in Nat \ {0}
  BY EmptySeq, LenProperties
<1>2. /\ r \in Seq(Entries(Event)) /\ Len(r) = Len(q) - 1 /\ (\A i \in 1 .. Len(r) : r[i] = q[i + 1])
      /\ h = q[1] /\ h \in Entries(Event)
  BY <1>1, HeadTailProperties
<1> HIDE DEF r, h
<1>3. a \in Seq(Event) /\ Len(a) = Len(q) /\ \A i \in 1 .. Len(q) : a[i] = q[i].event
  BY EventsAreTyped
<1>4. b \in Seq(Event) /\ Len(b) = Len(r) /\ \A i \in 1 .. Len(r) : b[i] = r[i].event
  BY <1>2, EventsAreTyped
<1> HIDE DEF a, b
<1>5. h.event \in Event
  BY <1>2 DEF Entries
<1>6. <<h.event>> \in Seq(Event) /\ Len(<<h.event>>) = 1 /\ <<h.event>>[1] = h.event
  BY <1>5
<1>7. /\ t \in Seq(Event) /\ Len(t) = 1 + Len(b)
      /\ \A i \in 1 .. 1 + Len(b) : t[i] = IF i <= 1 THEN <<h.event>>[i] ELSE b[i - 1]
  BY <1>4, <1>6, ConcatProperties
<1> HIDE DEF t
<1>8. ASSUME NEW i \in 1 .. Len(a) PROVE a[i] = t[i]
  <2>1. CASE i = 1
    BY <1>1, <1>2, <1>3, <1>4, <1>6, <1>7, <2>1
  <2>2. CASE i # 1
    <3>1. i - 1 \in 1 .. Len(r) /\ i \in 1 .. Len(q) /\ ~(i <= 1) /\ i \in 1 .. 1 + Len(b) /\ (i - 1) + 1 = i
      BY <1>1, <1>2, <1>3, <1>4, <2>2
    <3>2. t[i] = b[i - 1] /\ b[i - 1] = r[i - 1].event /\ r[i - 1] = q[i]
      BY <1>2, <1>4, <1>7, <3>1
    <3> QED BY <1>3, <3>1, <3>2
  <2> QED BY <2>1, <2>2
<1>9. Len(a) = Len(t)
  BY <1>1, <1>2, <1>3, <1>4, <1>7
<1>10. a = t
  BY <1>3, <1>7, <1>8, <1>9, SeqEqual
<1> QED BY <1>2, <1>5, <1>10 DEF r, h, a, b, t

LEMMA ConcatAppends ==
    ASSUME NEW T, NEW s \in Seq(T), NEW t \in Seq(T), NEW x \in T
    PROVE  s \o Append(t, x) = Append(s \o t, x)
<1>1. Append(t, x) = t \o <<x>> /\ <<x>> \in Seq(T) /\ s \o t \in Seq(T)
  BY AppendIsConcat, ConcatProperties
<1>2. Append(s \o t, x) = (s \o t) \o <<x>>
  BY <1>1, AppendIsConcat
<1>3. s \o (t \o <<x>>) = (s \o t) \o <<x>>
  BY <1>1, ConcatAssociative
<1> QED BY <1>1, <1>2, <1>3

Flows(q, b, shownTo, sentTo) ==
    sentTo = Joined(shownTo \o EventsIn(q)) /\ b = BytesOf(q)

LEMMA StreamFlows == StreamIsFaithful <=> Flows(queue, pendingBytes, shown, sent)
<1>1. Queued = EventsIn(queue)
  BY DEF Queued, EventsIn
<1> QED BY <1>1 DEF StreamIsFaithful, Flows, Joined

\* Queued on its own or merged into the last one, an event is sent.
LEMMA Sending ==
    ASSUME queue \in Seq(Entries(Event)), shown \in Seq(Event), sent \in Seq(Event),
           Flows(queue, pendingBytes, shown, sent),
           NEW e, Atom(e), Send(e)
    PROVE  /\ queue' \in Seq(Entries(Event)) /\ sent' = Append(sent, e) /\ sent' \in Seq(Event)
           /\ Flows(queue', pendingBytes', shown, sent')
<1>0. e \in Event /\ Pieces(e) = <<e>> /\ Bytes(e) \in Nat \ {0}
  BY AtomIsWhole DEF Atom, Bytes
<1>1. sent' = Append(sent, e) /\ sent' \in Seq(Event) /\ sent' = sent \o <<e>>
  <2>1. sent' = Append(sent, e)
    BY DEF Send
  <2> QED BY <1>0, <2>1, AppendProperties, AppendIsConcat
<1>2. CASE Len(queue) >= CoalesceAfter /\ Len(queue) > 0 /\ Coalesces(queue[Len(queue)].event, e)
  <2> DEFINE n == Len(queue)
  <2>1. queue # <<>>
    BY <1>2, EmptySeq
  <2>2. PICK q \in Seq(Entries(Event)), x \in Entries(Event) : queue = Append(q, x)
    BY <2>1, SequenceEmptyOrAppend
  <2>3. /\ Len(q) \in Nat /\ Len(queue) = Len(q) + 1 /\ queue[Len(q) + 1] = x
        /\ \A i \in 1 .. Len(q) : queue[i] = q[i]
    BY <2>2, LenProperties, AppendProperties
  <2>4. x.event \in Event /\ x.bytes \in Nat
    BY DEF Entries
  <2>5. x.event.kind = "delta" /\ e.kind = "delta" /\ x.event.key = e.key
    BY <1>2, <2>3 DEF Coalesces
  <2> DEFINE y == [event |-> Merged(x.event, e), bytes |-> x.bytes + (Bytes(e) - 1)]
  <2>6. Merged(x.event, e) \in Event /\ Pieces(Merged(x.event, e)) = Append(Pieces(x.event), e)
    BY <2>4, <2>5, MergedIs
  <2>7. y \in Entries(Event) /\ y.event = Merged(x.event, e) /\ y.bytes = x.bytes + (Bytes(e) - 1)
    BY <1>0, <2>4, <2>6 DEF Entries
  <2>8. queue' = Append(q, y)
    <3> DEFINE r == [queue EXCEPT ![n].event.parts = @ \o e.parts, ![n].bytes = @ + (Bytes(e) - 1)]
    <3>1. queue' = r
      BY <1>2 DEF Send
    <3>2. [[x EXCEPT !.event.parts = @ \o e.parts] EXCEPT !.bytes = @ + (Bytes(e) - 1)] = y
      <4> DEFINE z == [x EXCEPT !.event.parts = @ \o e.parts]
      <4>1. z = [event |-> Merged(x.event, e), bytes |-> x.bytes]
        BY EntryIs DEF Merged
      <4> HIDE DEF z
      <4>2. [z EXCEPT !.bytes = @ + (Bytes(e) - 1)] = y
        BY <4>1
      <4> QED BY <4>2 DEF z
    <3>3. DOMAIN queue = 1 .. n /\ n \in 1 .. n /\ queue[n] = x
      BY <2>3, LenProperties
    <3>4. r = [queue EXCEPT ![n] = y]
      BY <3>2, <3>3
    <3> HIDE DEF y, r
    <3>5. r \in Seq(Entries(Event)) /\ Len(r) = n /\ \A i \in 1 .. n : r[i] = IF i = n THEN y ELSE queue[i]
      BY <2>7, <3>3, <3>4, ExceptSeq
    <3> DEFINE s == Append(q, y)
    <3>6. /\ s \in Seq(Entries(Event)) /\ Len(s) = Len(q) + 1 /\ s[Len(q) + 1] = y
          /\ \A i \in 1 .. Len(q) : s[i] = q[i]
      BY <2>7, AppendProperties
    <3> HIDE DEF s
    <3>7. ASSUME NEW i \in 1 .. Len(r) PROVE r[i] = s[i]
      <4>1. i \in 1 .. Len(q) \/ i = Len(q) + 1
        BY <2>3, <3>5
      <4> QED BY <2>3, <3>5, <3>6, <4>1
    <3>8. r = s
      BY <2>3, <3>5, <3>6, <3>7, SeqEqual
    <3> QED BY <3>1, <3>8 DEF s
  <2> HIDE DEF y
  <2>9. queue' \in Seq(Entries(Event))
    BY <2>7, <2>8, AppendProperties
  <2>10. EventsIn(queue) = Append(EventsIn(q), x.event) /\ EventsIn(queue') = Append(EventsIn(q), Merged(x.event, e))
    BY <2>2, <2>7, <2>8, EventsGrow
  <2> DEFINE f == shown \o EventsIn(q)
  <2>11. EventsIn(q) \in Seq(Event) /\ f \in Seq(Event)
    BY EventsAreTyped, ConcatProperties
  <2>12. shown \o EventsIn(queue) = Append(f, x.event) /\ shown \o EventsIn(queue') = Append(f, Merged(x.event, e))
    <3>1. \A v \in Event : shown \o Append(EventsIn(q), v) = Append(f, v)
      BY <2>11, ConcatAppends
    <3> QED BY <2>4, <2>6, <2>10, <3>1
  <2> HIDE DEF f
  <2>13. /\ Joined(Append(f, x.event)) = Joined(f) \o Pieces(x.event)
         /\ Joined(Append(f, Merged(x.event, e))) = Joined(f) \o Pieces(Merged(x.event, e))
         /\ Joined(f) \in Seq(Event)
    BY <2>4, <2>6, <2>11, JoinedGrows
  <2>14. Joined(f) \o Append(Pieces(x.event), e) = Append(Joined(f) \o Pieces(x.event), e)
    <3>1. Pieces(x.event) \in Seq(Event)
      BY <2>4, PiecesTyped
    <3> QED BY <1>0, <2>13, <3>1, ConcatAppends
  <2>15. sent' = Joined(shown \o EventsIn(queue'))
    BY <1>1, <2>6, <2>12, <2>13, <2>14 DEF Flows
  <2>16. pendingBytes' = pendingBytes + (Bytes(e) - 1)
    BY <1>2 DEF Send
  <2>17. pendingBytes' = BytesOf(queue')
    <3>1. BytesOf(queue) = BytesOf(q) + x.bytes /\ BytesOf(queue') = BytesOf(q) + y.bytes /\ BytesOf(q) \in Nat
      BY <2>2, <2>7, <2>8, BytesGrow
    <3> QED BY <1>0, <2>4, <2>7, <2>16, <3>1 DEF Flows
  <2> QED BY <1>1, <2>9, <2>15, <2>17 DEF Flows
<1>3. CASE ~(Len(queue) >= CoalesceAfter /\ Len(queue) > 0 /\ Coalesces(queue[Len(queue)].event, e))
  <2> DEFINE x == [event |-> e, bytes |-> Bytes(e)]
  <2>1. x \in Entries(Event) /\ x.event = e /\ x.bytes = Bytes(e)
    BY <1>0 DEF Entries
  <2>2. queue' = Append(queue, x) /\ pendingBytes' = pendingBytes + Bytes(e)
    BY <1>3 DEF Send
  <2> HIDE DEF x
  <2>3. queue' \in Seq(Entries(Event)) /\ EventsIn(queue') = Append(EventsIn(queue), e)
    BY <2>1, <2>2, AppendProperties, EventsGrow
  <2>4. EventsIn(queue) \in Seq(Event) /\ shown \o EventsIn(queue) \in Seq(Event)
    BY EventsAreTyped, ConcatProperties
  <2>5. shown \o EventsIn(queue') = Append(shown \o EventsIn(queue), e)
    BY <1>0, <2>3, <2>4, ConcatAppends
  <2>6. Joined(Append(shown \o EventsIn(queue), e)) = Joined(shown \o EventsIn(queue)) \o <<e>>
    BY <1>0, <2>4, JoinedGrows
  <2>7. BytesOf(queue') = BytesOf(queue) + Bytes(e)
    BY <2>1, <2>2, BytesGrow
  <2> QED BY <1>1, <2>2, <2>3, <2>5, <2>6, <2>7 DEF Flows
<1> QED BY <1>2, <1>3

\* What leaves the queue has been shown.
LEMMA Showing ==
    ASSUME queue \in Seq(Entries(Event)), queue # <<>>, shown \in Seq(Event),
           Flows(queue, pendingBytes, shown, sent)
    PROVE  /\ Tail(queue) \in Seq(Entries(Event)) /\ Append(shown, Head(queue).event) \in Seq(Event)
           /\ Flows(Tail(queue), pendingBytes - Head(queue).bytes, Append(shown, Head(queue).event), sent)
<1> DEFINE e == Head(queue).event
           r == EventsIn(Tail(queue))
<1>1. e \in Event /\ Tail(queue) \in Seq(Entries(Event)) /\ EventsIn(queue) = <<e>> \o r
  BY EventsLeave
<1>2. r \in Seq(Event)
  BY <1>1, EventsAreTyped
<1> HIDE DEF r, e
<1>3. <<e>> \in Seq(Event)
  BY <1>1
<1>4. Append(shown, e) \in Seq(Event) /\ Append(shown, e) = shown \o <<e>>
  BY <1>1, AppendProperties, AppendIsConcat
<1>5. shown \o (<<e>> \o r) = Append(shown, e) \o r
  BY <1>2, <1>3, <1>4, ConcatAssociative
<1>6. BytesOf(Tail(queue)) = BytesOf(queue) - Head(queue).bytes
  BY BytesShrink
<1> QED BY <1>1, <1>4, <1>5, <1>6 DEF Flows, r, e

-----------------------------------------------------------------------------
(* What the engine offers, projected.                                        *)

EngineKinds == Kinds \ {"stats", "finished", "none"}
Tos == {"public", "transcript", "compacted", "pruned", "unchanged", "flush", "turn", "completed"}
Posts == {p \in [to : Tos, event : Event] : p.to = "public" => Atom(p.event)}

LEMMA OffersAreWhole ==
    ASSUME made \in Nat, NEW offer \in Allowed
    PROVE  Atom(offer[1]) /\ offer[1].kind \in EngineKinds
<1>1. ASSUME NEW k \in EngineKinds \ {"delta"}
      PROVE  Atom(Made(k)) /\ Made(k).kind = k
  BY <1>1, PlainIs DEF Made, EngineKinds
<1>2. ASSUME NEW key \in Keys
      PROVE  Atom(Piece(key, made + 1)) /\ Piece(key, made + 1).kind = "delta"
  BY <1>2, PieceIs
<1>3. ASSUME NEW k \in EngineKinds \ {"delta"}, offer[1] = Made(k)
      PROVE  Atom(offer[1]) /\ offer[1].kind \in EngineKinds
  BY <1>1, <1>3
<1>4. CASE offer = <<Made("agentEnd"), "gone">>
  BY <1>3, <1>4 DEF EngineKinds, Kinds
<1>5. CASE offer \in Offers
  <2>1. CASE stage = "turn"
    <3>1. offer[1] = Made("turnStart")
      BY <1>5, <2>1 DEF Offers
    <3> QED BY <1>3, <3>1 DEF EngineKinds, Kinds
  <2>2. CASE stage = "prompt"
    <3>1. offer[1] = Made("user") \/ offer[1] = Made("compacted") \/ offer[1] = Made("unchanged")
      BY <1>5, <2>2 DEF Offers
    <3> QED BY <1>3, <3>1 DEF EngineKinds, Kinds
  <2>3. CASE stage = "call"
    <3>1. offer[1] = Made("callStart")
      BY <1>5, <2>3 DEF Offers
    <3> QED BY <1>3, <3>1 DEF EngineKinds, Kinds
  <2>4. CASE stage = "stream"
    <3>1. \/ \E key \in {<<"text", 0>>, <<"tool", 1>>} : offer = <<Piece(key, made + 1), "stream">>
          \/ offer = <<Made("retry"), "call">>
          \/ \E s \in StopReasons : offer = <<[Made("callEnd") EXCEPT !.stop = s], "answer">>
      BY <1>5, <2>4 DEF Offers
    <3>2. ASSUME NEW key \in {<<"text", 0>>, <<"tool", 1>>}, offer = <<Piece(key, made + 1), "stream">>
          PROVE  Atom(offer[1]) /\ offer[1].kind \in EngineKinds
      <4>1. key \in Keys /\ offer[1] = Piece(key, made + 1)
        BY <3>2 DEF Keys
      <4> QED BY <1>2, <4>1 DEF EngineKinds, Kinds
    <3>3. CASE offer = <<Made("retry"), "call">>
      BY <1>3, <3>3 DEF EngineKinds, Kinds
    <3>4. ASSUME NEW s \in StopReasons, offer = <<[Made("callEnd") EXCEPT !.stop = s], "answer">>
          PROVE  Atom(offer[1]) /\ offer[1].kind \in EngineKinds
      <4>1. "callEnd" \in EngineKinds \ {"delta"}
        BY DEF EngineKinds, Kinds
      <4>2. Made("callEnd") \in Event /\ Made("callEnd").kind = "callEnd"
        BY <1>1, <4>1 DEF Atom
      <4>3. offer[1] = [Made("callEnd") EXCEPT !.stop = s]
        BY <3>4
      <4>4. offer[1] \in Event /\ offer[1].kind = "callEnd"
        <5> DEFINE m == Made("callEnd")
        <5>1. m \in Event /\ m.kind = "callEnd" /\ offer[1] = [m EXCEPT !.stop = s]
          BY <4>2, <4>3
        <5> HIDE DEF m
        <5> QED BY <5>1 DEF Event, Stops
      <4> QED BY <4>1, <4>4 DEF Atom
    <3> QED BY <3>1, <3>2, <3>3, <3>4
  <2>5. CASE stage = "answer"
    <3>1. offer[1] = Made("answer")
      BY <1>5, <2>5 DEF Offers
    <3> QED BY <1>3, <3>1 DEF EngineKinds, Kinds
  <2>6. CASE stage = "tools"
    <3>1. offer[1] = Made("running") \/ offer[1] = Made("result")
      BY <1>5, <2>6 DEF Offers
    <3> QED BY <1>3, <3>1 DEF EngineKinds, Kinds
  <2>7. CASE stage = "told"
    <3>1. offer[1] = Made("resultMessage")
      BY <1>5, <2>7 DEF Offers
    <3> QED BY <1>3, <3>1 DEF EngineKinds, Kinds
  <2>8. CASE stage = "over"
    <3>1. offer[1] = Made("turnEnd")
      BY <1>5, <2>8 DEF Offers
    <3> QED BY <1>3, <3>1 DEF EngineKinds, Kinds
  <2>9. CASE stage = "last"
    <3>1. offer[1] = Made("agentEnd") \/ offer[1] = Made("pruned")
      BY <1>5, <2>9 DEF Offers
    <3> QED BY <1>3, <3>1 DEF EngineKinds, Kinds
  <2>10. CASE stage = "end"
    <3>1. offer[1] = Made("agentEnd")
      BY <1>5, <2>10 DEF Offers
    <3> QED BY <1>3, <3>1 DEF EngineKinds, Kinds
  <2>11. CASE stage \notin {"turn", "prompt", "call", "stream", "answer", "tools", "told", "over", "last", "end"}
    BY <1>5, <2>11 DEF Offers
  <2> QED BY <2>1, <2>2, <2>3, <2>4, <2>5, <2>6, <2>7, <2>8, <2>9, <2>10, <2>11
<1> QED BY <1>4, <1>5 DEF Allowed

\* What is still to be shown, or to be stored, of the event that is being handled.
Part(to, ps, i) == IF i <= Len(ps) /\ ps[i].to = to THEN Told(ps[i].event) ELSE <<>>
Owed(to, ps) == Part(to, ps, 1) \o (Part(to, ps, 2) \o Part(to, ps, 3))
Short(ps) == ps \in Seq(Posts) /\ Len(ps) <= 3

LEMMA ToldTyped ==
    ASSUME NEW e \in Event
    PROVE  Told(e) \in Seq(SomeNodes)
<1>1. CASE Lasts(e)
  <2>1. Node(e.kind, e) \in SomeNodes
    BY <1>1 DEF Lasts, Node, SomeNodes, NodeKinds, Event
  <2> QED BY <1>1, <2>1 DEF Told
<1>2. CASE ~Lasts(e)
  BY <1>2 DEF Told
<1> QED BY <1>1, <1>2

LEMMA PartsTyped ==
    ASSUME NEW ps, Short(ps), NEW to
    PROVE  /\ \A i \in Nat \ {0} : Part(to, ps, i) \in Seq(SomeNodes)
           /\ Owed(to, ps) \in Seq(SomeNodes)
<1>1. ps \in Seq(Posts) /\ Len(ps) \in Nat
  BY LenProperties DEF Short
<1>2. ASSUME NEW i \in Nat \ {0} PROVE Part(to, ps, i) \in Seq(SomeNodes)
  <2>1. CASE i <= Len(ps) /\ ps[i].to = to
    <3>1. ps[i] \in Posts
      BY <1>1, <2>1, ElementOfSeq
    <3>2. ps[i].event \in Event
      BY <3>1 DEF Posts
    <3> QED BY <2>1, <3>2, ToldTyped DEF Part
  <2>2. CASE ~(i <= Len(ps) /\ ps[i].to = to)
    BY <2>2 DEF Part
  <2> QED BY <2>1, <2>2
<1>3. Owed(to, ps) \in Seq(SomeNodes)
  BY <1>2, ConcatProperties DEF Owed
<1> QED BY <1>2, <1>3

\* The first of what is pending, handled.
LEMMA OwedLess ==
    ASSUME NEW ps, Short(ps), ps # <<>>, NEW to
    PROVE  /\ Head(ps) \in Posts /\ Short(Tail(ps)) /\ Owed(to, Tail(ps)) \in Seq(SomeNodes)
           /\ Owed(to, ps) = (IF Head(ps).to = to THEN Told(Head(ps).event) ELSE <<>>) \o Owed(to, Tail(ps))
<1> DEFINE r == Tail(ps)
<1>1. ps \in Seq(Posts) /\ Len(ps) \in 1 .. 3
  <2> DEFINE n == Len(ps)
  <2>1. ps \in Seq(Posts) /\ n <= 3
    BY DEF Short
  <2>2. n \in Nat /\ n # 0
    BY <2>1, EmptySeq, LenProperties
  <2> HIDE DEF n
  <2>3. n \in 1 .. 3
    BY <2>1, <2>2
  <2> QED BY <2>1, <2>3 DEF n
<1>2. /\ r \in Seq(Posts) /\ Len(r) = Len(ps) - 1 /\ \A i \in 1 .. Len(r) : r[i] = ps[i + 1]
      /\ Head(ps) = ps[1] /\ Head(ps) \in Posts
  BY <1>1, HeadTailProperties
<1> HIDE DEF r
<1>3. Short(r)
  BY <1>1, <1>2 DEF Short
<1>4. ASSUME NEW i \in 1 .. 3 PROVE Part(to, r, i) = Part(to, ps, i + 1)
  <2>1. CASE i <= Len(r)
    <3>1. r[i] = ps[i + 1] /\ i + 1 <= Len(ps)
      BY <1>1, <1>2, <2>1
    <3> QED BY <2>1, <3>1 DEF Part
  <2>2. CASE ~(i <= Len(r))
    <3>1. ~(i + 1 <= Len(ps))
      BY <1>1, <1>2, <2>2
    <3> QED BY <2>2, <3>1 DEF Part
  <2> QED BY <2>1, <2>2
<1>5. Part(to, r, 1) = Part(to, ps, 2) /\ Part(to, r, 2) = Part(to, ps, 3) /\ Part(to, r, 3) = <<>>
  <2>1. Part(to, ps, 4) = <<>>
    BY <1>1 DEF Part
  <2>2. 1 \in 1 .. 3 /\ 2 \in 1 .. 3 /\ 3 \in 1 .. 3 /\ 1 + 1 = 2 /\ 2 + 1 = 3 /\ 3 + 1 = 4
    OBVIOUS
  <2>3. Part(to, r, 1) = Part(to, ps, 1 + 1) /\ Part(to, r, 2) = Part(to, ps, 2 + 1) /\ Part(to, r, 3) = Part(to, ps, 3 + 1)
    BY <1>4, <2>2
  <2> QED BY <2>1, <2>2, <2>3
<1>6. Part(to, ps, 3) \in Seq(SomeNodes) /\ Part(to, ps, 3) \o <<>> = Part(to, ps, 3)
  <2>1. Part(to, ps, 3) \in Seq(SomeNodes)
    <3>1. \A i \in Nat \ {0} : Part(to, ps, i) \in Seq(SomeNodes)
      BY PartsTyped
    <3> QED BY <3>1
  <2> QED BY <2>1, ConcatEmptySeq
<1>7. Owed(to, r) = Part(to, ps, 2) \o Part(to, ps, 3)
  BY <1>5, <1>6 DEF Owed
<1>8. Part(to, ps, 1) = IF Head(ps).to = to THEN Told(Head(ps).event) ELSE <<>>
  BY <1>1, <1>2 DEF Part
<1>9. Owed(to, r) \in Seq(SomeNodes)
  BY <1>3, PartsTyped
<1> QED BY <1>2, <1>3, <1>7, <1>8, <1>9 DEF Owed, r

LEMMA NothingOwed ==
    ASSUME NEW to
    PROVE  Owed(to, <<>>) = <<>> /\ Short(<<>>)
<1>1. Len(<<>>) = 0 /\ <<>> \in Seq(Posts)
  OBVIOUS
<1>2. \A i \in 1 .. 3 : Part(to, <<>>, i) = <<>>
  BY <1>1 DEF Part
<1>3. <<>> \o <<>> = <<>>
  OBVIOUS
<1>4. Owed(to, <<>>) = <<>>
  BY <1>2, <1>3 DEF Owed
<1> QED BY <1>1, <1>4 DEF Short

LEMMA QuietOwes ==
    ASSUME NEW ps, Short(ps), \A i \in 1 .. Len(ps) : ~Lasts(ps[i].event), NEW to
    PROVE  Owed(to, ps) = <<>>
<1>1. Len(ps) \in Nat
  BY LenProperties DEF Short
<1>2. ASSUME NEW i \in Nat \ {0} PROVE Part(to, ps, i) = <<>>
  <2>1. CASE i <= Len(ps)
    <3>1. i \in 1 .. Len(ps)
      BY <1>1, <2>1
    <3> QED BY <3>1 DEF Part, Told
  <2>2. CASE ~(i <= Len(ps))
    BY <2>2 DEF Part
  <2> QED BY <2>1, <2>2
<1>3. Part(to, ps, 1) = <<>> /\ Part(to, ps, 2) = <<>> /\ Part(to, ps, 3) = <<>> /\ <<>> \o <<>> = <<>>
  BY <1>2
<1> QED BY <1>3 DEF Owed

Stats(e) == [e EXCEPT !.kind = "stats"]

LEMMA PostsAre ==
    ASSUME NEW e, Atom(e)
    PROVE  /\ Public(e) \in Posts /\ Public(e).to = "public" /\ Public(e).event = e
           /\ Record(e) \in Posts /\ Record(e).to = "transcript" /\ Record(e).event = e
           /\ Record(Stats(e)) \in Posts /\ Record(Stats(e)).to = "transcript" /\ Record(Stats(e)).event = Stats(e)
           /\ Stats(e) \in Event /\ ~Lasts(Stats(e))
           /\ \A to \in Tos \ {"public"} :
                 Signal(to) \in Posts /\ Signal(to).to = to /\ Signal(to).event = Plain("none", 0) /\ ~Lasts(Signal(to).event)
<1>1. e \in Event
  BY DEF Atom
<1>2. Stats(e) \in Event /\ Stats(e).kind = "stats"
  BY <1>1 DEF Stats, Event, Kinds
<1>3. Plain("none", 0) \in Event /\ Plain("none", 0).kind = "none"
  BY PlainIs DEF Kinds
<1>4. Public(e) \in Posts /\ Public(e).to = "public" /\ Public(e).event = e
  BY <1>1 DEF Public, Posts, Tos
<1>5. ASSUME NEW x \in Event PROVE Record(x) \in Posts /\ Record(x).to = "transcript" /\ Record(x).event = x
  BY DEF Record, Posts, Tos
<1>6. ASSUME NEW to \in Tos \ {"public"} PROVE Signal(to) \in Posts /\ Signal(to).to = to /\ Signal(to).event = Plain("none", 0)
  BY <1>3, <1>6 DEF Signal, Posts
<1>7. ~Lasts(Stats(e)) /\ ~Lasts(Plain("none", 0))
  BY <1>2, <1>3 DEF Lasts
<1> QED BY <1>1, <1>2, <1>4, <1>5, <1>6, <1>7

\* What is shown of an event and what is stored of it come to the same.
LEMMA ProjectionIsFair ==
    ASSUME NEW e, Atom(e), e.kind \in EngineKinds
    PROVE  Short(Project(e)) /\ Owed("public", Project(e)) = Owed("transcript", Project(e))
<1> DEFINE ps == Project(e)
           p == Public(e)
           r == Record(e)
           t == Record(Stats(e))
<1>0. e \in Event
  BY DEF Atom
<1>1. /\ p \in Posts /\ p.to = "public" /\ p.event = e
      /\ r \in Posts /\ r.to = "transcript" /\ r.event = e
      /\ t \in Posts /\ t.to = "transcript" /\ t.event = Stats(e) /\ ~Lasts(Stats(e))
  BY PostsAre
<1>2. ASSUME NEW to \in Tos \ {"public"}
      PROVE  Signal(to) \in Posts /\ ~Lasts(Signal(to).event)
  BY <1>2, PostsAre
<1>3. Told(e) \in Seq(SomeNodes) /\ Told(e) \o <<>> = Told(e) /\ <<>> \o Told(e) = Told(e) /\ <<>> \o <<>> = <<>>
  <2>1. Told(e) \in Seq(SomeNodes)
    BY <1>0, ToldTyped
  <2> QED BY <2>1, ConcatEmptySeq
<1>4. CASE e.kind = "answer"
  <2>1. ps = <<r, p>>
    BY <1>4 DEF Project, OfMessages
  <2> HIDE DEF p, r, t, ps
  <2>2. Len(ps) = 2 /\ ps[1] = r /\ ps[2] = p /\ ps \in Seq(Posts)
    BY <1>1, <2>1
  <2>3. Short(ps)
    BY <2>2 DEF Short
  <2>4. /\ Part("public", ps, 1) = <<>> /\ Part("public", ps, 2) = Told(e) /\ Part("public", ps, 3) = <<>>
        /\ Part("transcript", ps, 1) = Told(e) /\ Part("transcript", ps, 2) = <<>> /\ Part("transcript", ps, 3) = <<>>
    BY <1>1, <2>2 DEF Part
  <2>5. Owed("public", ps) = Told(e) /\ Owed("transcript", ps) = Told(e)
    BY <1>3, <2>4 DEF Owed
  <2> QED BY <2>3, <2>5 DEF ps
<1>5. CASE e.kind = "result"
  <2>1. ps = <<r, t, p>>
    BY <1>5 DEF Project, OfTools, Stats
  <2> HIDE DEF p, r, t, ps
  <2>2. Len(ps) = 3 /\ ps[1] = r /\ ps[2] = t /\ ps[3] = p /\ ps \in Seq(Posts)
    BY <1>1, <2>1
  <2>3. Short(ps)
    BY <2>2 DEF Short
  <2>4. Told(Stats(e)) = <<>>
    BY <1>1 DEF Told
  <2>5. /\ Part("public", ps, 1) = <<>> /\ Part("public", ps, 2) = <<>> /\ Part("public", ps, 3) = Told(e)
        /\ Part("transcript", ps, 1) = Told(e) /\ Part("transcript", ps, 2) = <<>> /\ Part("transcript", ps, 3) = <<>>
    BY <1>1, <2>2, <2>4 DEF Part
  <2>6. Owed("public", ps) = Told(e) /\ Owed("transcript", ps) = Told(e)
    BY <1>3, <2>5 DEF Owed
  <2> QED BY <2>3, <2>6 DEF ps
<1>6. CASE e.kind \notin {"answer", "result"}
  <2>1. ~Lasts(e)
    BY <1>6 DEF Lasts
  <2>2. \/ ps = <<>> \/ ps = <<r>> \/ ps = <<p>> \/ ps = <<t, p>>
        \/ ps = <<t, p, Signal("pruned")>>
        \/ \E to \in Tos \ {"public"} : ps = <<Signal(to), p>> \/ ps = <<Signal(to)>>
    <3>1. CASE e.kind \in {"user", "resultMessage", "delta"}
      BY <3>1 DEF Project, OfMessages
    <3>2. CASE e.kind = "running"
      BY <3>2 DEF Project, OfTools
    <3>3. CASE e.kind \in {"callStart", "retry", "callEnd"}
      BY <3>3 DEF Project, OfCalls, Stats
    <3>4. CASE e.kind = "pruned"
      BY <3>4 DEF Project, OfContext, Stats
    <3>5. CASE e.kind \in {"compacted", "unchanged"}
      BY <3>5 DEF Project, OfContext, Tos
    <3>6. CASE e.kind = "turnStart"
      BY <3>6 DEF Project, Tos
    <3>7. CASE e.kind = "turnEnd"
      BY <3>7 DEF Project, Tos
    <3>8. CASE e.kind = "agentEnd"
      BY <3>8 DEF Project, Tos
    <3> QED BY <1>6, <3>1, <3>2, <3>3, <3>4, <3>5, <3>6, <3>7, <3>8 DEF EngineKinds, Kinds
  <2> HIDE DEF p, r, t, ps
  <2>3. ASSUME NEW q, \/ q = <<>> \/ q = <<r>> \/ q = <<p>> \/ q = <<t, p>>
                      \/ q = <<t, p, Signal("pruned")>>
                      \/ \E to \in Tos \ {"public"} : q = <<Signal(to), p>> \/ q = <<Signal(to)>>
        PROVE  Short(q) /\ \A i \in 1 .. Len(q) : ~Lasts(q[i].event)
    <3>1. CASE q = <<>>
      BY <3>1 DEF Short
    <3>2. ASSUME NEW a \in {r, p}, q = <<a>>
          PROVE  Short(q) /\ \A i \in 1 .. Len(q) : ~Lasts(q[i].event)
      BY <1>1, <2>1, <3>2 DEF Short
    <3>3. CASE q = <<t, p>>
      BY <1>1, <2>1, <3>3 DEF Short
    <3>4. CASE q = <<t, p, Signal("pruned")>>
      <4>1. Signal("pruned") \in Posts /\ ~Lasts(Signal("pruned").event)
        BY <1>2 DEF Tos
      <4> QED BY <1>1, <2>1, <3>4, <4>1 DEF Short
    <3>5. ASSUME NEW to \in Tos \ {"public"}, q = <<Signal(to), p>> \/ q = <<Signal(to)>>
          PROVE  Short(q) /\ \A i \in 1 .. Len(q) : ~Lasts(q[i].event)
      <4> DEFINE s == Signal(to)
      <4>1. s \in Posts /\ ~Lasts(s.event) /\ (q = <<s, p>> \/ q = <<s>>)
        BY <1>2, <3>5
      <4> HIDE DEF s
      <4>2. CASE q = <<s, p>>
        BY <1>1, <2>1, <4>1, <4>2 DEF Short
      <4>3. CASE q = <<s>>
        BY <4>1, <4>3 DEF Short
      <4> QED BY <4>1, <4>2, <4>3
    <3> QED BY <2>3, <3>1, <3>2, <3>3, <3>4, <3>5
  <2>4. Short(ps) /\ \A i \in 1 .. Len(ps) : ~Lasts(ps[i].event)
    BY <2>2, <2>3
  <2>5. Owed("public", ps) = <<>> /\ Owed("transcript", ps) = <<>>
    BY <2>4, QuietOwes
  <2> QED BY <2>4, <2>5 DEF ps
<1> QED BY <1>4, <1>5, <1>6

-----------------------------------------------------------------------------
(* The run.                                                                  *)

Written == stored \o Unsaved

EventTypes ==
    /\ made \in Nat
    /\ loop \in {"read", "registered", "checked", "waiting", "select", "signal", "finish", "closing", "over"}
    /\ Short(pendingEvents)
    /\ {consumerClosed, ready, woken, senderClosed, receiverClosed} \subseteq BOOLEAN
    /\ transcript \in Seq(Event) /\ saved \in 0 .. Len(transcript) /\ stored \in Seq(Event)
    /\ queue \in Seq(Entries(Event))
    /\ listener \in {"look", "notify", "asleep", "finished", "gone"}
    /\ sent \in Seq(Event) /\ shown \in Seq(Event)

\* A loop that has registered for room still lacks it, or is told; it handles nothing meanwhile.
RoomIsAwaited ==
    /\ loop \in {"registered", "checked", "waiting", "select"} => pendingEvents = <<>>
    /\ loop \in {"checked", "waiting"} /\ ~woken /\ ~receiverClosed => OverBudget \/ listener = "notify"

ListenerIsCalled ==
    listener = "asleep" /\ loop # "signal" => queue = <<>> /\ ~senderClosed

\* What the screen shows and is still to show is what is written and is still to be.
ScreenKeepsUp ==
    /\ consumerClosed => receiverClosed
    /\ ~receiverClosed =>
          Screen(sent) \o Owed("public", pendingEvents) = Replay(Written) \o Owed("transcript", pendingEvents)

EventsInvariant ==
    EventTypes /\ Flows(queue, pendingBytes, shown, sent) /\ RoomIsAwaited /\ ListenerIsCalled /\ ScreenKeepsUp

LEMMA UnsavedIs ==
    ASSUME NEW t \in Seq(Event), NEW k \in 0 .. Len(t)
    PROVE  /\ SubSeq(t, k + 1, Len(t)) \in Seq(Event)
           /\ \A e \in Event : SubSeq(Append(t, e), k + 1, Len(Append(t, e))) = Append(SubSeq(t, k + 1, Len(t)), e)
           /\ SubSeq(t, Len(t) + 1, Len(t)) = <<>>
<1>1. Len(t) \in Nat /\ \A i \in 1 .. Len(t) : t[i] \in Event
  BY LenProperties, ElementOfSeq
<1>2. /\ SubSeq(t, k + 1, Len(t)) \in Seq(Event) /\ Len(SubSeq(t, k + 1, Len(t))) = Len(t) - k
      /\ \A i \in 1 .. Len(t) - k : SubSeq(t, k + 1, Len(t))[i] = t[k + i]
  BY <1>1
<1>3. ASSUME NEW e \in Event
      PROVE  SubSeq(Append(t, e), k + 1, Len(Append(t, e))) = Append(SubSeq(t, k + 1, Len(t)), e)
  <2> DEFINE u == Append(t, e)
             a == SubSeq(u, k + 1, Len(u))
             s == SubSeq(t, k + 1, Len(t))
             b == Append(s, e)
  <2>1. u \in Seq(Event) /\ Len(u) = Len(t) + 1 /\ u[Len(t) + 1] = e /\ \A i \in 1 .. Len(t) : u[i] = t[i]
    BY AppendProperties
  <2> HIDE DEF u
  <2>2. a \in Seq(Event) /\ Len(a) = Len(u) - k /\ \A i \in 1 .. Len(u) - k : a[i] = u[k + i]
    <3>1. Len(u) \in Nat /\ \A i \in 1 .. Len(u) : u[i] \in Event
      BY <2>1, LenProperties, ElementOfSeq
    <3>2. k \in 0 .. Len(u)
      BY <1>1, <2>1
    <3> QED BY <2>1, <3>1, <3>2
  <2> HIDE DEF a
  <2>3. /\ b \in Seq(Event) /\ Len(b) = (Len(t) - k) + 1 /\ b[(Len(t) - k) + 1] = e
        /\ \A i \in 1 .. Len(t) - k : b[i] = t[k + i]
    BY <1>2, AppendProperties
  <2> HIDE DEF s, b
  <2>4. ASSUME NEW i \in 1 .. Len(a) PROVE a[i] = b[i]
    <3>1. i \in 1 .. Len(t) - k \/ i = (Len(t) - k) + 1
      <4>1. Len(a) = (Len(t) - k) + 1
        BY <1>1, <2>1, <2>2
      <4>2. Len(t) - k \in Nat
        BY <1>1
      <4> DEFINE n == Len(t) - k
      <4> HIDE DEF n
      <4>3. n \in Nat /\ i \in 1 .. n + 1
        BY <4>1, <4>2 DEF n
      <4>4. i \in 1 .. n \/ i = n + 1
        BY <4>3
      <4> QED BY <4>4 DEF n
    <3>2. a[i] = u[k + i]
      BY <2>2
    <3>3. CASE i \in 1 .. Len(t) - k
      <4>1. k + i \in 1 .. Len(t)
        BY <1>1, <3>3
      <4> QED BY <2>1, <2>3, <3>2, <3>3, <4>1
    <3>4. CASE i = (Len(t) - k) + 1
      <4>1. k + i = Len(t) + 1
        BY <1>1, <3>4
      <4> QED BY <2>1, <2>3, <3>2, <3>4, <4>1
    <3> QED BY <3>1, <3>3, <3>4
  <2>5. Len(a) = Len(b)
    BY <1>1, <2>1, <2>2, <2>3
  <2>6. a = b
    BY <2>2, <2>3, <2>4, <2>5, SeqEqual
  <2> QED BY <2>6 DEF a, b, s, u
<1>4. SubSeq(t, Len(t) + 1, Len(t)) = <<>>
  <2>1. Len(t) \in 0 .. Len(t)
    BY <1>1
  <2>2. SubSeq(t, Len(t) + 1, Len(t)) \in Seq(Event) /\ Len(SubSeq(t, Len(t) + 1, Len(t))) = 0
    BY <1>1
  <2> QED BY <2>2, EmptySeq
<1> QED BY <1>2, <1>3, <1>4

\* One item more, not saved yet; everything saved; and a compaction stored behind what was said before it.
LEMMA WrittenGrows ==
    ASSUME transcript \in Seq(Event), saved \in 0 .. Len(transcript), stored \in Seq(Event)
    PROVE  /\ Written \in Seq(Event)
           /\ \A e \in Event : transcript' = Append(transcript, e) /\ saved' = saved /\ stored' = stored
                                => Written' = Append(Written, e)
           /\ transcript' = transcript /\ saved' = saved /\ stored' = stored => Written' = Written
           /\ transcript' = transcript /\ Flush => Written' = Written
           /\ \A n \in Nat, e \in Event : StoreCompact(n) /\ transcript' = Append(transcript, e)
                                => Written' = Append(Append(Written, Plain("compacted", n)), e)
<1> DEFINE u == SubSeq(transcript, saved + 1, Len(transcript))
<1>1. /\ u \in Seq(Event)
      /\ \A e \in Event :
            SubSeq(Append(transcript, e), saved + 1, Len(Append(transcript, e))) = Append(u, e)
  BY UnsavedIs
<1>2. SubSeq(transcript, Len(transcript) + 1, Len(transcript)) = <<>>
  BY UnsavedIs
<1>3. Unsaved = u /\ Written = stored \o u
  BY DEF Unsaved, Written
<1>4. Unsaved' = SubSeq(transcript', saved' + 1, Len(transcript')) /\ Written' = stored' \o Unsaved'
  BY DEF Unsaved, Written
<1> HIDE DEF u
<1>5. Written \in Seq(Event)
  BY <1>1, <1>3, ConcatProperties
<1>6. ASSUME NEW e \in Event, transcript' = Append(transcript, e), saved' = saved, stored' = stored
      PROVE  Written' = Append(Written, e)
  <2>1. Written' = stored \o Append(u, e)
    BY <1>1, <1>4, <1>6
  <2> QED BY <1>1, <1>3, <2>1, ConcatAppends
<1>7. ASSUME transcript' = transcript, saved' = saved, stored' = stored
      PROVE  Written' = Written
  BY <1>7 DEF Unsaved, Written
<1>8. ASSUME transcript' = transcript, Flush
      PROVE  Written' = Written
  <2>1. Unsaved' = <<>> /\ stored' = Written
    BY <1>2, <1>4, <1>8 DEF Flush, Written
  <2> QED BY <1>4, <1>5, <2>1, ConcatEmptySeq
<1>9. ASSUME NEW n \in Nat, NEW e \in Event, StoreCompact(n), transcript' = Append(transcript, e)
      PROVE  Written' = Append(Append(Written, Plain("compacted", n)), e)
  <2> DEFINE c == Plain("compacted", n)
             v == SubSeq(transcript, Len(transcript) + 1, Len(transcript))
  <2>1. c \in Event
    BY PlainIs DEF Kinds
  <2>2. stored' = Written \o <<c>> /\ saved' = Len(transcript)
    BY <1>9 DEF StoreCompact, Written
  <2> HIDE DEF c
  <2>3. stored' = Append(Written, c) /\ stored' \in Seq(Event)
    BY <1>5, <2>1, <2>2, AppendIsConcat, AppendProperties
  <2>4. Unsaved' = Append(<<>>, e)
    <3>1. Len(transcript) \in 0 .. Len(transcript)
      BY LenProperties
    <3>2. SubSeq(Append(transcript, e), Len(transcript) + 1, Len(Append(transcript, e))) = Append(v, e)
      BY <3>1, UnsavedIs
    <3> QED BY <1>2, <1>4, <1>9, <2>2, <3>2
  <2>5. <<>> \in Seq(Event)
    OBVIOUS
  <2>6. stored' \o Append(<<>>, e) = Append(stored' \o <<>>, e)
    BY <2>3, <2>5, ConcatAppends
  <2> QED BY <1>4, <2>3, <2>4, <2>6, ConcatEmptySeq DEF c
<1> QED BY <1>5, <1>6, <1>7, <1>8, <1>9

LEMMA SomeEvent == \E e : e \in Event
BY PlainIs DEF Kinds

LEMMA EventsStart == EventsInit => EventsInvariant
<1> SUFFICES ASSUME EventsInit PROVE EventsInvariant
  OBVIOUS
<1> USE DEF EventsInit
<1>1. <<>> \in Seq(Event) /\ <<>> \in Seq(Entries(Event)) /\ Len(<<>>) = 0
  OBVIOUS
<1>2. EventTypes
  <2>1. Short(<<>>)
    BY NothingOwed
  <2>2. saved \in 0 .. Len(transcript)
    BY <1>1
  <2>3. {consumerClosed, ready, woken, senderClosed, receiverClosed} \subseteq BOOLEAN
    OBVIOUS
  <2> QED BY <1>1, <2>1, <2>2, <2>3 DEF EventTypes
<1>3. Flows(queue, pendingBytes, shown, sent)
  <2>1. EventsIn(queue) = <<>> /\ shown \o EventsIn(queue) = <<>>
    BY DEF EventsIn
  <2>2. Joined(<<>>) = <<>>
    <3>1. [i \in 1 .. Len(<<>>) |-> Pieces(<<>>[i])] = <<>>
      OBVIOUS
    <3> QED BY <3>1, FlattenedNone DEF Joined
  <2> QED BY <2>1, <2>2, BytesOfNone DEF Flows
<1>4. ScreenKeepsUp
  <2>1. Unsaved = <<>> /\ Written = <<>>
    <3>1. 0 \in 0 .. Len(transcript)
      BY <1>1
    <3>2. SubSeq(transcript, Len(transcript) + 1, Len(transcript)) = <<>>
      BY <1>1, <3>1, UnsavedIs
    <3>3. Unsaved = <<>>
      BY <1>1, <3>2 DEF Unsaved
    <3> QED BY <3>3 DEF Written
  <2>2. Screen(<<>>) = <<>> /\ Replay(<<>>) = <<>>
    <3>1. [i \in 1 .. Len(<<>>) |-> Nodes(<<>>[i])] = <<>> /\ [i \in 1 .. Len(<<>>) |-> Replayed(<<>>[i])] = <<>>
      OBVIOUS
    <3> QED BY <3>1, FlattenedNone, SettledNone DEF Screen, Replay
  <2> QED BY <2>1, <2>2, NothingOwed DEF ScreenKeepsUp
<1> QED BY <1>2, <1>3, <1>4 DEF EventsInvariant, RoomIsAwaited, ListenerIsCalled

\* What the steps that move neither an event nor an item leave as it was.
LEMMA NothingMoves ==
    ASSUME EventsInvariant,
           UNCHANGED <<pendingEvents, consumerClosed, receiverClosed, transcript, saved, stored, queue, pendingBytes, sent, shown>>
    PROVE  Flows(queue', pendingBytes', shown', sent') /\ ScreenKeepsUp'
<1>1. Written' = Written
  BY DEF Written, Unsaved
<1>2. ScreenKeepsUp'
  BY <1>1 DEF EventsInvariant, ScreenKeepsUp
<1> QED BY <1>2 DEF EventsInvariant

LEMMA LoopSteps ==
    ASSUME EventsInvariant, Register \/ CheckBudget \/ Sleep \/ Wake \/ SignalSent \/ DropSender
    PROVE  EventsInvariant'
<1>0. UNCHANGED <<made, pendingEvents, consumerClosed, receiverClosed, transcript, saved, stored, queue, pendingBytes, sent, shown>>
  BY DEF Register, CheckBudget, Sleep, Wake, SignalSent, DropSender, queueVars, engineVars
<1>1. Flows(queue', pendingBytes', shown', sent') /\ ScreenKeepsUp'
  BY <1>0, NothingMoves
<1> USE DEF EventsInvariant, EventTypes, RoomIsAwaited, ListenerIsCalled, OverBudget
<1>2. CASE Register
  BY <1>0, <1>1, <1>2 DEF Register
<1>3. CASE CheckBudget
  BY <1>0, <1>1, <1>3 DEF CheckBudget, queueVars
<1>4. CASE Sleep
  BY <1>0, <1>1, <1>4 DEF Sleep, queueVars
<1>5. CASE Wake
  BY <1>0, <1>1, <1>5 DEF Wake
<1>6. CASE SignalSent
  BY <1>0, <1>1, <1>6 DEF SignalSent, SignalReady
<1>7. CASE DropSender
  BY <1>0, <1>1, <1>7 DEF DropSender, SignalReady
<1> QED BY <1>2, <1>3, <1>4, <1>5, <1>6, <1>7

LEMMA ListenerSteps ==
    ASSUME EventsInvariant, Look \/ Notify \/ DropReceiver
    PROVE  EventsInvariant'
<1>0. EventTypes /\ Flows(queue, pendingBytes, shown, sent) /\ ScreenKeepsUp
  BY DEF EventsInvariant
<1>1. CASE Look
  <2>0. UNCHANGED <<engineVars, loopVars, woken, senderClosed, receiverClosed, sent>>
    BY <1>1 DEF Look
  <2>1. ScreenKeepsUp'
    <3>1. Written' = Written
      BY <2>0 DEF Written, Unsaved, loopVars
    <3> QED BY <1>0, <2>0, <3>1 DEF ScreenKeepsUp, loopVars
  <2>2. CASE queue # <<>> /\ queue' = Tail(queue) /\ shown' = Append(shown, Head(queue).event)
              /\ pendingBytes' = pendingBytes - Head(queue).bytes /\ listener' = "notify" /\ UNCHANGED ready
    <3>1. queue' \in Seq(Entries(Event)) /\ shown' \in Seq(Event) /\ Flows(queue', pendingBytes', shown', sent')
      BY <1>0, <2>0, <2>2, Showing DEF EventTypes
    <3> QED BY <1>0, <2>0, <2>1, <2>2, <3>1
            DEF EventsInvariant, EventTypes, RoomIsAwaited, ListenerIsCalled, loopVars, engineVars
  <2>3. CASE queue = <<>> /\ UNCHANGED <<queue, pendingBytes, shown>>
              /\ \/ senderClosed /\ listener' = "finished" /\ UNCHANGED ready
                 \/ ~senderClosed /\ IF ready THEN ready' = FALSE /\ UNCHANGED listener
                                     ELSE listener' = "asleep" /\ UNCHANGED ready
    <3>1. listener = "look"
      BY <1>1 DEF Look
    <3>2. Flows(queue', pendingBytes', shown', sent')
      BY <1>0, <2>0, <2>3
    <3>3. EventTypes'
      BY <1>0, <2>0, <2>3, <3>1 DEF EventTypes, loopVars, engineVars
    <3>4. RoomIsAwaited' /\ ListenerIsCalled'
      BY <2>0, <2>3, <3>1 DEF EventsInvariant, RoomIsAwaited, ListenerIsCalled, OverBudget, loopVars, engineVars
    <3> QED BY <2>1, <3>2, <3>3, <3>4 DEF EventsInvariant
  <2> QED BY <1>1, <2>2, <2>3 DEF Look
<1>2. CASE Notify
  <2>0. /\ listener = "notify" /\ listener' = "look"
        /\ woken' = (loop \in {"registered", "checked", "waiting"} \/ woken)
        /\ UNCHANGED <<engineVars, loopVars, queue, pendingBytes, ready, senderClosed, receiverClosed, sent, shown>>
    BY <1>2 DEF Notify, NotifyDrained
  <2>1. Flows(queue', pendingBytes', shown', sent') /\ ScreenKeepsUp'
    BY <2>0, NothingMoves DEF loopVars
  <2>2. EventTypes'
    BY <1>0, <2>0 DEF EventTypes, loopVars, engineVars
  <2>3. RoomIsAwaited' /\ ListenerIsCalled'
    BY <2>0 DEF EventsInvariant, RoomIsAwaited, ListenerIsCalled, loopVars
  <2> QED BY <2>1, <2>2, <2>3 DEF EventsInvariant
<1>3. CASE DropReceiver
  <2>0. /\ listener' = "gone" /\ receiverClosed' = TRUE
        /\ UNCHANGED <<engineVars, loopVars, queue, pendingBytes, ready, woken, senderClosed, sent, shown>>
    BY <1>3 DEF DropReceiver
  <2> QED BY <1>0, <2>0
          DEF EventsInvariant, EventTypes, RoomIsAwaited, ListenerIsCalled, ScreenKeepsUp, loopVars, engineVars
<1> QED BY <1>1, <1>2, <1>3

LEMMA ReadingSteps ==
    ASSUME EventsInvariant, NoticeClosed \/ ReadEngine
    PROVE  EventsInvariant'
<1>0. EventTypes /\ Flows(queue, pendingBytes, shown, sent) /\ ScreenKeepsUp
  BY DEF EventsInvariant
<1>1. CASE NoticeClosed
  <2>0. /\ receiverClosed /\ consumerClosed' = TRUE /\ loop' = "read"
        /\ UNCHANGED <<engineVars, pendingEvents, transcript, saved, stored, queueVars>>
        /\ loop \in {"select", "read"}
    BY <1>1 DEF NoticeClosed, Reading
  <2> QED BY <1>0, <2>0
          DEF EventsInvariant, EventTypes, RoomIsAwaited, ListenerIsCalled, ScreenKeepsUp, queueVars, engineVars
<1>2. CASE ReadEngine
  <2>1. PICK offer \in Allowed : pendingEvents' = Project(offer[1]) /\ made' = made + 1
    BY <1>2 DEF ReadEngine
  <2>2. /\ loop' = "read" /\ loop \in {"select", "read"}
        /\ UNCHANGED <<consumerClosed, transcript, saved, stored, queueVars>>
    BY <1>2 DEF ReadEngine, Reading
  <2>3. Short(pendingEvents') /\ Owed("public", pendingEvents') = Owed("transcript", pendingEvents')
    <3>1. Atom(offer[1]) /\ offer[1].kind \in EngineKinds
      BY <1>0, OffersAreWhole DEF EventTypes
    <3> QED BY <2>1, <3>1, ProjectionIsFair
  <2>4. EventTypes'
    BY <1>0, <2>1, <2>2, <2>3 DEF EventTypes, queueVars
  <2>5. RoomIsAwaited' /\ ListenerIsCalled' /\ Flows(queue', pendingBytes', shown', sent')
    BY <1>0, <2>2 DEF EventsInvariant, RoomIsAwaited, ListenerIsCalled, queueVars
  <2>6. ScreenKeepsUp'
    <3>1. pendingEvents = <<>>
      BY <1>2 DEF ReadEngine, Reading, EventsInvariant, RoomIsAwaited
    <3>2. Written' = Written
      BY <2>2 DEF Written, Unsaved
    <3>3. consumerClosed' => receiverClosed'
      BY <1>0, <2>2 DEF ScreenKeepsUp, queueVars
    <3>4. ASSUME ~receiverClosed'
          PROVE  Screen(sent') \o Owed("public", pendingEvents') = Replay(Written') \o Owed("transcript", pendingEvents')
      <4>1. Screen(sent) \o <<>> = Replay(Written) \o <<>>
        <5>1. Owed("public", <<>>) = <<>> /\ Owed("transcript", <<>>) = <<>>
          BY NothingOwed
        <5> QED BY <1>0, <2>2, <3>1, <3>4, <5>1 DEF ScreenKeepsUp, queueVars
      <4>2. Screen(sent) = Replay(Written)
        <5>1. Screen(sent) \in Seq(SomeNodes) /\ Replay(Written) \in Seq(SomeNodes)
          BY <1>0, SomeEvent, ScreenGrows, ReplayGrows, WrittenGrows DEF EventTypes
        <5> QED BY <4>1, <5>1, ConcatEmptySeq
      <4> QED BY <2>2, <2>3, <3>2, <4>2 DEF queueVars
    <3> QED BY <3>3, <3>4 DEF ScreenKeepsUp
  <2> QED BY <2>4, <2>5, <2>6 DEF EventsInvariant
<1> QED BY <1>1, <1>2

\* What handling it shows, or writes.
Said(to, p) == IF p.to = to THEN Told(p.event) ELSE <<>>

LEMMA Regroups ==
    ASSUME NEW a \in Seq(SomeNodes), NEW b \in Seq(SomeNodes), NEW c \in Seq(SomeNodes)
    PROVE  (a \o b) \o c = a \o (b \o c)
BY ConcatAssociative

LEMMA BalanceIsKept ==
    ASSUME NEW ps, Short(ps), ps # <<>>, NEW a \in Seq(SomeNodes), NEW b \in Seq(SomeNodes),
           a \o Owed("public", ps) = b \o Owed("transcript", ps)
    PROVE  (a \o Said("public", Head(ps))) \o Owed("public", Tail(ps))
             = (b \o Said("transcript", Head(ps))) \o Owed("transcript", Tail(ps))
<1>1. ASSUME NEW to
      PROVE  /\ Said(to, Head(ps)) \in Seq(SomeNodes) /\ Owed(to, Tail(ps)) \in Seq(SomeNodes)
             /\ Owed(to, ps) = Said(to, Head(ps)) \o Owed(to, Tail(ps))
  <2>1. /\ Head(ps) \in Posts /\ Owed(to, Tail(ps)) \in Seq(SomeNodes)
        /\ Owed(to, ps) = Said(to, Head(ps)) \o Owed(to, Tail(ps))
    BY OwedLess DEF Said
  <2>2. Told(Head(ps).event) \in Seq(SomeNodes)
    BY <2>1, ToldTyped DEF Posts
  <2> QED BY <2>1, <2>2 DEF Said
<1>2. (a \o Said("public", Head(ps))) \o Owed("public", Tail(ps)) = a \o Owed("public", ps)
  <2>1. Said("public", Head(ps)) \in Seq(SomeNodes) /\ Owed("public", Tail(ps)) \in Seq(SomeNodes)
    BY <1>1
  <2>2. (a \o Said("public", Head(ps))) \o Owed("public", Tail(ps))
          = a \o (Said("public", Head(ps)) \o Owed("public", Tail(ps)))
    BY <2>1, Regroups
  <2> QED BY <1>1, <2>2
<1>3. (b \o Said("transcript", Head(ps))) \o Owed("transcript", Tail(ps)) = b \o Owed("transcript", ps)
  <2>1. Said("transcript", Head(ps)) \in Seq(SomeNodes) /\ Owed("transcript", Tail(ps)) \in Seq(SomeNodes)
    BY <1>1
  <2>2. (b \o Said("transcript", Head(ps))) \o Owed("transcript", Tail(ps))
          = b \o (Said("transcript", Head(ps)) \o Owed("transcript", Tail(ps)))
    BY <2>1, Regroups
  <2> QED BY <1>1, <2>2
<1> QED BY <1>2, <1>3

\* An item that is no answer and no result adds nothing to a replay, and neither does such an event to the screen.
LEMMA QuietAddsNothing ==
    ASSUME NEW s \in Seq(Event), NEW e \in Event, ~Lasts(e)
    PROVE  /\ Append(s, e) \in Seq(Event)
           /\ Screen(Append(s, e)) = Screen(s) /\ Replay(Append(s, e)) = Replay(s)
<1>1. Append(s, e) \in Seq(Event) /\ Told(e) = <<>>
  BY AppendProperties DEF Told
<1>2. Screen(s) \in Seq(SomeNodes) /\ Replay(s) \in Seq(SomeNodes)
  BY ScreenGrows, ReplayGrows
<1>3. Screen(Append(s, e)) = Screen(s) \o <<>> /\ Replay(Append(s, e)) = Replay(s) \o <<>>
  BY <1>1, ScreenGrows, ReplayGrows
<1> QED BY <1>1, <1>2, <1>3, ConcatEmptySeq

LEMMA HandleSteps ==
    ASSUME EventsInvariant, Handle
    PROVE  EventsInvariant'
<1> DEFINE next == Head(pendingEvents)
<1>0. EventTypes /\ Flows(queue, pendingBytes, shown, sent) /\ ScreenKeepsUp
  BY DEF EventsInvariant
<1>1. /\ loop = "read" /\ pendingEvents # <<>> /\ Short(pendingEvents)
      /\ pendingEvents' = Tail(pendingEvents) /\ UNCHANGED engineVars
      /\ made \in Nat /\ transcript \in Seq(Event) /\ saved \in 0 .. Len(transcript) /\ stored \in Seq(Event)
  BY <1>0 DEF Handle, EventTypes
<1>2. next \in Posts /\ Short(pendingEvents')
  <2>1. Head(pendingEvents) \in Posts /\ Short(Tail(pendingEvents))
    BY <1>1, OwedLess
  <2> QED BY <1>1, <2>1
<1>3. next.event \in Event /\ (next.to = "public" => Atom(next.event))
  BY <1>2 DEF Posts
<1>4. /\ Written \in Seq(Event) /\ Screen(sent) \in Seq(SomeNodes) /\ Replay(Written) \in Seq(SomeNodes)
      /\ Screen(sent) \o <<>> = Screen(sent) /\ Replay(Written) \o <<>> = Replay(Written)
  <2>1. Written \in Seq(Event) /\ sent \in Seq(Event)
    BY <1>0, <1>1, WrittenGrows DEF EventTypes
  <2>2. Screen(sent) \in Seq(SomeNodes) /\ Replay(Written) \in Seq(SomeNodes)
    BY <2>1, SomeEvent, ScreenGrows, ReplayGrows
  <2> QED BY <2>1, <2>2, ConcatEmptySeq
<1>5. Len(transcript) \in Nat
  BY <1>1, LenProperties
<1> HIDE DEF next
\* What the screen shows and what is written grow by what was handled.
<1>6. ASSUME UNCHANGED <<consumerClosed, receiverClosed>>,
             ~receiverClosed =>
                Screen(sent') = Screen(sent) \o Said("public", next) /\ Replay(Written') = Replay(Written) \o Said("transcript", next)
      PROVE  ScreenKeepsUp'
  <2>1. consumerClosed' => receiverClosed'
    BY <1>0, <1>6 DEF ScreenKeepsUp
  <2>2. ASSUME ~receiverClosed'
        PROVE  Screen(sent') \o Owed("public", pendingEvents') = Replay(Written') \o Owed("transcript", pendingEvents')
    <3>1. ~receiverClosed /\ Screen(sent) \o Owed("public", pendingEvents) = Replay(Written) \o Owed("transcript", pendingEvents)
      BY <1>0, <1>6, <2>2 DEF ScreenKeepsUp
    <3>2. (Screen(sent) \o Said("public", next)) \o Owed("public", Tail(pendingEvents))
            = (Replay(Written) \o Said("transcript", next)) \o Owed("transcript", Tail(pendingEvents))
      BY <1>1, <1>4, <3>1, BalanceIsKept DEF next
    <3> QED BY <1>1, <1>6, <3>1, <3>2
  <2> QED BY <2>1, <2>2 DEF ScreenKeepsUp
\* A step of the loop alone.
<1>7. ASSUME UNCHANGED <<consumerClosed, queueVars>>, loop' \in {"read", "finish"},
             transcript' \in Seq(Event), saved' \in 0 .. Len(transcript'), stored' \in Seq(Event),
             next.to # "public" \/ receiverClosed,
             Replay(Written') = Replay(Written) \o Said("transcript", next)
      PROVE  EventsInvariant'
  <2>1. EventTypes'
    BY <1>0, <1>1, <1>2, <1>7 DEF EventTypes, queueVars, engineVars
  <2>2. ScreenKeepsUp'
    BY <1>4, <1>6, <1>7 DEF queueVars, Said
  <2>3. RoomIsAwaited' /\ ListenerIsCalled' /\ Flows(queue', pendingBytes', shown', sent')
    BY <1>0, <1>1, <1>7 DEF EventsInvariant, RoomIsAwaited, ListenerIsCalled, queueVars
  <2> QED BY <2>1, <2>2, <2>3 DEF EventsInvariant
<1>8. CASE next.to = "transcript"
  <2>1. transcript' = Append(transcript, next.event) /\ UNCHANGED <<loop, saved, stored, consumerClosed, queueVars>>
    BY <1>8 DEF Handle, next
  <2>2. transcript' \in Seq(Event) /\ Len(transcript') = Len(transcript) + 1
    BY <1>1, <1>3, <2>1, AppendProperties
  <2>3. saved' \in 0 .. Len(transcript')
    BY <1>1, <1>5, <2>1, <2>2
  <2>4. Written' = Append(Written, next.event)
    BY <1>1, <1>3, <2>1, WrittenGrows
  <2>5. Replay(Written') = Replay(Written) \o Told(next.event)
    BY <1>3, <1>4, <2>4, ReplayGrows
  <2> QED BY <1>1, <1>7, <1>8, <2>1, <2>2, <2>3, <2>5 DEF Said
<1>9. ASSUME next.to # "transcript", next.to # "public" \/ receiverClosed, Replay(Written') = Replay(Written),
             UNCHANGED <<consumerClosed, queueVars>>, loop' \in {"read", "finish"},
             transcript' \in Seq(Event), saved' \in 0 .. Len(transcript'), stored' \in Seq(Event)
      PROVE  EventsInvariant'
  BY <1>4, <1>7, <1>9 DEF Said
<1>10. CASE next.to \in {"compacted", "pruned"}
  <2>1. PICK n \in Nat : StoreCompact(n)
    BY <1>1, <1>10 DEF Handle, next
  <2>2. transcript' = Append(transcript, Plain("stats", made)) /\ UNCHANGED <<loop, consumerClosed, queueVars>>
    BY <1>10 DEF Handle, next
  <2> DEFINE c == Plain("compacted", n)
             s == Plain("stats", made)
  <2>3. c \in Event /\ s \in Event /\ ~Lasts(c) /\ ~Lasts(s)
    BY <1>1, PlainIs DEF Kinds, Lasts
  <2>4. Written' = Append(Append(Written, c), s)
    BY <1>1, <2>1, <2>2, <2>3, WrittenGrows
  <2>5. stored' = Written \o <<c>> /\ saved' = Len(transcript)
    BY <2>1 DEF StoreCompact, Written
  <2>6. transcript' = Append(transcript, s)
    BY <2>2
  <2> HIDE DEF c, s
  <2>7. transcript' \in Seq(Event) /\ Len(transcript') = Len(transcript) + 1
    BY <1>1, <2>3, <2>6, AppendProperties
  <2>8. saved' \in 0 .. Len(transcript')
    BY <1>5, <2>5, <2>7
  <2>9. stored' \in Seq(Event)
    BY <1>4, <2>3, <2>5, AppendIsConcat, AppendProperties
  <2>10. Replay(Written') = Replay(Written)
    BY <1>4, <2>3, <2>4, QuietAddsNothing
  <2> QED BY <1>1, <1>9, <1>10, <2>2, <2>7, <2>8, <2>9, <2>10
<1>11. CASE next.to = "unchanged"
  <2> DEFINE s == Plain("stats", made)
  <2>1. transcript' = Append(transcript, s) /\ UNCHANGED <<loop, saved, stored, consumerClosed, queueVars>>
    BY <1>11 DEF Handle, next
  <2>2. s \in Event /\ ~Lasts(s)
    BY <1>1, PlainIs DEF Kinds, Lasts
  <2> HIDE DEF s
  <2>3. transcript' \in Seq(Event) /\ Len(transcript') = Len(transcript) + 1
    BY <1>1, <2>1, <2>2, AppendProperties
  <2>4. saved' \in 0 .. Len(transcript')
    BY <1>1, <1>5, <2>1, <2>3
  <2>5. Written' = Append(Written, s)
    BY <1>1, <2>1, <2>2, WrittenGrows
  <2>6. Replay(Written') = Replay(Written)
    BY <1>4, <2>2, <2>5, QuietAddsNothing
  <2> QED BY <1>1, <1>9, <1>11, <2>1, <2>3, <2>4, <2>6
<1>12. CASE next.to \in {"flush", "completed"}
  <2>1. Flush /\ UNCHANGED <<transcript, consumerClosed, queueVars>> /\ loop' \in {"read", "finish"}
    BY <1>1, <1>12 DEF Handle, next
  <2>2. Written' = Written
    BY <1>1, <2>1, WrittenGrows
  <2>3. stored' = Written /\ saved' \in 0 .. Len(transcript')
    BY <1>5, <2>1 DEF Flush, Written
  <2> QED BY <1>1, <1>4, <1>9, <1>12, <2>1, <2>2, <2>3
<1>13. CASE next.to = "turn"
  <2>1. UNCHANGED <<loop, transcript, saved, stored, consumerClosed, queueVars>>
    BY <1>13 DEF Handle, next
  <2>2. Written' = Written
    BY <1>1, <2>1, WrittenGrows
  <2> QED BY <1>1, <1>9, <1>13, <2>1, <2>2
<1>14. CASE next.to = "public" /\ consumerClosed
  <2>1. UNCHANGED <<loop, transcript, saved, stored, consumerClosed, queueVars>>
    BY <1>14 DEF Handle, next
  <2>2. Written' = Written /\ receiverClosed
    BY <1>0, <1>1, <1>14, <2>1, WrittenGrows DEF ScreenKeepsUp
  <2> QED BY <1>1, <1>9, <1>14, <2>1, <2>2
<1>15. CASE next.to = "public" /\ ~consumerClosed
  <2>1. UNCHANGED <<transcript, saved, stored, ready, woken, senderClosed, receiverClosed, listener, shown>>
    BY <1>15 DEF Handle, next
  <2>2. Written' = Written
    BY <1>1, <2>1, WrittenGrows
  <2>3. CASE receiverClosed
    <3>1. consumerClosed' = TRUE /\ UNCHANGED <<loop, queue, pendingBytes, sent>>
      BY <1>15, <2>3 DEF Handle, next
    <3>2. ScreenKeepsUp'
      BY <2>1, <2>3 DEF ScreenKeepsUp
    <3>3. EventTypes'
      BY <1>0, <1>1, <1>2, <2>1, <3>1 DEF EventTypes, engineVars
    <3>4. RoomIsAwaited' /\ ListenerIsCalled' /\ Flows(queue', pendingBytes', shown', sent')
      BY <1>0, <1>1, <2>1, <3>1 DEF EventsInvariant, RoomIsAwaited, ListenerIsCalled
    <3> QED BY <3>2, <3>3, <3>4 DEF EventsInvariant
  <2>4. CASE ~receiverClosed
    <3>1. Send(next.event) /\ loop' = "signal" /\ UNCHANGED consumerClosed
      BY <1>15, <2>4 DEF Handle, next
    <3>2. /\ queue' \in Seq(Entries(Event)) /\ sent' = Append(sent, next.event) /\ sent' \in Seq(Event)
          /\ Flows(queue', pendingBytes', shown, sent')
      BY <1>0, <1>3, <1>15, <3>1, Sending DEF EventTypes
    <3>3. ScreenKeepsUp'
      <4>1. Screen(sent') = Screen(sent) \o Told(next.event)
        BY <1>0, <1>3, <3>2, ScreenGrows DEF EventTypes
      <4> QED BY <1>4, <1>6, <1>15, <2>1, <2>2, <3>1, <4>1 DEF Said
    <3>4. EventTypes'
      BY <1>0, <1>1, <1>2, <2>1, <3>1, <3>2 DEF EventTypes, engineVars
    <3>5. RoomIsAwaited' /\ ListenerIsCalled'
      BY <3>1 DEF RoomIsAwaited, ListenerIsCalled
    <3> QED BY <2>1, <3>2, <3>3, <3>4, <3>5 DEF EventsInvariant
  <2> QED BY <2>3, <2>4
<1> QED BY <1>2, <1>8, <1>10, <1>11, <1>12, <1>13, <1>14, <1>15 DEF Posts, Tos

LEMMA FinishSteps ==
    ASSUME EventsInvariant, FinishRun
    PROVE  EventsInvariant'
<1>0. EventTypes /\ Flows(queue, pendingBytes, shown, sent) /\ ScreenKeepsUp
  BY DEF EventsInvariant
<1>1. /\ loop = "finish" /\ loop' = "closing"
      /\ UNCHANGED <<engineVars, pendingEvents, consumerClosed, transcript, saved, stored, woken, senderClosed,
                     receiverClosed, shown>>
  BY DEF FinishRun
<1>2. CASE receiverClosed
  <2>1. UNCHANGED <<queue, pendingBytes, sent, ready, listener>>
    BY <1>2 DEF FinishRun
  <2>2. Flows(queue', pendingBytes', shown', sent') /\ ScreenKeepsUp'
    BY <1>1, <2>1, NothingMoves
  <2> QED BY <1>1, <2>1, <2>2 DEF EventsInvariant, EventTypes, RoomIsAwaited, ListenerIsCalled, engineVars
<1>3. CASE ~receiverClosed
  <2> DEFINE e == Plain("finished", made)
  <2>1. Send(e) /\ SignalReady
    BY <1>3 DEF FinishRun
  <2>2. Atom(e) /\ e \in Event /\ ~Lasts(e)
    BY <1>0, PlainIs DEF EventTypes, Kinds, Lasts
  <2> HIDE DEF e
  <2>3. /\ queue' \in Seq(Entries(Event)) /\ sent' = Append(sent, e) /\ sent' \in Seq(Event)
        /\ Flows(queue', pendingBytes', shown, sent')
    BY <1>0, <2>1, <2>2, Sending DEF EventTypes
  <2>4. ScreenKeepsUp'
    <3>1. Screen(sent') = Screen(sent)
      BY <1>0, <2>2, <2>3, QuietAddsNothing DEF EventTypes
    <3>2. Written' = Written
      BY <1>1 DEF Written, Unsaved
    <3> QED BY <1>0, <1>1, <3>1, <3>2 DEF ScreenKeepsUp
  <2>5. listener' \in {"look", "notify", "finished", "gone"} /\ ready' \in BOOLEAN
    BY <1>0, <2>1 DEF EventTypes, SignalReady
  <2>6. EventTypes'
    BY <1>0, <1>1, <2>3, <2>5 DEF EventTypes, engineVars
  <2>7. RoomIsAwaited' /\ ListenerIsCalled'
    BY <1>1, <2>5 DEF RoomIsAwaited, ListenerIsCalled
  <2> QED BY <1>1, <2>3, <2>4, <2>6, <2>7 DEF EventsInvariant
<1> QED BY <1>2, <1>3

LEMMA EventsStep == EventsInvariant /\ [EventsNext]_eventVars => EventsInvariant'
<1> SUFFICES ASSUME EventsInvariant, [EventsNext]_eventVars PROVE EventsInvariant'
  OBVIOUS
<1>1. CASE UNCHANGED eventVars
  <2>1. Flows(queue', pendingBytes', shown', sent') /\ ScreenKeepsUp'
    BY <1>1, NothingMoves DEF eventVars, loopVars, queueVars
  <2> QED BY <1>1, <2>1
          DEF EventsInvariant, EventTypes, RoomIsAwaited, ListenerIsCalled, OverBudget,
              eventVars, engineVars, loopVars, queueVars
<1>2. CASE Over
  <2>1. UNCHANGED eventVars
    BY <1>2 DEF Over
  <2> QED BY <1>1, <2>1
<1> QED BY <1>1, <1>2, LoopSteps, ListenerSteps, ReadingSteps, HandleSteps, FinishSteps DEF EventsNext

\* A loop that waits for room has a full queue before it: an empty one weighs nothing.
LEMMA EventsSettle == EventsInvariant => EventsArrive
<1> SUFFICES ASSUME EventsInvariant PROVE EventsArrive
  OBVIOUS
<1>0. EventTypes /\ Flows(queue, pendingBytes, shown, sent) /\ RoomIsAwaited /\ ListenerIsCalled /\ ScreenKeepsUp
  BY DEF EventsInvariant
<1>1. StreamIsFaithful
  BY <1>0, StreamFlows
<1>2. NobodyOversleeps
  <2>1. OverBudget => queue # <<>>
    <3>1. Budget \in Nat
      BY EventsAssumption DEF EventsAssumption
    <3>2. queue = <<>> => pendingBytes = 0
      BY <1>0, BytesOfNone DEF Flows
    <3> QED BY <3>1, <3>2 DEF OverBudget
  <2> QED BY <1>0, <2>1 DEF NobodyOversleeps, RoomIsAwaited, ListenerIsCalled
<1>3. ScreenMatchesTranscript
  <2> SUFFICES ASSUME pendingEvents = <<>>, ~receiverClosed PROVE Screen(sent) = Replay(Written)
    BY DEF ScreenMatchesTranscript, Screen, Replay, Written
  <2>1. Screen(sent) \in Seq(SomeNodes) /\ Replay(Written) \in Seq(SomeNodes)
    BY <1>0, SomeEvent, ScreenGrows, ReplayGrows, WrittenGrows DEF EventTypes
  <2>2. Screen(sent) \o <<>> = Replay(Written) \o <<>>
    <3>1. Owed("public", <<>>) = <<>> /\ Owed("transcript", <<>>) = <<>>
      BY NothingOwed
    <3> QED BY <1>0, <3>1 DEF ScreenKeepsUp
  <2> QED BY <2>1, <2>2, ConcatEmptySeq
<1> QED BY <1>1, <1>2, <1>3 DEF EventsArrive

\* Whatever the budget and however many events a run makes, what a listener receives and is still to receive is
\* what was sent to it, nobody sleeps through what it waits for, and the screen of a listener that stayed shows the
\* answers and the results a replay of the transcript shows (run/outbox.rs, run/runtime.rs, chat_projection.rs).
THEOREM EventsKeepArriving == EventsSpec => []EventsArrive
<1>1. EventsInit => EventsInvariant
  BY EventsStart
<1>2. EventsInvariant /\ [EventsNext]_eventVars => EventsInvariant'
  BY EventsStep
<1>3. EventsInvariant => EventsArrive
  BY EventsSettle
<1> QED BY <1>1, <1>2, <1>3, PTL DEF EventsSpec
=============================================================================

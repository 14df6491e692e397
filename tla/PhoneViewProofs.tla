---------------------------- MODULE PhoneViewProofs ----------------------------
(***************************************************************************)
(* Proofs about PhoneView for any threads, messages, page sizes and        *)
(* bounds.  The inductive invariant is Shape, the full types; Known, where *)
(* the row of a stored request is; OneRow, OncePerThread without           *)
(* cardinalities; SentTextStays; and NoGaps and PullsCovered, why no pull  *)
(* leaves a gap however late its page is applied.                          *)
(***************************************************************************)
EXTENDS PhoneView, FiniteSetTheorems, WellFoundedInduction, TLAPS

\* A page or a message model: the status of each reply by number.
Pages == UNION {[D -> Status] : D \in SUBSET (1..MaxRows)}

Requests == [at : {"idle", "asked", "stored", "refused"}, thread : Threads \cup {None},
             seq : Nat, status : Status]
Retries  == [at : {"idle", "asked", "done", "refused"}, seq : Nat]
Pulling  == [at : {"idle", "asked", "answered", "refused"}, after : 0..MaxRows, page : Pages]

HubShape == hub \in Seq(Rows) /\ Len(hub) <= MaxRows

ShownShape == shown \in Pages /\ DOMAIN shown \subseteq 1..Len(hub)

FetchShape ==
  /\ fetch \in [Fetches -> Pulling]
  /\ \A f \in Fetches : fetch[f].after <= Len(hub) /\ DOMAIN fetch[f].page \subseteq 1..Len(hub)

RestShape ==
  /\ shared \in BOOLEAN
  /\ cur \in Threads \cup {None}
  /\ mode \in {"draft", "loading", "polling", "dead"}
  /\ pend \in [Sends -> {"new", "sending", "failed", "settled", "discarded"}]
  /\ req \in [Sends -> Requests]
  /\ retry \in Retries
  /\ faults \in 0..MaxFaults

\* The full types.
Shape == HubShape /\ ShownShape /\ FetchShape /\ RestShape

\* A draft shows nothing and pulls nothing, a request that is stored knows its row, and
\* a retry its message.
Known ==
  /\ cur = None => /\ mode = "draft" /\ DOMAIN shown = {} /\ retry.at = "idle"
                   /\ \A f \in Fetches : fetch[f].at = "idle"
  /\ \A s \in Sends : req[s].at = "stored" =>
       /\ req[s].thread # None /\ req[s].seq \in 1..Len(hub)
       /\ hub[req[s].seq].id = s
  /\ retry.at # "idle" => retry.seq \in DOMAIN shown

\* No two rows of a thread are the same message of ours.
OneRow ==
  \A i, j \in 1..Len(hub) :
    hub[i].id \in Sends /\ hub[i].id = hub[j].id /\ hub[i].thread = hub[j].thread => i = j

\* Of the rows h, those of thread c up to a that are not in D lie below one of ours
\* that is.
Covered(h, c, D, a) ==
  \A i \in 1..Len(h) : h[i].thread = c /\ i \notin D /\ i <= a =>
    \E j \in D : j > i /\ h[j].id \in Sends

NoGaps == \A k \in DOMAIN shown : Covered(hub, cur, DOMAIN shown, k)

\* A page P leaves out no row of thread c between the number asked from and its last one.
Contiguous(h, c, after, P) ==
  /\ \A k \in P : after < k
  /\ \A k \in P, i \in 1..Len(h) : h[i].thread = c /\ after < i /\ i <= k => i \in P

\* A pull under way asks from a number up to which nothing else is lacking.
PullCovered(f) ==
  fetch[f].at # "idle" =>
    /\ Covered(hub, cur, DOMAIN shown, fetch[f].after)
    /\ fetch[f].at = "answered" => Contiguous(hub, cur, fetch[f].after, DOMAIN fetch[f].page)

PullsCovered == \A f \in Fetches : PullCovered(f)

\* The inductive invariant.
IInv == Shape /\ Known /\ OneRow /\ SentTextStays /\ NoGaps /\ PullsCovered

\* The rows h are kept in k, but for the status of their replies.
Kept(h, k) ==
  /\ Len(h) <= Len(k)
  /\ \A i \in 1..Len(h) : k[i].thread = h[i].thread /\ k[i].id = h[i].id

\* k has a row more, which is not a message of ours that its thread has in h.
OneMore(h, k) ==
  /\ Len(k) = Len(h) + 1
  /\ k[Len(k)].id \in Sends =>
       \A i \in 1..Len(h) : h[i].id = k[Len(k)].id => h[i].thread # k[Len(k)].thread

HubStep == Kept(hub, hub') /\ (Len(hub') = Len(hub) \/ OneMore(hub, hub'))

-----------------------------------------------------------------------------
(* Numbers and pages *)

\* A finite set of numbers has its maximum.
LEMMA MaxIs ==
  ASSUME NEW S \in SUBSET Nat, IsFiniteSet(S), S # {}
  PROVE  Max(S) \in S /\ \A y \in S : Max(S) >= y
<1> DEFINE Up(x) == {y \in S : y >= x}
           Ups == {Up(x) : x \in S}
<1>0. \A z \in S : z \in Nat
  OBVIOUS
<1>1. Ups \subseteq SUBSET S /\ Ups # {}
  OBVIOUS
<1>2. Ups \subseteq FiniteSubsetsOf(S)
  BY <1>1, FS_FiniteSubsetsOfFinite
<1>3. \E U \in Ups : \A V \in Ups : ~(<<V, U>> \in StrictSubsetOrdering(S))
  <2> HIDE DEF Ups
  <2> QED BY <1>1, <1>2, WFMin, FS_StrictSubsetOrderingWellFounded
<1>4. PICK x \in S : \A y \in S : ~(<<Up(y), Up(x)>> \in StrictSubsetOrdering(S))
  BY <1>3
<1>5. ASSUME NEW y \in S PROVE x >= y
  <2>1. ~(Up(y) \subseteq Up(x) /\ Up(y) # Up(x))
    BY <1>4 DEF StrictSubsetOrdering
  <2>2. SUFFICES ASSUME y > x PROVE FALSE
    BY <1>0
  <2>3. Up(y) \subseteq Up(x)
    <3>1. ASSUME NEW v \in S, v >= y PROVE v >= x
      BY <2>2, <3>1, <1>0
    <3> QED BY <3>1
  <2>4. x \in Up(x) /\ x \notin Up(y)
    BY <2>2, <1>0
  <2> QED BY <2>1, <2>3, <2>4
<1> QED BY <1>5 DEF Max

\* The last of a set of row numbers, or 0.
LEMMA LastIs ==
  ASSUME NEW n \in Nat, NEW S \in SUBSET (1..n)
  PROVE  /\ IsFiniteSet(S)
         /\ Max(S \cup {0}) \in 0..n
         /\ Max(S \cup {0}) # 0 => Max(S \cup {0}) \in S
         /\ \A y \in S : y <= Max(S \cup {0})
         /\ S # {} => Max(S) \in S /\ \A y \in S : y <= Max(S)
<1>0. IsFiniteSet(1..n)
  BY FS_Interval
<1>1. IsFiniteSet(S)
  BY <1>0, FS_Subset
<1>2. IsFiniteSet(S \cup {0})
  BY <1>1, FS_AddElement
<1>3. Max(S \cup {0}) \in S \cup {0} /\ \A y \in S \cup {0} : Max(S \cup {0}) >= y
  BY <1>2, MaxIs
<1>4. S # {} => Max(S) \in S /\ \A y \in S : y <= Max(S)
  <2>1. S # {} => Max(S) \in S /\ \A y \in S : Max(S) >= y
    BY <1>1, MaxIs
  <2> QED BY <2>1
<1>5. \A y \in S \cup {0} : y \in 0..n
  OBVIOUS
<1>6. \A y \in S : y <= Max(S \cup {0})
  BY <1>3, <1>5
<1> QED BY <1>1, <1>3, <1>4, <1>5, <1>6

\* What the constants are.
LEMMA Bounds ==
  /\ PageSize \in Nat \ {0} /\ MaxRows \in Nat /\ MaxFaults \in Nat
  /\ None \notin Threads /\ Old \in Threads /\ Openings \subseteq {Old, None}
  /\ Load \notin Sends /\ Tick \notin Sends /\ Other \notin Sends /\ Load # Tick
  /\ Sends \subseteq Fetches /\ Load \in Fetches /\ Tick \in Fetches
BY PhoneViewAssumption DEF Load, Tick, Other, Fetches

\* A number above every pull is none: the numbers of the rows.
LEMMA RowNumbers ==
  ASSUME HubShape
  PROVE  /\ Len(hub) \in Nat /\ DOMAIN hub = 1..Len(hub) /\ Len(hub) <= MaxRows /\ MaxRows \in Nat
         /\ \A i \in 1..Len(hub) : hub[i] \in Rows
BY Bounds DEF HubShape

\* A page has only rows above the number asked from, and leaves none out in between.
LEMMA PageIs ==
  ASSUME HubShape, NEW after \in Nat
  PROVE  /\ PageNumbers(after) \subseteq 1..Len(hub)
         /\ Contiguous(hub, cur, after, PageNumbers(after))
<1> DEFINE later == {i \in ThreadRows(cur) : i > after}
           upTo(k) == {j \in later : j <= k}
<1>1. later \subseteq 1..Len(hub) /\ Len(hub) \in Nat
  BY RowNumbers DEF ThreadRows
<1>2. PageNumbers(after) = {i \in later : Cardinality(upTo(i)) <= PageSize}
  BY DEF PageNumbers
<1>3. ASSUME NEW k \in PageNumbers(after), NEW i \in 1..Len(hub),
             hub[i].thread = cur, after < i, i <= k
      PROVE  i \in PageNumbers(after)
  <2>1. i \in later
    BY <1>3, RowNumbers DEF ThreadRows
  <2>2. IsFiniteSet(upTo(k))
    <3>1. upTo(k) \subseteq 1..Len(hub)
      BY <1>1
    <3>2. IsFiniteSet(1..Len(hub))
      BY <1>1, FS_Interval
    <3> HIDE DEF upTo
    <3> QED BY <3>1, <3>2, FS_Subset
  <2>3. upTo(i) \subseteq upTo(k)
    <3>1. k \in Nat /\ i \in Nat /\ \A j \in later : j \in Nat
      BY <1>1, <1>2
    <3> QED BY <3>1, <1>3
  <2>4. /\ Cardinality(upTo(i)) <= Cardinality(upTo(k))
        /\ Cardinality(upTo(i)) \in Nat /\ Cardinality(upTo(k)) \in Nat
    <3> HIDE DEF upTo
    <3> QED BY <2>2, <2>3, FS_Subset, FS_CardinalityType
  <2>5. Cardinality(upTo(k)) <= PageSize
    BY <1>2
  <2>6. Cardinality(upTo(i)) <= PageSize
    <3> HIDE DEF upTo
    <3> QED BY <2>4, <2>5, Bounds
  <2> QED BY <2>1, <2>6, <1>2
<1>4. \A k \in PageNumbers(after) : after < k
  BY <1>1, <1>2
<1>5. PageNumbers(after) \subseteq 1..Len(hub)
  BY <1>1, <1>2
<1> QED BY <1>3, <1>4, <1>5 DEF Contiguous

\* A full page has a last row.
LEMMA FullPage ==
  ASSUME HubShape, NEW P \in SUBSET (1..Len(hub)), Cardinality(P) = PageSize
  PROVE  Max(P) \in P
<1>1. IsFiniteSet(P) /\ (P # {} => Max(P) \in P)
  BY RowNumbers, LastIs
<1>2. P # {}
  BY <1>1, FS_EmptySet, Bounds
<1> QED BY <1>1, <1>2

\* pullAfterForReplyWatch gives the number of the last row, or the one below our latest.
LEMMA PullAfterRange ==
  ASSUME HubShape, NEW m, DOMAIN m \subseteq 1..Len(hub)
  PROVE  LET a == Max({i \in DOMAIN m : Own(i)} \cup {0})
             z == Max(DOMAIN m \cup {0})
         IN  /\ PullAfter(m) \in 0..Len(hub)
             /\ a # 0 => a \in DOMAIN m /\ a \in 1..Len(hub) /\ hub[a].id \in Sends
             /\ z \in 0..Len(hub) /\ (z # 0 => z \in DOMAIN m)
             /\ PullAfter(m) = IF a # 0 /\ m[a] \in {"waiting", "error"} THEN a - 1 ELSE z
<1> DEFINE D == DOMAIN m
           ours == {i \in D : Own(i)}
           a == Max(ours \cup {0})
           z == Max(D \cup {0})
<1>0. Len(hub) \in Nat /\ D \subseteq 1..Len(hub) /\ ours \subseteq 1..Len(hub)
  BY RowNumbers
<1>1. a \in 0..Len(hub) /\ (a # 0 => a \in ours)
  <2> HIDE DEF D, ours
  <2> QED BY <1>0, LastIs
<1>2. z \in 0..Len(hub) /\ (z # 0 => z \in D)
  <2> HIDE DEF D
  <2> QED BY <1>0, LastIs
<1>3. a # 0 => a \in D /\ a \in 1..Len(hub) /\ hub[a].id \in Sends /\ a - 1 \in 0..Len(hub)
  <2>1. a # 0 => a \in D /\ hub[a].id \in Sends
    BY <1>1 DEF Own
  <2> HIDE DEF a
  <2> QED BY <2>1, <1>0, <1>1
<1>4. PullAfter(m) = IF a # 0 /\ m[a] \in {"waiting", "error"} THEN a - 1 ELSE z
  BY DEF PullAfter, LatestPhoneOf, LastSeqOf
<1>5. PullAfter(m) \in 0..Len(hub)
  <2> HIDE DEF a, z
  <2> QED BY <1>2, <1>3, <1>4
<1> QED BY <1>2, <1>3, <1>4, <1>5

\* Where it pulls from, nothing is lacking but what may be.
LEMMA PullAfterCovers ==
  ASSUME HubShape, NEW m, DOMAIN m \subseteq 1..Len(hub), NEW c,
         \A k \in DOMAIN m : Covered(hub, c, DOMAIN m, k)
  PROVE  PullAfter(m) \in 0..Len(hub) /\ Covered(hub, c, DOMAIN m, PullAfter(m))
<1> DEFINE a == Max({i \in DOMAIN m : Own(i)} \cup {0})
           z == Max(DOMAIN m \cup {0})
<1>1. /\ PullAfter(m) \in 0..Len(hub)
      /\ a # 0 => a \in DOMAIN m /\ a \in 1..Len(hub) /\ hub[a].id \in Sends
      /\ z \in 0..Len(hub) /\ (z # 0 => z \in DOMAIN m)
      /\ PullAfter(m) = IF a # 0 /\ m[a] \in {"waiting", "error"} THEN a - 1 ELSE z
  BY PullAfterRange
<1>2. Len(hub) \in Nat
  BY RowNumbers
<1> HIDE DEF a, z
<1>3. Covered(hub, c, DOMAIN m, z)
  <2>1. CASE z = 0
    BY <2>1, <1>2 DEF Covered
  <2>2. CASE z # 0
    BY <2>2, <1>1
  <2> QED BY <2>1, <2>2
<1>4. ASSUME a # 0 PROVE Covered(hub, c, DOMAIN m, a - 1)
  <2>1. ASSUME NEW i \in 1..Len(hub), i <= a - 1 PROVE a > i
    BY <1>1, <1>2, <1>4, <2>1
  <2> QED BY <2>1, <1>1, <1>4 DEF Covered
<1> QED BY <1>1, <1>3, <1>4

-----------------------------------------------------------------------------
(* Gaps *)

\* More rows and a fuller view leave nothing lacking that was not.
LEMMA CoveredKept ==
  ASSUME NEW h, NEW k, Len(h) \in Nat, Kept(h, k), NEW c, NEW D \in SUBSET (1..Len(h)),
         NEW E, D \subseteq E, NEW a \in 0..Len(h), Covered(h, c, D, a)
  PROVE  Covered(k, c, E, a)
<1>1. SUFFICES ASSUME NEW i \in 1..Len(k), k[i].thread = c, i \notin E, i <= a
               PROVE  \E j \in E : j > i /\ k[j].id \in Sends
  BY DEF Covered
<1>2. i \in 1..Len(h) /\ i \notin D /\ h[i].thread = c
  BY <1>1 DEF Kept
<1>3. PICK j \in D : j > i /\ h[j].id \in Sends
  BY <1>1, <1>2 DEF Covered
<1> QED BY <1>3 DEF Kept

\* A page that has no hole, asked for from a number up to which nothing is lacking, may
\* be added at any later time.
LEMMA PageApplied ==
  ASSUME NEW h, Len(h) \in Nat, NEW c, NEW D \in SUBSET (1..Len(h)),
         NEW P \in SUBSET (1..Len(h)), NEW a \in Nat,
         Covered(h, c, D, a), \A k \in D : Covered(h, c, D, k), Contiguous(h, c, a, P)
  PROVE  \A k \in D \cup P : Covered(h, c, D \cup P, k)
<1>1. SUFFICES ASSUME NEW k \in D \cup P, NEW i \in 1..Len(h), h[i].thread = c,
                      i \notin D \cup P, i <= k
               PROVE  \E j \in D \cup P : j > i /\ h[j].id \in Sends
  BY DEF Covered
<1>2. CASE i <= a
  BY <1>1, <1>2 DEF Covered
<1>3. CASE k \in D
  BY <1>1, <1>3 DEF Covered
<1>4. CASE k \in P /\ ~(i <= a)
  <2>1. a < i
    BY <1>4
  <2> QED BY <2>1, <1>1, <1>4 DEF Contiguous
<1> QED BY <1>1, <1>2, <1>3, <1>4

\* A message of our own may be added anywhere.
LEMMA OwnApplied ==
  ASSUME NEW h, Len(h) \in Nat, NEW c, NEW D \in SUBSET (1..Len(h)),
         NEW o \in 1..Len(h), h[o].id \in Sends, \A k \in D : Covered(h, c, D, k)
  PROVE  \A k \in D \cup {o} : Covered(h, c, D \cup {o}, k)
<1>1. SUFFICES ASSUME NEW k \in D \cup {o}, NEW i \in 1..Len(h), h[i].thread = c,
                      i \notin D \cup {o}, i <= k
               PROVE  \E j \in D \cup {o} : j > i /\ h[j].id \in Sends
  BY DEF Covered
<1>2. CASE k \in D
  BY <1>1, <1>2 DEF Covered
<1>3. CASE k = o
  <2>1. o > i
    BY <1>1, <1>3
  <2> QED BY <2>1
<1> QED BY <1>2, <1>3

\* A page stays without holes when rows are added.
LEMMA ContiguousKept ==
  ASSUME NEW h, NEW k, Len(h) \in Nat, Kept(h, k), NEW c, NEW P \in SUBSET (1..Len(h)),
         NEW a \in Nat, Contiguous(h, c, a, P)
  PROVE  Contiguous(k, c, a, P)
<1>1. ASSUME NEW x \in P, NEW i \in 1..Len(k), k[i].thread = c, a < i, i <= x
      PROVE  i \in P
  <2>1. i \in 1..Len(h) /\ h[i].thread = c
    BY <1>1 DEF Kept
  <2> QED BY <2>1, <1>1 DEF Contiguous
<1> QED BY <1>1 DEF Contiguous

-----------------------------------------------------------------------------
(* The Hub's rows *)

\* Only these steps change the rows.
LEMMA HubSteps ==
  ASSUME Next
  PROVE  \/ hub' = hub \/ OtherPushes \/ ReplyMoves \/ HubRetry
         \/ \E s \in Sends : HubSend(s)
BY DEF Next, Pulls, Answers, OtherPushes, ReplyMoves, Unshare, LoadStart, LoadPage, LoadFails,
       TickStart, TickPage, TickFails, HubPage, SendStart, HubSend, SendAnswered, SendFails,
       SendPage, SendPageFails, Discard, RetryStart, HubRetry, RetryEnds

\* A row that is added keeps the others.
LEMMA RowAdded ==
  ASSUME HubShape, NEW t \in Threads, NEW id \in Sends \cup {Other}, NEW st \in Status,
         AddRow(t, id, st),
         id \in Sends => Stored(t, id) = {}
  PROVE  HubShape' /\ HubStep
<1> DEFINE r == [thread |-> t, id |-> id, status |-> st]
<1>1. r \in Rows /\ r.thread = t /\ r.id = id
  BY DEF Rows
<1>2. hub' = Append(hub, r) /\ Len(hub) < MaxRows
  BY DEF AddRow
<1> HIDE DEF r
<1>3. hub \in Seq(Rows) /\ Len(hub) \in Nat /\ MaxRows \in Nat
  BY Bounds DEF HubShape
<1>4. /\ hub' \in Seq(Rows) /\ Len(hub') = Len(hub) + 1
      /\ \A i \in 1..Len(hub) : hub'[i] = hub[i]
      /\ hub'[Len(hub) + 1] = r
  BY <1>1, <1>2, <1>3
<1>5. id \in Sends => \A i \in 1..Len(hub) : hub[i].id = id => hub[i].thread # t
  BY <1>3 DEF Stored, ThreadRows
<1>6. Kept(hub, hub')
  BY <1>3, <1>4 DEF Kept
<1>7. OneMore(hub, hub')
  BY <1>1, <1>4, <1>5 DEF OneMore
<1>8. HubShape'
  BY <1>2, <1>3, <1>4 DEF HubShape
<1> QED BY <1>6, <1>7, <1>8 DEF HubStep

\* The status of a reply is nothing else's.
LEMMA StatusMoved ==
  ASSUME HubShape, NEW i \in DOMAIN hub, NEW st \in Status,
         hub' = [hub EXCEPT ![i].status = st]
  PROVE  HubShape' /\ HubStep /\ Len(hub') = Len(hub)
<1>1. hub \in Seq(Rows) /\ Len(hub) \in Nat /\ DOMAIN hub = 1..Len(hub) /\ hub[i] \in Rows
  BY RowNumbers DEF HubShape
<1> DEFINE r == [hub[i] EXCEPT !.status = st]
<1>2. r \in Rows /\ r.thread = hub[i].thread /\ r.id = hub[i].id
  BY <1>1 DEF Rows
<1>3. hub' = [hub EXCEPT ![i] = r]
  OBVIOUS
<1> HIDE DEF r
<1>4. hub' \in Seq(Rows) /\ Len(hub') = Len(hub)
  BY <1>1, <1>2, <1>3
<1>5. \A j \in 1..Len(hub) : hub'[j] = IF j = i THEN r ELSE hub[j]
  BY <1>1, <1>3
<1>6. Kept(hub, hub')
  BY <1>1, <1>2, <1>4, <1>5 DEF Kept
<1> QED BY <1>4, <1>6 DEF HubShape, HubStep

\* A step keeps the rows there are and adds one at most, which is new to its thread.
LEMMA HubMoves ==
  ASSUME Shape, Known, Next
  PROVE  HubShape' /\ HubStep
<1>0. HubShape
  BY DEF Shape
<1>1. CASE hub' = hub
  BY <1>0, <1>1, RowNumbers DEF HubShape, HubStep, Kept
<1>2. CASE OtherPushes
  <2>1. PICK t \in Threads : AddRow(t, Other, "none")
    BY <1>2 DEF OtherPushes
  <2> QED BY <2>1, <1>0, RowAdded, Bounds DEF Status
<1>3. CASE ReplyMoves
  <2>1. PICK i \in DOMAIN hub, to \in {"replied", "error"} : hub' = [hub EXCEPT ![i].status = to]
    BY <1>3 DEF ReplyMoves
  <2> QED BY <2>1, <1>0, StatusMoved DEF Status
<1>4. CASE HubRetry
  <2>1. CASE hub' = hub
    BY <2>1, <1>1
  <2>2. CASE hub' # hub
    <3>1. retry.at = "asked" /\ hub' = [hub EXCEPT ![retry.seq].status = "waiting"]
      BY <1>4, <2>2 DEF HubRetry
    <3>2. retry.seq \in DOMAIN hub
      BY <3>1, <1>0, RowNumbers DEF Known, Shape, ShownShape
    <3> QED BY <3>1, <3>2, <1>0, StatusMoved DEF Status
  <2> QED BY <2>1, <2>2
<1>5. ASSUME NEW s \in Sends, HubSend(s) PROVE HubShape' /\ HubStep
  <2>1. CASE hub' = hub
    BY <2>1, <1>1
  <2>2. CASE hub' # hub
    <3>1. PICK t \in IF req[s].thread # None THEN {req[s].thread}
                     ELSE {u \in Threads \ {Old} : ThreadRows(u) = {}} :
            Insert(t, s)
      BY <1>5, <2>2 DEF HubSend
    <3>2. t \in Threads
      <4>1. req[s].thread \in Threads \cup {None}
        BY DEF Shape, RestShape, Requests
      <4> QED BY <3>1, <4>1
    <3>3. Stored(t, s) = {} /\ AddRow(t, s, "waiting")
      BY <3>1, <2>2 DEF Insert
    <3> QED BY <3>2, <3>3, <1>0, RowAdded DEF Status
  <2> QED BY <2>1, <2>2
<1> QED BY <1>1, <1>2, <1>3, <1>4, <1>5, HubSteps

\* OneRow is kept.
LEMMA OneRowStep ==
  ASSUME HubShape, HubShape', HubStep, OneRow
  PROVE  OneRow'
<1>0. Len(hub) \in Nat /\ Len(hub') \in Nat
  BY DEF HubShape
<1>1. SUFFICES ASSUME NEW i \in 1..Len(hub'), NEW j \in 1..Len(hub'), hub'[i].id \in Sends,
                      hub'[i].id = hub'[j].id, hub'[i].thread = hub'[j].thread
               PROVE  i = j
  BY DEF OneRow
<1>2. CASE i \in 1..Len(hub) /\ j \in 1..Len(hub)
  BY <1>1, <1>2 DEF OneRow, HubStep, Kept
<1>3. CASE ~(i \in 1..Len(hub) /\ j \in 1..Len(hub))
  <2>1. OneMore(hub, hub')
    BY <1>0, <1>3 DEF HubStep
  <2>2. i = Len(hub') \/ j = Len(hub')
    BY <2>1, <1>0, <1>3 DEF OneMore
  <2>3. CASE i \in 1..Len(hub) /\ j = Len(hub')
    BY <2>1, <2>3, <1>1 DEF OneMore, HubStep, Kept
  <2>4. CASE j \in 1..Len(hub) /\ i = Len(hub')
    BY <2>1, <2>4, <1>1 DEF OneMore, HubStep, Kept
  <2> QED BY <2>1, <2>2, <2>3, <2>4, <1>0 DEF OneMore
<1> QED BY <1>2, <1>3

-----------------------------------------------------------------------------
(* The message model *)

\* Only these steps change the model.
LEMMA ShownSteps ==
  ASSUME Next
  PROVE  \/ shown' = shown \/ LoadPage \/ TickPage \/ RetryEnds
         \/ \E s \in Sends : SendAnswered(s) \/ SendPage(s)
BY DEF Next, Pulls, Answers, OtherPushes, ReplyMoves, Unshare, LoadStart, LoadPage, LoadFails,
       TickStart, TickPage, TickFails, HubPage, SendStart, HubSend, SendAnswered, SendFails,
       SendPage, SendPageFails, Discard, RetryStart, HubRetry, RetryEnds

\* What a page is.
LEMMA PagesAre ==
  ASSUME NEW m \in Pages
  PROVE  /\ DOMAIN m \subseteq 1..MaxRows
         /\ m \in [DOMAIN m -> Status]
BY DEF Pages

LEMMA PagesHave ==
  ASSUME NEW D \in SUBSET (1..MaxRows), NEW m \in [D -> Status]
  PROVE  m \in Pages /\ DOMAIN m = D
BY DEF Pages

\* A page is added to the model.
LEMMA Applied ==
  ASSUME HubShape, ShownShape, NEW page \in Pages, DOMAIN page \subseteq 1..Len(hub),
         ApplyMessages(page)
  PROVE  /\ shown' \in Pages
         /\ DOMAIN shown' = DOMAIN shown \cup DOMAIN page
         /\ DOMAIN shown' \subseteq 1..Len(hub)
<1> DEFINE D == DOMAIN shown \cup DOMAIN page
<1>1. shown' = [i \in D |-> IF i \in DOMAIN page THEN page[i] ELSE shown[i]]
  BY DEF ApplyMessages
<1>2. shown \in [DOMAIN shown -> Status] /\ page \in [DOMAIN page -> Status]
  BY PagesAre DEF ShownShape
<1>3. D \subseteq 1..Len(hub) /\ D \subseteq 1..MaxRows
  BY RowNumbers DEF ShownShape
<1>4. shown' \in [D -> Status]
  BY <1>1, <1>2
<1> HIDE DEF D
<1>5. shown' \in Pages /\ DOMAIN shown' = D
  BY <1>3, <1>4, PagesHave
<1> QED BY <1>3, <1>5 DEF D

\* The pull f, and its page.
LEMMA PullIs ==
  ASSUME FetchShape, NEW f \in Fetches
  PROVE  /\ fetch[f].page \in Pages /\ DOMAIN fetch[f].page \subseteq 1..Len(hub)
         /\ fetch[f].after \in 0..MaxRows /\ fetch[f].after <= Len(hub)
         /\ fetch[f].at \in {"idle", "asked", "answered", "refused"}
BY DEF FetchShape, Pulling

\* The answer of a send adds its row to the model.
LEMMA AnswerShown ==
  ASSUME Shape, Known, NEW s \in Sends, SendAnswered(s)
  PROVE  /\ shown' \in Pages
         /\ DOMAIN shown' = DOMAIN shown \cup {req[s].seq}
         /\ DOMAIN shown' \subseteq 1..Len(hub)
         /\ req[s].seq \in 1..Len(hub) /\ hub[req[s].seq].id = s
<1>0. HubShape /\ ShownShape
  BY DEF Shape
<1>1. req[s].seq \in 1..Len(hub) /\ hub[req[s].seq].id = s
  BY DEF SendAnswered, Known
<1> DEFINE o == req[s].seq
           D == DOMAIN shown \cup {o}
<1>2. shown' = [j \in D |-> IF j = o THEN req[s].status ELSE shown[j]]
  BY DEF SendAnswered
<1>3. D \subseteq 1..Len(hub) /\ D \subseteq 1..MaxRows
  BY <1>0, <1>1, RowNumbers DEF ShownShape
<1>4. req[s].status \in Status /\ shown \in [DOMAIN shown -> Status]
  BY <1>0, PagesAre DEF ShownShape, Shape, RestShape, Requests
<1>5. shown' \in [D -> Status]
  BY <1>2, <1>4
<1> HIDE DEF D
<1>6. shown' \in Pages /\ DOMAIN shown' = D
  BY <1>3, <1>5, PagesHave
<1> QED BY <1>1, <1>3, <1>6 DEF D

\* A step adds messages to the model and takes none away.
LEMMA ShownMoves ==
  ASSUME Shape, Known, Next
  PROVE  ShownShape' /\ DOMAIN shown \subseteq DOMAIN shown'
<1>0. HubShape /\ ShownShape /\ FetchShape
  BY DEF Shape
<1>1. HubShape' /\ Len(hub) <= Len(hub')
  BY HubMoves DEF HubStep, Kept
<1>2. SUFFICES /\ shown' \in Pages /\ DOMAIN shown \subseteq DOMAIN shown'
               /\ DOMAIN shown' \subseteq 1..Len(hub)
  <2>1. 1..Len(hub) \subseteq 1..Len(hub')
    BY <1>0, <1>1 DEF HubShape
  <2> QED BY <1>2, <2>1 DEF ShownShape
<1>3. CASE shown' = shown
  BY <1>0, <1>3 DEF ShownShape
<1>4. ASSUME NEW f \in Fetches, ApplyMessages(fetch[f].page)
      PROVE  /\ shown' \in Pages /\ DOMAIN shown \subseteq DOMAIN shown'
             /\ DOMAIN shown' \subseteq 1..Len(hub)
  BY <1>0, <1>4, PullIs, Applied
<1>5. CASE LoadPage
  BY <1>4, <1>5, Bounds DEF LoadPage
<1>6. CASE TickPage
  BY <1>4, <1>6, Bounds DEF TickPage
<1>7. ASSUME NEW s \in Sends, SendPage(s)
      PROVE  /\ shown' \in Pages /\ DOMAIN shown \subseteq DOMAIN shown'
             /\ DOMAIN shown' \subseteq 1..Len(hub)
  BY <1>4, <1>7, Bounds DEF SendPage
<1>8. ASSUME NEW s \in Sends, SendAnswered(s)
      PROVE  /\ shown' \in Pages /\ DOMAIN shown \subseteq DOMAIN shown'
             /\ DOMAIN shown' \subseteq 1..Len(hub)
  BY <1>8, AnswerShown
<1>9. CASE RetryEnds
  <2>1. CASE shown' = shown
    BY <2>1, <1>3
  <2>2. CASE shown' # shown
    <3>1. shown' = [shown EXCEPT ![retry.seq] = "waiting"]
      BY <1>9, <2>2 DEF RetryEnds
    <3>2. shown \in [DOMAIN shown -> Status] /\ DOMAIN shown \subseteq 1..MaxRows
      BY <1>0, PagesAre DEF ShownShape
    <3>3. shown' \in [DOMAIN shown -> Status]
      BY <3>1, <3>2 DEF Status
    <3>4. shown' \in Pages /\ DOMAIN shown' = DOMAIN shown
      BY <3>2, <3>3, PagesHave
    <3> QED BY <3>4, <1>0 DEF ShownShape
  <2> QED BY <2>1, <2>2
<1> QED BY <1>3, <1>5, <1>6, <1>7, <1>8, <1>9, ShownSteps

-----------------------------------------------------------------------------
(* The pulls *)

\* Only these steps change the pulls.
LEMMA FetchSteps ==
  ASSUME Next
  PROVE  \/ fetch' = fetch \/ LoadStart \/ LoadPage \/ TickStart
         \/ LoadFails \/ TickPage \/ TickFails
         \/ \E f \in Fetches : HubPage(f)
         \/ \E s \in Sends : SendAnswered(s) \/ SendPage(s) \/ SendPageFails(s)
BY DEF Next, Pulls, Answers, OtherPushes, ReplyMoves, Unshare, LoadStart, LoadPage, LoadFails,
       TickStart, TickPage, TickFails, HubPage, SendStart, HubSend, SendAnswered, SendFails,
       SendPage, SendPageFails, Discard, RetryStart, HubRetry, RetryEnds

\* A pull f becomes r, the others stay.
LEMMA PullSet ==
  ASSUME HubShape, HubShape', Len(hub) <= Len(hub'), FetchShape, NEW f \in Fetches,
         NEW r \in Pulling, r.after <= Len(hub), DOMAIN r.page \subseteq 1..Len(hub),
         fetch' = [fetch EXCEPT ![f] = r]
  PROVE  FetchShape'
<1>1. fetch' \in [Fetches -> Pulling]
  BY DEF FetchShape
<1>2. \A g \in Fetches : fetch'[g] = IF g = f THEN r ELSE fetch[g]
  BY DEF FetchShape
<1>3. \A g \in Fetches : fetch'[g].after <= Len(hub) /\ DOMAIN fetch'[g].page \subseteq 1..Len(hub)
  BY <1>2 DEF FetchShape
<1>4. 1..Len(hub) \subseteq 1..Len(hub') /\ Len(hub) \in Nat /\ Len(hub') \in Nat
  BY DEF HubShape
<1>5. \A g \in Fetches : fetch'[g].after \in 0..MaxRows
  BY <1>1 DEF Pulling
<1>6. \A g \in Fetches : fetch'[g].after <= Len(hub') /\ DOMAIN fetch'[g].page \subseteq 1..Len(hub')
  BY <1>3, <1>4, <1>5
<1> QED BY <1>1, <1>6 DEF FetchShape

\* No pull, and one that has just been asked.
LEMMA PullRecords ==
  ASSUME HubShape, NEW a \in 0..Len(hub)
  PROVE  /\ NoFetch \in Pulling /\ NoFetch.after = 0 /\ DOMAIN NoFetch.page = {}
         /\ NoFetch.at = "idle"
         /\ [at |-> "asked", after |-> a, page |-> <<>>] \in Pulling
         /\ a <= Len(hub) /\ 0 <= Len(hub)
<1>1. a \in 0..MaxRows /\ 0 \in 0..MaxRows /\ Len(hub) \in Nat
  BY RowNumbers
<1>2. <<>> \in Pages /\ DOMAIN <<>> = {}
  <2>1. <<>> \in [{} -> Status]
    OBVIOUS
  <2> QED BY <2>1, PagesHave
<1> QED BY <1>1, <1>2 DEF Pulling, NoFetch

\* A pull that has just been asked, of its full type.
LEMMA Asked ==
  ASSUME HubShape, HubShape', Len(hub) <= Len(hub'), FetchShape, NEW f \in Fetches,
         NEW a \in 0..Len(hub),
         fetch' = [fetch EXCEPT ![f] = [at |-> "asked", after |-> a, page |-> <<>>]]
  PROVE  FetchShape' /\ fetch'[f].at = "asked" /\ fetch'[f].after = a
<1> DEFINE r == [at |-> "asked", after |-> a, page |-> <<>>]
<1>1. r \in Pulling /\ r.after <= Len(hub) /\ DOMAIN r.page \subseteq 1..Len(hub)
      /\ r.at = "asked" /\ r.after = a
  BY PullRecords
<1> HIDE DEF r
<1>2. fetch' = [fetch EXCEPT ![f] = r]
  BY DEF r
<1>3. FetchShape'
  BY <1>1, <1>2, PullSet
<1>4. fetch'[f] = r
  BY <1>2 DEF FetchShape
<1> QED BY <1>1, <1>3, <1>4

\* A pull that is over.
LEMMA Ended ==
  ASSUME HubShape, HubShape', Len(hub) <= Len(hub'), FetchShape, NEW f \in Fetches, Done(f)
  PROVE  FetchShape' /\ fetch'[f].at = "idle"
<1>1. 0 \in 0..Len(hub)
  BY RowNumbers
<1>2. NoFetch \in Pulling /\ NoFetch.after <= Len(hub) /\ DOMAIN NoFetch.page \subseteq 1..Len(hub)
      /\ NoFetch.at = "idle"
  BY <1>1, PullRecords
<1>3. FetchShape'
  BY <1>2, PullSet DEF Done
<1> QED BY <1>2, <1>3 DEF Done, FetchShape

\* The Hub's answer to a pull.
LEMMA Answered ==
  ASSUME HubShape, FetchShape, NEW f \in Fetches, HubPage(f)
  PROVE  /\ FetchShape' /\ fetch'[f].after = fetch[f].after
         /\ fetch'[f].at \in {"answered", "refused"}
         /\ fetch'[f].at = "answered" => DOMAIN fetch'[f].page = PageNumbers(fetch[f].after)
<1>0. hub' = hub /\ Len(hub) \in Nat
  BY RowNumbers DEF HubPage
<1>1. fetch[f].after \in 0..MaxRows /\ fetch[f].after <= Len(hub) /\ fetch[f] \in Pulling
  BY PullIs DEF FetchShape
<1> DEFINE P == PageNumbers(fetch[f].after)
           page == IF shared THEN PageAfter(fetch[f].after) ELSE <<>>
           r == [at |-> IF shared THEN "answered" ELSE "refused",
                 after |-> fetch[f].after, page |-> page]
<1>2. P \subseteq 1..Len(hub) /\ P \subseteq 1..MaxRows
  BY <1>1, PageIs, RowNumbers
<1>3. PageAfter(fetch[f].after) \in [P -> Status]
  BY <1>2, RowNumbers DEF PageAfter, Rows
<1>4. PageAfter(fetch[f].after) \in Pages /\ DOMAIN PageAfter(fetch[f].after) = P
  <2> HIDE DEF P
  <2> QED BY <1>2, <1>3, PagesHave
<1>5. <<>> \in Pages /\ DOMAIN <<>> = {}
  <2>1. 0 \in 0..Len(hub)
    BY <1>0
  <2> QED BY <2>1, PullRecords DEF Pulling, NoFetch
<1>6. r \in Pulling /\ DOMAIN r.page \subseteq 1..Len(hub) /\ r.after <= Len(hub)
  BY <1>1, <1>2, <1>4, <1>5 DEF Pulling
<1>7. fetch' = [fetch EXCEPT ![f] = r]
  <2>1. PICK x : x = IF shared THEN "answered" ELSE "refused"
    OBVIOUS
  <2>2. PICK y : y = page
    OBVIOUS
  <2>3. fetch' = [fetch EXCEPT ![f].at = x, ![f].page = y]
    BY <2>1, <2>2 DEF HubPage
  <2>4. fetch' = [fetch EXCEPT ![f] = [fetch[f] EXCEPT !.at = x, !.page = y]]
    BY <2>3, Zenon DEF FetchShape
  <2>5. [fetch[f] EXCEPT !.at = x, !.page = y] = [at |-> x, after |-> fetch[f].after, page |-> y]
    <3>1. PICK u, v, w : fetch[f] = [at |-> u, after |-> v, page |-> w]
      BY <1>1 DEF Pulling
    <3>2. fetch[f].after = v
      BY <3>1
    <3>3. [[at |-> u, after |-> v, page |-> w] EXCEPT !.at = x, !.page = y]
            = [at |-> x, after |-> v, page |-> y]
      <4>1. [[at |-> u, after |-> v, page |-> w] EXCEPT !.at = x] = [at |-> x, after |-> v, page |-> w]
        OBVIOUS
      <4>2. [[at |-> x, after |-> v, page |-> w] EXCEPT !.page = y] = [at |-> x, after |-> v, page |-> y]
        OBVIOUS
      <4> QED BY <4>1, <4>2
    <3> QED BY <3>1, <3>2, <3>3, Zenon
  <2> QED BY <2>1, <2>2, <2>4, <2>5
<1>8. /\ r.after = fetch[f].after /\ r.at \in {"answered", "refused"}
      /\ r.at = "answered" => DOMAIN r.page = P
  BY <1>4
<1> HIDE DEF r, P
<1>9. FetchShape'
  <2>1. HubShape' /\ Len(hub) <= Len(hub')
    BY <1>0 DEF HubShape
  <2> QED BY <1>6, <1>7, <2>1, PullSet
<1>10. fetch'[f] = r
  BY <1>7 DEF FetchShape
<1> QED BY <1>8, <1>9, <1>10 DEF P

\* The full types of the pulls are kept.
LEMMA FetchMoves ==
  ASSUME Shape, Known, Next
  PROVE  FetchShape'
<1>0. /\ HubShape /\ ShownShape /\ FetchShape /\ HubShape' /\ Len(hub) <= Len(hub')
      /\ Len(hub) \in Nat /\ Len(hub') \in Nat
  BY HubMoves, RowNumbers DEF Shape, HubStep, Kept, HubShape
<1>1. CASE fetch' = fetch
  <2>1. 1..Len(hub) \subseteq 1..Len(hub')
    BY <1>0
  <2>2. \A f \in Fetches : fetch[f].after \in 0..MaxRows
    BY <1>0, PullIs
  <2>3. \A f \in Fetches : fetch[f].after <= Len(hub')
    BY <1>0, <2>2 DEF FetchShape
  <2> QED BY <1>0, <1>1, <2>1, <2>3 DEF FetchShape
<1>2. ASSUME NEW f \in Fetches, NEW a \in 0..Len(hub),
             fetch' = [fetch EXCEPT ![f] = [at |-> "asked", after |-> a, page |-> <<>>]]
      PROVE  FetchShape'
  BY <1>0, <1>2, Asked
<1>3. ASSUME NEW f \in Fetches, Done(f) PROVE FetchShape'
  BY <1>0, <1>3, Ended
<1>4. CASE LoadStart
  <2>1. fetch' = [fetch EXCEPT ![Load] = [at |-> "asked", after |-> 0, page |-> <<>>]]
    BY <1>4 DEF LoadStart, Ask
  <2>2. 0 \in 0..Len(hub)
    BY <1>0
  <2> QED BY <2>1, <2>2, <1>2, Bounds
<1>5. CASE LoadPage
  <2>1. CASE Done(Load)
    BY <2>1, <1>3, Bounds
  <2>2. CASE ~Done(Load)
    <3>1. /\ Cardinality(DOMAIN fetch[Load].page) = PageSize
          /\ fetch' = [fetch EXCEPT ![Load] = [at |-> "asked", after |-> Max(DOMAIN fetch[Load].page),
                                               page |-> <<>>]]
      BY <1>5, <2>2 DEF LoadPage
    <3>2. DOMAIN fetch[Load].page \subseteq 1..Len(hub)
      BY <1>0, PullIs, Bounds
    <3>3. Max(DOMAIN fetch[Load].page) \in 0..Len(hub)
      BY <3>1, <3>2, <1>0, FullPage
    <3> QED BY <3>1, <3>3, <1>2, Bounds
  <2> QED BY <2>1, <2>2
<1>6. CASE TickStart
  <2>1. fetch' = [fetch EXCEPT ![Tick] = [at |-> "asked", after |-> PullAfter(shown), page |-> <<>>]]
    BY <1>6 DEF TickStart, Ask
  <2>2. PullAfter(shown) \in 0..Len(hub)
    BY <1>0, PullAfterRange DEF ShownShape
  <2> QED BY <2>1, <2>2, <1>2, Bounds
<1>7. CASE LoadFails \/ TickPage \/ TickFails
  BY <1>3, <1>7, Bounds DEF LoadFails, TickPage, TickFails
<1>8. ASSUME NEW f \in Fetches, HubPage(f) PROVE FetchShape'
  BY <1>0, <1>8, Answered
<1>9. ASSUME NEW s \in Sends, SendPage(s) \/ SendPageFails(s) PROVE FetchShape'
  BY <1>3, <1>9, Bounds DEF SendPage, SendPageFails
<1>10. ASSUME NEW s \in Sends, SendAnswered(s) PROVE FetchShape'
  <2>1. fetch' = [fetch EXCEPT ![s] = [at |-> "asked", after |-> PullAfter(shown'), page |-> <<>>]]
    BY <1>10 DEF SendAnswered, Ask
  <2>2. PullAfter(shown') \in 0..Len(hub)
    BY <1>0, <1>10, AnswerShown, PullAfterRange
  <2> QED BY <2>1, <2>2, <1>2, Bounds
<1> QED BY <1>1, <1>4, <1>5, <1>6, <1>7, <1>8, <1>9, <1>10, FetchSteps

-----------------------------------------------------------------------------
(* The rest of the view *)

\* Only the first answer of a draft gives it a thread.
LEMMA CurSteps ==
  ASSUME Next
  PROVE  \/ cur' = cur
         \/ cur = None /\ \E s \in Sends : SendAnswered(s)
BY DEF Next, Pulls, Answers, OtherPushes, ReplyMoves, Unshare, LoadStart, LoadPage, LoadFails,
       TickStart, TickPage, TickFails, HubPage, SendStart, HubSend, SendAnswered, SendFails,
       SendPage, SendPageFails, Discard, RetryStart, HubRetry, RetryEnds

\* Faults are counted up to their bound.
LEMMA FaultsStep ==
  ASSUME RestShape, Next
  PROVE  faults' \in 0..MaxFaults /\ shared' \in BOOLEAN
<1>1. faults' = faults \/ (faults < MaxFaults /\ faults' = faults + 1)
  BY DEF Next, Pulls, Answers, OtherPushes, ReplyMoves, Unshare, LoadStart, LoadPage, LoadFails,
         TickStart, TickPage, TickFails, HubPage, SendStart, HubSend, SendAnswered, SendFails,
         SendPage, SendPageFails, Discard, RetryStart, HubRetry, RetryEnds, Fault
<1>2. shared' = shared \/ shared' = FALSE
  BY DEF Next, Pulls, Answers, OtherPushes, ReplyMoves, Unshare, LoadStart, LoadPage, LoadFails,
         TickStart, TickPage, TickFails, HubPage, SendStart, HubSend, SendAnswered, SendFails,
         SendPage, SendPageFails, Discard, RetryStart, HubRetry, RetryEnds
<1>3. faults' \in 0..MaxFaults
  BY <1>1, Bounds DEF RestShape
<1> QED BY <1>2, <1>3 DEF RestShape

\* The thread of a view is a thread, its mode a mode.
LEMMA CurMoves ==
  ASSUME Shape, Known, Next
  PROVE  /\ cur' \in Threads \cup {None} /\ mode' \in {"draft", "loading", "polling", "dead"}
         /\ cur' = None => cur = None
<1>1. ASSUME NEW s \in Sends, SendAnswered(s), cur = None
      PROVE  cur' \in Threads /\ mode' = "polling"
  <2>1. cur' = req[s].thread /\ mode' = "polling"
    BY <1>1 DEF SendAnswered
  <2>2. req[s].thread \in Threads \cup {None} /\ req[s].thread # None
    BY <1>1 DEF Shape, RestShape, Requests, Known, SendAnswered
  <2> QED BY <2>1, <2>2
<1>2. mode' \in {mode, "polling", "dead"}
  BY DEF Next, Pulls, Answers, OtherPushes, ReplyMoves, Unshare, LoadStart, LoadPage, LoadFails,
         TickStart, TickPage, TickFails, HubPage, SendStart, HubSend, SendAnswered, SendFails,
         SendPage, SendPageFails, Discard, RetryStart, HubRetry, RetryEnds, Done
<1>3. cur \in Threads \cup {None} /\ mode \in {"draft", "loading", "polling", "dead"}
  BY DEF Shape, RestShape
<1>4. cur' \in Threads \cup {None} /\ (cur' = None => cur = None)
  BY <1>1, <1>3, CurSteps, Bounds
<1> QED BY <1>2, <1>3, <1>4

\* The list of pending messages changes in these ways.
LEMMA PendMoves ==
  ASSUME Shape, Next
  PROVE  pend' \in [Sends -> {"new", "sending", "failed", "settled", "discarded"}]
<1>0. pend \in [Sends -> {"new", "sending", "failed", "settled", "discarded"}]
  BY DEF Shape, RestShape
<1>1. \/ pend' = pend \/ TickPage
      \/ \E s \in Sends : SendStart(s) \/ SendAnswered(s) \/ SendFails(s) \/ Discard(s)
  BY DEF Next, Pulls, Answers, OtherPushes, ReplyMoves, Unshare, LoadStart, LoadPage, LoadFails,
         TickStart, TickPage, TickFails, HubPage, SendStart, HubSend, SendAnswered, SendFails,
         SendPage, SendPageFails, Discard, RetryStart, HubRetry, RetryEnds
<1>2. CASE TickPage
  BY <1>0, <1>2 DEF TickPage
<1>3. ASSUME NEW s \in Sends, SendStart(s) \/ SendAnswered(s) \/ SendFails(s) \/ Discard(s)
      PROVE  pend' \in [Sends -> {"new", "sending", "failed", "settled", "discarded"}]
  BY <1>0, <1>3 DEF SendStart, SendAnswered, SendFails, Discard
<1> QED BY <1>0, <1>1, <1>2, <1>3

\* What the request of s becomes: it starts, the Hub handles it, or it is over.
LEMMA ReqSteps ==
  ASSUME Next
  PROVE  \/ req' = req
         \/ \E s \in Sends : SendStart(s) \/ HubSend(s) \/ SendAnswered(s) \/ SendFails(s)
BY DEF Next, Pulls, Answers, OtherPushes, ReplyMoves, Unshare, LoadStart, LoadPage, LoadFails,
       TickStart, TickPage, TickFails, HubPage, SendStart, HubSend, SendAnswered, SendFails,
       SendPage, SendPageFails, Discard, RetryStart, HubRetry, RetryEnds

\* What a stored request knows of its row.
StoredIs(r, s, h) ==
  r.at = "stored" => r.thread # None /\ r.seq \in 1..Len(h) /\ h[r.seq].id = s

\* A request keeps its type, and knows its row once it is stored.
LEMMA ReqMoves ==
  ASSUME Shape, Known, Next
  PROVE  req' \in [Sends -> Requests] /\ \A s \in Sends : StoredIs(req'[s], s, hub')
<1>0. /\ req \in [Sends -> Requests] /\ \A s \in Sends : StoredIs(req[s], s, hub)
      /\ Len(hub) \in Nat /\ Len(hub') \in Nat /\ Kept(hub, hub') /\ HubShape'
      /\ cur \in Threads \cup {None}
  BY HubMoves DEF Shape, RestShape, Known, StoredIs, HubShape, HubStep
<1>1. \A s \in Sends : StoredIs(req[s], s, hub')
  BY <1>0 DEF StoredIs, Kept
<1>2. CASE req' = req
  BY <1>0, <1>1, <1>2
<1>3. ASSUME NEW s \in Sends, NEW r \in Requests, req' = [req EXCEPT ![s] = r], StoredIs(r, s, hub')
      PROVE  req' \in [Sends -> Requests] /\ \A t \in Sends : StoredIs(req'[t], t, hub')
  <2>1. req' \in [Sends -> Requests] /\ \A t \in Sends : req'[t] = IF t = s THEN r ELSE req[t]
    BY <1>0, <1>3
  <2> QED BY <2>1, <1>1, <1>3
<1>4. NoReq \in Requests /\ NoReq.at = "idle"
  BY DEF NoReq, Requests, Status
<1>5. ASSUME NEW s \in Sends, SendStart(s)
      PROVE  req' \in [Sends -> Requests] /\ \A t \in Sends : StoredIs(req'[t], t, hub')
  <2> DEFINE r == [at |-> "asked", thread |-> cur, seq |-> 0, status |-> "none"]
  <2>1. [NoReq EXCEPT !.at = "asked", !.thread = cur] = r
    <3>1. [NoReq EXCEPT !.at = "asked"] = [at |-> "asked", thread |-> None, seq |-> 0, status |-> "none"]
      BY DEF NoReq
    <3>2. [[at |-> "asked", thread |-> None, seq |-> 0, status |-> "none"] EXCEPT !.thread = cur] = r
      OBVIOUS
    <3> QED BY <3>1, <3>2
  <2>2. r \in Requests /\ r.at = "asked"
    BY <1>0 DEF Requests, Status
  <2>3. req' = [req EXCEPT ![s] = r]
    BY <1>5, <2>1 DEF SendStart
  <2> HIDE DEF r
  <2> QED BY <2>2, <2>3, <1>3 DEF StoredIs
<1>6. ASSUME NEW s \in Sends, HubSend(s)
      PROVE  req' \in [Sends -> Requests] /\ \A t \in Sends : StoredIs(req'[t], t, hub')
  <2>0. req[s] \in Requests
    BY <1>0
  <2>1. CASE req' = [req EXCEPT ![s].at = "refused"]
    <3> DEFINE r == [req[s] EXCEPT !.at = "refused"]
    <3>1. r \in Requests /\ r.at = "refused"
      BY <2>0 DEF Requests
    <3>2. req' = [req EXCEPT ![s] = r]
      BY <2>1
    <3> HIDE DEF r
    <3> QED BY <3>1, <3>2, <1>3 DEF StoredIs
  <2>2. CASE req' # [req EXCEPT ![s].at = "refused"]
    <3>1. PICK t \in IF req[s].thread # None THEN {req[s].thread}
                     ELSE {u \in Threads \ {Old} : ThreadRows(u) = {}} :
            \E i \in DOMAIN hub' :
              /\ hub'[i].thread = t /\ hub'[i].id = s
              /\ req' = [req EXCEPT ![s] = [at |-> "stored", thread |-> t, seq |-> i,
                                            status |-> hub'[i].status]]
      BY <1>6, <2>2 DEF HubSend
    <3>2. t \in Threads /\ t # None
      <4>1. req[s].thread \in Threads \cup {None}
        BY <2>0 DEF Requests
      <4> QED BY <3>1, <4>1, Bounds
    <3>3. PICK i \in DOMAIN hub' :
              /\ hub'[i].thread = t /\ hub'[i].id = s
              /\ req' = [req EXCEPT ![s] = [at |-> "stored", thread |-> t, seq |-> i,
                                            status |-> hub'[i].status]]
      BY <3>1
    <3>4. i \in 1..Len(hub') /\ hub'[i] \in Rows
      BY <1>0 DEF HubShape
    <3> DEFINE r == [at |-> "stored", thread |-> t, seq |-> i, status |-> hub'[i].status]
    <3>5. r \in Requests /\ StoredIs(r, s, hub')
      BY <3>2, <3>3, <3>4 DEF Requests, Rows, StoredIs
    <3>6. req' = [req EXCEPT ![s] = r]
      BY <3>3
    <3> HIDE DEF r
    <3> QED BY <3>5, <3>6, <1>3
  <2> QED BY <2>1, <2>2
<1>7. ASSUME NEW s \in Sends, SendAnswered(s) \/ SendFails(s)
      PROVE  req' \in [Sends -> Requests] /\ \A t \in Sends : StoredIs(req'[t], t, hub')
  <2>1. req' = [req EXCEPT ![s] = NoReq]
    BY <1>7 DEF SendAnswered, SendFails
  <2> QED BY <2>1, <1>3, <1>4 DEF StoredIs
<1> QED BY <1>2, <1>5, <1>6, <1>7, ReqSteps

\* A retry keeps its type, and its message is shown.
LEMMA RetryMoves ==
  ASSUME Shape, Known, Next
  PROVE  /\ retry' \in Retries
         /\ retry'.at # "idle" => retry'.seq \in DOMAIN shown' /\ cur' # None
<1>0. /\ retry \in Retries /\ HubShape /\ ShownShape /\ Len(hub) \in Nat
      /\ retry.at # "idle" => retry.seq \in DOMAIN shown /\ cur # None
      /\ DOMAIN shown \subseteq DOMAIN shown' /\ (cur' = None => cur = None)
  BY ShownMoves, CurMoves DEF Shape, RestShape, Known, HubShape
<1>1. \/ retry' = retry \/ RetryStart \/ HubRetry \/ RetryEnds
  BY DEF Next, Pulls, Answers, OtherPushes, ReplyMoves, Unshare, LoadStart, LoadPage, LoadFails,
         TickStart, TickPage, TickFails, HubPage, SendStart, HubSend, SendAnswered, SendFails,
         SendPage, SendPageFails, Discard, RetryStart, HubRetry, RetryEnds
<1>2. CASE retry' = retry
  BY <1>0, <1>2
<1>3. CASE RetryStart
  <2>1. retry' = [at |-> "asked", seq |-> LatestPhone] /\ LatestPhone # 0 /\ cur # None
    BY <1>3 DEF RetryStart
  <2>2. LatestPhone \in DOMAIN shown /\ LatestPhone \in Nat
    <3> DEFINE ours == {i \in DOMAIN shown : Own(i)}
    <3>1. ours \subseteq 1..Len(hub)
      BY <1>0 DEF ShownShape
    <3>2. LatestPhone = Max(ours \cup {0})
      BY DEF LatestPhone, LatestPhoneOf
    <3>3. LatestPhone \in ours /\ LatestPhone \in 0..Len(hub)
      <4> HIDE DEF ours
      <4> QED BY <3>1, <3>2, <2>1, <1>0, LastIs
    <3> QED BY <3>3
  <2> QED BY <2>1, <2>2, <1>0 DEF Retries
<1>4. CASE HubRetry
  <2>1. PICK x \in {"done", "refused"} : retry' = [retry EXCEPT !.at = x]
    BY <1>4 DEF HubRetry
  <2>2. retry.at = "asked"
    BY <1>4 DEF HubRetry
  <2>3. retry' \in Retries /\ retry'.seq = retry.seq
    BY <2>1, <1>0 DEF Retries
  <2> QED BY <2>2, <2>3, <1>0
<1>5. CASE RetryEnds
  BY <1>5 DEF RetryEnds, NoRetry, Retries
<1> QED BY <1>1, <1>2, <1>3, <1>4, <1>5

\* A draft shows nothing and pulls nothing.
LEMMA DraftKept ==
  ASSUME Shape, Known, Next, cur' = None
  PROVE  /\ mode' = "draft" /\ DOMAIN shown' = {}
         /\ \A f \in Fetches : fetch'[f].at = "idle"
<1>1. cur = None /\ ~\E s \in Sends : SendAnswered(s)
  <2>1. cur = None
    BY CurMoves
  <2>2. ASSUME NEW s \in Sends, SendAnswered(s) PROVE FALSE
    BY <2>1, <2>2, Bounds DEF SendAnswered, Known
  <2> QED BY <2>1, <2>2
<1>2. mode = "draft" /\ DOMAIN shown = {} /\ \A f \in Fetches : fetch[f].at = "idle"
  BY <1>1 DEF Known
<1>3. /\ ~LoadStart /\ ~LoadPage /\ ~TickStart /\ ~LoadFails /\ ~TickPage /\ ~TickFails
      /\ \A f \in Fetches : ~HubPage(f)
      /\ \A s \in Sends : ~SendPage(s) /\ ~SendPageFails(s)
  BY <1>2, Bounds DEF LoadStart, LoadPage, TickStart, LoadFails, TickPage, TickFails, HubPage,
                      SendPage, SendPageFails
<1>4. fetch' = fetch
  BY <1>1, <1>3, FetchSteps
<1>5. mode' = mode
  BY <1>1, <1>3 DEF Next, Pulls, Answers, OtherPushes, ReplyMoves, Unshare, SendStart, HubSend,
         SendFails, Discard, RetryStart, HubRetry, RetryEnds
<1>6. retry.at = "idle"
  BY <1>1 DEF Known
<1>7. shown' = shown
  <2>1. ~RetryEnds
    BY <1>6 DEF RetryEnds
  <2> QED BY <2>1, <1>1, <1>3, ShownSteps
<1> QED BY <1>2, <1>4, <1>5, <1>7

\* The types and what the view knows are kept.
LEMMA ShapeKept ==
  ASSUME Shape, Known, Next
  PROVE  Shape' /\ Known'
<1>1. RestShape'
  <2>1. RestShape
    BY DEF Shape
  <2> QED BY <2>1, CurMoves, PendMoves, ReqMoves, RetryMoves, FaultsStep DEF RestShape
<1>2. Shape'
  BY <1>1, HubMoves, ShownMoves, FetchMoves DEF Shape
<1>3. Known'
  <2>1. cur' = None => /\ mode' = "draft" /\ DOMAIN shown' = {} /\ retry'.at = "idle"
                       /\ \A f \in Fetches : fetch'[f].at = "idle"
    BY DraftKept, RetryMoves
  <2>2. \A s \in Sends : req'[s].at = "stored" =>
          /\ req'[s].thread # None /\ req'[s].seq \in 1..Len(hub')
          /\ hub'[req'[s].seq].id = s
    BY ReqMoves DEF StoredIs
  <2>3. retry'.at # "idle" => retry'.seq \in DOMAIN shown'
    BY RetryMoves
  <2> QED BY <2>1, <2>2, <2>3 DEF Known
<1> QED BY <1>2, <1>3

-----------------------------------------------------------------------------
(* The invariant *)

\* A text that was sent stays in sight.
LEMMA SentTextStep ==
  ASSUME Shape, Known, SentTextStays, Next
  PROVE  SentTextStays'
<1>0. /\ HubShape /\ ShownShape /\ FetchShape /\ Kept(hub, hub')
      /\ DOMAIN shown \subseteq DOMAIN shown' /\ DOMAIN shown \subseteq 1..Len(hub)
      /\ pend \in [Sends -> {"new", "sending", "failed", "settled", "discarded"}]
  BY HubMoves, ShownMoves DEF Shape, ShownShape, RestShape, HubStep
<1>1. SUFFICES ASSUME NEW s \in Sends, pend'[s] = "settled"
               PROVE  \E i \in DOMAIN shown' : hub'[i].id = s
  BY DEF SentTextStays
<1>2. CASE pend[s] = "settled"
  <2>1. PICK i \in DOMAIN shown : hub[i].id = s
    BY <1>2 DEF SentTextStays
  <2> QED BY <2>1, <1>0 DEF Kept
<1>3. CASE pend[s] # "settled"
  <2>1. \/ TickPage
        \/ \E t \in Sends : SendStart(t) \/ SendAnswered(t) \/ SendFails(t) \/ Discard(t)
    BY <1>1, <1>3 DEF Next, Pulls, Answers, OtherPushes, ReplyMoves, Unshare, LoadStart, LoadPage,
         LoadFails, TickStart, TickFails, HubPage, HubSend, SendPage, SendPageFails,
         RetryStart, HubRetry, RetryEnds
  <2>2. CASE TickPage
    <3>1. PICK i \in DOMAIN fetch[Tick].page : hub[i].id = s
      BY <1>1, <1>3, <2>2 DEF TickPage
    <3>2. fetch[Tick].page \in Pages /\ DOMAIN fetch[Tick].page \subseteq 1..Len(hub)
      BY <1>0, PullIs, Bounds
    <3>3. DOMAIN shown' = DOMAIN shown \cup DOMAIN fetch[Tick].page
      BY <1>0, <2>2, <3>2, Applied DEF TickPage
    <3> QED BY <3>1, <3>2, <3>3, <1>0 DEF Kept
  <2>3. ASSUME NEW t \in Sends, SendAnswered(t) PROVE \E i \in DOMAIN shown' : hub'[i].id = s
    <3>1. s = t
      BY <1>0, <1>1, <1>3, <2>3 DEF SendAnswered
    <3>2. /\ req[s].seq \in DOMAIN shown' /\ req[s].seq \in 1..Len(hub)
          /\ hub[req[s].seq].id = s
      BY <2>3, <3>1, AnswerShown
    <3> QED BY <3>2, <1>0 DEF Kept
  <2>4. ASSUME NEW t \in Sends, SendStart(t) \/ SendFails(t) \/ Discard(t) PROVE FALSE
    BY <1>0, <1>1, <1>3, <2>4 DEF SendStart, SendFails, Discard
  <2> QED BY <2>1, <2>2, <2>3, <2>4
<1> QED BY <1>2, <1>3

\* The page of an answered pull leaves no gap, whenever it is applied.
LEMMA PageLeavesNoGap ==
  ASSUME Shape, NoGaps, NEW f \in Fetches, PullCovered(f), fetch[f].at = "answered",
         ApplyMessages(fetch[f].page), hub' = hub, cur' = cur
  PROVE  /\ DOMAIN shown' = DOMAIN shown \cup DOMAIN fetch[f].page
         /\ \A k \in DOMAIN shown' : Covered(hub', cur', DOMAIN shown', k)
<1>0. HubShape /\ ShownShape /\ FetchShape /\ Len(hub) \in Nat
  BY DEF Shape, HubShape
<1>1. /\ fetch[f].page \in Pages /\ DOMAIN fetch[f].page \subseteq 1..Len(hub)
      /\ fetch[f].after \in 0..MaxRows
  BY <1>0, PullIs
<1>2. fetch[f].after \in Nat
  BY <1>1, Bounds
<1>3. DOMAIN shown' = DOMAIN shown \cup DOMAIN fetch[f].page
  BY <1>0, <1>1, Applied
<1>4. /\ DOMAIN shown \subseteq 1..Len(hub)
      /\ \A k \in DOMAIN shown : Covered(hub, cur, DOMAIN shown, k)
      /\ Covered(hub, cur, DOMAIN shown, fetch[f].after)
      /\ Contiguous(hub, cur, fetch[f].after, DOMAIN fetch[f].page)
  BY <1>0 DEF ShownShape, NoGaps, PullCovered
<1>5. \A k \in DOMAIN shown \cup DOMAIN fetch[f].page :
        Covered(hub, cur, DOMAIN shown \cup DOMAIN fetch[f].page, k)
  BY <1>0, <1>1, <1>2, <1>4, PageApplied
<1> QED BY <1>3, <1>5

\* The answer of a send adds a message of our own; that of a draft is all there is.
LEMMA AnswerLeavesNoGap ==
  ASSUME Shape, Known, NoGaps, NEW s \in Sends, SendAnswered(s)
  PROVE  \A k \in DOMAIN shown' : Covered(hub', cur', DOMAIN shown', k)
<1>0. HubShape /\ ShownShape /\ Len(hub) \in Nat /\ DOMAIN shown \subseteq 1..Len(hub) /\ hub' = hub
  BY DEF Shape, HubShape, ShownShape, SendAnswered
<1>1. /\ DOMAIN shown' = DOMAIN shown \cup {req[s].seq}
      /\ req[s].seq \in 1..Len(hub) /\ hub[req[s].seq].id \in Sends
  BY AnswerShown
<1>2. cur' = cur \/ cur = None
  BY DEF SendAnswered
<1>3. \A k \in DOMAIN shown : Covered(hub, cur', DOMAIN shown, k)
  BY <1>2 DEF Known, NoGaps
<1>4. \A k \in DOMAIN shown \cup {req[s].seq} : Covered(hub, cur', DOMAIN shown \cup {req[s].seq}, k)
  BY <1>0, <1>1, <1>3, OwnApplied
<1> QED BY <1>0, <1>1, <1>4

\* The view lacks no row that a pull ought to have brought.
LEMMA NoGapsStep ==
  ASSUME Shape, Known, NoGaps, PullsCovered, Next
  PROVE  NoGaps'
<1>0. /\ HubShape /\ ShownShape /\ FetchShape /\ Kept(hub, hub') /\ Len(hub) \in Nat
      /\ DOMAIN shown \subseteq 1..Len(hub)
      /\ \A k \in DOMAIN shown : Covered(hub, cur, DOMAIN shown, k)
  BY HubMoves DEF Shape, HubShape, ShownShape, HubStep, NoGaps
<1>1. SUFFICES \A k \in DOMAIN shown' : Covered(hub', cur', DOMAIN shown', k)
  BY DEF NoGaps
<1>2. ASSUME DOMAIN shown' = DOMAIN shown, cur' = cur
      PROVE  \A k \in DOMAIN shown' : Covered(hub', cur', DOMAIN shown', k)
  <2>1. SUFFICES ASSUME NEW k \in DOMAIN shown PROVE Covered(hub', cur, DOMAIN shown, k)
    BY <1>2
  <2>2. k \in 0..Len(hub) /\ Covered(hub, cur, DOMAIN shown, k)
    BY <1>0
  <2> QED BY <1>0, <2>2, CoveredKept
<1>3. CASE LoadPage
  BY <1>3, PageLeavesNoGap, Bounds DEF LoadPage, PullsCovered
<1>4. CASE TickPage
  BY <1>4, PageLeavesNoGap, Bounds DEF TickPage, PullsCovered
<1>5. ASSUME NEW s \in Sends, SendPage(s)
      PROVE  \A k \in DOMAIN shown' : Covered(hub', cur', DOMAIN shown', k)
  BY <1>5, PageLeavesNoGap, Bounds DEF SendPage, PullsCovered
<1>6. ASSUME NEW s \in Sends, SendAnswered(s)
      PROVE  \A k \in DOMAIN shown' : Covered(hub', cur', DOMAIN shown', k)
  BY <1>6, AnswerLeavesNoGap
<1>7. CASE RetryEnds
  <2>1. DOMAIN shown' = DOMAIN shown /\ cur' = cur
    BY <1>7 DEF RetryEnds
  <2> QED BY <2>1, <1>2
<1>8. CASE shown' = shown /\ ~\E s \in Sends : SendAnswered(s)
  BY <1>2, <1>8, CurSteps
<1> QED BY <1>3, <1>4, <1>5, <1>6, <1>7, <1>8, ShownSteps

\* A pull that a step leaves alone stays covered.
LEMMA PullKept ==
  ASSUME Shape, Known, Next, cur' = cur, NEW f \in Fetches, fetch'[f] = fetch[f], PullCovered(f)
  PROVE  PullCovered(f)'
<1>0. /\ Kept(hub, hub') /\ Len(hub) \in Nat /\ DOMAIN shown \subseteq 1..Len(hub)
      /\ DOMAIN shown \subseteq DOMAIN shown' /\ FetchShape /\ MaxRows \in Nat
  BY HubMoves, ShownMoves, Bounds DEF Shape, HubShape, ShownShape, HubStep
<1>1. /\ DOMAIN fetch[f].page \subseteq 1..Len(hub)
      /\ fetch[f].after \in 0..Len(hub) /\ fetch[f].after \in Nat
  BY <1>0, PullIs
<1>2. SUFFICES ASSUME fetch[f].at # "idle"
               PROVE  /\ Covered(hub', cur, DOMAIN shown', fetch[f].after)
                      /\ fetch[f].at = "answered" =>
                           Contiguous(hub', cur, fetch[f].after, DOMAIN fetch[f].page)
  BY DEF PullCovered
<1>3. Covered(hub', cur, DOMAIN shown', fetch[f].after)
  BY <1>0, <1>1, <1>2, CoveredKept DEF PullCovered
<1>4. fetch[f].at = "answered" => Contiguous(hub', cur, fetch[f].after, DOMAIN fetch[f].page)
  BY <1>0, <1>1, <1>2, ContiguousKept DEF PullCovered
<1> QED BY <1>3, <1>4

\* A pull that has just been asked is covered if its number is.
LEMMA AskedCovered ==
  ASSUME NEW f \in Fetches, fetch \in [Fetches -> Pulling], NEW a,
         Covered(hub', cur', DOMAIN shown', a),
         fetch' = [fetch EXCEPT ![f] = [at |-> "asked", after |-> a, page |-> <<>>]]
  PROVE  PullCovered(f)' /\ \A g \in Fetches \ {f} : fetch'[g] = fetch[g]
<1>1. fetch'[f].at = "asked" /\ fetch'[f].after = a
  OBVIOUS
<1>2. PullCovered(f)'
  BY <1>1 DEF PullCovered
<1> QED BY <1>2

LEMMA EndedCovered ==
  ASSUME NEW f \in Fetches, fetch \in [Fetches -> Pulling], Done(f)
  PROVE  PullCovered(f)' /\ \A g \in Fetches \ {f} : fetch'[g] = fetch[g]
BY DEF Done, NoFetch, PullCovered

\* What is under way stays covered.
LEMMA PullsStep ==
  ASSUME Shape, Known, NoGaps, PullsCovered, Next
  PROVE  PullsCovered'
<1>0. /\ HubShape /\ ShownShape /\ FetchShape /\ Len(hub) \in Nat
      /\ DOMAIN shown \subseteq 1..Len(hub) /\ fetch \in [Fetches -> Pulling]
      /\ \A k \in DOMAIN shown' : Covered(hub', cur', DOMAIN shown', k)
  BY NoGapsStep DEF Shape, HubShape, ShownShape, FetchShape, NoGaps
<1>1. ASSUME NEW f \in Fetches, cur' = cur, PullCovered(f)',
             \A g \in Fetches \ {f} : fetch'[g] = fetch[g]
      PROVE  PullsCovered'
  <2>1. ASSUME NEW g \in Fetches PROVE PullCovered(g)'
    <3>1. CASE g = f
      BY <1>1, <3>1
    <3>2. CASE g # f
      <4>1. fetch'[g] = fetch[g] /\ PullCovered(g)
        BY <1>1, <3>2 DEF PullsCovered
      <4> QED BY <1>1, <4>1, PullKept
    <3> QED BY <3>1, <3>2
  <2> QED BY <2>1 DEF PullsCovered
<1>2. ASSUME NEW f \in Fetches, Done(f), cur' = cur PROVE PullsCovered'
  BY <1>0, <1>1, <1>2, EndedCovered
<1>3. ASSUME NEW f \in Fetches, NEW a, Covered(hub', cur', DOMAIN shown', a), cur' = cur,
             fetch' = [fetch EXCEPT ![f] = [at |-> "asked", after |-> a, page |-> <<>>]]
      PROVE  PullsCovered'
  BY <1>0, <1>1, <1>3, AskedCovered
<1>4. CASE LoadStart
  <2>1. /\ fetch' = [fetch EXCEPT ![Load] = [at |-> "asked", after |-> 0, page |-> <<>>]]
        /\ cur' = cur /\ hub' = hub
    BY <1>4 DEF LoadStart, Ask
  <2>2. Covered(hub', cur', DOMAIN shown', 0)
    BY <2>1, <1>0 DEF Covered
  <2> QED BY <2>1, <2>2, <1>3, Bounds
<1>5. CASE LoadPage
  <2>0. cur' = cur /\ hub' = hub
    BY <1>5 DEF LoadPage
  <2>1. CASE Done(Load)
    BY <2>0, <2>1, <1>2, Bounds
  <2>2. CASE ~Done(Load)
    <3> DEFINE P == DOMAIN fetch[Load].page
    <3>1. /\ Cardinality(P) = PageSize
          /\ fetch' = [fetch EXCEPT ![Load] = [at |-> "asked", after |-> Max(P), page |-> <<>>]]
      BY <1>5, <2>2 DEF LoadPage
    <3>2. P \subseteq 1..Len(hub)
      BY <1>0, PullIs, Bounds
    <3>3. DOMAIN shown' = DOMAIN shown \cup P
      BY <1>5, PageLeavesNoGap, Bounds DEF LoadPage, PullsCovered
    <3> HIDE DEF P
    <3>4. Max(P) \in P
      BY <3>1, <3>2, <1>0, FullPage
    <3>5. Covered(hub', cur', DOMAIN shown', Max(P))
      BY <3>3, <3>4, <1>0
    <3> QED BY <3>1, <3>5, <2>0, <1>3, Bounds
  <2> QED BY <2>1, <2>2
<1>6. CASE TickStart
  <2>1. /\ fetch' = [fetch EXCEPT ![Tick] = [at |-> "asked", after |-> PullAfter(shown), page |-> <<>>]]
        /\ cur' = cur /\ hub' = hub /\ shown' = shown
    BY <1>6 DEF TickStart, Ask
  <2>2. Covered(hub, cur, DOMAIN shown, PullAfter(shown))
    BY <1>0, PullAfterCovers DEF NoGaps
  <2> QED BY <2>1, <2>2, <1>3, Bounds
<1>7. CASE LoadFails \/ TickPage \/ TickFails
  BY <1>2, <1>7, Bounds DEF LoadFails, TickPage, TickFails
<1>8. ASSUME NEW f \in Fetches, HubPage(f) PROVE PullsCovered'
  <2>1. /\ fetch'[f].after = fetch[f].after
        /\ fetch'[f].at = "answered" => DOMAIN fetch'[f].page = PageNumbers(fetch[f].after)
    BY <1>0, <1>8, Answered
  <2>2. fetch[f].at = "asked" /\ hub' = hub /\ cur' = cur /\ shown' = shown
    BY <1>8 DEF HubPage
  <2>3. \A g \in Fetches \ {f} : fetch'[g] = fetch[g]
    BY <1>0, <1>8 DEF HubPage
  <2>4. fetch[f].after \in Nat
    BY <1>0, PullIs, Bounds
  <2>5. /\ Covered(hub, cur, DOMAIN shown, fetch[f].after)
        /\ Contiguous(hub, cur, fetch[f].after, PageNumbers(fetch[f].after))
    BY <1>0, <2>2, <2>4, PageIs DEF PullsCovered, PullCovered
  <2>6. PullCovered(f)'
    BY <2>1, <2>2, <2>5 DEF PullCovered
  <2> QED BY <2>2, <2>3, <2>6, <1>1
<1>9. ASSUME NEW s \in Sends, SendPage(s) \/ SendPageFails(s) PROVE PullsCovered'
  BY <1>2, <1>9, Bounds DEF SendPage, SendPageFails
<1>10. ASSUME NEW s \in Sends, SendAnswered(s) PROVE PullsCovered'
  <2>1. /\ fetch' = [fetch EXCEPT ![s] = [at |-> "asked", after |-> PullAfter(shown'), page |-> <<>>]]
        /\ hub' = hub
    BY <1>10 DEF SendAnswered, Ask
  <2>2. DOMAIN shown' \subseteq 1..Len(hub)
    BY <1>10, AnswerShown
  <2>3. Covered(hub', cur', DOMAIN shown', PullAfter(shown'))
    BY <1>0, <2>1, <2>2, PullAfterCovers
  <2>4. PullCovered(s)' /\ \A g \in Fetches \ {s} : fetch'[g] = fetch[g]
    BY <1>0, <2>1, <2>3, AskedCovered, Bounds
  <2>5. CASE cur' = cur
    BY <2>4, <2>5, <1>1, Bounds
  <2>6. CASE cur' # cur
    <3>1. \A g \in Fetches \ {s} : fetch'[g].at = "idle"
      BY <2>4, <2>6, CurSteps DEF Known
    <3> QED BY <2>4, <3>1 DEF PullsCovered, PullCovered
  <2> QED BY <2>5, <2>6
<1>11. CASE fetch' = fetch /\ ~\E s \in Sends : SendAnswered(s)
  <2>1. cur' = cur
    BY <1>11, CurSteps
  <2>2. ASSUME NEW g \in Fetches PROVE PullCovered(g)'
    BY <1>11, <2>1, PullKept DEF PullsCovered
  <2> QED BY <2>2 DEF PullsCovered
<1> QED BY <1>4, <1>5, <1>6, <1>7, <1>8, <1>9, <1>10, <1>11, FetchSteps

\* The invariant holds at the start.
LEMMA InvariantInit ==
  Init => IInv
<1> SUFFICES ASSUME Init PROVE IInv
  OBVIOUS
<1>1. HubShape
  BY Bounds DEF Init, HubShape
<1>2. Len(hub) = 0 /\ <<>> \in [{} -> Status] /\ <<>> \in Pages /\ DOMAIN <<>> = {}
  <2>1. <<>> \in [{} -> Status]
    OBVIOUS
  <2> QED BY <2>1, PagesHave DEF Init
<1>3. ShownShape
  BY <1>2 DEF Init, ShownShape
<1>4. FetchShape
  <2>1. NoFetch \in Pulling /\ NoFetch.after <= 0 /\ DOMAIN NoFetch.page \subseteq 1..0
    BY <1>2, Bounds DEF NoFetch, Pulling
  <2> QED BY <1>2, <2>1 DEF Init, FetchShape
<1>5. RestShape
  <2>1. NoReq \in Requests /\ NoRetry \in Retries
    BY DEF NoReq, Requests, NoRetry, Retries, Status
  <2>2. cur \in Threads \cup {None} /\ mode \in {"draft", "loading"}
    BY Bounds DEF Init
  <2> QED BY <2>1, <2>2, Bounds DEF Init, RestShape
<1>6. Known
  <2>1. \A s \in Sends : req[s].at = "idle"
    BY DEF Init, NoReq
  <2>2. retry.at = "idle" /\ \A f \in Fetches : fetch[f].at = "idle"
    BY DEF Init, NoRetry, NoFetch
  <2> QED BY <1>2, <2>1, <2>2 DEF Init, Known
<1>7. OneRow /\ SentTextStays /\ NoGaps
  BY <1>2 DEF Init, OneRow, SentTextStays, NoGaps
<1>8. PullsCovered
  BY DEF Init, NoFetch, PullsCovered, PullCovered
<1> QED BY <1>1, <1>3, <1>4, <1>5, <1>6, <1>7, <1>8 DEF IInv, Shape

\* And after every step.
LEMMA InvariantStep ==
  IInv /\ [Next]_vars => IInv'
<1> SUFFICES ASSUME IInv, [Next]_vars PROVE IInv'
  OBVIOUS
<1>1. CASE Next
  <2>1. Shape /\ Known /\ OneRow /\ SentTextStays /\ NoGaps /\ PullsCovered
    BY DEF IInv
  <2>2. Shape' /\ Known'
    BY <1>1, <2>1, ShapeKept
  <2>3. OneRow'
    BY <1>1, <2>1, <2>2, HubMoves, OneRowStep DEF Shape
  <2>4. SentTextStays' /\ NoGaps' /\ PullsCovered'
    BY <1>1, <2>1, SentTextStep, NoGapsStep, PullsStep
  <2> QED BY <2>2, <2>3, <2>4 DEF IInv
<1>2. CASE UNCHANGED vars
  BY <1>2 DEF IInv, vars, Shape, HubShape, ShownShape, FetchShape, RestShape, Known, OneRow,
              SentTextStays, NoGaps, PullsCovered, PullCovered
<1> QED BY <1>1, <1>2

LEMMA Invariance == Spec => []IInv
BY InvariantInit, InvariantStep, PTL DEF Spec

-----------------------------------------------------------------------------
(* The theorems *)

\* The variables keep their types, for the requests and retries the Hub answers late too.
THEOREM TypeCorrect == Spec => []TypeOK
<1>1. IInv => TypeOK
  <2> SUFFICES ASSUME IInv PROVE TypeOK
    OBVIOUS
  <2>1. HubShape /\ ShownShape /\ FetchShape /\ RestShape /\ Known
    BY DEF IInv, Shape
  <2>2. \A i \in DOMAIN shown : shown[i] \in Status
    BY <2>1, PagesAre DEF ShownShape
  <2>3. \A s \in Sends :
          /\ req[s].at \in {"idle", "asked", "stored", "refused"}
          /\ req[s].thread \in Threads \cup {None}
          /\ req[s].at = "stored" => req[s].thread # None /\ hub[req[s].seq].id = s
    BY <2>1 DEF RestShape, Requests, Known
  <2>4. \A f \in Fetches :
          /\ fetch[f].at \in {"idle", "asked", "answered", "refused"}
          /\ fetch[f].after \in 0..MaxRows
          /\ DOMAIN fetch[f].page \subseteq 1..Len(hub)
    BY <2>1, PullIs
  <2>5. /\ retry.at \in {"idle", "asked", "done", "refused"}
        /\ retry.at # "idle" => retry.seq \in DOMAIN shown
        /\ mode # "draft" => cur # None
    BY <2>1 DEF RestShape, Retries, Known
  <2> QED BY <2>1, <2>2, <2>3, <2>4, <2>5 DEF TypeOK, HubShape, ShownShape, RestShape
<1> QED BY <1>1, Invariance, PTL

\* However the load, the ticks and the pulls after sends overlap, and however late their
\* pages are applied: a row of the thread that is missing below the newest one shown lies
\* below a message of the view's own.
THEOREM NoOtherGap == Spec => []GapsLieBelowOwnRows
<1>1. IInv => GapsLieBelowOwnRows
  <2> SUFFICES ASSUME IInv, NEW i \in ThreadRows(cur) \ DOMAIN shown, i < LastSeq
               PROVE  \E j \in DOMAIN shown : j > i /\ Own(j)
    BY DEF GapsLieBelowOwnRows
  <2>1. HubShape /\ ShownShape /\ NoGaps /\ Len(hub) \in Nat
    BY DEF IInv, Shape, HubShape
  <2>2. i \in 1..Len(hub) /\ hub[i].thread = cur /\ i \notin DOMAIN shown
    BY <2>1, RowNumbers DEF ThreadRows
  <2>3. LastSeq \in 0..Len(hub) /\ (LastSeq # 0 => LastSeq \in DOMAIN shown)
    BY <2>1, LastIs DEF LastSeq, LastSeqOf, ShownShape
  <2>4. LastSeq \in DOMAIN shown /\ i <= LastSeq
    BY <2>2, <2>3
  <2> HIDE DEF LastSeq
  <2> QED BY <2>1, <2>2, <2>4 DEF NoGaps, Covered, Own
<1> QED BY <1>1, Invariance, PTL

\* A text leaves the list of the pending ones only for the messages that are shown.
THEOREM NoTextLost == Spec => []SentTextStays
<1>1. IInv => SentTextStays
  BY DEF IInv
<1> QED BY <1>1, Invariance, PTL

\* A message that is sent again, before or after the Hub has stored it, is in a thread
\* once at most.
THEOREM NoMessageTwice == Spec => []OncePerThread
<1>1. IInv => OncePerThread
  <2> SUFFICES ASSUME IInv, NEW t \in Threads, NEW s \in Sends
               PROVE  Cardinality(Stored(t, s)) <= 1
    BY DEF OncePerThread
  <2>1. HubShape /\ OneRow
    BY DEF IInv, Shape
  <2>2. \A i \in Stored(t, s) : i \in 1..Len(hub) /\ hub[i].thread = t /\ hub[i].id = s
    BY <2>1, RowNumbers DEF Stored, ThreadRows
  <2>3. \A i, j \in Stored(t, s) : i = j
    BY <2>1, <2>2 DEF OneRow
  <2>4. CASE Stored(t, s) = {}
    BY <2>4, FS_EmptySet
  <2>5. CASE Stored(t, s) # {}
    <3>1. PICK i \in Stored(t, s) : TRUE
      BY <2>5
    <3>2. Stored(t, s) = {i}
      BY <2>3, <3>1
    <3>3. Cardinality({i}) = 1
      BY FS_Singleton
    <3> QED BY <3>2, <3>3
  <2> QED BY <2>4, <2>5
<1> QED BY <1>1, Invariance, PTL

=============================================================================

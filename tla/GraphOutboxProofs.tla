-------------------------- MODULE GraphOutboxProofs --------------------------
(***************************************************************************)
(* What GraphOutbox promises of the rows and the alerts holds for any      *)
(* edges, any number of processes of the desk, batches of any size, and    *)
(* any number of crashes and requests that fail.                           *)
(***************************************************************************)
EXTENDS GraphOutbox, SequenceTheorems, TLAPS

\* A flow that drains has read rows it has yet to see off; one that does not has none.
\* The drain of an alert runs beside a watch that fires, and is over when the watch is.
FlowFits(f) ==
  /\ pc[f] \notin Draining => rows[f] = <<>> /\ sent[f] = 0
  /\ f # Own(f[1]) /\ (Idle(f[1]) \/ watching[f[1]] = TRUE \/ f[2] \in todo[f[1]]) => pc[f] = "idle"

ProcFits(p) ==
  /\ Idle(p) => watching[p] = FALSE /\ todo[p] = {}
  /\ pc[Own(p)] \in {"list", "merge"} => watching[p] = TRUE
  /\ watching[p] = TRUE => todo[p] = {}
  /\ pc[Own(p)] # "mark" => firing[p] = None

HubFits == ~hubWatches => hubTodo = {} /\ hubFiring = None

Shape == (\A f \in Flows : FlowFits(f)) /\ (\A p \in Procs : ProcFits(p)) /\ HubFits

\* The rows a drain will leave in the outbox.
Left(f) == {rows[f][i] : i \in sent[f] + 1 .. Len(rows[f])}

\* A row is in the outbox and stays there, whichever drain renames next.
Kept(r) ==
  /\ r \in Range(outbox)
  /\ \A f \in Flows : pc[f] \in Draining => r \in Left(f)
  /\ (\E f \in Flows : pc[f] = "rename") /\ tmp # None => r \in Range(tmp)

NothingSlips == \A r \in recorded \ exposed : r \in hub \/ Kept(r)

Alone == ~hubWatches /\ ~overlap /\ faults = 0

Marked(e) == Row(e, "alert") \in recorded

\* An edge is alerted by one process, which then marks it; a watch that merges has seen
\* the mark.
FiresOnce ==
  /\ \A e \in Edges : alerts[e] <= 1
  /\ \A e \in Edges : alerts[e] = 1 => Marked(e) \/ \E p \in Procs : firing[p] = e
  /\ \A p \in Procs : \A e \in todo[p] : alerts[e] = 0
  /\ \A p \in Procs : pc[Own(p)] = "merge" =>
       \A e \in Edges : Marked(e) => Row(e, "alert") \in seen[p]

\* A process holds a row it has yet to bring to the Hub, or is about to read it from an
\* outbox that nobody replaces before it has.
Carries(p, r) ==
  \/ pc[Own(p)] \in Draining /\ r \in Left(Own(p))
  \/ /\ pc[Own(p)] = "read" /\ r \in Range(outbox)
     /\ \A f \in Flows \ {Own(p)} :
          IF f[1] = p THEN pc[f] \notin {"read", "rename"}
          ELSE pc[f] = "idle" \/ (f = Own(f[1]) /\ pc[f] = "read")

\* A mark comes to the Hub with the drain that follows it, although the drains of the
\* alerts may replace the outbox under it.
MarksArrive ==
  /\ \A f \in Flows : pc[f] \in {"write", "rename"} => sent[f] = Len(rows[f])
  /\ \A e \in Edges : Marked(e) =>
       Row(e, "alert") \in hub \/ \E p \in Procs : Carries(p, Row(e, "alert"))

IInv == TypeOK /\ Shape /\ NothingSlips /\ (Alone => FiresOnce /\ MarksArrive)

-----------------------------------------------------------------------------
(* Sequences and types *)

\* Appending keeps what a sequence has and adds the new row.
LEMMA AppendHas ==
  ASSUME NEW s \in Seq(Rows), NEW r \in Rows
  PROVE  Append(s, r) \in Seq(Rows) /\ Range(Append(s, r)) = Range(s) \cup {r}
<1>1. /\ Append(s, r) \in Seq(Rows) /\ Len(Append(s, r)) = Len(s) + 1
      /\ \A i \in 1..Len(s) : Append(s, r)[i] = s[i]
      /\ Append(s, r)[Len(s) + 1] = r
  BY AppendProperties
<1>2. DOMAIN s = 1..Len(s) /\ DOMAIN Append(s, r) = 1..(Len(s) + 1) /\ Len(s) \in Nat
  BY <1>1
<1>3. Range(Append(s, r)) \subseteq Range(s) \cup {r}
  BY <1>1, <1>2 DEF Range
<1>4. Range(s) \subseteq Range(Append(s, r)) /\ r \in Range(Append(s, r))
  BY <1>1, <1>2 DEF Range
<1> QED
  BY <1>1, <1>3, <1>4

\* A part of a sequence has the rows of that part.
LEMMA PartHas ==
  ASSUME NEW s \in Seq(Rows), NEW m \in Nat, NEW n \in Nat, m <= n, n <= Len(s)
  PROVE  SubSeq(s, m + 1, n) \in Seq(Rows) /\ Range(SubSeq(s, m + 1, n)) = {s[i] : i \in m + 1 .. n}
<1> DEFINE t == SubSeq(s, m + 1, n)
<1>1. /\ t \in Seq(Rows) /\ Len(t) = n - m
      /\ \A i \in 1 .. n - m : t[i] = s[m + i]
  <2>1. m + 1 \in Int /\ n \in Int /\ \A i \in m + 1 .. n : s[i] \in Rows
    OBVIOUS
  <2>2. /\ t \in Seq(Rows)
        /\ Len(t) = IF m + 1 <= n THEN n - (m + 1) + 1 ELSE 0
        /\ \A i \in 1 .. n - (m + 1) + 1 : t[i] = s[(m + 1) + i - 1]
    BY <2>1, SubSeqProperties
  <2> HIDE DEF t
  <2> QED
    BY <2>2
<1> HIDE DEF t
<1>2. DOMAIN t = 1 .. n - m
  BY <1>1
<1>3. Range(t) \subseteq {s[i] : i \in m + 1 .. n}
  <2>1. ASSUME NEW i \in 1 .. n - m PROVE t[i] = s[m + i] /\ m + i \in m + 1 .. n
    BY <1>1
  <2> QED
    BY <1>2, <2>1 DEF Range
<1>4. {s[i] : i \in m + 1 .. n} \subseteq Range(t)
  <2>1. ASSUME NEW i \in m + 1 .. n PROVE i - m \in 1 .. n - m /\ t[i - m] = s[i]
    BY <1>1
  <2> QED
    BY <1>2, <2>1 DEF Range
<1> QED
  BY <1>1, <1>3, <1>4 DEF t

\* The next batch ends inside the rows that were read, and past what was sent.
LEMMA BatchEnds ==
  ASSUME TypeOK, NEW f \in Flows
  PROVE  /\ BatchEnd(f) \in Nat /\ sent[f] \in Nat /\ rows[f] \in Seq(Rows) /\ Len(rows[f]) \in Nat
         /\ sent[f] <= BatchEnd(f) /\ BatchEnd(f) <= Len(rows[f])
  BY GraphOutboxAssumption DEF TypeOK, BatchEnd

\* What a process runs.
LEMMA FlowFacts ==
  /\ \A p \in Procs : Own(p) \in Flows /\ Own(p)[1] = p
  /\ \A p \in Procs, e \in Edges :
       <<p, e>> \in Flows /\ <<p, e>>[1] = p /\ <<p, e>>[2] = e /\ <<p, e>> # Own(p)
  /\ \A f \in Flows : f[1] \in Procs
  /\ \A p \in Procs : FlowsOf(p) \subseteq Flows /\ \A f \in Flows : f \in FlowsOf(p) <=> f[1] = p
  BY GraphOutboxAssumption DEF Flows, Own, FlowsOf

\* The parts of TypeOK that speak of the files, of the processes, and of the Hub.
FilesOK ==
  /\ outbox \in Seq(Rows) /\ tmp \in Seq(Rows) \cup {None} /\ hub \subseteq Rows
  /\ recorded \subseteq Rows /\ exposed \subseteq Rows

Places == {"idle", "read", "list", "merge", "fire", "mark"} \cup Draining

FlowsOK ==
  /\ pc \in [Flows -> Places]
  /\ rows \in [Flows -> Seq(Rows)] /\ sent \in [Flows -> Nat]
  /\ \A f \in Flows : sent[f] <= Len(rows[f])

ProcsOK ==
  /\ seen \in [Procs -> SUBSET Rows] /\ todo \in [Procs -> SUBSET Edges]
  /\ firing \in [Procs -> Edges \cup {None}]
  /\ \A p \in Procs : pc[Own(p)] = "mark" => firing[p] # None

HubOK ==
  /\ hubTodo \subseteq Edges /\ hubFiring \in Edges \cup {None} /\ overdue \subseteq Edges
  /\ alerts \in [Edges -> 0..MaxAlerts] /\ unheard \subseteq Edges /\ faults \in 0..MaxFaults

FlagsOK == watching \in [Procs -> BOOLEAN] /\ hubWatches \in BOOLEAN /\ overlap \in BOOLEAN

LEMMA Parts == TypeOK <=> FilesOK /\ FlowsOK /\ ProcsOK /\ HubOK /\ FlagsOK
  BY DEF TypeOK, FilesOK, FlowsOK, Places, ProcsOK, HubOK, FlagsOK

\* The flags stay flags.
LEMMA FlagsStep == ASSUME FlagsOK, [Next]_vars PROVE FlagsOK'
<1>1. watching' = watching \/ \E p \in Procs, b \in BOOLEAN : watching' = [watching EXCEPT ![p] = b]
  BY Zenon DEF Next, Drain, RunWatch, HubSide, RecordEdge, Sync, Watch, ReadOutbox, PostBatch, WriteTmp,
     RenameTmp, ListHub, MergeOutbox, Fire, Mark, Crash, HubWatch, HubFire, HubMark, BudgetRunsOut, watch, vars
<1>2. hubWatches' = hubWatches
  BY Zenon DEF Next, Drain, RunWatch, HubSide, RecordEdge, Sync, Watch, ReadOutbox, PostBatch, WriteTmp,
     RenameTmp, ListHub, MergeOutbox, Fire, Mark, Crash, HubWatch, HubFire, HubMark, BudgetRunsOut, hubside, vars
<1>3. overlap' = overlap \/ NoteOverlap
  BY Zenon DEF Next, Drain, RunWatch, HubSide, RecordEdge, Sync, Watch, ReadOutbox, PostBatch, WriteTmp,
     RenameTmp, ListHub, MergeOutbox, Fire, Mark, Crash, HubWatch, HubFire, HubMark, BudgetRunsOut, vars
<1>4. watching' \in [Procs -> BOOLEAN]
  BY <1>1, Zenon DEF FlagsOK
<1>5. overlap' \in BOOLEAN
  BY <1>3, Zenon DEF FlagsOK, NoteOverlap
<1> QED
  BY <1>2, <1>4, <1>5, Zenon DEF FlagsOK

\* A row of an edge is a row.
LEMMA EdgeRow == ASSUME NEW e \in Edges, NEW s \in Steps PROVE Row(e, s) \in Rows
  BY DEF Row, Rows

\* What is appended to the outbox.
LEMMA AppendKeepsFiles ==
  ASSUME FilesOK, NEW r \in Rows, AppendRow(r), UNCHANGED <<tmp, hub>> PROVE FilesOK'
  BY AppendHas DEF FilesOK, AppendRow

LEMMA FilesStep == ASSUME TypeOK, [Next]_vars PROVE FilesOK'
<1>0. FilesOK /\ FlowsOK /\ ProcsOK /\ HubOK
  BY Parts
<1>1. ASSUME UNCHANGED <<files, hub, logged>> PROVE FilesOK'
  BY <1>0, <1>1 DEF FilesOK, files, logged
<1>2. ASSUME NEW p \in Procs, NEW e \in Edges, NEW s \in Steps, RecordEdge(p, e, s) PROVE FilesOK'
  BY <1>0, <1>2, EdgeRow, AppendKeepsFiles DEF RecordEdge
<1>3. ASSUME NEW p \in Procs, Mark(p) PROVE FilesOK'
  <2>1. firing[p] \in Edges /\ "alert" \in Steps
    BY <1>0, <1>3 DEF Mark, ProcsOK, Steps
  <2> QED
    BY <1>0, <1>3, <2>1, EdgeRow, AppendKeepsFiles DEF Mark
<1>4. ASSUME NEW f \in Flows, PostBatch(f) PROVE FilesOK'
  <2>1. Range(SubSeq(rows[f], sent[f] + 1, BatchEnd(f))) \subseteq Rows
    BY BatchEnds, PartHas
  <2>2. hub' \subseteq Rows
    BY <1>0, <1>4, <2>1 DEF PostBatch, FilesOK
  <2> QED
    BY <1>0, <1>4, <2>2 DEF PostBatch, FilesOK, files, logged
<1>5. ASSUME NEW f \in Flows, WriteTmp(f) PROVE FilesOK'
  <2>1. tmp' \in Seq(Rows)
    BY <1>5, BatchEnds, PartHas DEF WriteTmp
  <2> QED
    BY <1>0, <1>5, <2>1 DEF WriteTmp, FilesOK, logged
<1>6. ASSUME NEW f \in Flows, RenameTmp(f) PROVE FilesOK'
  BY <1>0, <1>6 DEF RenameTmp, FilesOK, files, logged
<1>7. ASSUME HubMark PROVE FilesOK'
  <2>1. hubFiring \in Edges /\ "alert" \in Steps
    BY <1>0, <1>7 DEF HubMark, HubOK, Steps
  <2>2. hub' \subseteq Rows
    BY <1>0, <1>7, <2>1, EdgeRow DEF HubMark, FilesOK
  <2> QED
    BY <1>0, <1>7, <2>2 DEF HubMark, FilesOK, files, logged
<1>8. ASSUME NEW p \in Procs, Sync(p) \/ Watch(p) \/ ListHub(p) \/ MergeOutbox(p) \/ Crash(p)
      PROVE  UNCHANGED <<files, hub, logged>>
  BY <1>8 DEF Sync, Watch, ListHub, MergeOutbox, Crash
<1>9. ASSUME NEW f \in Flows, ReadOutbox(f) PROVE UNCHANGED <<files, hub, logged>>
  BY <1>9 DEF ReadOutbox
<1>10. ASSUME NEW p \in Procs, Fire(p) PROVE FilesOK'
  <2>1. PICK e \in todo[p] : AppendRow(Row(e, "told")) \/ UNCHANGED <<outbox, logged>>
    BY <1>10 DEF Fire
  <2>2. e \in Edges /\ "told" \in Steps
    BY <1>0, <2>1 DEF ProcsOK, Steps
  <2>3. UNCHANGED <<tmp, hub>>
    BY <1>10 DEF Fire
  <2>4. CASE AppendRow(Row(e, "told"))
    BY <1>0, <2>2, <2>3, <2>4, EdgeRow, AppendKeepsFiles
  <2>5. CASE UNCHANGED <<outbox, logged>>
    BY <1>1, <2>3, <2>5 DEF files
  <2> QED
    BY <2>1, <2>4, <2>5
<1>11. ASSUME HubWatch \/ HubFire \/ (\E e \in Edges : BudgetRunsOut(e)) \/ UNCHANGED vars
      PROVE  UNCHANGED <<files, hub, logged>>
  BY <1>11 DEF HubWatch, HubFire, BudgetRunsOut, vars
<1> QED
  BY <1>1, <1>2, <1>3, <1>4, <1>5, <1>6, <1>7, <1>8, <1>9, <1>10, <1>11 DEF Next, Drain, RunWatch, HubSide

\* A flow goes on as it was, or is over.
Same(f) == pc'[f] = pc[f] /\ rows'[f] = rows[f] /\ sent'[f] = sent[f]
Over(f) == pc'[f] = "idle" /\ rows'[f] = <<>> /\ sent'[f] = 0

\* The end of some flows ends these and no other.
LEMMA StopGoes ==
  ASSUME FlowsOK, NEW F \in SUBSET Flows, Stop(F)
  PROVE  FlowsOK' /\ \A f \in Flows : IF f \in F THEN Over(f) ELSE Same(f)
<1>1. \A f \in Flows : IF f \in F THEN Over(f) ELSE Same(f)
  BY DEF Stop, Over, Same
<1>2. DOMAIN pc' = Flows /\ DOMAIN rows' = Flows /\ DOMAIN sent' = Flows
  BY DEF Stop
<1>3. /\ pc' = [f \in Flows |-> pc'[f]] /\ rows' = [f \in Flows |-> rows'[f]]
      /\ sent' = [f \in Flows |-> sent'[f]]
  BY DEF Stop
<1>4. ASSUME NEW f \in Flows
      PROVE  pc'[f] \in Places /\ rows'[f] \in Seq(Rows) /\ sent'[f] \in Nat /\ sent'[f] <= Len(rows'[f])
  <2>1. CASE Over(f)
    <3>1. <<>> \in Seq(Rows) /\ 0 <= Len(<<>>) /\ 0 \in Nat
      OBVIOUS
    <3> QED
      BY <2>1, <3>1 DEF Over, Places
  <2>2. CASE Same(f)
    BY <2>2 DEF Same, FlowsOK
  <2> QED
    BY <1>1, <2>1, <2>2
<1>5. pc' \in [Flows -> Places] /\ rows' \in [Flows -> Seq(Rows)] /\ sent' \in [Flows -> Nat]
  BY <1>3, <1>4
<1> QED
  BY <1>1, <1>4, <1>5 DEF FlowsOK

\* What a return leaves to a watch, and what it ends.
LEMMA ReturnGoes ==
  ASSUME FlowsOK, FlagsOK, NEW f \in Flows, Return(f)
  PROVE  /\ FlowsOK'
         /\ pc'[f] \in {"idle", "list", "fire"} /\ rows'[f] = <<>> /\ sent'[f] = 0
         /\ \A g \in Flows : Same(g) \/ g = f \/ (f = Own(f[1]) /\ g[1] = f[1] /\ Over(g))
         /\ \/ f # Own(f[1]) /\ pc'[f] = "idle"
            \/ f = Own(f[1]) /\ watching[f[1]] = TRUE /\ pc'[f] = "list"
            \/ f = Own(f[1]) /\ watching[f[1]] = FALSE /\ todo[f[1]] # {} /\ pc'[f] = "fire"
            \/ /\ f = Own(f[1]) /\ watching[f[1]] = FALSE /\ todo[f[1]] = {}
               /\ \A g \in Flows : g[1] = f[1] => Over(g)
<1> DEFINE p == f[1]
<1>0. p \in Procs /\ f \in FlowsOf(p) /\ FlowsOf(p) \subseteq Flows /\ {f} \subseteq Flows
      /\ (\A g \in Flows : g \in FlowsOf(p) <=> g[1] = p) /\ (watching[p] = TRUE \/ watching[p] = FALSE)
  BY FlowFacts DEF FlagsOK
<1>1. ASSUME NEW next \in {"list", "fire"}, GoOn(f, next)
      PROVE  FlowsOK' /\ pc'[f] = next /\ rows'[f] = <<>> /\ sent'[f] = 0 /\ \A g \in Flows : g # f => Same(g)
  BY <1>1 DEF GoOn, FlowsOK, Places, Same
<1>2. CASE f # Own(p) /\ Stop({f})
  BY <1>0, <1>2, StopGoes DEF Over
<1>3. CASE f = Own(p) /\ watching[p] /\ GoOn(f, "list")
  <2>1. watching[p] = TRUE
    BY <1>0, <1>3
  <2> QED
    BY <1>1, <1>3, <2>1
<1>4. CASE f = Own(p) /\ ~watching[p] /\ todo[p] # {} /\ GoOn(f, "fire")
  <2>1. watching[p] = FALSE
    BY <1>0, <1>4
  <2> QED
    BY <1>1, <1>4, <2>1
<1>5. CASE f = Own(p) /\ ~watching[p] /\ todo[p] = {} /\ Stop(FlowsOf(p))
  <2>1. watching[p] = FALSE
    BY <1>0, <1>5
  <2> QED
    BY <1>0, <1>5, <2>1, StopGoes DEF Over
<1> QED
  BY <1>2, <1>3, <1>4, <1>5, Zenon DEF Return

LEMMA FlowsStep == ASSUME TypeOK, Shape, [Next]_vars PROVE FlowsOK'
<1> USE DEF drain
<1>0. FlowsOK /\ FilesOK /\ ProcsOK /\ FlagsOK /\ (\A p \in Procs : Own(p) \in Flows)
  BY Parts, FlowFacts
<1>1. ASSUME UNCHANGED <<pc, drain>> PROVE FlowsOK'
  BY <1>0, <1>1 DEF FlowsOK
<1>2. ASSUME NEW f \in Flows, NEW to \in Places, pc' = [pc EXCEPT ![f] = to], UNCHANGED drain PROVE FlowsOK'
  BY <1>0, <1>2 DEF FlowsOK
<1>3. ASSUME NEW p \in Procs, (\E e \in Edges, s \in Steps : RecordEdge(p, e, s)) \/ Sync(p) \/ Watch(p)
                              \/ ListHub(p) \/ MergeOutbox(p) \/ Mark(p)
      PROVE  FlowsOK'
  <2>1. \E to \in {"read", "merge", "fire", "idle"} : pc' = [pc EXCEPT ![Own(p)] = to]
    BY <1>3 DEF RecordEdge, Sync, Watch, ListHub, MergeOutbox, Mark
  <2>2. UNCHANGED drain
    BY <1>3 DEF RecordEdge, Sync, Watch, ListHub, MergeOutbox, Mark
  <2> QED
    BY <1>0, <1>2, <2>1, <2>2 DEF Places
<1>4. ASSUME NEW f \in Flows, WriteTmp(f) PROVE FlowsOK'
  BY <1>2, <1>4 DEF WriteTmp, Places, Draining
<1>5. ASSUME NEW f \in Flows, ReadOutbox(f) PROVE FlowsOK'
  <2>1. CASE outbox = <<>>
    BY <1>0, <1>5, <2>1, ReturnGoes DEF ReadOutbox
  <2>2. CASE outbox # <<>>
    <3>1. /\ rows' = [rows EXCEPT ![f] = outbox] /\ pc' = [pc EXCEPT ![f] = "post"] /\ sent' = sent
          /\ pc[f] = "read"
      BY <1>5, <2>2 DEF ReadOutbox
    <3>2. sent[f] = 0
      BY <3>1 DEF Shape, FlowFits, Draining
    <3>3. Len(outbox) \in Nat
      BY <1>0 DEF FilesOK
    <3> QED
      BY <1>0, <3>1, <3>2, <3>3 DEF FlowsOK, FilesOK, Places, Draining
  <2> QED
    BY <2>1, <2>2
<1>6. ASSUME NEW f \in Flows, PostBatch(f) PROVE FlowsOK'
  <2>1. sent' \in [Flows -> Nat] /\ \A g \in Flows : sent'[g] <= Len(rows[g])
    <3>1. PICK n \in Nat : n = BatchEnd(f) /\ n <= Len(rows[f])
      BY BatchEnds
    <3>2. sent' = sent \/ sent' = [sent EXCEPT ![f] = n]
      BY <1>6, <3>1 DEF PostBatch
    <3> QED
      BY <1>0, <3>1, <3>2 DEF FlowsOK
  <2>2. (\E to \in {"post", "write"} : pc' = [pc EXCEPT ![f] = to]) /\ rows' = rows
    BY <1>6 DEF PostBatch
  <2> QED
    BY <1>0, <2>1, <2>2 DEF FlowsOK, Places, Draining
<1>7. ASSUME NEW f \in Flows, RenameTmp(f) PROVE FlowsOK'
  BY <1>0, <1>7, ReturnGoes DEF RenameTmp
<1>8. ASSUME NEW p \in Procs, Fire(p) PROVE FlowsOK'
  <2>1. PICK e \in todo[p] : \/ pc' = [pc EXCEPT ![Own(p)] = "mark"]
                             \/ pc' = [pc EXCEPT ![Own(p)] = "mark", ![<<p, e>>] = "read"]
    BY <1>8 DEF Fire
  <2>2. pc' \in [Flows -> Places] /\ UNCHANGED drain
    BY <1>0, <1>8, <2>1 DEF Fire, FlowsOK, Places
  <2> QED
    BY <1>0, <2>2 DEF FlowsOK
<1>9. ASSUME NEW p \in Procs, Crash(p) PROVE FlowsOK'
  BY <1>0, <1>9, FlowFacts, StopGoes DEF Crash
<1>10. ASSUME HubSide \/ (\E e \in Edges : BudgetRunsOut(e)) \/ UNCHANGED vars
       PROVE  UNCHANGED <<pc, drain>>
  BY <1>10 DEF HubSide, HubWatch, HubFire, HubMark, BudgetRunsOut, vars
<1> QED
  BY <1>1, <1>3, <1>4, <1>5, <1>6, <1>7, <1>8, <1>9, <1>10 DEF Next, Drain, RunWatch

LEMMA ProcsStep == ASSUME TypeOK, [Next]_vars PROVE ProcsOK'
<1> USE DEF watch
<1>0. ProcsOK /\ FlowsOK /\ FilesOK /\ FlagsOK /\ None \notin Edges
  BY Parts, GraphOutboxAssumption
<1>00. \A p, q \in Procs : Own(p) \in Flows /\ (Own(p) = Own(q) => p = q)
  BY FlowFacts
<1>1. ASSUME UNCHANGED <<todo, firing>>, seen' \in [Procs -> SUBSET Rows],
             \A p \in Procs : pc'[Own(p)] = "mark" => pc[Own(p)] = "mark"
      PROVE  ProcsOK'
  BY <1>0, <1>1 DEF ProcsOK
<1>2. ASSUME NEW f \in Flows, \E to \in Places \ {"mark"} : pc' = [pc EXCEPT ![f] = to]
      PROVE  \A p \in Procs : pc'[Own(p)] = "mark" => pc[Own(p)] = "mark"
  BY <1>0, <1>00, <1>2 DEF FlowsOK
<1>3. ASSUME NEW p \in Procs, (\E e \in Edges, s \in Steps : RecordEdge(p, e, s)) \/ Sync(p) \/ Watch(p) PROVE ProcsOK'
  <2>1. pc' = [pc EXCEPT ![Own(p)] = "read"]
    BY <1>3 DEF RecordEdge, Sync, Watch
  <2>2. UNCHANGED <<todo, firing, seen>>
    BY <1>3 DEF RecordEdge, Sync, Watch
  <2> QED
    BY <1>0, <1>00, <1>1, <1>2, <2>1, <2>2 DEF ProcsOK, Places
<1>4. ASSUME NEW f \in Flows, Drain(f) PROVE ProcsOK'
  <2>1. UNCHANGED <<todo, firing, seen>>
    BY <1>4 DEF Drain, ReadOutbox, PostBatch, WriteTmp, RenameTmp
  <2>2. Return(f) \/ \E to \in {"post", "write", "rename"} : pc' = [pc EXCEPT ![f] = to]
    BY <1>4 DEF Drain, ReadOutbox, PostBatch, WriteTmp, RenameTmp
  <2>3. CASE Return(f)
    <3>1. \A p \in Procs : pc'[Own(p)] = "mark" => pc[Own(p)] = "mark"
      BY <1>0, <1>00, <2>3, ReturnGoes DEF Same, Over
    <3> QED
      BY <1>0, <1>1, <2>1, <3>1 DEF ProcsOK
  <2>4. CASE \E to \in {"post", "write", "rename"} : pc' = [pc EXCEPT ![f] = to]
    <3>1. \A p \in Procs : pc'[Own(p)] = "mark" => pc[Own(p)] = "mark"
      BY <1>2, <2>4 DEF Places, Draining
    <3> QED
      BY <1>0, <1>1, <2>1, <3>1 DEF ProcsOK
  <2> QED
    BY <2>2, <2>3, <2>4
<1>5. ASSUME NEW p \in Procs, ListHub(p) PROVE ProcsOK'
  <2>1. seen' \in [Procs -> SUBSET Rows]
    BY <1>0, <1>5 DEF ListHub, ProcsOK, FilesOK
  <2>2. pc' = [pc EXCEPT ![Own(p)] = "merge"] /\ UNCHANGED <<todo, firing>>
    BY <1>5 DEF ListHub
  <2> QED
    BY <1>00, <1>1, <1>2, <2>1, <2>2 DEF Places
<1>6. ASSUME NEW p \in Procs, MergeOutbox(p) PROVE ProcsOK'
  <2>1. todo' \in [Procs -> SUBSET Edges] /\ seen' \in [Procs -> SUBSET Rows] /\ firing' = firing
    BY <1>0, <1>6 DEF MergeOutbox, ProcsOK
  <2>2. \E to \in {"fire", "idle"} : pc' = [pc EXCEPT ![Own(p)] = to]
    BY <1>6 DEF MergeOutbox
  <2>3. \A q \in Procs : pc'[Own(q)] = "mark" => pc[Own(q)] = "mark"
    BY <1>00, <1>2, <2>2 DEF Places
  <2> QED
    BY <1>0, <2>1, <2>3 DEF ProcsOK
<1>7. ASSUME NEW p \in Procs, Fire(p) PROVE ProcsOK'
  <2>1. PICK e \in todo[p] :
          /\ firing' = [firing EXCEPT ![p] = e] /\ todo' = [todo EXCEPT ![p] = @ \ {e}]
          /\ \/ pc' = [pc EXCEPT ![Own(p)] = "mark"]
             \/ pc' = [pc EXCEPT ![Own(p)] = "mark", ![<<p, e>>] = "read"]
    BY <1>7 DEF Fire
  <2>2. e \in Edges /\ seen' = seen
    BY <1>0, <1>7, <2>1 DEF Fire, ProcsOK
  <2>3. firing'[p] = e /\ \A q \in Procs : q # p => firing'[q] = firing[q]
    BY <1>0, <2>1 DEF ProcsOK
  <2>4. \A q \in Procs : q # p /\ pc'[Own(q)] = "mark" => pc[Own(q)] = "mark"
    BY <1>0, <1>00, <2>1 DEF FlowsOK
  <2>5. todo' \in [Procs -> SUBSET Edges] /\ firing' \in [Procs -> Edges \cup {None}]
    BY <1>0, <2>1, <2>2 DEF ProcsOK
  <2> QED
    BY <1>0, <2>2, <2>3, <2>4, <2>5 DEF ProcsOK
<1>8. ASSUME NEW p \in Procs, Mark(p) PROVE ProcsOK'
  <2>1. /\ pc' = [pc EXCEPT ![Own(p)] = "read"] /\ firing' = [firing EXCEPT ![p] = None]
        /\ UNCHANGED <<todo, seen>>
    BY <1>8 DEF Mark
  <2>2. pc'[Own(p)] = "read" /\ \A q \in Procs : q # p => pc'[Own(q)] = pc[Own(q)]
    BY <1>0, <1>00, <2>1 DEF FlowsOK
  <2> QED
    BY <1>0, <2>1, <2>2 DEF ProcsOK
<1>9. ASSUME NEW p \in Procs, Crash(p) PROVE ProcsOK'
  <2>1. /\ seen' = [seen EXCEPT ![p] = {}] /\ todo' = [todo EXCEPT ![p] = {}]
        /\ firing' = [firing EXCEPT ![p] = None]
    BY <1>9 DEF Crash
  <2>2. pc'[Own(p)] = "idle" /\ \A q \in Procs : q # p => pc'[Own(q)] = pc[Own(q)]
    BY <1>0, <1>9, FlowFacts, StopGoes DEF Crash, Over, Same
  <2> QED
    BY <1>0, <2>1, <2>2 DEF ProcsOK
<1>10. ASSUME HubSide \/ (\E e \in Edges : BudgetRunsOut(e)) \/ UNCHANGED vars PROVE ProcsOK'
  <2>1. UNCHANGED <<pc, seen, todo, firing>>
    BY <1>10 DEF HubSide, HubWatch, HubFire, HubMark, BudgetRunsOut, vars
  <2> QED
    BY <1>0, <1>1, <2>1 DEF ProcsOK
<1> QED
  BY <1>3, <1>4, <1>5, <1>6, <1>7, <1>8, <1>9, <1>10 DEF Next, RunWatch

LEMMA HubStep == ASSUME TypeOK, [Next]_vars PROVE HubOK'
<1> USE DEF hubside, alerted
<1>0. HubOK /\ ProcsOK /\ MaxFaults \in Nat /\ MaxAlerts \in Nat \ {0}
  BY Parts, GraphOutboxAssumption
<1>1. ASSUME UNCHANGED <<hubside, overdue, alerted>>, UNCHANGED faults \/ Fault PROVE HubOK'
  BY <1>0, <1>1 DEF HubOK, Fault
<1>2. ASSUME NEW e \in Edges, Alert(e) \/ AlertFails(e)
      PROVE  alerts' \in [Edges -> 0..MaxAlerts] /\ unheard' \subseteq Edges
  BY <1>0, <1>2 DEF Alert, AlertFails, HubOK
<1>3. ASSUME NEW p \in Procs, Fire(p) PROVE HubOK'
  <2>1. PICK e \in todo[p] : Alert(e) \/ AlertFails(e)
    BY <1>3 DEF Fire
  <2>2. e \in Edges /\ UNCHANGED <<hubside, overdue, faults>>
    BY <1>0, <1>3, <2>1 DEF Fire, ProcsOK
  <2> QED
    BY <1>0, <1>2, <2>1, <2>2 DEF HubOK
<1>4. ASSUME HubWatch PROVE HubOK'
  BY <1>0, <1>4 DEF HubWatch, HubOK
<1>5. ASSUME HubFire PROVE HubOK'
  <2>1. PICK e \in hubTodo : (Alert(e) \/ AlertFails(e)) /\ hubFiring' = e /\ hubTodo' = hubTodo \ {e}
    BY <1>5 DEF HubFire
  <2>2. e \in Edges /\ UNCHANGED <<overdue, faults>>
    BY <1>0, <1>5, <2>1 DEF HubFire, HubOK
  <2> QED
    BY <1>0, <1>2, <2>1, <2>2 DEF HubOK
<1>6. ASSUME HubMark PROVE HubOK'
  BY <1>0, <1>6 DEF HubMark, HubOK, Fault
<1>7. ASSUME NEW e \in Edges, BudgetRunsOut(e) PROVE HubOK'
  BY <1>0, <1>7 DEF BudgetRunsOut, HubOK
<1>8. ASSUME NEW p \in Procs, (\E e \in Edges, s \in Steps : RecordEdge(p, e, s)) \/ Sync(p) \/ Watch(p)
      PROVE  UNCHANGED <<hubside, overdue, alerted, faults>>
  BY <1>8 DEF RecordEdge, Sync, Watch
<1>9. ASSUME NEW f \in Flows, Drain(f)
      PROVE  UNCHANGED <<hubside, overdue, alerted>> /\ (UNCHANGED faults \/ Fault)
  BY <1>9 DEF Drain, ReadOutbox, PostBatch, WriteTmp, RenameTmp
<1>10. ASSUME NEW p \in Procs, ListHub(p) \/ MergeOutbox(p) \/ Mark(p) \/ Crash(p)
      PROVE  UNCHANGED <<hubside, overdue, alerted>> /\ (UNCHANGED faults \/ Fault)
  BY <1>10 DEF ListHub, MergeOutbox, Mark, Crash
<1>11. ASSUME UNCHANGED vars PROVE UNCHANGED <<hubside, overdue, alerted, faults>>
  BY <1>11 DEF vars
<1> QED
  BY <1>1, <1>3, <1>4, <1>5, <1>6, <1>7, <1>8, <1>9, <1>10, <1>11 DEF Next, RunWatch, HubSide

LEMMA TypeStep == ASSUME TypeOK, Shape, [Next]_vars PROVE TypeOK'
<1>1. FilesOK' /\ FlowsOK' /\ ProcsOK' /\ HubOK' /\ FlagsOK'
  BY Parts, FilesStep, FlowsStep, ProcsStep, HubStep, FlagsStep
<1> QED
  BY <1>1 DEF TypeOK, FilesOK, FlowsOK, Places, ProcsOK, HubOK, FlagsOK

-----------------------------------------------------------------------------
(* Rows *)

\* A drain of its own starts in process p.
LEMMA StartFits ==
  ASSUME TypeOK, Shape, NEW p \in Procs, Idle(p), pc' = [pc EXCEPT ![Own(p)] = "read"],
         UNCHANGED <<drain, seen, todo, firing, hubside>>,
         watching' = watching \/ watching' = [watching EXCEPT ![p] = TRUE]
  PROVE  Shape'
<1> USE DEF drain, hubside
<1>0. FlowsOK /\ ProcsOK /\ FlagsOK
  BY Parts
<1>1. /\ pc'[Own(p)] = "read" /\ \A f \in Flows : f # Own(p) => pc'[f] = pc[f]
      /\ \A q \in Procs : q # p => watching'[q] = watching[q]
      /\ todo[p] = {} /\ firing[p] = None
      /\ \A f \in Flows : f[1] = p /\ f # Own(p) => pc[f] = "idle"
  <2>1. pc'[Own(p)] = "read" /\ \A f \in Flows : f # Own(p) => pc'[f] = pc[f]
    BY <1>0, FlowFacts DEF FlowsOK
  <2>2. \A q \in Procs : q # p => watching'[q] = watching[q]
    BY <1>0 DEF FlagsOK
  <2>3. todo[p] = {} /\ firing[p] = None
    BY DEF Shape, ProcFits, Idle
  <2>4. \A f \in Flows : f[1] = p /\ f # Own(p) => pc[f] = "idle"
    BY DEF Shape, FlowFits
  <2> QED
    BY <2>1, <2>2, <2>3, <2>4
<1>2. ASSUME NEW f \in Flows PROVE FlowFits(f)'
  <2>1. FlowFits(f) /\ f[1] \in Procs
    BY FlowFacts DEF Shape
  <2>2. CASE f[1] = p
    BY <1>1, <2>1, <2>2 DEF FlowFits, Idle, Draining
  <2>3. CASE f[1] # p
    <3>1. Own(f[1]) # Own(p) /\ Own(f[1]) \in Flows /\ f # Own(p)
      BY <2>1, <2>3, FlowFacts
    <3> QED
      BY <1>1, <2>1, <2>3, <3>1 DEF FlowFits, Idle
  <2> QED
    BY <2>2, <2>3
<1>3. ASSUME NEW q \in Procs PROVE ProcFits(q)'
  <2>1. CASE q = p
    BY <1>1, <2>1 DEF ProcFits, Idle
  <2>2. CASE q # p
    <3>1. Own(q) # Own(p) /\ Own(q) \in Flows /\ ProcFits(q)
      BY <2>2, FlowFacts DEF Shape
    <3> QED
      BY <1>1, <2>2, <3>1 DEF ProcFits, Idle
  <2> QED
    BY <2>1, <2>2
<1>4. HubFits'
  BY DEF Shape, HubFits
<1> QED
  BY <1>2, <1>3, <1>4 DEF Shape

\* A drain goes on.
LEMMA DrainFits ==
  ASSUME TypeOK, Shape, NEW f \in Flows, pc[f] \in {"read", "post", "write"},
         \E to \in Draining : pc' = [pc EXCEPT ![f] = to],
         \A g \in Flows : g # f => rows'[g] = rows[g] /\ sent'[g] = sent[g],
         UNCHANGED <<watch, hubside>>
  PROVE  Shape'
<1> USE DEF watch, hubside
<1>0. FlowsOK
  BY Parts
<1>1. pc'[f] \in Draining /\ \A g \in Flows : g # f => pc'[g] = pc[g]
  BY <1>0 DEF FlowsOK
<1>2. \A p \in Procs : (Idle(p)' <=> Idle(p)) /\ Own(p) \in Flows
  BY <1>1, FlowFacts DEF Idle, Draining
<1>3. ASSUME NEW g \in Flows PROVE FlowFits(g)'
  <2>1. FlowFits(g) /\ FlowFits(f) /\ g[1] \in Procs
    BY FlowFacts DEF Shape
  <2>2. CASE g = f
    BY <1>1, <1>2, <2>1, <2>2 DEF FlowFits
  <2>3. CASE g # f
    BY <1>1, <1>2, <2>1, <2>3 DEF FlowFits
  <2> QED
    BY <2>2, <2>3
<1>4. ASSUME NEW p \in Procs PROVE ProcFits(p)'
  <2>1. ProcFits(p) /\ Own(p) \in Flows
    BY FlowFacts DEF Shape
  <2> QED
    BY <1>1, <1>2, <2>1 DEF ProcFits, Draining
<1>5. HubFits'
  BY DEF Shape, HubFits
<1> QED
  BY <1>3, <1>4, <1>5 DEF Shape

\* A drain is over.
LEMMA ReturnFits ==
  ASSUME TypeOK, Shape, NEW f \in Flows, Return(f), pc[f] \in {"read", "rename"}, UNCHANGED <<watch, hubside>>
  PROVE  Shape'
<1> USE DEF watch, hubside
<1> DEFINE p == f[1]
<1>0. /\ p \in Procs /\ FlowFits(f) /\ ProcFits(p)
      /\ \A q \in Procs : Own(q) \in Flows /\ Own(q)[1] = q
  BY FlowFacts DEF Shape
<1>1. /\ pc'[f] \in {"idle", "list", "fire"} /\ rows'[f] = <<>> /\ sent'[f] = 0
      /\ \A g \in Flows : Same(g) \/ g = f \/ (f = Own(p) /\ g[1] = p /\ Over(g))
      /\ \/ f # Own(p) /\ pc'[f] = "idle"
         \/ f = Own(p) /\ watching[p] = TRUE /\ pc'[f] = "list"
         \/ f = Own(p) /\ watching[p] = FALSE /\ todo[p] # {} /\ pc'[f] = "fire"
         \/ f = Own(p) /\ watching[p] = FALSE /\ todo[p] = {} /\ \A g \in Flows : g[1] = p => Over(g)
  BY Parts, ReturnGoes
<1>2. \A q \in Procs : q # p => pc'[Own(q)] = pc[Own(q)]
  BY <1>0, <1>1 DEF Same
<1>3. Idle(p)' => Idle(p) \/ \A g \in Flows : g[1] = p => Over(g)
  <2>1. CASE f # Own(p)
    BY <1>0, <1>1, <2>1 DEF Idle, Same
  <2>2. CASE f = Own(p)
    BY <1>1, <2>2 DEF Idle
  <2> QED
    BY <2>1, <2>2
<1> HIDE DEF p
<1>4. ASSUME NEW g \in Flows PROVE FlowFits(g)'
  <2>1. FlowFits(g) /\ g[1] \in Procs
    BY FlowFacts DEF Shape
  <2>2. CASE Over(g)
    BY <2>2 DEF Over, FlowFits
  <2>3. CASE g = f /\ ~Over(g)
    BY <1>1, <2>3 DEF Over, FlowFits, Draining, p
  <2>4. CASE Same(g) /\ ~Over(g)
    <3>1. Idle(g[1])' => Idle(g[1])
      BY <1>2, <1>3, <2>1, <2>4 DEF Idle
    <3> QED
      BY <2>1, <2>4, <3>1 DEF Same, FlowFits
  <2> QED
    BY <1>1, <2>2, <2>3, <2>4
<1>5. ASSUME NEW q \in Procs PROVE ProcFits(q)'
  <2>1. ProcFits(q)
    BY DEF Shape
  <2>2. CASE q # p
    BY <1>2, <2>1, <2>2 DEF ProcFits, Idle
  <2>3. CASE q = p /\ f # Own(p)
    <3>1. pc'[Own(p)] = pc[Own(p)]
      BY <1>0, <1>1, <2>3 DEF Same
    <3> QED
      BY <2>1, <2>3, <3>1 DEF ProcFits, Idle
  <2>4. CASE q = p /\ f = Own(p)
    <3>1. firing[p] = None /\ pc'[Own(p)] \in {"idle", "list", "fire"}
      BY <1>0, <1>1, <2>4 DEF ProcFits
    <3>2. Idle(p)' => watching[p] = FALSE /\ todo[p] = {}
      BY <1>1, <2>4 DEF Idle
    <3>3. pc'[Own(p)] \in {"list", "merge"} => watching[p] = TRUE
      BY <1>0, <1>1, <2>4 DEF Over
    <3> QED
      BY <2>1, <2>4, <3>1, <3>2, <3>3 DEF ProcFits
  <2> QED
    BY <2>2, <2>3, <2>4
<1>6. HubFits'
  BY DEF Shape, HubFits
<1> QED
  BY <1>4, <1>5, <1>6 DEF Shape

\* A watch lists, merges and marks.
LEMMA WatchFits ==
  ASSUME TypeOK, Shape, NEW p \in Procs, ListHub(p) \/ MergeOutbox(p) \/ Mark(p) PROVE Shape'
<1> USE DEF drain, hubside
<1> DEFINE S == {e \in Edges : Fires(e, seen[p] \cup Range(outbox))}
<1>0. FlowsOK /\ ProcsOK /\ FlagsOK /\ ProcFits(p)
  BY Parts DEF Shape
<1>1. /\ \E to \in {"read", "merge", "fire", "idle"} : pc' = [pc EXCEPT ![Own(p)] = to]
      /\ UNCHANGED <<drain, hubside>>
      /\ watching' = watching \/ watching' = [watching EXCEPT ![p] = FALSE]
      /\ todo' = todo \/ todo' = [todo EXCEPT ![p] = S]
      /\ firing' = firing \/ firing' = [firing EXCEPT ![p] = None]
  BY DEF ListHub, MergeOutbox, Mark
<1>2. \/ /\ pc'[Own(p)] = "merge" /\ UNCHANGED <<watching, todo, firing>> /\ pc[Own(p)] = "list"
      \/ /\ pc[Own(p)] = "merge" /\ watching'[p] = FALSE /\ firing' = firing
         /\ \/ pc'[Own(p)] = "fire"
            \/ pc'[Own(p)] = "idle" /\ todo'[p] = {}
      \/ /\ pc'[Own(p)] = "read" /\ UNCHANGED <<watching, todo>> /\ firing'[p] = None
  <2>1. CASE ListHub(p)
    BY <1>0, <2>1, FlowFacts DEF ListHub, FlowsOK
  <2>2. CASE MergeOutbox(p)
    <3>1. /\ pc[Own(p)] = "merge" /\ watching' = [watching EXCEPT ![p] = FALSE] /\ firing' = firing
          /\ todo' = [todo EXCEPT ![p] = S]
          /\ \/ pc' = [pc EXCEPT ![Own(p)] = "fire"]
             \/ pc' = [pc EXCEPT ![Own(p)] = "idle"] /\ S = {}
      BY <2>2 DEF MergeOutbox
    <3> HIDE DEF S
    <3>2. watching'[p] = FALSE /\ todo'[p] = S
      BY <1>0, <3>1 DEF FlagsOK, ProcsOK
    <3>3. pc'[Own(p)] = "fire" \/ (pc'[Own(p)] = "idle" /\ S = {})
      BY <1>0, <3>1, FlowFacts DEF FlowsOK
    <3> QED
      BY <3>1, <3>2, <3>3
  <2>3. CASE Mark(p)
    BY <1>0, <2>3, FlowFacts DEF Mark, FlowsOK, ProcsOK
  <2> QED
    BY <2>1, <2>2, <2>3
<1> HIDE DEF S
<1>3. /\ \A f \in Flows : f # Own(p) => pc'[f] = pc[f]
      /\ \A q \in Procs : q # p => /\ watching'[q] = watching[q] /\ todo'[q] = todo[q] /\ firing'[q] = firing[q]
                                   /\ Own(q) # Own(p) /\ pc'[Own(q)] = pc[Own(q)]
  <2>1. \A f \in Flows : f # Own(p) => pc'[f] = pc[f]
    BY <1>0, <1>1 DEF FlowsOK
  <2>2. \A q \in Procs : q # p => watching'[q] = watching[q]
    BY <1>0, <1>1 DEF FlagsOK
  <2>3. \A q \in Procs : q # p => todo'[q] = todo[q]
    BY <1>0, <1>1 DEF ProcsOK
  <2>4. \A q \in Procs : q # p => firing'[q] = firing[q]
    BY <1>0, <1>1 DEF ProcsOK
  <2>5. \A q \in Procs : q # p => Own(q) # Own(p) /\ Own(q) \in Flows
    BY FlowFacts
  <2> QED
    BY <2>1, <2>2, <2>3, <2>4, <2>5
<1>4. ASSUME NEW f \in Flows PROVE FlowFits(f)'
  <2>1. FlowFits(f) /\ f[1] \in Procs
    BY FlowFacts DEF Shape
  <2>2. CASE f = Own(p)
    <3>1. f = Own(f[1]) /\ pc[f] \notin Draining
      BY <1>2, <2>2, FlowFacts DEF Draining, ListHub, MergeOutbox, Mark
    <3>2. rows'[f] = <<>> /\ sent'[f] = 0
      BY <1>1, <2>1, <3>1 DEF FlowFits
    <3> QED
      BY <3>1, <3>2 DEF FlowFits
  <2>3. CASE f # Own(p) /\ f[1] = p
    <3>1. pc'[f] = pc[f]
      BY <1>3, <2>3
    <3>2. CASE pc[Own(p)] = "merge"
      BY <1>0, <1>1, <2>1, <2>3, <3>1, <3>2 DEF FlowFits, ProcFits
    <3>3. CASE pc[Own(p)] # "merge"
      BY <1>1, <1>2, <2>1, <2>3, <3>1, <3>3 DEF FlowFits, Idle
    <3> QED
      BY <3>2, <3>3
  <2>4. CASE f # Own(p) /\ f[1] # p
    BY <1>1, <1>3, <2>1, <2>4 DEF FlowFits, Idle
  <2> QED
    BY <2>2, <2>3, <2>4
<1>5. ASSUME NEW q \in Procs PROVE ProcFits(q)'
  <2>1. CASE q = p
    BY <1>0, <1>2, <2>1 DEF ProcFits, Idle
  <2>2. CASE q # p
    <3>1. ProcFits(q)
      BY DEF Shape
    <3> QED
      BY <1>3, <2>2, <3>1 DEF ProcFits, Idle
  <2> QED
    BY <2>1, <2>2
<1>6. HubFits'
  BY <1>1 DEF Shape, HubFits
<1> QED
  BY <1>4, <1>5, <1>6 DEF Shape

\* An alert starts a drain that was not running.
LEMMA FireFits == ASSUME TypeOK, Shape, NEW p \in Procs, Fire(p) PROVE Shape'
<1> USE DEF drain, hubside
<1>0. FlowsOK /\ ProcsOK /\ FlagsOK /\ ProcFits(p)
  BY Parts DEF Shape
<1>1. PICK e \in todo[p] :
        /\ firing' = [firing EXCEPT ![p] = e] /\ todo' = [todo EXCEPT ![p] = @ \ {e}]
        /\ \/ pc' = [pc EXCEPT ![Own(p)] = "mark"]
           \/ pc' = [pc EXCEPT ![Own(p)] = "mark", ![<<p, e>>] = "read"]
  BY DEF Fire
<1> DEFINE d == <<p, e>>
<1>2. e \in Edges /\ pc[Own(p)] = "fire" /\ UNCHANGED <<drain, watching, hubside>>
  BY <1>0, <1>1 DEF Fire, ProcsOK
<1>3. d \in Flows /\ d[1] = p /\ d[2] = e /\ d # Own(p) /\ Own(p) \in Flows
  BY <1>2, FlowFacts
<1>4. pc' = [pc EXCEPT ![Own(p)] = "mark"] \/ pc' = [pc EXCEPT ![Own(p)] = "mark", ![d] = "read"]
  BY <1>1
<1> HIDE DEF d
<1>5. /\ pc'[Own(p)] = "mark" /\ pc'[d] \in {pc[d], "read"}
      /\ \A f \in Flows : f # Own(p) /\ f # d => pc'[f] = pc[f]
      /\ todo'[p] = todo[p] \ {e} /\ \A q \in Procs : q # p => todo'[q] = todo[q] /\ firing'[q] = firing[q]
  BY <1>0, <1>1, <1>3, <1>4 DEF FlowsOK, ProcsOK
<1>6. watching[p] # TRUE
  BY <1>0, <1>1 DEF ProcFits
<1>7. pc[d] = "idle"
  BY <1>1, <1>3 DEF Shape, FlowFits
<1>8. \A q \in Procs : q # p => pc'[Own(q)] = pc[Own(q)]
  BY <1>3, <1>5, FlowFacts
<1>9. ASSUME NEW f \in Flows PROVE FlowFits(f)'
  <2>1. FlowFits(f) /\ f[1] \in Procs
    BY FlowFacts DEF Shape
  <2>2. pc'[f] \notin Draining => pc[f] \notin Draining
    BY <1>2, <1>5, <1>7 DEF Draining
  <2>3. CASE f[1] = p
    <3>1. ~Idle(p)' /\ watching'[p] # TRUE /\ (f = d => f[2] \notin todo'[p]) /\ todo'[p] \subseteq todo[p]
      BY <1>2, <1>3, <1>5, <1>6 DEF Idle
    <3>2. CASE f = d
      BY <1>2, <2>1, <2>2, <2>3, <3>1, <3>2 DEF FlowFits
    <3>3. CASE f = Own(p)
      BY <1>2, <2>1, <2>2, <2>3, <3>3 DEF FlowFits
    <3>4. CASE f # d /\ f # Own(p)
      BY <1>2, <1>5, <2>1, <2>3, <3>1, <3>4 DEF FlowFits
    <3> QED
      BY <3>2, <3>3, <3>4
  <2>4. CASE f[1] # p
    <3>1. f # Own(p) /\ f # d
      BY <1>3, <2>4, FlowFacts
    <3> QED
      BY <1>2, <1>5, <1>8, <2>1, <2>4, <3>1 DEF FlowFits, Idle
  <2> QED
    BY <2>3, <2>4
<1>10. ASSUME NEW q \in Procs PROVE ProcFits(q)'
  <2>1. CASE q = p
    BY <1>2, <1>5, <1>6, <2>1 DEF ProcFits, Idle
  <2>2. CASE q # p
    <3>1. ProcFits(q)
      BY DEF Shape
    <3> QED
      BY <1>2, <1>5, <1>8, <2>2, <3>1 DEF ProcFits, Idle
  <2> QED
    BY <2>1, <2>2
<1>11. HubFits'
  BY <1>2 DEF Shape, HubFits
<1> QED
  BY <1>9, <1>10, <1>11 DEF Shape

LEMMA CrashFits == ASSUME TypeOK, Shape, NEW p \in Procs, Crash(p) PROVE Shape'
<1> USE DEF hubside
<1>0. FlowsOK /\ ProcsOK /\ FlagsOK
  BY Parts
<1>1. /\ \A f \in Flows : IF f[1] = p THEN Over(f) ELSE Same(f)
      /\ \A q \in Procs : Own(q) \in Flows /\ Own(q)[1] = q
  BY <1>0, FlowFacts, StopGoes DEF Crash
<1>2. /\ watching' = [watching EXCEPT ![p] = FALSE] /\ todo' = [todo EXCEPT ![p] = {}]
      /\ firing' = [firing EXCEPT ![p] = None] /\ UNCHANGED hubside
  BY DEF Crash
<1>3. /\ watching'[p] = FALSE /\ todo'[p] = {} /\ firing'[p] = None
      /\ \A q \in Procs : q # p => watching'[q] = watching[q] /\ todo'[q] = todo[q] /\ firing'[q] = firing[q]
  BY <1>0, <1>2 DEF FlagsOK, ProcsOK
<1>4. ASSUME NEW f \in Flows PROVE FlowFits(f)'
  <2>1. FlowFits(f) /\ f[1] \in Procs
    BY FlowFacts DEF Shape
  <2>2. CASE f[1] = p
    BY <1>1, <2>2 DEF FlowFits, Over
  <2>3. CASE f[1] # p
    BY <1>1, <1>3, <2>1, <2>3 DEF FlowFits, Same, Idle
  <2> QED
    BY <2>2, <2>3
<1>5. ASSUME NEW q \in Procs PROVE ProcFits(q)'
  <2>1. ProcFits(q)
    BY DEF Shape
  <2>2. CASE q = p
    BY <1>1, <1>3, <2>2 DEF ProcFits, Idle, Over
  <2>3. CASE q # p
    BY <1>1, <1>3, <2>1, <2>3 DEF ProcFits, Idle, Same
  <2> QED
    BY <2>2, <2>3
<1>6. HubFits'
  BY <1>2 DEF Shape, HubFits
<1> QED
  BY <1>4, <1>5, <1>6 DEF Shape

\* What a flow and its process hold fits where they are.
LEMMA ShapeStep == ASSUME TypeOK, Shape, [Next]_vars PROVE Shape'
<1> USE DEF drain, watch, hubside
<1>0. FlowsOK
  BY Parts
<1>1. ASSUME NEW p \in Procs, (\E e \in Edges, s \in Steps : RecordEdge(p, e, s)) \/ Sync(p) \/ Watch(p) PROVE Shape'
  <2>1. Idle(p) /\ pc' = [pc EXCEPT ![Own(p)] = "read"] /\ UNCHANGED <<drain, seen, todo, firing, hubside>>
    BY <1>1 DEF RecordEdge, Sync, Watch
  <2>2. watching' = watching \/ watching' = [watching EXCEPT ![p] = TRUE]
    BY <1>1 DEF RecordEdge, Sync, Watch
  <2> QED
    BY <2>1, <2>2, StartFits
<1>2. ASSUME NEW f \in Flows, ReadOutbox(f) PROVE Shape'
  <2>1. CASE outbox = <<>>
    BY <1>2, <2>1, ReturnFits DEF ReadOutbox
  <2>2. CASE outbox # <<>>
    <3>1. /\ pc[f] = "read" /\ pc' = [pc EXCEPT ![f] = "post"] /\ sent' = sent
          /\ rows' = [rows EXCEPT ![f] = outbox] /\ UNCHANGED <<watch, hubside>>
      BY <1>2, <2>2 DEF ReadOutbox
    <3>2. \A g \in Flows : g # f => rows'[g] = rows[g] /\ sent'[g] = sent[g]
      BY <1>0, <3>1 DEF FlowsOK
    <3> QED
      BY <3>1, <3>2, DrainFits DEF Draining
  <2> QED
    BY <2>1, <2>2
<1>3. ASSUME NEW f \in Flows, PostBatch(f) PROVE Shape'
  <2>1. /\ pc[f] = "post" /\ (\E to \in {"post", "write"} : pc' = [pc EXCEPT ![f] = to])
        /\ rows' = rows /\ UNCHANGED <<watch, hubside>>
    BY <1>3 DEF PostBatch
  <2>2. \A g \in Flows : g # f => sent'[g] = sent[g]
    BY <1>0, <1>3 DEF PostBatch, FlowsOK
  <2> QED
    BY <2>1, <2>2, DrainFits DEF Draining
<1>4. ASSUME NEW f \in Flows, WriteTmp(f) PROVE Shape'
  BY <1>4, DrainFits DEF WriteTmp, Draining
<1>5. ASSUME NEW f \in Flows, RenameTmp(f) PROVE Shape'
  BY <1>5, ReturnFits DEF RenameTmp
<1>6. ASSUME HubSide PROVE Shape'
  <2>1. UNCHANGED <<pc, drain, watch, hubWatches>>
    BY <1>6 DEF HubSide, HubWatch, HubFire, HubMark
  <2>2. HubFits'
    BY <1>6, <2>1 DEF Shape, HubFits, HubSide, HubWatch, HubFire, HubMark
  <2> QED
    BY <2>1, <2>2 DEF Shape, FlowFits, ProcFits, Idle
<1>7. ASSUME (\E e \in Edges : BudgetRunsOut(e)) \/ UNCHANGED vars PROVE Shape'
  <2>1. UNCHANGED <<pc, drain, watch, hubside>>
    BY <1>7 DEF BudgetRunsOut, vars
  <2> QED
    BY <2>1 DEF Shape, FlowFits, ProcFits, HubFits, Idle
<1> QED
  BY <1>1, <1>2, <1>3, <1>4, <1>5, <1>6, <1>7, WatchFits, FireFits, CrashFits DEF Next, Drain, RunWatch

\* A row of the outbox stays one when another is appended.
LEMMA KeptWhenAppended ==
  ASSUME TypeOK, NEW r \in Rows, NEW x \in Rows, AppendRow(x), UNCHANGED <<tmp, hub, drain>>,
         \A f \in Flows : pc'[f] \in Draining => pc'[f] = pc[f],
         r \in recorded' \ exposed', \A y \in recorded \ exposed : y \in hub \/ Kept(y)
  PROVE  r \in hub' \/ Kept(r)'
<1>1. Range(outbox') = Range(outbox) \cup {x} /\ exposed \subseteq exposed'
  BY AppendHas DEF TypeOK, AppendRow
<1>2. CASE r \in recorded \ exposed
  <2>1. r \in hub \/ Kept(r)
    BY <1>2
  <2>2. Kept(r) => Kept(r)'
    BY <1>1 DEF Kept, Left, drain, Draining
  <2> QED
    BY <2>1, <2>2
<1>3. CASE r \notin recorded \ exposed
  <2>1. r = x /\ ~\E f \in Flows : pc[f] \in Draining
    BY <1>1, <1>3 DEF AppendRow
  <2>2. ~\E f \in Flows : pc'[f] \in Draining
    BY <2>1
  <2> QED
    BY <1>1, <2>1, <2>2 DEF Kept, Draining
<1> QED
  BY <1>2, <1>3

\* Every row that was not appended into a drain is on the Hub or kept.
LEMMA SlipStep == ASSUME TypeOK, Shape, NothingSlips, [Next]_vars PROVE NothingSlips'
<1> USE DEF files, drain, logged
<1>0. FlowsOK /\ FlagsOK /\ ProcsOK /\ FilesOK /\ None \notin Seq(Rows)
      /\ (\A x \in recorded \ exposed : x \in hub \/ Kept(x)) /\ \A p \in Procs : Own(p) \in Flows
  BY Parts, FlowFacts, GraphOutboxAssumption DEF NothingSlips
<1> SUFFICES ASSUME NEW r \in recorded' \ exposed' PROVE r \in hub' \/ Kept(r)'
  BY DEF NothingSlips
<1> DEFINE Goal == r \in hub' \/ Kept(r)'
<1>01. r \in Rows
  BY FilesStep DEF FilesOK
<1>1. ASSUME UNCHANGED <<outbox, tmp, rows, sent, logged>>, hub \subseteq hub',
             \A f \in Flows : pc'[f] \in Draining => pc'[f] = pc[f]
      PROVE  Goal
  <2>1. r \in hub \/ Kept(r)
    BY <1>0, <1>1
  <2>2. Kept(r) => Kept(r)'
    BY <1>1 DEF Kept, Left, Draining
  <2> QED
    BY <1>1, <2>1, <2>2
<1>2. ASSUME NEW p \in Procs, NEW e \in Edges, NEW s \in Steps, RecordEdge(p, e, s) PROVE Goal
  <2>1. \A f \in Flows : pc'[f] \in Draining => pc'[f] = pc[f]
    BY <1>0, <1>2 DEF RecordEdge, FlowsOK, Draining
  <2> QED
    BY <1>0, <1>01, <1>2, <2>1, EdgeRow, KeptWhenAppended DEF RecordEdge
<1>3. ASSUME NEW p \in Procs, Mark(p) PROVE Goal
  <2>1. \A f \in Flows : pc'[f] \in Draining => pc'[f] = pc[f]
    BY <1>0, <1>3 DEF Mark, FlowsOK, Draining
  <2>2. firing[p] \in Edges /\ "alert" \in Steps
    BY <1>0, <1>3 DEF Mark, ProcsOK, Steps
  <2> QED
    BY <1>0, <1>01, <1>3, <2>1, <2>2, EdgeRow, KeptWhenAppended DEF Mark
<1>4. ASSUME NEW f \in Flows, Return(f), UNCHANGED <<hub, logged>>,
             \/ UNCHANGED files
             \/ pc[f] = "rename" /\ tmp # None /\ outbox' = tmp /\ tmp' = None
      PROVE  Goal
  <2>1. CASE r \in hub
    BY <1>4, <2>1
  <2>2. CASE Kept(r)
    <3>1. \A g \in Flows : pc'[g] \in Draining => Same(g)
      BY <1>0, <1>4, ReturnGoes DEF Over, Draining
    <3>2. \A g \in Flows : pc'[g] \in Draining => r \in Left(g)'
      BY <2>2, <3>1 DEF Kept, Left, Same
    <3>3. (\E g \in Flows : pc'[g] = "rename") => \E g \in Flows : pc[g] = "rename"
      BY <3>1 DEF Draining, Same
    <3> QED
      BY <1>4, <2>2, <3>2, <3>3 DEF Kept
  <2> QED
    BY <1>0, <1>4, <2>1, <2>2
<1>5. ASSUME NEW f \in Flows, ReadOutbox(f) PROVE Goal
  <2>1. CASE outbox = <<>>
    BY <1>4, <1>5, <2>1 DEF ReadOutbox
  <2>2. CASE outbox # <<>>
    <3>1. /\ rows' = [rows EXCEPT ![f] = outbox] /\ pc' = [pc EXCEPT ![f] = "post"] /\ sent' = sent
          /\ UNCHANGED <<outbox, tmp, hub, logged>> /\ pc[f] = "read"
      BY <1>5, <2>2 DEF ReadOutbox
    <3>2. sent[f] = 0
      BY <3>1 DEF Shape, FlowFits, Draining
    <3>3. CASE r \in hub
      BY <3>1, <3>3
    <3>4. CASE Kept(r)
      <4>1. PICK i \in DOMAIN outbox : outbox[i] = r
        BY <3>4 DEF Kept, Range
      <4>2. DOMAIN outbox = 1..Len(outbox) /\ rows'[f] = outbox /\ sent'[f] = 0
        BY <1>0, <3>1, <3>2 DEF FilesOK, FlowsOK
      <4>3. r \in Left(f)'
        BY <4>1, <4>2 DEF Left
      <4>4. ASSUME NEW g \in Flows, pc'[g] \in Draining PROVE r \in Left(g)'
        <5>1. CASE g = f
          BY <4>3, <5>1
        <5>2. CASE g # f
          BY <1>0, <3>1, <3>4, <4>4, <5>2 DEF Kept, Left, FlowsOK
        <5> QED
          BY <5>1, <5>2
      <4>5. (\E g \in Flows : pc'[g] = "rename") => \E g \in Flows : pc[g] = "rename"
        BY <1>0, <3>1 DEF FlowsOK
      <4> QED
        BY <3>1, <3>4, <4>4, <4>5 DEF Kept
    <3> QED
      BY <1>0, <3>1, <3>3, <3>4
  <2> QED
    BY <2>1, <2>2
<1>6. ASSUME NEW f \in Flows, PostBatch(f) PROVE Goal
  <2>1. PICK n \in Nat : n = BatchEnd(f) /\ n <= Len(rows[f]) /\ sent[f] <= n
    BY BatchEnds
  <2>2. Range(SubSeq(rows[f], sent[f] + 1, n)) = {rows[f][i] : i \in sent[f] + 1 .. n}
    BY <2>1, BatchEnds, PartHas
  <2>3. /\ pc[f] = "post" /\ \E to \in {"post", "write"} : pc' = [pc EXCEPT ![f] = to]
        /\ UNCHANGED <<outbox, tmp, rows, logged>>
        /\ hub \subseteq hub'
        /\ sent' = sent \/ (sent' = [sent EXCEPT ![f] = n]
                             /\ hub' = hub \cup Range(SubSeq(rows[f], sent[f] + 1, n)))
    BY <1>6, <2>1 DEF PostBatch
  <2>4. CASE r \in hub
    BY <2>3, <2>4
  <2>5. CASE Kept(r) /\ r \notin hub'
    <3>1. ASSUME NEW g \in Flows, pc'[g] \in Draining PROVE r \in Left(g)'
      <4>1. r \in Left(g) /\ pc[g] \in Draining
        BY <1>0, <2>3, <2>5, <3>1 DEF Kept, FlowsOK, Draining
      <4>2. CASE g # f \/ sent' = sent
        BY <1>0, <2>3, <4>1, <4>2 DEF Left, FlowsOK
      <4>3. CASE g = f /\ sent' # sent
        <5>1. PICK i \in sent[f] + 1 .. Len(rows[f]) : rows[f][i] = r
          BY <4>1, <4>3 DEF Left
        <5>2. i \notin sent[f] + 1 .. n
          BY <2>2, <2>3, <2>5, <4>3, <5>1
        <5>3. sent'[f] = n /\ i \in n + 1 .. Len(rows[f])
          BY <1>0, <2>1, <2>3, <4>3, <5>1, <5>2, BatchEnds DEF FlowsOK
        <5> QED
          BY <2>3, <4>3, <5>1, <5>3 DEF Left
      <4> QED
        BY <4>2, <4>3
    <3>2. (\E g \in Flows : pc'[g] = "rename") => \E g \in Flows : pc[g] = "rename"
      BY <1>0, <2>3 DEF FlowsOK
    <3> QED
      BY <2>3, <2>5, <3>1, <3>2 DEF Kept
  <2> QED
    BY <1>0, <2>3, <2>4, <2>5
<1>7. ASSUME NEW f \in Flows, WriteTmp(f) PROVE Goal
  <2>1. /\ pc[f] = "write" /\ pc' = [pc EXCEPT ![f] = "rename"]
        /\ tmp' = SubSeq(rows[f], sent[f] + 1, Len(rows[f]))
        /\ UNCHANGED <<outbox, hub, rows, sent, logged>>
    BY <1>7 DEF WriteTmp
  <2>2. Range(tmp') = Left(f)
    <3>1. /\ sent[f] \in Nat /\ rows[f] \in Seq(Rows) /\ Len(rows[f]) \in Nat
          /\ sent[f] <= Len(rows[f]) /\ Len(rows[f]) <= Len(rows[f])
      BY BatchEnds
    <3>2. Range(SubSeq(rows[f], sent[f] + 1, Len(rows[f]))) = {rows[f][i] : i \in sent[f] + 1 .. Len(rows[f])}
      BY <3>1, PartHas
    <3> QED
      BY <2>1, <3>2 DEF Left
  <2>3. CASE r \in hub
    BY <2>1, <2>3
  <2>4. CASE Kept(r)
    <3>1. \A g \in Flows : pc'[g] \in Draining => pc[g] \in Draining /\ Left(g)' = Left(g)
      BY <1>0, <2>1 DEF FlowsOK, Draining, Left
    <3>2. r \in Left(f)
      BY <2>1, <2>4 DEF Kept, Draining
    <3> QED
      BY <2>1, <2>2, <2>4, <3>1, <3>2 DEF Kept
  <2> QED
    BY <1>0, <2>1, <2>3, <2>4
<1>8. ASSUME NEW f \in Flows, RenameTmp(f) PROVE Goal
  BY <1>4, <1>8 DEF RenameTmp
<1>9. ASSUME NEW p \in Procs, Crash(p) PROVE Goal
  <2>1. UNCHANGED <<outbox, tmp, hub, logged>> /\ \A f \in Flows : Over(f) \/ Same(f)
    BY <1>0, <1>9, FlowFacts, StopGoes DEF Crash
  <2>2. Kept(r) => Kept(r)'
    BY <2>1 DEF Kept, Left, Draining, Over, Same
  <2> QED
    BY <1>0, <2>1, <2>2
<1>10. ASSUME NEW p \in Procs, Sync(p) \/ Watch(p) \/ ListHub(p) \/ MergeOutbox(p) PROVE Goal
  <2>1. UNCHANGED <<outbox, tmp, hub, rows, sent, logged>>
    BY <1>10 DEF Sync, Watch, ListHub, MergeOutbox
  <2>2. \E to \in {"read", "merge", "fire", "idle"} : pc' = [pc EXCEPT ![Own(p)] = to]
    BY <1>10 DEF Sync, Watch, ListHub, MergeOutbox
  <2>3. \A f \in Flows : pc'[f] \in Draining => pc'[f] = pc[f]
    BY <1>0, <2>2 DEF FlowsOK, Draining
  <2> QED
    BY <1>1, <2>1, <2>3
<1>11. ASSUME NEW p \in Procs, Fire(p) PROVE Goal
  <2>1. PICK e \in todo[p] :
          \/ AppendRow(Row(e, "told")) /\ pc' = [pc EXCEPT ![Own(p)] = "mark", ![<<p, e>>] = "read"]
          \/ UNCHANGED <<outbox, logged>> /\ pc' = [pc EXCEPT ![Own(p)] = "mark"]
    BY <1>11 DEF Fire
  <2>2. e \in Edges /\ "told" \in Steps /\ UNCHANGED <<tmp, hub, drain>>
    BY <1>0, <1>11, <2>1 DEF Fire, ProcsOK, Steps
  <2>3. \A f \in Flows : pc'[f] \in Draining => pc'[f] = pc[f]
    BY <1>0, <2>1 DEF FlowsOK, Draining
  <2>4. CASE AppendRow(Row(e, "told"))
    BY <1>0, <1>01, <2>2, <2>3, <2>4, EdgeRow, KeptWhenAppended
  <2>5. CASE UNCHANGED <<outbox, logged>>
    BY <1>1, <2>2, <2>3, <2>5
  <2> QED
    BY <2>1, <2>4, <2>5
<1>12. ASSUME HubSide \/ (\E e \in Edges : BudgetRunsOut(e)) \/ UNCHANGED vars PROVE Goal
  <2>1. UNCHANGED <<outbox, tmp, pc, rows, sent, logged>> /\ hub \subseteq hub'
    BY <1>12 DEF HubSide, HubWatch, HubFire, HubMark, BudgetRunsOut, vars
  <2> QED
    BY <1>1, <2>1
<1> HIDE DEF Goal
<1>13. Goal
  BY <1>2, <1>3, <1>5, <1>6, <1>7, <1>8, <1>9, <1>10, <1>11, <1>12 DEF Next, Drain, RunWatch
<1> QED
  BY <1>13 DEF Goal

-----------------------------------------------------------------------------
(* Alerts *)

\* Watches that have the desk for themselves have had it all along.
LEMMA AloneBefore == ASSUME TypeOK, [Next]_vars, Alone' PROVE Alone
<1>1. hubWatches' = hubWatches
  BY Zenon DEF Next, Drain, RunWatch, HubSide, RecordEdge, Sync, Watch, ReadOutbox, PostBatch, WriteTmp,
     RenameTmp, ListHub, MergeOutbox, Fire, Mark, Crash, HubWatch, HubFire, HubMark, BudgetRunsOut, hubside, vars
<1>2. overlap' = overlap \/ NoteOverlap
  BY Zenon DEF Next, Drain, RunWatch, HubSide, RecordEdge, Sync, Watch, ReadOutbox, PostBatch, WriteTmp,
     RenameTmp, ListHub, MergeOutbox, Fire, Mark, Crash, HubWatch, HubFire, HubMark, BudgetRunsOut, vars
<1>3. faults' = faults \/ Fault
  BY Zenon DEF Next, Drain, RunWatch, HubSide, RecordEdge, Sync, Watch, ReadOutbox, PostBatch, WriteTmp,
     RenameTmp, ListHub, MergeOutbox, Fire, Mark, Crash, HubWatch, HubFire, HubMark, BudgetRunsOut, vars
<1>4. ~overlap
  BY <1>2, Zenon DEF Alone, NoteOverlap
<1>5. faults = 0
  <2>1. faults \in Nat /\ faults' = 0
    BY GraphOutboxAssumption DEF TypeOK, Alone
  <2> QED
    BY <1>3, <2>1 DEF Fault
<1> QED
  BY <1>1, <1>4, <1>5, Zenon DEF Alone

\* Then no other process is at work while one of them watches, ...
LEMMA OneWatch ==
  ASSUME TypeOK, Shape, NoteOverlap, ~hubWatches, ~overlap', NEW p \in Procs, ~Idle(p), OnWatch(p)
  PROVE  /\ \A q \in Procs : q # p => Idle(q) /\ todo[q] = {} /\ firing[q] = None
         /\ \A f \in Flows : f[1] # p => pc[f] = "idle"
<1>1. ASSUME NEW q \in Procs, q # p PROVE Idle(q)
  BY <1>1, Zenon DEF NoteOverlap
<1>2. ASSUME NEW q \in Procs, q # p PROVE todo[q] = {} /\ firing[q] = None
  BY <1>1, <1>2 DEF Shape, ProcFits, Idle
<1>3. ASSUME NEW f \in Flows, f[1] # p PROVE pc[f] = "idle"
  <2>1. f[1] \in Procs /\ FlowFits(f) /\ Idle(f[1])
    BY <1>1, <1>3, FlowFacts DEF Shape
  <2> QED
    BY <2>1 DEF FlowFits, Idle
<1> QED
  BY <1>1, <1>2, <1>3

\* ... and the Hub does not watch either.
LEMMA HubIsQuiet == ASSUME Shape, Alone, HubSide PROVE FALSE
  BY DEF Shape, HubFits, Alone, HubSide, HubWatch, HubFire, HubMark

\* A step that alerts nobody and marks nothing, and with which no watch begins to merge.
LEMMA QuietKeepsFires ==
  ASSUME FiresOnce, UNCHANGED <<todo, firing, alerts>>,
         \A e \in Edges : Marked(e)' <=> Marked(e),
         \A q \in Procs : pc'[Own(q)] = "merge" => pc[Own(q)] = "merge" /\ seen'[q] = seen[q]
  PROVE  FiresOnce'
<1>1. \A e \in Edges : Row(e, "alert")' = Row(e, "alert")
  BY DEF Row
<1> QED
  BY <1>1 DEF FiresOnce

\* A row that is no mark changes nothing of the marks.
LEMMA RecordKeepsMarks ==
  ASSUME NEW x \in Edges, NEW s, s # "alert", AppendRow(Row(x, s))
  PROVE  \A e \in Edges : Marked(e)' <=> Marked(e)
<1>1. \A e \in Edges : Row(x, s) # Row(e, "alert") /\ Row(e, "alert")' = Row(e, "alert")
  BY DEF Row
<1>2. recorded' = recorded \cup {Row(x, s)}
  BY DEF AppendRow
<1> QED
  BY <1>1, <1>2 DEF Marked

\* A merge fires no edge that was alerted.
LEMMA MergeFires ==
  ASSUME TypeOK, Shape, FiresOnce, NEW p \in Procs, MergeOutbox(p), ~hubWatches, ~overlap'
  PROVE  FiresOnce'
<1> DEFINE S == {e \in Edges : Fires(e, seen[p] \cup Range(outbox))}
<1>0. FlowsOK /\ ProcsOK /\ (\A q \in Procs : Own(q) \in Flows /\ (Own(q) = Own(p) => q = p))
  BY Parts, FlowFacts
<1>1. /\ pc[Own(p)] = "merge" /\ todo' = [todo EXCEPT ![p] = S]
      /\ UNCHANGED <<firing, recorded, alerts>> /\ NoteOverlap
      /\ \E to \in {"fire", "idle"} : pc' = [pc EXCEPT ![Own(p)] = to]
  BY DEF MergeOutbox, logged, alerted
<1> HIDE DEF S
<1>2. /\ pc'[Own(p)] # "merge" /\ \A q \in Procs : q # p => pc'[Own(q)] = pc[Own(q)]
  BY <1>0, <1>1 DEF FlowsOK
<1>3. OnWatch(p) /\ ~Idle(p) /\ firing[p] = None
  BY <1>1 DEF Shape, ProcFits, OnWatch, Idle
<1>4. \A q \in Procs : q # p => Idle(q) /\ todo[q] = {} /\ firing[q] = None
  BY <1>1, <1>3, OneWatch
<1>5. ASSUME NEW e \in S PROVE alerts[e] = 0
  <2>1. e \in Edges /\ Row(e, "alert") \notin seen[p] \cup Range(outbox)
    BY DEF Fires, S
  <2>2. ~Marked(e)
    BY <1>1, <2>1 DEF FiresOnce
  <2>3. ~\E q \in Procs : firing[q] = e
    BY <1>3, <1>4, <2>1, GraphOutboxAssumption
  <2>4. alerts[e] # 1 /\ alerts[e] <= 1 /\ alerts[e] \in Nat
    BY <2>1, <2>2, <2>3, GraphOutboxAssumption DEF FiresOnce, TypeOK
  <2> QED
    BY <2>4
<1>6. \A q \in Procs : todo'[q] = IF q = p THEN S ELSE {}
  BY <1>0, <1>1, <1>4 DEF ProcsOK
<1>7. \A q \in Procs : pc'[Own(q)] # "merge"
  BY <1>2, <1>4 DEF Idle
<1>8. \A e \in Edges : Marked(e)' <=> Marked(e)
  BY <1>1 DEF Row, Marked
<1>9. \A q \in Procs : \A e \in todo'[q] : alerts'[e] = 0
  BY <1>1, <1>5, <1>6
<1>10. /\ \A e \in Edges : alerts'[e] <= 1
       /\ \A e \in Edges : alerts'[e] = 1 => Marked(e)' \/ \E q \in Procs : firing'[q] = e
  BY <1>1, <1>8 DEF FiresOnce
<1> QED
  BY <1>7, <1>9, <1>10 DEF FiresOnce

\* What fires was not alerted, and nothing else holds it.
LEMMA FireFires ==
  ASSUME TypeOK, Shape, FiresOnce, NEW p \in Procs, Fire(p), ~hubWatches, ~overlap'
  PROVE  FiresOnce'
<1>0. /\ FlowsOK /\ ProcsOK /\ HubOK /\ MaxAlerts \in Nat \ {0} /\ None \notin Edges
      /\ \A q \in Procs : Own(q) \in Flows /\ (Own(q) = Own(p) => q = p)
  BY Parts, FlowFacts, GraphOutboxAssumption
<1>1. PICK e \in todo[p] :
        /\ Alert(e) \/ AlertFails(e)
        /\ AppendRow(Row(e, "told")) \/ UNCHANGED <<outbox, logged>>
        /\ firing' = [firing EXCEPT ![p] = e] /\ todo' = [todo EXCEPT ![p] = @ \ {e}]
        /\ \/ pc' = [pc EXCEPT ![Own(p)] = "mark"]
           \/ pc' = [pc EXCEPT ![Own(p)] = "mark", ![<<p, e>>] = "read"]
  BY DEF Fire
<1>2. pc[Own(p)] = "fire" /\ UNCHANGED seen /\ NoteOverlap
  BY DEF Fire
<1>3. e \in Edges /\ alerts[e] = 0
  BY <1>0, <1>1 DEF ProcsOK, FiresOnce
<1>4. alerts' = alerts \/ alerts' = [alerts EXCEPT ![e] = 1]
  <2>1. CASE AlertFails(e)
    BY <2>1 DEF AlertFails
  <2>2. CASE Alert(e)
    <3>1. alerts' = [alerts EXCEPT ![e] = IF alerts[e] < MaxAlerts THEN alerts[e] + 1 ELSE alerts[e]]
      BY <2>2 DEF Alert
    <3>2. alerts[e] < MaxAlerts /\ alerts[e] + 1 = 1
      BY <1>0, <1>3
    <3> QED
      BY <3>1, <3>2
  <2> QED
    BY <1>1, <2>1, <2>2
<1>5. OnWatch(p) /\ ~Idle(p) /\ firing[p] = None
  BY <1>1, <1>2 DEF OnWatch, Idle, Shape, ProcFits
<1>6. \A q \in Procs : q # p => Idle(q) /\ todo[q] = {} /\ firing[q] = None
  BY <1>2, <1>5, OneWatch
<1>7. \A q \in Procs : /\ firing'[q] = IF q = p THEN e ELSE None
                       /\ todo'[q] = IF q = p THEN todo[p] \ {e} ELSE {}
  BY <1>0, <1>1, <1>6 DEF ProcsOK
<1>8. \A q \in Procs : pc'[Own(q)] # "merge"
  <2>1. <<p, e>> \in Flows /\ <<p, e>>[2] = e
    BY <1>3, FlowFacts
  <2>2. pc'[Own(p)] \in {"mark", "read"}
    BY <1>0, <1>1 DEF FlowsOK
  <2>3. \A q \in Procs : q # p => pc'[Own(q)] \in {pc[Own(q)], "read"}
    BY <1>0, <1>1 DEF FlowsOK
  <2> QED
    BY <1>6, <2>2, <2>3 DEF Idle
<1>9. \A x \in Edges : Marked(x)' <=> Marked(x)
  <2>1. CASE AppendRow(Row(e, "told"))
    BY <1>3, <2>1, RecordKeepsMarks
  <2>2. CASE UNCHANGED <<outbox, logged>>
    BY <2>2 DEF logged, Row, Marked
  <2> QED
    BY <1>1, <2>1, <2>2
<1>10. \A x \in Edges : alerts'[x] = alerts[x] \/ (x = e /\ alerts'[x] = 1)
  BY <1>0, <1>3, <1>4 DEF HubOK
<1>11. \A x \in Edges : alerts[x] = 1 => Marked(x)
  BY <1>0, <1>5, <1>6 DEF FiresOnce
<1>12. \A x \in Edges : alerts'[x] <= 1 /\ (alerts'[x] = 1 => Marked(x)' \/ \E q \in Procs : firing'[q] = x)
  BY <1>7, <1>9, <1>10, <1>11 DEF FiresOnce
<1>13. \A q \in Procs : \A x \in todo'[q] : alerts'[x] = 0
  <2>1. ASSUME NEW q \in Procs, NEW x \in todo'[q] PROVE q = p /\ x \in todo[p] /\ x # e /\ x \in Edges
    BY <1>0, <1>7 DEF ProcsOK
  <2>2. ASSUME NEW q \in Procs, NEW x \in todo'[q] PROVE alerts'[x] = 0
    BY <1>10, <2>1 DEF FiresOnce
  <2> QED
    BY <2>2
<1> QED
  BY <1>8, <1>12, <1>13 DEF FiresOnce

\* What a watch marks is what it has fired.
LEMMA MarkGoes ==
  ASSUME TypeOK, Shape, NEW p \in Procs, Mark(p), ~hubWatches, ~overlap'
  PROVE  /\ firing[p] \in Edges /\ pc[Own(p)] = "mark" /\ pc'[Own(p)] = "read"
         /\ (\A f \in Flows : f # Own(p) => pc'[f] = pc[f])
         /\ (\A f \in Flows : f[1] # p => pc[f] = "idle")
         /\ Range(outbox') = Range(outbox) \cup {Row(firing[p], "alert")}
         /\ recorded' = recorded \cup {Row(firing[p], "alert")}
         /\ (\A e \in Edges : Marked(e)' <=> Marked(e) \/ e = firing[p])
<1>0. FlowsOK /\ ProcsOK /\ None \notin Edges /\ Own(p) \in Flows
  BY Parts, FlowFacts, GraphOutboxAssumption
<1>1. PICK x \in Edges : x = firing[p] /\ x # None
  BY <1>0 DEF Mark, ProcsOK
<1>2. /\ pc[Own(p)] = "mark" /\ pc' = [pc EXCEPT ![Own(p)] = "read"] /\ NoteOverlap
      /\ AppendRow(Row(x, "alert"))
  BY <1>1 DEF Mark
<1>3. OnWatch(p) /\ ~Idle(p)
  BY <1>1, <1>2 DEF OnWatch, Idle
<1>4. \A f \in Flows : f[1] # p => pc[f] = "idle"
  BY <1>2, <1>3, OneWatch
<1>5. recorded' = recorded \cup {Row(x, "alert")} /\ Range(outbox') = Range(outbox) \cup {Row(x, "alert")}
  <2>1. "alert" \in Steps /\ outbox \in Seq(Rows)
    BY DEF Steps, TypeOK
  <2> QED
    BY <1>2, <2>1, EdgeRow, AppendHas DEF AppendRow
<1>6. \A e \in Edges : Marked(e)' <=> Marked(e) \/ e = x
  <2>1. \A e \in Edges : Row(e, "alert")' = Row(e, "alert") /\ (Row(e, "alert") = Row(x, "alert") <=> e = x)
    BY DEF Row
  <2> QED
    BY <1>5, <2>1 DEF Marked
<1> QED
  BY <1>0, <1>1, <1>2, <1>4, <1>5, <1>6 DEF FlowsOK

LEMMA MarkFires ==
  ASSUME TypeOK, Shape, FiresOnce, NEW p \in Procs, Mark(p), ~hubWatches, ~overlap'
  PROVE  FiresOnce'
<1>0. ProcsOK /\ \A q \in Procs : Own(q) \in Flows /\ Own(q)[1] = q
  BY Parts, FlowFacts
<1>1. UNCHANGED <<todo, alerts>> /\ firing' = [firing EXCEPT ![p] = None]
  BY DEF Mark, alerted
<1>2. /\ firing[p] \in Edges /\ pc'[Own(p)] = "read"
      /\ (\A f \in Flows : f # Own(p) => pc'[f] = pc[f])
      /\ (\A f \in Flows : f[1] # p => pc[f] = "idle")
      /\ (\A e \in Edges : Marked(e)' <=> Marked(e) \/ e = firing[p])
  BY MarkGoes
<1>3. \A q \in Procs : pc'[Own(q)] # "merge"
  BY <1>0, <1>2
<1>4. \A q \in Procs : q # p => firing'[q] = firing[q]
  BY <1>0, <1>1 DEF ProcsOK
<1>5. \A e \in Edges : alerts'[e] = 1 => Marked(e)' \/ \E q \in Procs : firing'[q] = e
  <2>1. ASSUME NEW e \in Edges, alerts[e] = 1, ~Marked(e), e # firing[p] PROVE \E q \in Procs : firing'[q] = e
    BY <1>4, <2>1 DEF FiresOnce
  <2> QED
    BY <1>1, <1>2, <2>1
<1>6. (\A e \in Edges : alerts'[e] <= 1) /\ \A q \in Procs : \A e \in todo'[q] : alerts'[e] = 0
  BY <1>1 DEF FiresOnce
<1> QED
  BY <1>3, <1>5, <1>6 DEF FiresOnce

\* What the watch gets from the Hub has every mark.
LEMMA ListFires ==
  ASSUME TypeOK, Shape, FiresOnce, MarksArrive, NEW p \in Procs, ListHub(p),
         ~hubWatches, ~overlap', faults' = 0
  PROVE  FiresOnce'
<1>0. FlowsOK /\ ProcsOK /\ faults \in Nat /\ \A q \in Procs : Own(q) \in Flows /\ Own(q)[1] = q
  BY Parts, FlowFacts, GraphOutboxAssumption DEF TypeOK
<1>1. /\ pc[Own(p)] = "list" /\ seen' = [seen EXCEPT ![p] = hub] /\ pc' = [pc EXCEPT ![Own(p)] = "merge"]
      /\ UNCHANGED <<recorded, todo, firing, alerts>> /\ NoteOverlap
  BY <1>0 DEF ListHub, Fault, logged, alerted
<1>2. OnWatch(p) /\ ~Idle(p)
  BY <1>1 DEF OnWatch, Shape, ProcFits, Idle
<1>3. \A q \in Procs : q # p => pc[Own(q)] = "idle" /\ pc'[Own(q)] = "idle"
  <2>1. \A q \in Procs : q # p => pc[Own(q)] = "idle"
    BY <1>1, <1>2, OneWatch DEF Idle
  <2> QED
    BY <1>0, <1>1, <2>1 DEF FlowsOK
<1>4. \A e \in Edges : Row(e, "alert")' = Row(e, "alert") /\ (Marked(e)' <=> Marked(e))
  BY <1>1 DEF Row, Marked
<1>5. \A e \in Edges : Marked(e) => Row(e, "alert") \in hub
  BY <1>1, <1>3 DEF MarksArrive, Carries, Draining
<1>6. seen'[p] = hub
  BY <1>0, <1>1 DEF ProcsOK
<1>7. \A q \in Procs : pc'[Own(q)] = "merge" => \A e \in Edges : Marked(e)' => Row(e, "alert") \in seen'[q]
  BY <1>3, <1>4, <1>5, <1>6
<1> QED
  BY <1>1, <1>4, <1>7 DEF FiresOnce

LEMMA FiresStep ==
  ASSUME TypeOK, Shape, Alone => FiresOnce /\ MarksArrive, [Next]_vars, Alone' PROVE FiresOnce'
<1> USE DEF watch, logged, alerted
<1>0. /\ Alone /\ FiresOnce /\ MarksArrive /\ ~hubWatches /\ ~overlap' /\ faults' = 0 /\ faults = 0
      /\ FlowsOK /\ FlagsOK /\ \A q \in Procs : Own(q) \in Flows
  BY AloneBefore, Parts, FlowFacts DEF Alone
<1>00. ASSUME UNCHANGED recorded PROVE \A e \in Edges : Marked(e)' <=> Marked(e)
  BY <1>00 DEF Marked, Row
<1>1. ASSUME NEW p \in Procs, NEW x \in Edges, NEW s \in Steps, RecordEdge(p, x, s) PROVE FiresOnce'
  <2>1. s # "alert" /\ AppendRow(Row(x, s)) /\ UNCHANGED <<todo, firing, alerts, seen>>
        /\ pc' = [pc EXCEPT ![Own(p)] = "read"]
    BY <1>1 DEF RecordEdge
  <2>2. \A q \in Procs : pc'[Own(q)] = "merge" => pc[Own(q)] = "merge"
    BY <1>0, <2>1 DEF FlowsOK
  <2> QED
    BY <1>0, <2>1, <2>2, RecordKeepsMarks, QuietKeepsFires
<1>2. ASSUME NEW p \in Procs, Sync(p) \/ Watch(p) PROVE FiresOnce'
  <2>1. UNCHANGED <<recorded, seen, todo, firing, alerts>> /\ pc' = [pc EXCEPT ![Own(p)] = "read"]
    BY <1>2 DEF Sync, Watch
  <2>2. \A q \in Procs : pc'[Own(q)] = "merge" => pc[Own(q)] = "merge"
    BY <1>0, <2>1 DEF FlowsOK
  <2> QED
    BY <1>0, <1>00, <2>1, <2>2, QuietKeepsFires
<1>3. ASSUME NEW f \in Flows, Drain(f) PROVE FiresOnce'
  <2>1. UNCHANGED <<recorded, seen, todo, firing, alerts>>
    BY <1>3 DEF Drain, ReadOutbox, PostBatch, WriteTmp, RenameTmp
  <2>2. Return(f) \/ \E to \in {"post", "write", "rename"} : pc' = [pc EXCEPT ![f] = to]
    BY <1>3 DEF Drain, ReadOutbox, PostBatch, WriteTmp, RenameTmp
  <2>3. \A q \in Procs : pc'[Own(q)] = "merge" => pc[Own(q)] = "merge"
    <3>1. CASE Return(f)
      BY <1>0, <3>1, ReturnGoes DEF Same, Over
    <3>2. CASE \E to \in {"post", "write", "rename"} : pc' = [pc EXCEPT ![f] = to]
      BY <1>0, <3>2 DEF FlowsOK
    <3> QED
      BY <2>2, <3>1, <3>2
  <2> QED
    BY <1>0, <1>00, <2>1, <2>3, QuietKeepsFires
<1>4. ASSUME NEW p \in Procs, RunWatch(p) PROVE FiresOnce'
  BY <1>0, <1>4, ListFires, MergeFires, FireFires, MarkFires DEF RunWatch
<1>5. ASSUME NEW p \in Procs, Crash(p) PROVE FALSE
  BY <1>0, <1>5 DEF Crash, Fault
<1>6. ASSUME (\E e \in Edges : BudgetRunsOut(e)) \/ UNCHANGED vars PROVE FiresOnce'
  <2>1. UNCHANGED <<pc, recorded, seen, todo, firing, alerts>>
    BY <1>6 DEF BudgetRunsOut, vars
  <2> QED
    BY <1>0, <1>00, <2>1, QuietKeepsFires
<1> QED
  BY <1>0, <1>1, <1>2, <1>3, <1>4, <1>5, <1>6, HubIsQuiet DEF Next

-----------------------------------------------------------------------------
(* Marks *)

\* What a process carries it goes on to carry when other flows move that replace nothing.
LEMMA CarriesOn ==
  ASSUME NEW p \in Procs, NEW r, Carries(p, r), Same(Own(p)), Range(outbox) \subseteq Range(outbox'),
         pc[Own(p)] = "read" =>
           \A f \in Flows \ {Own(p)} :
             pc'[f] = pc[f] \/ (f = Own(f[1]) /\ f[1] # p /\ pc'[f] \in {"idle", "read"})
                            \/ (f[1] = p /\ pc'[f] \notin {"read", "rename"})
  PROVE  Carries(p, r)'
<1>1. CASE pc[Own(p)] \in Draining /\ r \in Left(Own(p))
  BY <1>1 DEF Carries, Same, Left
<1>2. CASE /\ pc[Own(p)] = "read" /\ r \in Range(outbox)
           /\ \A f \in Flows \ {Own(p)} :
                IF f[1] = p THEN pc[f] \notin {"read", "rename"}
                ELSE pc[f] = "idle" \/ (f = Own(f[1]) /\ pc[f] = "read")
  <2>1. ASSUME NEW f \in Flows \ {Own(p)}
        PROVE  IF f[1] = p THEN pc'[f] \notin {"read", "rename"}
               ELSE pc'[f] = "idle" \/ (f = Own(f[1]) /\ pc'[f] = "read")
    BY <1>2, <2>1
  <2> QED
    BY <1>2, <2>1 DEF Carries, Same
<1> QED
  BY <1>1, <1>2 DEF Carries

\* A read takes up what lies in the outbox.
LEMMA ReadCarries ==
  ASSUME TypeOK, Shape, NEW f \in Flows, ReadOutbox(f), NEW p \in Procs, NEW r, Carries(p, r)
  PROVE  \E q \in Procs : Carries(q, r)'
<1>0. FlowsOK /\ FilesOK /\ FlagsOK /\ f[1] \in Procs /\ Own(p) \in Flows /\ Own(p)[1] = p
  BY Parts, FlowFacts
<1>1. pc[f] = "read" /\ outbox' = outbox
  BY DEF ReadOutbox, files
<1>2. CASE pc[Own(p)] \in Draining /\ r \in Left(Own(p))
  <2>1. f # Own(p)
    BY <1>1, <1>2 DEF Draining
  <2>2. CASE outbox = <<>>
    <3>1. ~(f = Own(f[1]) /\ f[1] = p)
      BY <2>1
    <3>2. Same(Own(p))
      BY <1>0, <2>1, <2>2, <3>1, ReturnGoes DEF ReadOutbox
    <3> QED
      BY <1>2, <3>2 DEF Carries, Same, Left
  <2>3. CASE outbox # <<>>
    <3>1. Same(Own(p))
      BY <1>0, <2>1, <2>3 DEF ReadOutbox, FlowsOK, Same
    <3> QED
      BY <1>2, <3>1 DEF Carries, Same, Left
  <2> QED
    BY <2>2, <2>3
<1>3. CASE ~(pc[Own(p)] \in Draining /\ r \in Left(Own(p)))
  <2>1. /\ pc[Own(p)] = "read" /\ r \in Range(outbox)
        /\ \A g \in Flows \ {Own(p)} :
             IF g[1] = p THEN pc[g] \notin {"read", "rename"}
             ELSE pc[g] = "idle" \/ (g = Own(g[1]) /\ pc[g] = "read")
    BY <1>3 DEF Carries
  <2>2. f = Own(f[1])
    BY <1>0, <1>1, <2>1
  <2>3. PICK i \in DOMAIN outbox : outbox[i] = r
    BY <2>1 DEF Range
  <2>4. outbox # <<>> /\ DOMAIN outbox = 1..Len(outbox)
    BY <1>0, <2>3 DEF FilesOK
  <2>5. /\ rows' = [rows EXCEPT ![f] = outbox] /\ pc' = [pc EXCEPT ![f] = "post"] /\ sent' = sent
    BY <2>4 DEF ReadOutbox
  <2>6. rows'[f] = outbox /\ pc'[f] = "post" /\ sent'[f] = 0
    BY <1>0, <1>1, <2>5 DEF FlowsOK, Shape, FlowFits, Draining
  <2>7. r \in Left(f)'
    BY <2>3, <2>4, <2>6 DEF Left
  <2>8. Carries(f[1], r)'
    BY <2>2, <2>6, <2>7 DEF Carries, Draining
  <2> QED
    BY <1>0, <2>8
<1> QED
  BY <1>2, <1>3

\* A batch that is answered brings what it carries to the Hub.
LEMMA PostCarries ==
  ASSUME TypeOK, Shape, NEW f \in Flows, PostBatch(f), UNCHANGED faults,
         NEW p \in Procs, NEW r, Carries(p, r)
  PROVE  r \in hub' \/ Carries(p, r)'
<1>0. FlowsOK /\ FilesOK /\ Own(p) \in Flows /\ faults \in Nat
  BY Parts, FlowFacts, GraphOutboxAssumption DEF TypeOK
<1>1. PICK n \in Nat : n = BatchEnd(f) /\ n <= Len(rows[f]) /\ sent[f] <= n
  BY BatchEnds
<1>2. Range(SubSeq(rows[f], sent[f] + 1, n)) = {rows[f][i] : i \in sent[f] + 1 .. n}
  BY <1>1, BatchEnds, PartHas
<1>3. /\ pc[f] = "post" /\ \E to \in {"post", "write"} : pc' = [pc EXCEPT ![f] = to]
      /\ UNCHANGED <<outbox, rows>> /\ sent' = [sent EXCEPT ![f] = n]
      /\ hub' = hub \cup Range(SubSeq(rows[f], sent[f] + 1, n))
  BY <1>0, <1>1 DEF PostBatch, Fault, files
<1>4. CASE f # Own(p)
  <2>1. Same(Own(p)) /\ \A g \in Flows : pc'[g] = pc[g] \/ (g = f /\ pc'[g] \in {"post", "write"})
    BY <1>0, <1>3, <1>4 DEF FlowsOK, Same
  <2>2. pc[Own(p)] = "read" => f[1] = p
    <3>1. ASSUME pc[Own(p)] = "read", f[1] # p PROVE FALSE
      BY <1>3, <1>4, <3>1 DEF Carries, Draining
    <3> QED
      BY <3>1
  <2> QED
    BY <1>3, <2>1, <2>2, CarriesOn
<1>5. CASE f = Own(p) /\ r \notin hub'
  <2>1. r \in Left(f)
    BY <1>3, <1>5 DEF Carries
  <2>2. PICK i \in sent[f] + 1 .. Len(rows[f]) : rows[f][i] = r
    BY <2>1 DEF Left
  <2>3. i \notin sent[f] + 1 .. n
    BY <1>2, <1>3, <1>5, <2>2
  <2>4. sent'[f] = n /\ i \in n + 1 .. Len(rows[f])
    BY <1>0, <1>1, <1>3, <2>2, <2>3, BatchEnds DEF FlowsOK
  <2>5. r \in Left(f)' /\ pc'[f] \in Draining
    BY <1>0, <1>3, <2>2, <2>4 DEF Left, FlowsOK, Draining
  <2> QED
    BY <1>5, <2>5 DEF Carries
<1> QED
  BY <1>4, <1>5

\* Nothing is written or renamed over a row that is yet to be read.
LEMMA WriteCarries ==
  ASSUME TypeOK, Shape, MarksArrive, NEW f \in Flows, WriteTmp(f) \/ RenameTmp(f),
         NEW p \in Procs, NEW r, Carries(p, r)
  PROVE  Carries(p, r)'
<1>0. /\ FlowsOK /\ FlagsOK /\ f[1] \in Procs /\ Own(p) \in Flows /\ Own(p)[1] = p
      /\ \A g \in Flows : g \in FlowsOf(f[1]) <=> g[1] = f[1]
  BY Parts, FlowFacts
<1>1. pc[f] \in {"write", "rename"}
  BY DEF WriteTmp, RenameTmp
<1>2. sent[f] = Len(rows[f]) /\ sent[f] \in Nat
  BY <1>0, <1>1 DEF MarksArrive, FlowsOK
<1>3. r \notin Left(f)
  BY <1>2 DEF Left
<1>4. CASE pc[Own(p)] \in Draining /\ r \in Left(Own(p))
  <2>1. f # Own(p)
    BY <1>3, <1>4
  <2>2. Same(Own(p))
    <3>1. CASE WriteTmp(f)
      BY <1>0, <2>1, <3>1 DEF WriteTmp, FlowsOK, Same, drain
    <3>2. CASE RenameTmp(f)
      <4>1. Return(f) /\ ~(f = Own(f[1]) /\ f[1] = p)
        BY <2>1, <3>2 DEF RenameTmp
      <4> QED
        BY <1>0, <2>1, <4>1, ReturnGoes
    <3> QED
      BY <3>1, <3>2
  <2> QED
    BY <1>4, <2>2 DEF Carries, Same, Left
<1>5. CASE ~(pc[Own(p)] \in Draining /\ r \in Left(Own(p)))
  <2>1. /\ pc[Own(p)] = "read"
        /\ \A g \in Flows \ {Own(p)} :
             IF g[1] = p THEN pc[g] \notin {"read", "rename"}
             ELSE pc[g] = "idle" \/ (g = Own(g[1]) /\ pc[g] = "read")
    BY <1>5 DEF Carries
  <2>2. f # Own(p) /\ f[1] = p /\ pc[f] = "write"
    BY <1>1, <2>1
  <2>3. ~Turn(f)
    BY <1>0, <2>1, <2>2 DEF Turn
  <2> QED
    BY <2>2, <2>3 DEF WriteTmp, RenameTmp
<1> QED
  BY <1>4, <1>5

LEMMA MarksStep ==
  ASSUME TypeOK, Shape, Alone => FiresOnce /\ MarksArrive, [Next]_vars, Alone' PROVE MarksArrive'
<1> USE DEF watch, logged, drain, files
<1> DEFINE Sent == \A f \in Flows : pc[f] \in {"write", "rename"} => sent[f] = Len(rows[f])
           Mine(e) == Row(e, "alert") \in hub \/ \E p \in Procs : Carries(p, Row(e, "alert"))
           Come == \A e \in Edges : Marked(e) => Mine(e)
<1>0. /\ Alone /\ MarksArrive /\ ~hubWatches /\ ~overlap' /\ faults' = 0 /\ faults = 0
      /\ FlowsOK /\ FlagsOK /\ FilesOK /\ ProcsOK /\ \A q \in Procs : Own(q) \in Flows /\ Own(q)[1] = q
  BY AloneBefore, Parts, FlowFacts DEF Alone
<1>00. \A e \in Edges : Row(e, "alert")' = Row(e, "alert")
  BY DEF Row
<1>000. ASSUME UNCHANGED recorded PROVE \A e \in Edges : Marked(e)' <=> Marked(e)
  BY <1>000 DEF Marked, Row
<1>1. Sent /\ Come
  BY <1>0 DEF MarksArrive
<1>2. ASSUME \A f \in Flows : pc'[f] \in {"write", "rename"} =>
               pc[f] \in {"write", "rename"} /\ sent'[f] = sent[f] /\ rows'[f] = rows[f]
      PROVE  Sent'
  BY <1>1, <1>2
<1>3. ASSUME \A e \in Edges : Marked(e)' <=> Marked(e), hub \subseteq hub',
             \A e \in Edges, p \in Procs : Carries(p, Row(e, "alert")) =>
                Row(e, "alert") \in hub' \/ \E q \in Procs : Carries(q, Row(e, "alert"))'
      PROVE  Come'
  BY <1>00, <1>1, <1>3
<1> HIDE DEF Sent, Mine, Come
<1>4. ASSUME NEW p \in Procs, Idle(p), pc' = [pc EXCEPT ![Own(p)] = "read"], UNCHANGED <<drain, hub>>,
             Range(outbox) \subseteq Range(outbox'), \A e \in Edges : Marked(e)' <=> Marked(e)
      PROVE  Sent' /\ Come'
  <2>1. pc'[Own(p)] = "read" /\ \A f \in Flows : f # Own(p) => pc'[f] = pc[f]
    BY <1>0, <1>4 DEF FlowsOK
  <2>2. ASSUME NEW q \in Procs, NEW r, Carries(q, r) PROVE Carries(q, r)'
    <3>1. q # p
      BY <1>4, <2>2 DEF Carries, Idle, Draining
    <3>2. Own(q) # Own(p) /\ Same(Own(q))
      BY <1>0, <1>4, <2>1, <3>1 DEF Same
    <3>3. \A f \in Flows \ {Own(q)} : pc'[f] = pc[f] \/ (f = Own(f[1]) /\ f[1] # q /\ pc'[f] \in {"idle", "read"})
      BY <1>0, <2>1, <3>1
    <3> QED
      BY <1>4, <2>2, <3>2, <3>3, CarriesOn
  <2> QED
    BY <1>2, <1>3, <1>4, <2>1, <2>2
<1>5. ASSUME NEW p \in Procs, NEW x \in Edges, NEW s \in Steps, RecordEdge(p, x, s) PROVE Sent' /\ Come'
  <2>1. /\ s # "alert" /\ AppendRow(Row(x, s)) /\ UNCHANGED <<drain, hub>> /\ Idle(p)
        /\ pc' = [pc EXCEPT ![Own(p)] = "read"]
    BY <1>5 DEF RecordEdge
  <2>2. Range(outbox) \subseteq Range(outbox')
    BY <1>0, <2>1, EdgeRow, AppendHas DEF AppendRow, FilesOK
  <2> QED
    BY <1>4, <2>1, <2>2, RecordKeepsMarks
<1>6. ASSUME NEW p \in Procs, Sync(p) \/ Watch(p) PROVE Sent' /\ Come'
  <2>1. UNCHANGED <<drain, hub, outbox, recorded>> /\ Idle(p) /\ pc' = [pc EXCEPT ![Own(p)] = "read"]
    BY <1>6 DEF Sync, Watch
  <2> QED
    BY <1>000, <1>4, <2>1
<1>7. ASSUME NEW f \in Flows, ReadOutbox(f) PROVE Sent' /\ Come'
  <2>1. UNCHANGED <<hub, recorded>>
    BY <1>7 DEF ReadOutbox
  <2>2. Come'
    BY <1>0, <1>000, <1>3, <1>7, <2>1, ReadCarries
  <2>3. \A g \in Flows : pc'[g] \in {"write", "rename"} => Same(g)
    <3>1. CASE outbox = <<>>
      BY <1>0, <1>7, <3>1, ReturnGoes DEF ReadOutbox, Over
    <3>2. CASE outbox # <<>>
      BY <1>0, <1>7, <3>2 DEF ReadOutbox, FlowsOK, Same
    <3> QED
      BY <3>1, <3>2
  <2> QED
    BY <1>2, <2>2, <2>3 DEF Same
<1>8. ASSUME NEW f \in Flows, PostBatch(f) PROVE Sent' /\ Come'
  <2>0. UNCHANGED <<recorded, faults, rows>> /\ hub \subseteq hub'
    BY <1>0, <1>8 DEF PostBatch
  <2>1. Come'
    <3>1. \A e \in Edges, p \in Procs : Carries(p, Row(e, "alert")) =>
             Row(e, "alert") \in hub' \/ Carries(p, Row(e, "alert"))'
      BY <1>0, <1>8, <2>0, PostCarries
    <3> QED
      BY <1>000, <1>3, <2>0, <3>1
  <2>2. PICK n \in Nat : n = BatchEnd(f) /\ n <= Len(rows[f])
    BY BatchEnds
  <2>3. sent' = [sent EXCEPT ![f] = n] /\ pc' = [pc EXCEPT ![f] = IF n < Len(rows[f]) THEN "post" ELSE "write"]
    BY <1>0, <1>8, <2>2 DEF PostBatch, Fault
  <2>4. Len(rows[f]) \in Nat
    BY BatchEnds
  <2>5. ASSUME NEW g \in Flows, pc'[g] \in {"write", "rename"} PROVE sent'[g] = Len(rows'[g])
    <3>1. CASE g = f
      BY <1>0, <2>0, <2>2, <2>3, <2>4, <2>5, <3>1 DEF FlowsOK
    <3>2. CASE g # f
      BY <1>0, <1>1, <2>0, <2>3, <2>5, <3>2 DEF FlowsOK, Sent
    <3> QED
      BY <3>1, <3>2
  <2> QED
    BY <2>1, <2>5 DEF Sent
<1>9. ASSUME NEW f \in Flows, WriteTmp(f) PROVE Sent' /\ Come'
  <2>1. UNCHANGED <<recorded, hub>>
    BY <1>9 DEF WriteTmp
  <2>2. Come'
    BY <1>0, <1>000, <1>3, <1>9, <2>1, WriteCarries
  <2>3. \A g \in Flows : pc'[g] \in {"write", "rename"} =>
          pc[g] \in {"write", "rename"} /\ sent'[g] = sent[g] /\ rows'[g] = rows[g]
    BY <1>0, <1>9 DEF WriteTmp, FlowsOK
  <2> QED
    BY <1>2, <2>2, <2>3
<1>10. ASSUME NEW f \in Flows, RenameTmp(f) PROVE Sent' /\ Come'
  <2>1. UNCHANGED <<recorded, hub>>
    BY <1>10 DEF RenameTmp
  <2>2. Come'
    BY <1>0, <1>000, <1>3, <1>10, <2>1, WriteCarries
  <2>3. \A g \in Flows : pc'[g] \in {"write", "rename"} => Same(g)
    BY <1>0, <1>10, ReturnGoes DEF RenameTmp, Over
  <2> QED
    BY <1>2, <2>2, <2>3 DEF Same
<1>11. ASSUME NEW p \in Procs, ListHub(p) \/ MergeOutbox(p) PROVE Sent' /\ Come'
  <2>1. /\ UNCHANGED <<recorded, hub, outbox, drain>> /\ pc[Own(p)] \in {"list", "merge"}
        /\ \E to \in {"merge", "fire", "idle"} : pc' = [pc EXCEPT ![Own(p)] = to]
    BY <1>11 DEF ListHub, MergeOutbox
  <2>2. pc'[Own(p)] \in {"merge", "fire", "idle"} /\ \A f \in Flows : f # Own(p) => pc'[f] = pc[f]
    BY <1>0, <2>1 DEF FlowsOK
  <2>3. ASSUME NEW q \in Procs, NEW r, Carries(q, r) PROVE Carries(q, r)'
    <3>1. q # p /\ Own(q) # Own(p)
      BY <1>0, <2>1, <2>3 DEF Carries, Draining
    <3>2. Same(Own(q))
      BY <1>0, <2>1, <2>2, <3>1 DEF Same
    <3>3. pc[Own(q)] # "read"
      BY <1>0, <2>1, <2>3, <3>1 DEF Carries, Draining
    <3> QED
      BY <2>1, <2>3, <3>2, <3>3, CarriesOn
  <2> QED
    BY <1>000, <1>2, <1>3, <2>1, <2>2, <2>3
<1>12. ASSUME NEW p \in Procs, Fire(p) PROVE Sent' /\ Come'
  <2>1. PICK e \in todo[p] : /\ AppendRow(Row(e, "told")) \/ UNCHANGED <<outbox, logged>>
                             /\ \/ pc' = [pc EXCEPT ![Own(p)] = "mark"]
                                \/ pc' = [pc EXCEPT ![Own(p)] = "mark", ![<<p, e>>] = "read"]
    BY <1>12 DEF Fire
  <2>2. e \in Edges /\ UNCHANGED <<drain, hub>> /\ pc[Own(p)] = "fire"
    BY <1>0, <1>12, <2>1 DEF Fire, ProcsOK
  <2>3. Range(outbox) \subseteq Range(outbox') /\ \A x \in Edges : Marked(x)' <=> Marked(x)
    <3>1. "told" \in Steps
      BY DEF Steps
    <3>2. CASE AppendRow(Row(e, "told"))
      BY <1>0, <2>2, <3>1, <3>2, EdgeRow, AppendHas, RecordKeepsMarks DEF AppendRow, FilesOK
    <3>3. CASE UNCHANGED <<outbox, logged>>
      BY <1>000, <3>3
    <3> QED
      BY <2>1, <3>2, <3>3
  <2>4. <<p, e>> \in Flows /\ <<p, e>> # Own(p) /\ <<p, e>>[1] = p
    BY <2>2, FlowFacts
  <2>5. /\ pc'[Own(p)] = "mark" /\ pc'[<<p, e>>] \in {pc[<<p, e>>], "read"}
        /\ \A f \in Flows : f # Own(p) /\ f # <<p, e>> => pc'[f] = pc[f]
    <3> DEFINE d == <<p, e>>
    <3>1. d \in Flows /\ d # Own(p) /\ (\/ pc' = [pc EXCEPT ![Own(p)] = "mark"]
                                        \/ pc' = [pc EXCEPT ![Own(p)] = "mark", ![d] = "read"])
      BY <2>1, <2>4
    <3> HIDE DEF d
    <3>2. pc'[Own(p)] = "mark" /\ pc'[d] \in {pc[d], "read"} /\ \A f \in Flows : f # Own(p) /\ f # d => pc'[f] = pc[f]
      BY <1>0, <3>1 DEF FlowsOK
    <3> QED
      BY <3>2 DEF d
  <2>6. ASSUME NEW q \in Procs, NEW r, Carries(q, r) PROVE Carries(q, r)'
    <3>1. q # p /\ Own(q) # Own(p) /\ Own(q) # <<p, e>> /\ pc[Own(q)] # "idle" /\ Own(q) \in Flows
      BY <1>0, <2>2, <2>4, <2>6 DEF Carries, Draining
    <3>2. Same(Own(q))
      BY <1>0, <2>2, <2>5, <3>1 DEF Same
    <3>3. pc[Own(q)] # "read"
      BY <1>0, <2>2, <2>6, <3>1 DEF Carries, Draining
    <3> QED
      BY <2>3, <2>6, <3>2, <3>3, CarriesOn
  <2>7. \A f \in Flows : pc'[f] \in {"write", "rename"} => pc[f] \in {"write", "rename"}
    BY <2>5
  <2> QED
    BY <1>2, <1>3, <2>2, <2>3, <2>6, <2>7
<1>13. ASSUME NEW p \in Procs, Mark(p) PROVE Sent' /\ Come'
  <2>0. PICK x \in Edges : x = firing[p]
    BY <1>0, <1>13, MarkGoes
  <2>1. /\ pc[Own(p)] = "mark" /\ pc'[Own(p)] = "read"
        /\ (\A f \in Flows : f # Own(p) => pc'[f] = pc[f])
        /\ (\A f \in Flows : f[1] # p => pc[f] = "idle")
        /\ Range(outbox') = Range(outbox) \cup {Row(x, "alert")}
        /\ (\A e \in Edges : Marked(e)' <=> Marked(e) \/ e = x)
    BY <1>0, <1>13, <2>0, MarkGoes
  <2>2. UNCHANGED <<drain, hub>> /\ Turn(Own(p))
    BY <1>13 DEF Mark
  <2>3. \A e \in Edges : Marked(e) => Row(e, "alert") \in hub
    <3>1. \A q \in Procs, r \in Rows : ~Carries(q, r)
      BY <1>0, <2>1 DEF Carries, Draining
    <3>2. "alert" \in Steps
      BY DEF Steps
    <3> QED
      BY <1>1, <3>1, <3>2, EdgeRow DEF Come, Mine
  <2>4. Carries(p, Row(x, "alert"))'
    <3>1. \A f \in Flows \ {Own(p)} : f[1] = p => pc[f] \notin {"read", "rename"}
      BY <1>0, <2>2, FlowFacts DEF Turn
    <3>2. \A f \in Flows \ {Own(p)} :
             IF f[1] = p THEN pc'[f] \notin {"read", "rename"}
             ELSE pc'[f] = "idle" \/ (f = Own(f[1]) /\ pc'[f] = "read")
      BY <2>1, <3>1
    <3>3. Row(x, "alert") \in Range(outbox')
      BY <2>1
    <3> QED
      BY <1>00, <2>1, <3>2, <3>3 DEF Carries
  <2>5. Come'
    BY <1>00, <2>1, <2>2, <2>3, <2>4 DEF Come, Mine
  <2> QED
    BY <1>2, <2>1, <2>2, <2>5
<1>14. ASSUME NEW p \in Procs, Crash(p) PROVE FALSE
  BY <1>0, <1>14 DEF Crash, Fault
<1>15. ASSUME (\E e \in Edges : BudgetRunsOut(e)) \/ UNCHANGED vars PROVE Sent' /\ Come'
  <2>1. UNCHANGED <<pc, outbox, rows, sent, hub, recorded>>
    BY <1>15 DEF BudgetRunsOut, vars
  <2>2. ASSUME NEW q \in Procs, NEW r, Carries(q, r) PROVE Carries(q, r)'
    BY <2>1, <2>2 DEF Carries, Left
  <2> QED
    BY <1>000, <1>2, <1>3, <2>1, <2>2
<1>16. Sent' /\ Come'
  BY <1>0, <1>5, <1>6, <1>7, <1>8, <1>9, <1>10, <1>11, <1>12, <1>13, <1>14, <1>15, HubIsQuiet
     DEF Next, Drain, RunWatch
<1> QED
  BY <1>16 DEF MarksArrive, Sent, Come, Mine

-----------------------------------------------------------------------------
(* Theorems *)

LEMMA InvInit == Init => IInv
<1> SUFFICES ASSUME Init PROVE IInv
  OBVIOUS
<1>1. TypeOK
  <2>1. FilesOK
    BY DEF Init, FilesOK
  <2>2. FlowsOK /\ ProcsOK
    BY FlowFacts DEF Init, FlowsOK, Places, ProcsOK
  <2>3. HubOK
    BY GraphOutboxAssumption DEF Init, HubOK
  <2>4. FlagsOK
    <3>1. watching \in [Procs -> BOOLEAN]
      BY DEF Init
    <3> QED
      BY <3>1, Zenon DEF Init, FlagsOK
  <2> QED
    BY <2>1, <2>2, <2>3, <2>4, Parts
<1>2. Shape
  BY FlowFacts DEF Init, Shape, FlowFits, ProcFits, HubFits, Draining, Idle
<1>3. NothingSlips
  BY DEF Init, NothingSlips
<1>4. FiresOnce /\ MarksArrive
  BY FlowFacts DEF Init, FiresOnce, MarksArrive, Marked
<1> QED
  BY <1>1, <1>2, <1>3, <1>4 DEF IInv

LEMMA InvStep == IInv /\ [Next]_vars => IInv'
<1> SUFFICES ASSUME IInv, [Next]_vars PROVE IInv'
  OBVIOUS
<1>1. TypeOK' /\ Shape' /\ NothingSlips'
  BY TypeStep, ShapeStep, SlipStep DEF IInv
<1>2. Alone' => FiresOnce' /\ MarksArrive'
  BY FiresStep, MarksStep, AloneBefore DEF IInv
<1> QED
  BY <1>1, <1>2 DEF IInv

\* The rows, the drains and the marks fit together in every reachable state.
THEOREM Inductive == Spec => []IInv
  BY InvInit, InvStep, PTL DEF Spec

\* Type correctness of the edge log.
THEOREM TypeCorrect == Spec => []TypeOK
  BY Inductive, PTL DEF IInv

\* flushOutbox loses no row but one appended between its read and its rename: drains
\* may share the outbox and its temporary file, stop half-way and post a batch twice.
THEOREM OnlyExposedRowsGetLost == Spec => []OnlyExposedRowsAreLost
<1>1. IInv => OnlyExposedRowsAreLost
  BY DEF IInv, NothingSlips, Kept, OnlyExposedRowsAreLost
<1> QED
  BY <1>1, Inductive, PTL

\* While no crash or outage befalls it, a graph watch beside which no other process works
\* alerts somebody of an edge once, however often it is run and whatever is recorded
\* between its runs: the drains its alerts leave running do not lose it a mark it needs.
THEOREM LoneWatchesFireOnce == Spec => []AloneFiresOnce
<1>1. IInv => AloneFiresOnce
  BY DEF IInv, Alone, FiresOnce, AloneFiresOnce
<1> QED
  BY <1>1, Inductive, PTL

=============================================================================

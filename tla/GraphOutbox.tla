---------------------------- MODULE GraphOutbox ----------------------------
(***************************************************************************)
(* The edge log of the agent graph (scripts/agent-graph.mjs).              *)
(*                                                                         *)
(* Each handoff is an edge; opening, answering and alerting it are rows    *)
(* that a desk appends to sessions/graph/outbox.jsonl and drains to the    *)
(* Hub in batches.  A drain reads the whole file, posts, writes what the   *)
(* Hub did not take to one temporary file and renames that over the        *)
(* outbox.  Every process of the desk that records an edge drains, so      *)
(* drains overlap.  A watch, on the desk or in the Hub's desk runner,      *)
(* alerts the project manager of handoffs that failed or are overdue; the  *)
(* inbox message it sends is an edge too, and its drain, which nobody      *)
(* awaits (bot-inbox.mjs), runs on beside the watch in the same process.   *)
(* What runs in a process is a flow: its own, or the drain of an alert.    *)
(*                                                                         *)
(* The Hub upserts the fields a row carries (putEdges), and the rows of an *)
(* edge carry different fields: its edges are the set of rows it has got.  *)
(***************************************************************************)
EXTENDS Naturals, Sequences, FiniteSets, Functions

CONSTANTS
  Edges,
  Procs,        \* processes of the desk that may record, drain or watch
  BatchSize,    \* rows per request (200)
  MaxFaults,    \* bound: crashes and requests that fail
  MaxAlerts,    \* bound: as many alerts of an edge are as good as more
  None

Steps == {"open", "answered", "failed", "told", "alert"}
Rows  == [edge : Edges, step : Steps]
Row(e, s) == [edge |-> e, step |-> s]

ASSUME GraphOutboxAssumption ==
  /\ BatchSize \in Nat \ {0}
  /\ MaxFaults \in Nat /\ MaxAlerts \in Nat \ {0}
  /\ None \notin Edges /\ None \notin Seq(Rows)

\* The process's own flow, and the drain that its alert for an edge has left running.
Flows   == Procs \X (Edges \cup {None})
Own(p)  == <<p, None>>
FlowsOf(p) == {f \in Flows : f[1] = p}

VARIABLES
  outbox,       \* the rows of outbox.jsonl
  tmp,          \* outbox.jsonl.tmp, or None
  hub,          \* the rows the Hub has
  pc,           \* where each flow is
  rows,         \* the rows its drain has read
  sent,         \* how many of them the Hub has taken
  watching,     \* the drain of a process belongs to a watch
  seen,         \* the Hub's rows, as its watch got them
  todo,         \* the edges its watch still has to fire
  firing,       \* the edge it is firing
  hubWatches,   \* whether the Hub's desk runner watches (graphWatchMs # 0)
  hubTodo,      \* the same for the watch of the Hub's desk runner
  hubFiring,
  overdue,      \* edges whose time budget has run out
  recorded,     \* history: the rows that were appended
  exposed,      \* history: rows appended while a drain was past its read
  alerts,       \* history: how often an alert for the edge reached somebody
  unheard,      \* history: the edges an alert for which reached nobody
  overlap,      \* history: a desk's watch ran beside another process
  faults

files   == <<outbox, tmp>>
drain   == <<rows, sent>>
watch   == <<watching, seen, todo, firing>>
hubside == <<hubWatches, hubTodo, hubFiring>>
logged  == <<recorded, exposed>>
alerted == <<alerts, unheard>>
vars    == <<files, hub, pc, drain, watch, hubside, overdue, logged, alerted, overlap, faults>>

Draining == {"post", "write", "rename"}

TypeOK ==
  /\ outbox \in Seq(Rows)
  /\ tmp \in Seq(Rows) \cup {None}
  /\ hub \subseteq Rows
  /\ pc \in [Flows -> {"idle", "read", "list", "merge", "fire", "mark"} \cup Draining]
  /\ rows \in [Flows -> Seq(Rows)]
  /\ sent \in [Flows -> Nat]
  /\ \A f \in Flows : sent[f] <= Len(rows[f])
  /\ watching \in [Procs -> BOOLEAN]
  /\ seen \in [Procs -> SUBSET Rows]
  /\ todo \in [Procs -> SUBSET Edges]
  /\ firing \in [Procs -> Edges \cup {None}]
  /\ \A p \in Procs : pc[Own(p)] = "mark" => firing[p] # None
  /\ hubWatches \in BOOLEAN
  /\ hubTodo \subseteq Edges
  /\ hubFiring \in Edges \cup {None}
  /\ overdue \subseteq Edges
  /\ recorded \subseteq Rows /\ exposed \subseteq Rows
  /\ alerts \in [Edges -> 0..MaxAlerts]
  /\ unheard \subseteq Edges
  /\ overlap \in BOOLEAN
  /\ faults \in 0..MaxFaults

Init ==
  /\ outbox = <<>> /\ tmp = None /\ hub = {}
  /\ pc = [f \in Flows |-> "idle"]
  /\ rows = [f \in Flows |-> <<>>]
  /\ sent = [f \in Flows |-> 0]
  /\ watching = [p \in Procs |-> FALSE]
  /\ seen = [p \in Procs |-> {}]
  /\ todo = [p \in Procs |-> {}]
  /\ firing = [p \in Procs |-> None]
  /\ hubWatches \in BOOLEAN /\ hubTodo = {} /\ hubFiring = None
  /\ overdue = {} /\ recorded = {} /\ exposed = {}
  /\ alerts = [e \in Edges |-> 0] /\ unheard = {}
  /\ overlap = FALSE
  /\ faults = 0

-----------------------------------------------------------------------------
(* Helpers *)

Fault == faults < MaxFaults /\ faults' = faults + 1

OnWatch(p) == watching[p] \/ todo[p] # {} \/ firing[p] # None

Idle(p) == pc[Own(p)] = "idle"

\* A step of a process is noted if a watch and another process are at work (where the
\* Hub watches too, that makes no difference).
NoteOverlap ==
  LET together == \E p, q \in Procs : p # q /\ ~Idle(p) /\ ~Idle(q) /\ OnWatch(p)
  IN  overlap' = (overlap \/ (~hubWatches /\ together))

\* What a flow does between two awaits the other flows of its process do not cut in two:
\* they wait while it is to read what it has appended, or to rename what it has written.
Turn(f) == \A g \in FlowsOf(f[1]) \ {f} : pc[g] \notin {"read", "rename"}

\* The flows in F are over.
Stop(F) ==
  /\ pc' = [f \in Flows |-> IF f \in F THEN "idle" ELSE pc[f]]
  /\ rows' = [f \in Flows |-> IF f \in F THEN <<>> ELSE rows[f]]
  /\ sent' = [f \in Flows |-> IF f \in F THEN 0 ELSE sent[f]]

\* appendFileSync
AppendRow(r) ==
  /\ outbox' = Append(outbox, r)
  /\ recorded' = recorded \cup {r}
  /\ exposed' = IF \E f \in Flows : pc[f] \in Draining THEN exposed \cup {r} ELSE exposed

\* Mistake: an edge that is closed does not fire.
FiresOpenOnly(e, S) ==
  /\ Row(e, "alert") \notin S
  /\ Row(e, "open") \in S /\ e \in overdue
  /\ S \cap {Row(e, "answered"), Row(e, "failed")} = {}

\* fireReason for an edge with the rows S, without token budgets.
Fires(e, S) ==
  /\ Row(e, "alert") \notin S
  /\ \/ Row(e, "failed") \in S
     \/ /\ Row(e, "open") \in S /\ e \in overdue
        /\ Row(e, "answered") \notin S

\* Flow f of process p goes on with step next, its drain being over.
GoOn(f, next) ==
  /\ pc' = [pc EXCEPT ![f] = next]
  /\ rows' = [rows EXCEPT ![f] = <<>>]
  /\ sent' = [sent EXCEPT ![f] = 0]

\* flushOutbox returns to a drain that nobody awaits, to a watch that lists next, to one
\* that has edges left to fire, or to a command that is done: it exits, and the drains
\* it has left running are cut off.
Return(f) ==
  LET p == f[1] IN
  \/ f # Own(p) /\ Stop({f})
  \/ f = Own(p) /\ watching[p] /\ GoOn(f, "list")
  \/ f = Own(p) /\ ~watching[p] /\ todo[p] # {} /\ GoOn(f, "fire")
  \/ f = Own(p) /\ ~watching[p] /\ todo[p] = {} /\ Stop(FlowsOf(p))

-----------------------------------------------------------------------------
(* recordEdge and closeEdge *)

\* A process records that an edge is opened, answered or has failed.
RecordEdge(p, e, step) ==
  /\ Idle(p)
  /\ step \in {"open", "answered", "failed"}
  /\ IF step = "open" THEN Row(e, "open") \notin recorded
     ELSE /\ Row(e, "open") \in recorded
          /\ recorded \cap {Row(e, "answered"), Row(e, "failed")} = {}
  /\ AppendRow(Row(e, step))
  /\ pc' = [pc EXCEPT ![Own(p)] = "read"]
  /\ NoteOverlap
  /\ UNCHANGED <<tmp, hub, drain, watch, hubside, overdue, alerted, faults>>

\* `graph sync`, and the drain `graph report` starts with.
Sync(p) ==
  /\ Idle(p)
  /\ pc' = [pc EXCEPT ![Own(p)] = "read"]
  /\ NoteOverlap
  /\ UNCHANGED <<files, hub, drain, watch, hubside, overdue, logged, alerted, faults>>

-----------------------------------------------------------------------------
(* flushOutbox *)

ReadOutbox(f) ==
  /\ pc[f] = "read"
  /\ IF outbox = <<>>
     THEN Return(f)
     ELSE /\ rows' = [rows EXCEPT ![f] = outbox]
          /\ pc' = [pc EXCEPT ![f] = "post"]
          /\ UNCHANGED sent
  /\ NoteOverlap
  /\ UNCHANGED <<files, hub, watch, hubside, overdue, logged, alerted, faults>>

\* The end of f's next batch.
BatchEnd(f) ==
  IF sent[f] + BatchSize < Len(rows[f]) THEN sent[f] + BatchSize ELSE Len(rows[f])

\* Mistake: the batch counts as sent before the Hub has answered.
PostUnanswered(f) ==
  LET batch == Range(SubSeq(rows[f], sent[f] + 1, BatchEnd(f))) IN
  /\ pc[f] = "post"
  /\ sent' = [sent EXCEPT ![f] = BatchEnd(f)]
  /\ \/ hub' = hub \cup batch /\ UNCHANGED faults
     \/ Fault /\ UNCHANGED hub
  /\ pc' = [pc EXCEPT ![f] = IF BatchEnd(f) < Len(rows[f]) THEN "post" ELSE "write"]
  /\ NoteOverlap
  /\ UNCHANGED <<files, rows, watch, hubside, overdue, logged, alerted>>

\* One request: the Hub takes the batch and says so, or it does not answer (having
\* taken it or not) and the drain stops.
PostBatch(f) ==
  LET batch == Range(SubSeq(rows[f], sent[f] + 1, BatchEnd(f))) IN
  /\ pc[f] = "post"
  /\ \/ /\ hub' = hub \cup batch
        /\ sent' = [sent EXCEPT ![f] = BatchEnd(f)]
        /\ pc' = [pc EXCEPT ![f] = IF BatchEnd(f) < Len(rows[f]) THEN "post" ELSE "write"]
        /\ UNCHANGED faults
     \/ /\ Fault
        /\ hub' \in {hub, hub \cup batch}
        /\ pc' = [pc EXCEPT ![f] = "write"]
        /\ UNCHANGED sent
  /\ NoteOverlap
  /\ UNCHANGED <<files, rows, watch, hubside, overdue, logged, alerted>>

\* Mistake: what is left starts one row too late.
WriteTmpOffByOne(f) ==
  /\ pc[f] = "write"
  /\ Turn(f)
  /\ tmp' = SubSeq(rows[f], sent[f] + 2, Len(rows[f]))
  /\ pc' = [pc EXCEPT ![f] = "rename"]
  /\ NoteOverlap
  /\ UNCHANGED <<outbox, hub, drain, watch, hubside, overdue, logged, alerted, faults>>

\* writeFileSync of the temporary file, which all drains share ...
WriteTmp(f) ==
  /\ pc[f] = "write"
  /\ Turn(f)
  /\ tmp' = SubSeq(rows[f], sent[f] + 1, Len(rows[f]))
  /\ pc' = [pc EXCEPT ![f] = "rename"]
  /\ NoteOverlap
  /\ UNCHANGED <<outbox, hub, drain, watch, hubside, overdue, logged, alerted, faults>>

\* ... and renameSync, which throws when another drain has renamed it already.
RenameTmp(f) ==
  /\ pc[f] = "rename"
  /\ IF tmp = None THEN UNCHANGED files ELSE outbox' = tmp /\ tmp' = None
  /\ Return(f)
  /\ NoteOverlap
  /\ UNCHANGED <<hub, watch, hubside, overdue, logged, alerted, faults>>

-----------------------------------------------------------------------------
(* graph watch on the desk *)

Watch(p) ==
  /\ Idle(p)
  /\ pc' = [pc EXCEPT ![Own(p)] = "read"]
  /\ watching' = [watching EXCEPT ![p] = TRUE]
  /\ NoteOverlap
  /\ UNCHANGED <<files, hub, drain, seen, todo, firing, hubside, overdue, logged, alerted, faults>>

\* loadEdges: first the Hub's edges, nothing if it cannot be reached ...
ListHub(p) ==
  /\ pc[Own(p)] = "list"
  /\ \/ seen' = [seen EXCEPT ![p] = hub] /\ UNCHANGED faults
     \/ seen' = [seen EXCEPT ![p] = {}] /\ Fault
  /\ pc' = [pc EXCEPT ![Own(p)] = "merge"]
  /\ NoteOverlap
  /\ UNCHANGED <<files, hub, drain, watching, todo, firing, hubside, overdue, logged, alerted>>

\* ... then what the outbox still holds.
MergeOutbox(p) ==
  LET list == seen[p] \cup Range(outbox) IN
  /\ pc[Own(p)] = "merge"
  /\ Turn(Own(p))
  /\ todo' = [todo EXCEPT ![p] = {e \in Edges : Fires(e, list)}]
  /\ pc' = [pc EXCEPT ![Own(p)] = IF \E e \in Edges : Fires(e, list) THEN "fire" ELSE "idle"]
  /\ watching' = [watching EXCEPT ![p] = FALSE]
  /\ seen' = [seen EXCEPT ![p] = {}]
  /\ NoteOverlap
  /\ UNCHANGED <<files, hub, drain, firing, hubside, overdue, logged, alerted, faults>>

\* The alert for e reaches somebody ...
Alert(e) ==
  /\ alerts' = [alerts EXCEPT ![e] = IF @ < MaxAlerts THEN @ + 1 ELSE @]
  /\ UNCHANGED unheard

\* ... or nobody: every inbox and the board threw, and the watch goes on all the same.
AlertFails(e) ==
  /\ unheard' = unheard \cup {e}
  /\ UNCHANGED alerts

\* One edge: the message to the project manager or orch, which is recorded in its turn and
\* leaves a drain of its own running; when neither can be sent, a card alone or nothing.
Fire(p) ==
  /\ pc[Own(p)] = "fire"
  /\ Turn(Own(p))
  /\ \E e \in todo[p] :
       /\ firing' = [firing EXCEPT ![p] = e]
       /\ todo' = [todo EXCEPT ![p] = @ \ {e}]
       /\ \/ /\ Alert(e)
             /\ AppendRow(Row(e, "told"))
             /\ pc' = [pc EXCEPT ![Own(p)] = "mark", ![<<p, e>>] = "read"]
          \/ /\ Alert(e) \/ AlertFails(e)
             /\ pc' = [pc EXCEPT ![Own(p)] = "mark"]
             /\ UNCHANGED <<outbox, logged>>
  /\ NoteOverlap
  /\ UNCHANGED <<tmp, hub, drain, watching, seen, hubside, overdue, faults>>

\* Mistake: the alert leaves no mark on the edge.
MarkForgotten(p) ==
  /\ pc[Own(p)] = "mark"
  /\ Turn(Own(p))
  /\ firing' = [firing EXCEPT ![p] = None]
  /\ pc' = [pc EXCEPT ![Own(p)] = "read"]
  /\ NoteOverlap
  /\ UNCHANGED <<files, hub, drain, watching, seen, todo, hubside, overdue, logged, alerted, faults>>

\* ... and the row that says so, which is drained before the next edge is fired.
Mark(p) ==
  /\ pc[Own(p)] = "mark"
  /\ Turn(Own(p))
  /\ AppendRow(Row(firing[p], "alert"))
  /\ firing' = [firing EXCEPT ![p] = None]
  /\ pc' = [pc EXCEPT ![Own(p)] = "read"]
  /\ NoteOverlap
  /\ UNCHANGED <<tmp, hub, drain, watching, seen, todo, hubside, overdue, alerted, faults>>

\* A process dies with all its flows.
Crash(p) ==
  /\ ~Idle(p)
  /\ Fault
  /\ Stop(FlowsOf(p))
  /\ watching' = [watching EXCEPT ![p] = FALSE]
  /\ seen' = [seen EXCEPT ![p] = {}]
  /\ todo' = [todo EXCEPT ![p] = {}]
  /\ firing' = [firing EXCEPT ![p] = None]
  /\ NoteOverlap
  /\ UNCHANGED <<files, hub, hubside, overdue, logged, alerted>>

-----------------------------------------------------------------------------
(* graphWatch of the Hub's desk runner, which reads and writes the store *)

HubWatch ==
  /\ hubWatches
  /\ hubTodo = {} /\ hubFiring = None
  /\ hubTodo' = {e \in Edges : Fires(e, hub)}
  /\ hubTodo' # {}
  /\ UNCHANGED <<files, hub, pc, drain, watch, hubWatches, hubFiring, overdue, logged, alerted, overlap, faults>>

HubFire ==
  /\ hubFiring = None
  /\ \E e \in hubTodo :
       /\ Alert(e) \/ AlertFails(e)
       /\ hubFiring' = e
       /\ hubTodo' = hubTodo \ {e}
  /\ UNCHANGED <<files, hub, pc, drain, watch, hubWatches, overdue, logged, overlap, faults>>

\* putEdges; a database error, or a restart, ends this watch.
HubMark ==
  /\ hubFiring # None
  /\ \/ hub' = hub \cup {Row(hubFiring, "alert")} /\ UNCHANGED <<hubTodo, faults>>
     \/ Fault /\ hubTodo' = {} /\ UNCHANGED hub
  /\ hubFiring' = None
  /\ UNCHANGED <<files, pc, drain, watch, hubWatches, overdue, logged, alerted, overlap>>

\* The time budget of an open edge runs out.
BudgetRunsOut(e) ==
  /\ Row(e, "open") \in recorded /\ e \notin overdue
  /\ overdue' = overdue \cup {e}
  /\ UNCHANGED <<files, hub, pc, drain, watch, hubside, logged, alerted, overlap, faults>>

-----------------------------------------------------------------------------

Drain(f) == ReadOutbox(f) \/ PostBatch(f) \/ WriteTmp(f) \/ RenameTmp(f)

RunWatch(p) == ListHub(p) \/ MergeOutbox(p) \/ Fire(p) \/ Mark(p)

HubSide == HubWatch \/ HubFire \/ HubMark

Next ==
  \/ \E p \in Procs :
       \/ \E e \in Edges, s \in Steps : RecordEdge(p, e, s)
       \/ Sync(p) \/ Watch(p) \/ RunWatch(p) \/ Crash(p)
  \/ \E f \in Flows : Drain(f)
  \/ HubSide
  \/ \E e \in Edges : BudgetRunsOut(e)

Spec == Init /\ [][Next]_vars

\* What has started does not stand still altogether, though one process or drain may hang
\* for good; the Hub's desk runner watches on its timer, and somebody on the desk drains
\* again and again (every record does).
Fairness ==
  /\ WF_vars((\E p \in Procs : RunWatch(p)) \/ \E f \in Flows : Drain(f))
  /\ WF_vars(HubSide)
  /\ WF_vars(\E p \in Procs : Sync(p))

FairSpec == Spec /\ Fairness

-----------------------------------------------------------------------------
(* Properties *)

\* A row is lost only if it was appended while a drain had read the outbox and not
\* yet replaced it: no outage, lost answer or crash loses any other, however many
\* drains share the two files.
OnlyExposedRowsAreLost ==
  recorded \ exposed \subseteq hub \cup Range(outbox)

\* A watch beside which no other process is at work fires an edge once, although the
\* drain of its own alert may replace the outbox under the mark it appends, as long as no
\* crash or outage comes between the alert and its mark.
AloneFiresOnce ==
  ~hubWatches /\ ~overlap /\ faults = 0 => \A e \in Edges : alerts[e] <= 1

\* Again and again the Hub has caught up with every row that was not appended into a
\* drain.
EventuallyOnHub ==
  []<>(recorded \ exposed \subseteq hub)

\* Where the Hub watches, a handoff that is recorded as failed is brought to somebody,
\* whatever the watches of the desk do beside it, unless a watch found no inbox and no
\* board that would take it.
EventuallyAlerted ==
  \A e \in Edges :
    (hubWatches /\ Row(e, "failed") \in recorded \ exposed) ~> (alerts[e] > 0 \/ e \in unheard)

-----------------------------------------------------------------------------
(* A claim of the comments that the code does not keep *)

\* "Each edge is appended to sessions/graph/outbox.jsonl first and drained to the Hub,
\* so a Hub outage loses nothing."
NothingIsLost ==
  recorded \subseteq hub \cup Range(outbox)

=============================================================================

------------------------------- MODULE ChatLog -------------------------------
(***************************************************************************)
(* The append-only log of one chat thread and the desks that follow it.    *)
(*                                                                         *)
(* Writers: pushMessages of services/gotchibot-api/store.mjs, run by the   *)
(* API for desks and phones and by the runners themselves.  For each       *)
(* message of a request it looks the id up, draws a seq from the shared    *)
(* counter and inserts a row under a unique index, three database calls    *)
(* with the other writers between them; at the end it raises the thread's  *)
(* lastSeq and answers.  A request may break off anywhere, its answer may  *)
(* be lost, and the sender then sends the same ids again.                  *)
(*                                                                         *)
(* Readers: pull processes of one desk (chat-sync.mjs), which page through *)
(* pullMessages from a cursor kept in a file of the desk.  Each overwrites *)
(* the desk's pull file of the thread with the rows it has read: what an   *)
(* earlier pull left there is gone.                                        *)
(*                                                                         *)
(* A row is named by its message id; log says which seq it got.            *)
(***************************************************************************)
EXTENDS Integers, FiniteSets, Sequences

CONSTANTS
  Messages,     \* the message ids
  Batches,      \* the requests: the ids one push carries, in order
  Pushers,      \* requests that are served at the same time
  Pullers,      \* pull processes of the desk
  PageLimit,    \* rows per page (500)
  PageCap,      \* pages per pull: 50, or what the call's --max-pages says
  MaxPushes,    \* bound: requests in all
  MaxFaults     \* bound: requests, answers and pulls that are lost

ASSUME ChatLogAssumption ==
  /\ Batches \subseteq Seq(Messages) \ {<<>>}
  /\ PageLimit \in Nat \ {0}
  /\ PageCap \in [Pullers -> Nat \ {0}]
  /\ {MaxPushes, MaxFaults} \subseteq Nat

VARIABLES
  log,          \* the seq of each row, 0 for a message that has none
  counter,      \* counters.chat_seq
  threadLast,   \* chat_threads.lastSeq
  pc,           \* where each request is in pushMessages
  todo,         \* the messages it still has to handle
  drawn,        \* the seq it has drawn and not used yet, or 0
  results,      \* what it is going to answer
  acked,        \* what senders were told
  stage,        \* where each pull is in cmdPull
  at,           \* its nextAfter
  pages,        \* the pages it has read
  more,         \* the hasMore of its last page
  held,         \* the rows it has read
  owed,         \* history: the rows past its cursor that were stored when it started
  alone,        \* history: no other pull has been at work since it started
  cursor,       \* the desk's saved cursor
  file,         \* the rows in the desk's pull file
  filed,        \* history: the rows that have been in it at some time
  pushes, faults,
  overtaken     \* history: rows inserted below a row that was already there

store   == <<log, counter, threadLast>>
pushing == <<pc, todo, drawn, results>>
pulling == <<stage, at, pages, more, held, owed, alone>>
desk    == <<cursor, file, filed>>
vars    == <<store, pushing, acked, pulling, desk, pushes, faults, overtaken>>

Result == [msg : Messages, seq : Nat]

TypeOK ==
  /\ log \in [Messages -> Nat]
  /\ counter \in Nat
  /\ threadLast \in Nat
  /\ pc \in [Pushers -> {"idle", "find", "draw", "insert", "meta", "answer"}]
  /\ todo \in [Pushers -> Seq(Messages)]
  /\ \A p \in Pushers : pc[p] \in {"find", "draw", "insert"} => todo[p] # <<>>
  /\ drawn \in [Pushers -> Nat]
  /\ results \in [Pushers -> SUBSET Result]
  /\ acked \in SUBSET Result
  /\ stage \in [Pullers -> {"idle", "paging", "writing", "saving", "recovered"}]
  /\ at \in [Pullers -> Nat]
  /\ pages \in [Pullers -> Nat]
  /\ more \in [Pullers -> BOOLEAN]
  /\ held \in [Pullers -> SUBSET Messages]
  /\ owed \in [Pullers -> SUBSET Messages]
  /\ alone \in [Pullers -> BOOLEAN]
  /\ cursor \in Nat
  /\ file \in SUBSET Messages
  /\ filed \in SUBSET Messages
  /\ pushes \in 0..MaxPushes
  /\ faults \in 0..MaxFaults
  /\ overtaken \in SUBSET Messages

Init ==
  /\ log = [m \in Messages |-> 0]
  /\ counter = 0
  /\ threadLast = 0
  /\ pc = [p \in Pushers |-> "idle"]
  /\ todo = [p \in Pushers |-> <<>>]
  /\ drawn = [p \in Pushers |-> 0]
  /\ results = [p \in Pushers |-> {}]
  /\ acked = {}
  /\ stage = [q \in Pullers |-> "idle"]
  /\ at = [q \in Pullers |-> 0]
  /\ pages = [q \in Pullers |-> 0]
  /\ more = [q \in Pullers |-> TRUE]
  /\ held = [q \in Pullers |-> {}]
  /\ owed = [q \in Pullers |-> {}]
  /\ alone = [q \in Pullers |-> FALSE]
  /\ cursor = 0
  /\ file = {}
  /\ filed = {}
  /\ pushes = 0
  /\ faults = 0
  /\ overtaken = {}

Stored == {m \in Messages : log[m] > 0}

Later(a, b) == IF a > b THEN a ELSE b

-----------------------------------------------------------------------------
(* pushMessages *)

\* A request arrives: a new one, or one a sender repeats for want of an answer.
Push(p, batch) ==
  /\ pc[p] = "idle"
  /\ pushes < MaxPushes
  /\ pushes' = pushes + 1
  /\ pc' = [pc EXCEPT ![p] = "find"]
  /\ todo' = [todo EXCEPT ![p] = batch]
  /\ UNCHANGED <<store, drawn, results, acked, pulling, desk, faults, overtaken>>

\* Mistake: the loop does not end with its last message.
SettleAndGoOn(p, r) ==
  /\ results' = [results EXCEPT ![p] = @ \cup {r}]
  /\ todo' = [todo EXCEPT ![p] = Tail(@)]
  /\ pc' = [pc EXCEPT ![p] = "find"]
  /\ drawn' = [drawn EXCEPT ![p] = 0]

\* The current message of p is done, with result r.
Settle(p, r) ==
  /\ results' = [results EXCEPT ![p] = @ \cup {r}]
  /\ todo' = [todo EXCEPT ![p] = Tail(@)]
  /\ pc' = [pc EXCEPT ![p] = IF Tail(todo[p]) = <<>> THEN "meta" ELSE "find"]
  /\ drawn' = [drawn EXCEPT ![p] = 0]

\* findOne: a row with this id is a duplicate, reported under the seq it has.
Find(p) ==
  LET m == Head(todo[p]) IN
  /\ pc[p] = "find"
  /\ \/ /\ log[m] > 0
        /\ Settle(p, [msg |-> m, seq |-> log[m]])
     \/ /\ log[m] = 0
        /\ pc' = [pc EXCEPT ![p] = "draw"]
        /\ UNCHANGED <<todo, drawn, results>>
  /\ UNCHANGED <<store, acked, pulling, desk, pushes, faults, overtaken>>

\* nextSeq: one atomic findOneAndUpdate with $inc.
NextSeq(p) ==
  /\ pc[p] = "draw"
  /\ drawn' = [drawn EXCEPT ![p] = counter + 1]
  /\ counter' = counter + 1
  /\ pc' = [pc EXCEPT ![p] = "insert"]
  /\ UNCHANGED <<log, threadLast, todo, results, acked, pulling, desk, pushes, faults, overtaken>>

\* Mistakes of the insert: the loser of a race reports the seq it drew, and a
\* replace in place of an insert.
DuplicateReportsDrawn(p) ==
  LET m == Head(todo[p]) IN
  /\ pc[p] = "insert"
  /\ log' = [log EXCEPT ![m] = IF @ > 0 THEN @ ELSE drawn[p]]
  /\ Settle(p, [msg |-> m, seq |-> drawn[p]])
  /\ UNCHANGED <<counter, threadLast, acked, pulling, desk, pushes, faults, overtaken>>

InsertReplaces(p) ==
  LET m == Head(todo[p]) IN
  /\ pc[p] = "insert"
  /\ log' = [log EXCEPT ![m] = drawn[p]]
  /\ overtaken' = IF \E n \in Stored : log[n] > drawn[p] THEN overtaken \cup {m} ELSE overtaken
  /\ Settle(p, [msg |-> m, seq |-> drawn[p]])
  /\ UNCHANGED <<counter, threadLast, acked, pulling, desk, pushes, faults>>

\* insertOne under the unique index {threadId, messageId}; error 11000 means that
\* another request was first, and leaves the drawn seq unused.
Insert(p) ==
  LET m == Head(todo[p]) IN
  /\ pc[p] = "insert"
  /\ \/ /\ log[m] = 0
        /\ log' = [log EXCEPT ![m] = drawn[p]]
        /\ overtaken' = IF \E n \in Stored : log[n] > drawn[p]
                        THEN overtaken \cup {m} ELSE overtaken
        /\ Settle(p, [msg |-> m, seq |-> drawn[p]])
     \/ /\ log[m] > 0
        /\ Settle(p, [msg |-> m, seq |-> log[m]])
        /\ UNCHANGED <<log, overtaken>>
  /\ UNCHANGED <<counter, threadLast, acked, pulling, desk, pushes, faults>>

\* upsertThreadMeta, as far as lastSeq goes: the highest seq of the request is
\* $max-ed in, or inserted with a new thread (which starts over when it loses
\* that race).
UpsertThreadMeta(p) ==
  /\ pc[p] = "meta"
  /\ \E r \in results[p] :
       /\ \A s \in results[p] : s.seq <= r.seq
       /\ threadLast' = Later(threadLast, r.seq)
  /\ pc' = [pc EXCEPT ![p] = "answer"]
  /\ UNCHANGED <<log, counter, todo, drawn, results, acked, pulling, desk, pushes, faults, overtaken>>

\* Request p is over.
Finish(p) ==
  /\ pc' = [pc EXCEPT ![p] = "idle"]
  /\ todo' = [todo EXCEPT ![p] = <<>>]
  /\ drawn' = [drawn EXCEPT ![p] = 0]
  /\ results' = [results EXCEPT ![p] = {}]

\* The answer reaches the sender.  A desk that pushes does not move its own cursor.
PushAnswered(p) ==
  /\ pc[p] = "answer"
  /\ acked' = acked \cup results[p]
  /\ Finish(p)
  /\ UNCHANGED <<store, pulling, desk, pushes, faults, overtaken>>

\* A database error, a later message that is invalid, the end of the process, or an
\* answer that is lost: what was stored stays, nothing else happens.
PushBreaksOff(p) ==
  /\ pc[p] # "idle"
  /\ faults < MaxFaults
  /\ faults' = faults + 1
  /\ Finish(p)
  /\ UNCHANGED <<store, acked, pulling, desk, pushes, overtaken>>

-----------------------------------------------------------------------------
(* cmdPull of chat-sync *)

Pulling(q) == stage[q] \in {"paging", "writing", "saving"}

\* A pull loads the cursor and starts from there.
StartPull(q) ==
  /\ ~Pulling(q)
  /\ stage' = [stage EXCEPT ![q] = "paging"]
  /\ at' = [at EXCEPT ![q] = cursor]
  /\ owed' = [owed EXCEPT ![q] = {m \in Stored : log[m] > cursor}]
  /\ alone' = [o \in Pullers |-> o = q /\ \A p \in Pullers : ~Pulling(p)]
  /\ UNCHANGED <<store, pushing, acked, pages, more, held, desk, pushes, faults, overtaken>>

\* Mistake: a page is any set of rows past the cursor.
IsPageUnsorted(P, after) ==
  LET fresh == {m \in Messages : log[m] > after} IN
  /\ P \subseteq fresh
  /\ Cardinality(P) <= PageLimit
  /\ P = fresh \/ Cardinality(P) = PageLimit

\* pullMessages: the first PageLimit rows past the cursor, or all of them.
IsPage(P, after) ==
  LET fresh == {m \in Messages : log[m] > after} IN
  /\ P \subseteq fresh
  /\ Cardinality(P) <= PageLimit
  /\ P = fresh \/ Cardinality(P) = PageLimit
  /\ \A m \in P, n \in fresh \ P : log[m] < log[n]

\* nextAfter: the seq of the page's last row, or the cursor it came from.
NextAfter(P, after, n) ==
  \/ P = {} /\ n = after
  \/ \E m \in P : n = log[m] /\ \A k \in P : log[k] <= n

PullPage(q) ==
  /\ stage[q] = "paging"
  /\ \E P \in SUBSET Messages, n \in 0..counter :
       /\ IsPage(P, at[q])
       /\ NextAfter(P, at[q], n)
       /\ held' = [held EXCEPT ![q] = @ \cup P]
       /\ at' = [at EXCEPT ![q] = n]
       /\ more' = [more EXCEPT ![q] = Cardinality(P) = PageLimit]
  /\ pages' = [pages EXCEPT ![q] = @ + 1]
  /\ stage' = [stage EXCEPT ![q] = IF more'[q] /\ pages'[q] < PageCap[q] THEN "paging" ELSE "writing"]
  /\ UNCHANGED <<store, pushing, acked, owed, alone, desk, pushes, faults, overtaken>>

\* Its rows replace those of the pull file ...
WritePull(q) ==
  /\ stage[q] = "writing"
  /\ file' = held[q]
  /\ filed' = filed \cup held[q]
  /\ stage' = [stage EXCEPT ![q] = "saving"]
  /\ UNCHANGED <<store, pushing, acked, at, pages, more, held, owed, alone, cursor, pushes, faults,
                 overtaken>>

\* Pull q is over; with success it has returned the rows it held.
EndPull(q, success) ==
  /\ stage' = [stage EXCEPT ![q] = IF success THEN "recovered" ELSE "idle"]
  /\ at' = [at EXCEPT ![q] = 0]
  /\ pages' = [pages EXCEPT ![q] = 0]
  /\ more' = [more EXCEPT ![q] = TRUE]
  /\ held' = [held EXCEPT ![q] = {}]
  /\ owed' = [owed EXCEPT ![q] = {}]
  /\ alone' = [alone EXCEPT ![q] = FALSE]

\* Mistakes: a capped pull counts as complete, a capped pull forgets its progress.
CappedPullRecovers(q) ==
  /\ stage[q] = "saving"
  /\ cursor' = at[q]
  /\ EndPull(q, TRUE)
  /\ UNCHANGED <<store, pushing, acked, file, filed, pushes, faults, overtaken>>

CappedPullForgets(q) ==
  /\ stage[q] = "saving"
  /\ cursor' = IF more[q] THEN cursor ELSE at[q]
  /\ EndPull(q, ~more[q])
  /\ UNCHANGED <<store, pushing, acked, file, filed, pushes, faults, overtaken>>

\* ... and the cursor is saved, whether or not the page cap cut the pull short; a
\* pull that was cut short is reported as a failure.
SavePull(q) ==
  /\ stage[q] = "saving"
  /\ cursor' = at[q]
  /\ EndPull(q, ~more[q])
  /\ UNCHANGED <<store, pushing, acked, file, filed, pushes, faults, overtaken>>

\* Mistake: the cursor is saved however the pull ends.
BrokenPullSaves(q) ==
  /\ Pulling(q)
  /\ faults < MaxFaults
  /\ faults' = faults + 1
  /\ cursor' = at[q]
  /\ EndPull(q, FALSE)
  /\ UNCHANGED <<store, pushing, acked, file, filed, pushes, overtaken>>

\* A page request times out or the process dies: what it held is gone.
PullBreaksOff(q) ==
  /\ Pulling(q)
  /\ faults < MaxFaults
  /\ faults' = faults + 1
  /\ EndPull(q, FALSE)
  /\ UNCHANGED <<store, pushing, acked, desk, pushes, overtaken>>

-----------------------------------------------------------------------------

ServePush(p) ==
  \/ Find(p) \/ NextSeq(p) \/ Insert(p) \/ UpsertThreadMeta(p) \/ PushAnswered(p)

RunPull(q) ==
  StartPull(q) \/ PullPage(q) \/ WritePull(q) \/ SavePull(q)

Next ==
  \/ \E p \in Pushers : \/ \E b \in Batches : Push(p, b)
                        \/ ServePush(p)
                        \/ PushBreaksOff(p)
  \/ \E q \in Pullers : RunPull(q) \/ PullBreaksOff(q)

Spec == Init /\ [][Next]_vars

\* A desk that keeps pulling.  Nobody has to push, and a request may hang.
Fairness == WF_vars(\E q \in Pullers : RunPull(q))

FairSpec == Spec /\ Fairness

-----------------------------------------------------------------------------
(* Properties *)

\* No two rows share a seq, although the seq is drawn one call before the insert and
\* duplicates give theirs up: pages sorted by seq have one possible order.
UniqueSeqs ==
  \A m, n \in Stored : log[m] = log[n] => m = n

\* What a sender is told is what the log says: the loser of an insert race reports
\* the winner's seq, and a resend the seq of the first time.
AckedIsStored ==
  \A r \in acked : log[r.msg] = r.seq

\* An answered request has raised the thread's lastSeq to cover its rows, whatever
\* slower requests did in between.
ThreadLastCoversAcked ==
  \A r \in acked : r.seq <= threadLast

\* What the answer to a push says holds: the seq is the row's and nobody else's, and
\* the thread has heard of it.
AcksHold == UniqueSeqs /\ AckedIsStored /\ ThreadLastCoversAcked

\* Append-only: a row never changes its place and never disappears.
AppendOnly ==
  [][\A m \in Stored : log'[m] = log[m]]_vars

\* The saved cursor moves past a row only after the row has been in the pull file, or
\* when it was inserted late, below a row that was there before it: paging, page caps,
\* lost pulls and two pulls of one desk at a time never skip one.  The file need not
\* hold the row any more: the next pull, or another one at work, overwrites it.
NoSkippedRow ==
  \A m \in Stored : log[m] <= cursor => m \in filed \cup overtaken

\* A pull that reports success returns every row past its cursor that was stored when
\* it started, and if no other pull has been at work since, the file has just these.
RecoveredMeansCaughtUp ==
  [][\A q \in Pullers : stage[q] = "saving" /\ stage'[q] = "recovered" =>
       /\ owed[q] \subseteq held[q]
       /\ alone[q] => file = held[q]]_vars

\* All this comes to a log to which rows are added one at a time, and a desk that is
\* shown one set of its rows after another: whatever happens between find, draw, insert
\* and answer, or between two pages, is a step of it or is not seen.
Shared == INSTANCE ThreadLog
  WITH place <- log, told <- acked, late <- overtaken, marker <- cursor,
       page <- file, shown <- filed

KeepsLog == Shared!Spec

\* A desk that keeps pulling finds every row in its pull file at some time, however
\* small the page cap.
EventuallyPulled ==
  \A m \in Messages : log[m] > 0 ~> m \in filed \cup overtaken

=============================================================================

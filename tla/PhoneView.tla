----------------------------- MODULE PhoneView -----------------------------
(***************************************************************************)
(* One chat view of the phone app (app/js/chat.js, thread-model.js and     *)
(* compose-model.js) and the Hub it talks to.                              *)
(*                                                                         *)
(* The view shows one thread, or the draft of a new one.  It fills its     *)
(* message model from four places that overlap: the load when it opens,    *)
(* the poller, the answer of a send, and the pull after a send.  Every     *)
(* pull asks for the rows after a number the model gives; the rows it gets *)
(* may be old when they are applied.  A send that fails can be retried     *)
(* under the same clientMessageId.                                         *)
(*                                                                         *)
(* Rows are numbered in the order in which they become visible (ChatLog    *)
(* has the case in which they do not).  Hiding and showing the page is     *)
(* in Poller, the way a reply comes about in ReplyQueue.                   *)
(***************************************************************************)
EXTENDS Naturals, Sequences, FiniteSets, FiniteSetsExt, Functions

CONSTANTS
  Threads,
  Old,         \* a thread that is there already
  Openings,    \* what the view may be opened on: Old, or None for a draft
  Sends,       \* the messages typed into the view (clientMessageIds)
  PageSize,    \* rows per pull (500)
  MaxRows,     \* bound: rows on the Hub
  MaxFaults,   \* bound: requests that fail, and an unshared thread
  None

Other   == "other"                       \* author of every row that is not ours
Load    == "load"
Tick    == "tick"
Fetches == {Load, Tick} \cup Sends       \* what pulls: a send pulls when answered
Status  == {"none", "waiting", "replied", "error"}   \* pending or claimed is waiting
Rows    == [thread : Threads, id : Sends \cup {Other}, status : Status]

ASSUME PhoneViewAssumption ==
  /\ Old \in Threads /\ None \notin Threads /\ Openings \subseteq {Old, None}
  /\ Sends \cap {Other, Load, Tick} = {}
  /\ PageSize \in Nat \ {0} /\ MaxRows \in Nat /\ MaxFaults \in Nat

VARIABLES
  hub,         \* the Hub's rows; the number of a row is its place
  shared,      \* whether the phone may read and write its threads
  cur,         \* currentThreadId
  mode,        \* "draft", "loading", "polling" or "dead" (no poller)
  shown,       \* the message model: number -> the status of its reply
  pend,        \* pendingSends, and the messages not yet typed
  req,         \* the request of each send
  retry,       \* the request that asks for another reply
  fetch,       \* the pulls under way
  faults

vars == <<hub, shared, cur, mode, shown, pend, req, retry, fetch, faults>>

NoReq   == [at |-> "idle", thread |-> None, seq |-> 0, status |-> "none"]
NoRetry == [at |-> "idle", seq |-> 0]
NoFetch == [at |-> "idle", after |-> 0, page |-> <<>>]

TypeOK ==
  /\ hub \in Seq(Rows) /\ Len(hub) <= MaxRows
  /\ shared \in BOOLEAN
  /\ cur \in Threads \cup {None}
  /\ mode \in {"draft", "loading", "polling", "dead"}
  /\ mode # "draft" => cur # None
  /\ DOMAIN shown \subseteq 1..Len(hub) /\ \A i \in DOMAIN shown : shown[i] \in Status
  /\ pend \in [Sends -> {"new", "sending", "failed", "settled", "discarded"}]
  /\ \A s \in Sends :
       /\ req[s].at \in {"idle", "asked", "stored", "refused"}
       /\ req[s].thread \in Threads \cup {None}
       /\ req[s].at = "stored" => req[s].thread # None /\ hub[req[s].seq].id = s
  /\ retry.at \in {"idle", "asked", "done", "refused"}
  /\ retry.at # "idle" => retry.seq \in DOMAIN shown
  /\ \A f \in Fetches :
       /\ fetch[f].at \in {"idle", "asked", "answered", "refused"}
       /\ fetch[f].after \in 0..MaxRows
       /\ DOMAIN fetch[f].page \subseteq 1..Len(hub)
  /\ faults \in 0..MaxFaults

Init ==
  /\ hub = <<>> /\ shared = TRUE
  /\ cur \in Openings
  /\ mode = IF cur = None THEN "draft" ELSE "loading"
  /\ shown = <<>>
  /\ pend = [s \in Sends |-> "new"]
  /\ req = [s \in Sends |-> NoReq]
  /\ retry = NoRetry
  /\ fetch = [f \in Fetches |-> NoFetch]
  /\ faults = 0

-----------------------------------------------------------------------------
(* Helpers *)

Fault == faults < MaxFaults /\ faults' = faults + 1

Own(i) == hub[i].id \in Sends

\* lastSeq of a message model
LastSeqOf(m) == Max(DOMAIN m \cup {0})
LastSeq == LastSeqOf(shown)

\* latestPhoneUserMessage of a message model: its number, or 0
LatestPhoneOf(m) == Max({i \in DOMAIN m : Own(i)} \cup {0})
LatestPhone == LatestPhoneOf(shown)

\* Mistake: a reply that is on its way is not watched.
PullAfterNewest(m) == LastSeqOf(m)

\* Mistake: the number asked from is the first one wanted, not the last one had.
PullAfterNext(m) == LastSeqOf(m) + 1

\* pullAfterForReplyWatch
PullAfter(m) ==
  LET i == LatestPhoneOf(m)
  IN  IF i # 0 /\ m[i] \in {"waiting", "error"} THEN i - 1 ELSE LastSeqOf(m)

ThreadRows(t) == {i \in DOMAIN hub : hub[i].thread = t}

\* Mistake: a page is cut from the newest rows.
PageNumbersNewest(after) ==
  LET later == {i \in ThreadRows(cur) : i > after}
  IN  {i \in later : Cardinality({j \in later : j >= i}) <= PageSize}

\* pullMessages on the Hub: the first rows of the thread after a number.
PageNumbers(after) ==
  LET later == {i \in ThreadRows(cur) : i > after}
  IN  {i \in later : Cardinality({j \in later : j <= i}) <= PageSize}

PageAfter(after) == [i \in PageNumbers(after) |-> hub[i].status]

\* applyMessages: new rows are added, known ones get their reply replaced.
ApplyMessages(page) ==
  shown' = [i \in DOMAIN shown \cup DOMAIN page |->
              IF i \in DOMAIN page THEN page[i] ELSE shown[i]]

Ask(f, after) ==
  /\ fetch[f].at = "idle"
  /\ fetch' = [fetch EXCEPT ![f] = [at |-> "asked", after |-> after, page |-> <<>>]]

Done(f) == fetch' = [fetch EXCEPT ![f] = NoFetch]

-----------------------------------------------------------------------------
(* The Hub *)

AddRow(t, id, status) ==
  /\ Len(hub) < MaxRows
  /\ hub' = Append(hub, [thread |-> t, id |-> id, status |-> status])

\* Another desk, or the runner, pushes a row to the thread.
OtherPushes ==
  /\ \E t \in Threads : (t = Old \/ ThreadRows(t) # {}) /\ AddRow(t, Other, "none")
  /\ UNCHANGED <<shared, cur, mode, shown, pend, req, retry, fetch, faults>>

\* The reply of a message makes its way (ReplyQueue).
ReplyMoves ==
  /\ \E i \in DOMAIN hub :
       /\ hub[i].status = "waiting"
       /\ \E to \in {"replied", "error"} : hub' = [hub EXCEPT ![i].status = to]
  /\ UNCHANGED <<shared, cur, mode, shown, pend, req, retry, fetch, faults>>

\* A desk takes the thread back from the phone.
Unshare ==
  /\ shared /\ Fault
  /\ shared' = FALSE
  /\ UNCHANGED <<hub, cur, mode, shown, pend, req, retry, fetch>>

\* The Hub reads the rows a pull asks for, or refuses.
HubPage(f) ==
  /\ fetch[f].at = "asked"
  /\ fetch' = [fetch EXCEPT
       ![f].at = IF shared THEN "answered" ELSE "refused",
       ![f].page = IF shared THEN PageAfter(fetch[f].after) ELSE <<>>]
  /\ UNCHANGED <<hub, shared, cur, mode, shown, pend, req, retry, faults>>

-----------------------------------------------------------------------------
(* Loading and polling *)

\* pullAll asks for the first page.
LoadStart ==
  /\ mode = "loading" /\ Ask(Load, 0)
  /\ UNCHANGED <<hub, shared, cur, mode, shown, pend, req, retry, faults>>

\* A page of the load: a full one is followed by the next, the last one starts the
\* poller.
LoadPage ==
  LET page == fetch[Load].page IN
  /\ fetch[Load].at = "answered"
  /\ ApplyMessages(page)
  /\ IF Cardinality(DOMAIN page) = PageSize
     THEN /\ fetch' = [fetch EXCEPT ![Load] = [at |-> "asked", after |-> Max(DOMAIN page),
                                               page |-> <<>>]]
          /\ UNCHANGED mode
     ELSE Done(Load) /\ mode' = "polling"
  /\ UNCHANGED <<hub, shared, cur, pend, req, retry, faults>>

\* The load fails: the view says so and has no poller.
LoadFails ==
  /\ \/ fetch[Load].at = "refused" /\ UNCHANGED faults
     \/ fetch[Load].at \in {"asked", "answered"} /\ Fault
  /\ Done(Load)
  /\ mode' = "dead"
  /\ UNCHANGED <<hub, shared, cur, shown, pend, req, retry>>

TickStart ==
  /\ mode = "polling" /\ Ask(Tick, PullAfter(shown))
  /\ UNCHANGED <<hub, shared, cur, mode, shown, pend, req, retry, faults>>

\* Rows that have arrived are no longer pending.
TickPage ==
  LET page == fetch[Tick].page
      confirmed == {hub[i].id : i \in DOMAIN page}
  IN
  /\ fetch[Tick].at = "answered"
  /\ ApplyMessages(page)
  /\ pend' = [s \in Sends |-> IF s \in confirmed THEN "settled" ELSE pend[s]]
  /\ Done(Tick)
  /\ UNCHANGED <<hub, shared, cur, mode, req, retry, faults>>

\* A tick that fails leaves it to the next; one that is refused stops the poller.
TickFails ==
  /\ \/ fetch[Tick].at = "refused" /\ mode' = "dead" /\ UNCHANGED faults
     \/ fetch[Tick].at \in {"asked", "answered"} /\ Fault /\ UNCHANGED mode
  /\ Done(Tick)
  /\ UNCHANGED <<hub, shared, cur, shown, pend, req, retry>>

-----------------------------------------------------------------------------
(* doSend *)

\* The message is pending from here on, and goes to the thread the view has now.
SendStart(s) ==
  /\ pend[s] \in {"new", "failed"} /\ req[s].at = "idle" /\ fetch[s].at = "idle"
  /\ pend' = [pend EXCEPT ![s] = "sending"]
  /\ req' = [req EXCEPT ![s] = [NoReq EXCEPT !.at = "asked", !.thread = cur]]
  /\ UNCHANGED <<hub, shared, cur, mode, shown, retry, fetch, faults>>

\* Where the Hub has, or puts, message s of thread t.
Stored(t, s) == {i \in ThreadRows(t) : hub[i].id = s}

\* Mistake: the Hub does not look for the message.
InsertBlindly(t, s) == AddRow(t, s, "waiting")

\* pushMessages: a message the thread has is reported as a duplicate.
Insert(t, s) ==
  IF Stored(t, s) # {} THEN UNCHANGED hub ELSE AddRow(t, s, "waiting")

\* The Hub handles the send: without a thread in a new one, else in the thread, unless
\* it is no longer shared.
HubSend(s) ==
  /\ req[s].at = "asked"
  /\ IF req[s].thread # None /\ ~shared
     THEN req' = [req EXCEPT ![s].at = "refused"] /\ UNCHANGED hub
     ELSE \E t \in IF req[s].thread # None THEN {req[s].thread}
                   ELSE {u \in Threads \ {Old} : ThreadRows(u) = {}} :
            /\ Insert(t, s)
            /\ \E i \in DOMAIN hub' :
                 /\ hub'[i].thread = t /\ hub'[i].id = s
                 /\ req' = [req EXCEPT ![s] = [at |-> "stored", thread |-> t, seq |-> i,
                                               status |-> hub'[i].status]]
  /\ UNCHANGED <<shared, cur, mode, shown, pend, retry, fetch, faults>>

\* The answer: a draft becomes the thread, the message is confirmed with the number and
\* the status the Hub gave, and the send pulls.
SendAnswered(s) ==
  LET i == req[s].seq IN
  /\ req[s].at = "stored"
  /\ IF cur = None THEN cur' = req[s].thread /\ mode' = "polling" ELSE UNCHANGED <<cur, mode>>
  /\ pend' = [pend EXCEPT ![s] = IF @ = "discarded" THEN @ ELSE "settled"]
  /\ shown' = [j \in DOMAIN shown \cup {i} |-> IF j = i THEN req[s].status ELSE shown[j]]
  /\ Ask(s, PullAfter(shown'))
  /\ req' = [req EXCEPT ![s] = NoReq]
  /\ UNCHANGED <<hub, shared, retry, faults>>

\* Mistake: a send that fails takes its text with it.
SendFailsForgetting(s) ==
  /\ \/ req[s].at = "refused" /\ UNCHANGED faults
     \/ req[s].at \in {"asked", "stored"} /\ Fault
  /\ req' = [req EXCEPT ![s] = NoReq]
  /\ pend' = [pend EXCEPT ![s] = "settled"]
  /\ UNCHANGED <<hub, shared, cur, mode, shown, retry, fetch>>

\* The request is refused, or lost before or after the Hub has handled it.  A message
\* that a tick has confirmed meanwhile is not pending any more.
SendFails(s) ==
  /\ \/ req[s].at = "refused" /\ UNCHANGED faults
     \/ req[s].at \in {"asked", "stored"} /\ Fault
  /\ req' = [req EXCEPT ![s] = NoReq]
  /\ pend' = [pend EXCEPT ![s] = IF @ = "sending" THEN "failed" ELSE @]
  /\ UNCHANGED <<hub, shared, cur, mode, shown, retry, fetch>>

SendPage(s) ==
  /\ fetch[s].at = "answered"
  /\ ApplyMessages(fetch[s].page)
  /\ Done(s)
  /\ UNCHANGED <<hub, shared, cur, mode, pend, req, retry, faults>>

SendPageFails(s) ==
  /\ \/ fetch[s].at = "refused" /\ UNCHANGED faults
     \/ fetch[s].at \in {"asked", "answered"} /\ Fault
  /\ Done(s)
  /\ UNCHANGED <<hub, shared, cur, mode, shown, pend, req, retry>>

\* A failed message that has not turned up can be discarded.
Discard(s) ==
  /\ pend[s] = "failed" /\ ~\E i \in DOMAIN shown : hub[i].id = s
  /\ pend' = [pend EXCEPT ![s] = "discarded"]
  /\ UNCHANGED <<hub, shared, cur, mode, shown, req, retry, fetch, faults>>

-----------------------------------------------------------------------------
(* doRetryReply *)

RetryStart ==
  /\ retry.at = "idle" /\ cur # None
  /\ LatestPhone # 0 /\ shown[LatestPhone] = "error"
  /\ retry' = [at |-> "asked", seq |-> LatestPhone]
  /\ UNCHANGED <<hub, shared, cur, mode, shown, pend, req, fetch, faults>>

HubRetry ==
  LET i == retry.seq
      ok == shared /\ hub[i].thread = cur /\ hub[i].status = "error"
  IN
  /\ retry.at = "asked"
  /\ retry' = [retry EXCEPT !.at = IF ok THEN "done" ELSE "refused"]
  /\ hub' = IF ok THEN [hub EXCEPT ![i].status = "waiting"] ELSE hub
  /\ UNCHANGED <<shared, cur, mode, shown, pend, req, fetch, faults>>

\* patchMessage; a retry that is refused or lost changes nothing.
RetryEnds ==
  /\ \/ /\ retry.at = "done"
        /\ shown' = [shown EXCEPT ![retry.seq] = "waiting"]
        /\ UNCHANGED faults
     \/ retry.at = "refused" /\ UNCHANGED <<shown, faults>>
     \/ retry.at \in {"asked", "done"} /\ Fault /\ UNCHANGED shown
  /\ retry' = NoRetry
  /\ UNCHANGED <<hub, shared, cur, mode, pend, req, fetch>>

-----------------------------------------------------------------------------

Pulls ==
  \/ LoadStart \/ LoadPage \/ LoadFails
  \/ TickStart \/ TickPage \/ TickFails
  \/ \E f \in Fetches : HubPage(f)

Answers(s) == HubSend(s) \/ SendAnswered(s) \/ SendFails(s) \/ SendPage(s) \/ SendPageFails(s)

Next ==
  \/ OtherPushes \/ ReplyMoves \/ Unshare
  \/ Pulls
  \/ \E s \in Sends : SendStart(s) \/ Answers(s) \/ Discard(s)
  \/ RetryStart \/ HubRetry \/ RetryEnds

Spec == Init /\ [][Next]_vars

\* Requests are answered or fail, and the poller ticks as long as the page is visible
\* (KeepsPolling of Poller).
Fairness ==
  /\ WF_vars(LoadStart) /\ WF_vars(LoadPage \/ LoadFails)
  /\ WF_vars(TickStart) /\ WF_vars(TickPage \/ TickFails)
  /\ \A f \in Fetches : WF_vars(HubPage(f))
  /\ \A s \in Sends : WF_vars(Answers(s))
  /\ WF_vars(HubRetry \/ RetryEnds)

FairSpec == Spec /\ Fairness

-----------------------------------------------------------------------------
(* Properties *)

\* What the view lacks below its newest row lies below a message of its own: pulls that
\* overlap, come back late or are cut to pages leave no other gap.
GapsLieBelowOwnRows ==
  \A i \in ThreadRows(cur) \ DOMAIN shown :
    i < LastSeq => \E j \in DOMAIN shown : j > i /\ Own(j)

\* A text that was sent is in the list of the pending ones or among the messages, until
\* the user discards it.
SentTextStays ==
  \A s \in Sends :
    pend[s] = "settled" => \E i \in DOMAIN shown : hub[i].id = s

\* However often it is retried, a message is in a thread at most once.
OncePerThread ==
  \A t \in Threads, s \in Sends : Cardinality(Stored(t, s)) <= 1

\* A pull that watches a reply gets a full page.
WatchFillsPage ==
  PullAfter(shown) < LastSeq /\ Cardinality(PageNumbers(PullAfter(shown))) = PageSize

\* Again and again a polling view has every row above its newest one, unless the reply
\* it watches has a page of rows above it: then the view stays where it is.
CatchesUp ==
  []<>(mode = "polling" => \/ \A i \in ThreadRows(cur) : i <= LastSeq
                           \/ WatchFillsPage)

\* A view that polls shows what became of its latest message: no answer that comes late
\* and no patch of its own hides it for good.
LatestReplyShown ==
  \A i \in 1..MaxRows :
    (i \in DOMAIN hub /\ hub[i].status = "replied" /\ i \in DOMAIN shown /\ hub[i].thread = cur)
      ~> (mode = "dead" \/ i # LatestPhone \/ shown[i] = "replied")

-----------------------------------------------------------------------------
(* A claim of the comments that the code does not keep *)

\* "poller will catch up": again and again a polling view lacks no row.
PollerCatchesUp ==
  []<>(mode = "polling" => ThreadRows(cur) \subseteq DOMAIN shown)

=============================================================================

----------------------------- MODULE ReplyQueue -----------------------------
(***************************************************************************)
(* The life of a phone message that waits for an answer.                   *)
(*                                                                         *)
(* The Hub keeps the reply state on the message's own row                  *)
(* (chat_messages.reply in services/gotchibot-api/store.mjs).  Four kinds  *)
(* of process act on it, each from an operating-system process of its own: *)
(* the API inserts the row and serves retryReply, the hub runners          *)
(* (runner.mjs) and the desk runners (desk-runner.mjs) claim, answer,      *)
(* complete or fail it.  They share nothing but the database, every        *)
(* database call is one atomic step, and anything may happen between two   *)
(* calls: another runner, a retry, a crash, a database error.              *)
(*                                                                         *)
(* Time is kept as the age of each claim, which is all the code compares   *)
(* it for, and requestedAt as a counter that orders requests.  A message   *)
(* is named by its seq.                                                    *)
(***************************************************************************)
EXTENDS Integers, FiniteSets

CONSTANTS
  Messages,        \* the seqs of the phone messages
  DeskThreads,     \* those of them sent in a project's desk thread
  HubRunners,      \* processes running createHubRunner
  DeskRunners,     \* processes running createDeskRunner
  Phones,          \* callers of retryReply
  HubStale,        \* staleMs of a hub runner's claim (5 min)
  DeskStale,       \* staleMs of a desk runner's claim (15 min)
  RetryStale,      \* REPLY_STALE_MS of retryReply (5 min)
  MaxAge,          \* a claim this old is as old as any
  MaxFaults,       \* bound: crashes and database errors
  MaxRetries,      \* bound: accepted retries
  None

Runners == HubRunners \cup DeskRunners

ASSUME ReplyQueueAssumption ==
  /\ Messages \subseteq Nat
  /\ DeskThreads \subseteq Messages
  /\ HubRunners \cap DeskRunners = {}
  /\ {HubStale, DeskStale, RetryStale, MaxAge, MaxFaults, MaxRetries} \subseteq Nat
  /\ HubStale < MaxAge /\ DeskStale < MaxAge /\ RetryStale < MaxAge
  /\ None \notin Messages

VARIABLES
  status,       \* reply.status, "none" before the row is inserted
  lane,         \* which runners may claim the row: threadKind "desk" or not
  requestedAt,  \* reply.requestedAt
  age,          \* how long ago reply.claimedAt is, while claimed
  attempts,     \* reply.attempts
  replyTo,      \* reply.replyMessageId
  answers,      \* the assistant rows pushed for phone messages
  pc,           \* where each runner is in tick
  job,          \* the message a runner claimed
  ticket,       \* the attempts value its claim returned
  retrying,     \* a retryReply between its checks and its write
  clock,        \* the latest requestedAt given out
  faults, retries,
  expired,      \* history: messages whose claim outlived its lease
  retried       \* history: messages a retry has reopened

rows    == <<status, lane, requestedAt, age, attempts, replyTo>>
workers == <<pc, job, ticket>>
bounds  == <<faults, retries>>
history == <<expired, retried>>
vars    == <<rows, answers, workers, retrying, clock, bounds, history>>

Statuses == {"none", "pending", "claimed", "replied", "error"}
Answer   == [msg : Messages, attempt : Nat, by : Runners]

TypeOK ==
  /\ status \in [Messages -> Statuses]
  /\ lane \in [Messages -> {"hub", "desk"}]
  /\ requestedAt \in [Messages -> Nat]
  /\ age \in [Messages -> 0..MaxAge]
  /\ attempts \in [Messages -> Nat]
  /\ replyTo \in [Messages -> Answer \cup {None}]
  /\ answers \in SUBSET Answer
  /\ pc \in [Runners -> {"idle", "thinking", "pushed", "completed", "failing"}]
  /\ job \in [Runners -> Messages \cup {None}]
  /\ ticket \in [Runners -> Nat]
  /\ retrying \in [Phones -> Messages \cup {None}]
  /\ clock \in Nat
  /\ faults \in 0..MaxFaults
  /\ retries \in 0..MaxRetries
  /\ expired \in SUBSET Messages
  /\ retried \in SUBSET Messages

Init ==
  /\ status = [m \in Messages |-> "none"]
  /\ lane = [m \in Messages |-> "hub"]
  /\ requestedAt = [m \in Messages |-> 0]
  /\ age = [m \in Messages |-> 0]
  /\ attempts = [m \in Messages |-> 0]
  /\ replyTo = [m \in Messages |-> None]
  /\ answers = {}
  /\ pc = [r \in Runners |-> "idle"]
  /\ job = [r \in Runners |-> None]
  /\ ticket = [r \in Runners |-> 0]
  /\ retrying = [p \in Phones |-> None]
  /\ clock = 0
  /\ faults = 0
  /\ retries = 0
  /\ expired = {}
  /\ retried = {}

-----------------------------------------------------------------------------
(* Helpers *)

LaneOf(r) == IF r \in DeskRunners THEN "desk" ELSE "hub"

Stale(l) == IF l = "desk" THEN DeskStale ELSE HubStale

\* A database call either succeeds, fails before it was applied, or is applied
\* and its acknowledgement is lost; the caller sees an exception in the last two.
Outcomes == {"ok", "notApplied", "applied"}

Charge(o) ==
  \/ o = "ok" /\ UNCHANGED faults
  \/ o # "ok" /\ faults < MaxFaults /\ faults' = faults + 1

\* now, for a request: the same millisecond as the last one or a later one.
Now == {clock, clock + 1}

\* Mistakes of the claim filter: it forgets the threadKind split, it takes a claim
\* that is exactly staleMs old, it never takes a claim back.
ClaimableInAnyLane(m, r) ==
  \/ status[m] = "pending"
  \/ status[m] = "claimed" /\ age[m] > Stale(LaneOf(r))

ClaimableTooEarly(m, r) ==
  /\ lane[m] = LaneOf(r)
  /\ \/ status[m] = "pending"
     \/ status[m] = "claimed" /\ age[m] >= Stale(LaneOf(r))

ClaimableOnce(m, r) ==
  lane[m] = LaneOf(r) /\ status[m] = "pending"

\* The filter of claimNextPendingReply for runner r.
Claimable(m, r) ==
  /\ lane[m] = LaneOf(r)
  /\ \/ status[m] = "pending"
     \/ status[m] = "claimed" /\ age[m] > Stale(LaneOf(r))

\* Its sort: oldest request first, seq between equals.
Before(m, n) ==
  \/ requestedAt[m] < requestedAt[n]
  \/ requestedAt[m] = requestedAt[n] /\ m < n

\* The check of retryReply.
Retryable(m) ==
  \/ status[m] = "error"
  \/ status[m] = "claimed" /\ age[m] > RetryStale

\* The attempt number a claim hands out, and the mistake of not counting it up.
AttemptNotCounted(m) == attempts[m]

NextAttempt(m) == attempts[m] + 1

\* Runner r goes on to its next step; once idle it has forgotten its claim.
Goto(r, step) ==
  /\ pc' = [pc EXCEPT ![r] = step]
  /\ job' = [job EXCEPT ![r] = IF step = "idle" THEN None ELSE @]
  /\ ticket' = [ticket EXCEPT ![r] = IF step = "idle" THEN 0 ELSE @]

\* The assistant row r pushes, and the mistake of leaving out who pushed it.
AnswerUnattributed(r) == [msg |-> job[r], attempt |-> ticket[r], by |-> None]

AnswerOf(r) == [msg |-> job[r], attempt |-> ticket[r], by |-> r]

-----------------------------------------------------------------------------
(* The API process *)

\* pushMessages for one user message.  A phone's row gets threadKind "desk" in a
\* desk thread; the MacBook desk's row (HUB_REPLY_DESK_IDS) never does.
SendMessage(m, writer) ==
  /\ status[m] = "none"
  /\ status' = [status EXCEPT ![m] = "pending"]
  /\ lane' = [lane EXCEPT ![m] =
                IF writer = "phone" /\ m \in DeskThreads THEN "desk" ELSE "hub"]
  /\ \E t \in Now :
       /\ requestedAt' = [requestedAt EXCEPT ![m] = t]
       /\ clock' = t
  /\ UNCHANGED <<age, attempts, replyTo, answers, workers, retrying, bounds, history>>

\* retryReply reads the row and checks it ...
RetryReplyCheck(p, m) ==
  /\ retrying[p] = None
  /\ retries < MaxRetries
  /\ Retryable(m)
  /\ retrying' = [retrying EXCEPT ![p] = m]
  /\ retries' = retries + 1
  /\ UNCHANGED <<rows, answers, workers, clock, faults, history>>

\* ... and then resets it, whatever it is by now.
RetryReplyWrite(p) ==
  LET m == retrying[p] IN
  /\ m # None
  /\ status' = [status EXCEPT ![m] = "pending"]
  /\ \E t \in Now :
       /\ requestedAt' = [requestedAt EXCEPT ![m] = t]
       /\ clock' = t
  /\ age' = [age EXCEPT ![m] = 0]
  /\ replyTo' = [replyTo EXCEPT ![m] = None]
  /\ retrying' = [retrying EXCEPT ![p] = None]
  /\ retried' = retried \cup {m}
  /\ UNCHANGED <<lane, attempts, answers, workers, bounds, expired>>

-----------------------------------------------------------------------------
(* The runner processes: one tick each at a time (tickBusy, busy). *)

ClaimNextPendingReply(r) ==
  /\ pc[r] = "idle"
  /\ \E m \in Messages :
       /\ Claimable(m, r)
       /\ \A n \in Messages \ {m} : Claimable(n, r) => Before(m, n)
       /\ status' = [status EXCEPT ![m] = "claimed"]
       /\ age' = [age EXCEPT ![m] = 0]
       /\ attempts' = [attempts EXCEPT ![m] = NextAttempt(m)]
       /\ job' = [job EXCEPT ![r] = m]
       /\ ticket' = [ticket EXCEPT ![r] = NextAttempt(m)]
  /\ pc' = [pc EXCEPT ![r] = "thinking"]
  /\ UNCHANGED <<lane, requestedAt, replyTo, answers, retrying, clock, bounds, history>>

\* Mistake: the tick swallows the exception and never reports it.
ModelFailsSilently(r) ==
  /\ pc[r] = "thinking"
  /\ Goto(r, "idle")
  /\ UNCHANGED <<rows, answers, retrying, clock, bounds, history>>

\* The model call throws, times out or returns no text.
ModelFails(r) ==
  /\ pc[r] = "thinking"
  /\ Goto(r, "failing")
  /\ UNCHANGED <<rows, answers, retrying, clock, bounds, history>>

\* Mistake: an insert that failed is taken for a success.
PushReplyUnchecked(r, o) ==
  /\ pc[r] = "thinking"
  /\ Charge(o)
  /\ answers' = IF o = "notApplied" THEN answers ELSE answers \cup {AnswerOf(r)}
  /\ Goto(r, "pushed")
  /\ UNCHANGED <<rows, retrying, clock, retries, history>>

\* The answer is inserted under a fresh message id.
PushReply(r, o) ==
  /\ pc[r] = "thinking"
  /\ Charge(o)
  /\ answers' = IF o = "notApplied" THEN answers ELSE answers \cup {AnswerOf(r)}
  /\ Goto(r, IF o = "ok" THEN "pushed" ELSE "failing")
  /\ UNCHANGED <<rows, retrying, clock, retries, history>>

\* completeReply looks at neither status nor runnerId.  Only the hub runner has
\* more to do in the same try block: its heartbeat.
CompleteReply(r, o) ==
  LET m == job[r] IN
  /\ pc[r] = "pushed"
  /\ Charge(o)
  /\ \/ o = "notApplied" /\ UNCHANGED <<status, age, replyTo>>
     \/ /\ o # "notApplied"
        /\ status' = [status EXCEPT ![m] = "replied"]
        /\ age' = [age EXCEPT ![m] = 0]
        /\ replyTo' = [replyTo EXCEPT ![m] = AnswerOf(r)]
  /\ Goto(r, IF o # "ok" THEN "failing"
             ELSE IF r \in HubRunners THEN "completed" ELSE "idle")
  /\ UNCHANGED <<lane, requestedAt, attempts, answers, retrying, clock, retries, history>>

\* A heartbeat that throws lands in the same catch as a failed model call.
Heartbeat(r, o) ==
  /\ pc[r] = "completed"
  /\ Charge(o)
  /\ Goto(r, IF o = "ok" THEN "idle" ELSE "failing")
  /\ UNCHANGED <<rows, answers, retrying, clock, retries, history>>

\* failReply looks at neither status nor runnerId; when it throws, tick gives up
\* and the row stays as it is.
FailReply(r, o) ==
  LET m == job[r] IN
  /\ pc[r] = "failing"
  /\ Charge(o)
  /\ \/ o = "notApplied" /\ UNCHANGED <<status, age>>
     \/ /\ o # "notApplied"
        /\ status' = [status EXCEPT ![m] = "error"]
        /\ age' = [age EXCEPT ![m] = 0]
  /\ Goto(r, "idle")
  /\ UNCHANGED <<lane, requestedAt, attempts, replyTo, answers, retrying, clock, retries, history>>

\* The process dies, or stop() gives up waiting for the tick; its successor is idle.
Crash(r) ==
  /\ pc[r] # "idle"
  /\ faults < MaxFaults
  /\ faults' = faults + 1
  /\ Goto(r, "idle")
  /\ UNCHANGED <<rows, answers, retrying, clock, retries, history>>

-----------------------------------------------------------------------------

\* Every claim grows older, up to MaxAge.
Tick ==
  LET older == [m \in Messages |->
                  IF status[m] = "claimed" /\ age[m] < MaxAge THEN age[m] + 1 ELSE age[m]]
  IN /\ age # older
     /\ age' = older
     /\ expired' = expired \cup
          {m \in Messages : status[m] = "claimed" /\ older[m] > Stale(lane[m])}
     /\ UNCHANGED <<status, lane, requestedAt, attempts, replyTo, answers, workers,
                    retrying, clock, bounds, retried>>

Work(r) ==
  \/ ModelFails(r)
  \/ \E o \in Outcomes : \/ PushReply(r, o) \/ CompleteReply(r, o)
                         \/ Heartbeat(r, o) \/ FailReply(r, o)

Next ==
  \/ \E m \in Messages, writer \in {"phone", "macbook"} : SendMessage(m, writer)
  \/ \E p \in Phones, m \in Messages : RetryReplyCheck(p, m)
  \/ \E p \in Phones : RetryReplyWrite(p)
  \/ \E r \in Runners : ClaimNextPendingReply(r) \/ Work(r) \/ Crash(r)
  \/ Tick

Spec == Init /\ [][Next]_vars

\* The runners poll forever, every model call ends (it is killed at its timeout),
\* the API finishes the requests it has accepted, and time passes.  Nobody has
\* to send, to retry or to crash.
Fairness ==
  /\ \A r \in Runners : WF_vars(ClaimNextPendingReply(r)) /\ WF_vars(Work(r))
  /\ \A p \in Phones : WF_vars(RetryReplyWrite(p))
  /\ WF_vars(Tick)

FairSpec == Spec /\ Fairness

-----------------------------------------------------------------------------
(* Properties *)

\* A row that says it was answered points at an answer to this very message that
\* is in the log: the runners insert first and complete afterwards.
RepliedHasAnswer ==
  \A m \in Messages :
    status[m] = "replied" => replyTo[m] \in answers /\ replyTo[m].msg = m

\* One claim leads to one answer at most: no two runners ever work on, or have
\* pushed for, the same (message, attempt).
OneAnswerPerClaim ==
  \A a, b \in answers : a.msg = b.msg /\ a.attempt = b.attempt => a = b

\* The threadKind split: a message is only ever answered by the runners of its lane.
AnsweredByItsLane ==
  \A a \in answers : LaneOf(a.by) = lane[a.msg]

\* A message gets a second answer only after a claim of it outlived its lease or a
\* retry reopened it; crashes and database errors alone never cause one.
SingleAnswerInLease ==
  \A a, b \in answers :
    a.msg = b.msg /\ a.msg \notin expired \cup retried => a = b

Working(r, m) == pc[r] # "idle" /\ job[r] = m /\ ticket[r] = attempts[m]

\* As long as no process or database call has failed, a claimed message has a
\* runner that holds its latest claim and is still going to settle it.
ClaimedHasWorker ==
  faults = 0 =>
    \A m \in Messages : status[m] = "claimed" => \E r \in Runners : Working(r, m)

\* Whatever crashes, a message that was sent is eventually answered or reported
\* as failed: the phone never shows "thinking" for good.
EventuallySettled ==
  \A m \in Messages :
    status[m] \in {"pending", "claimed"} ~> status[m] \in {"replied", "error"}

\* What the phone makes of the status: a message waits until it is settled.
Shown(s) ==
  IF s \in {"pending", "claimed"} THEN "waiting"
  ELSE IF s = "replied" THEN "answered"
  ELSE IF s = "error" THEN "failed" ELSE "none"

Promise == INSTANCE ReplyPromise
  WITH shown    <- [m \in Messages |-> Shown(status[m])],
       reopened <- expired \cup retried,
       troubled <- faults > 0

\* The queue with its claims, leases, retries, crashes and lost acknowledgements keeps
\* what the phone is promised.
KeepsPromise == Promise!Spec

=============================================================================

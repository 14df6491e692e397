-------------------------- MODULE ReplyQueueProofs --------------------------
(***************************************************************************)
(* Proofs about ReplyQueue for any messages, runners, phones, lease        *)
(* lengths and bounds.  The inductive invariant is built in layers; each   *)
(* layer is shown to be preserved by a step given the layers below it, in  *)
(* both states of the step.                                                *)
(***************************************************************************)
EXTENDS ReplyQueue, TLAPS

Busy(r) == pc[r] # "idle"

\* Layer 1: types, and a busy runner has a message.
Types ==
  /\ TypeOK
  /\ \A r \in Runners : Busy(r) => job[r] \in Messages

\* Layer 2: a claim number is handed out once, and never a later one than the row's.
Tickets ==
  /\ \A r \in Runners : Busy(r) =>
       /\ 1 <= ticket[r] /\ ticket[r] <= attempts[job[r]]
       /\ status[job[r]] # "none"
       /\ lane[job[r]] = LaneOf(r)
  /\ \A r, s \in Runners :
       Busy(r) /\ Busy(s) /\ job[r] = job[s] /\ ticket[r] = ticket[s] => r = s
  /\ \A a \in answers :
       /\ 1 <= a.attempt /\ a.attempt <= attempts[a.msg]
       /\ status[a.msg] # "none"
       /\ lane[a.msg] = LaneOf(a.by)

\* Layer 3: the answer of a claim, if there is one, is its holder's.
Authors ==
  /\ \A r \in Runners, a \in answers :
       Busy(r) /\ a.msg = job[r] /\ a.attempt = ticket[r]
         => pc[r] # "thinking" /\ a.by = r
  /\ OneAnswerPerClaim

\* Layer 4: what a runner pushed stays in the log, and replied rows point there.
Stored ==
  /\ \A r \in Runners : pc[r] \in {"pushed", "completed"} => AnswerOf(r) \in answers
  /\ RepliedHasAnswer

\* Layer 5: a message whose leases all held and that no retry touched was claimed
\* once at most, and not at all while it is pending.
Leases ==
  \A m \in Messages \ (expired \cup retried) :
    /\ attempts[m] <= 1
    /\ status[m] \in {"none", "pending"} => attempts[m] = 0
    /\ status[m] = "claimed" => age[m] <= Stale(lane[m])

\* Layer 6: the holder of the latest claim has settled it before it lets go.
Workers ==
  /\ ClaimedHasWorker
  /\ \A r \in Runners :
       /\ faults = 0
       /\ pc[r] = "completed"
       /\ ticket[r] = attempts[job[r]]
       => status[job[r]] # "claimed"

\* The bounds are natural numbers, by the assumption on the constants.
LEMMA Bounds ==
  /\ HubStale \in Nat /\ DeskStale \in Nat /\ RetryStale \in Nat
  /\ MaxAge \in Nat /\ MaxFaults \in Nat /\ MaxRetries \in Nat
BY ReplyQueueAssumption

\* The types hold before the first message is sent.
LEMMA TypesInit == Init => Types
BY ReplyQueueAssumption DEF Init, Types, TypeOK, Busy, Runners, Statuses

\* Every operation of the phone, the runners and the clock keeps the types.
LEMMA TypesStep == Types /\ [Next]_vars => Types'
<1> SUFFICES ASSUME Types, [Next]_vars PROVE Types'
  OBVIOUS
<1> USE ReplyQueueAssumption DEF Types, TypeOK, Busy, Statuses, Answer
<1>1. ASSUME NEW m \in Messages, NEW writer \in {"phone", "macbook"}, SendMessage(m, writer)
      PROVE  Types'
  BY <1>1 DEF SendMessage, Now, workers, bounds, history
<1>2. ASSUME NEW p \in Phones, NEW m \in Messages, RetryReplyCheck(p, m)
      PROVE  Types'
  BY <1>2 DEF RetryReplyCheck, rows, workers, history
<1>3. ASSUME NEW p \in Phones, RetryReplyWrite(p)
      PROVE  Types'
  <2> DEFINE m == retrying[p]
  <2>1. m \in Messages
    BY <1>3 DEF RetryReplyWrite
  <2>2. PICK t \in Now : /\ requestedAt' = [requestedAt EXCEPT ![m] = t]
                         /\ clock' = t
    BY <1>3 DEF RetryReplyWrite
  <2>3. t \in Nat
    BY DEF Now
  <2>4. /\ status' = [status EXCEPT ![m] = "pending"]
        /\ age' = [age EXCEPT ![m] = 0]
        /\ replyTo' = [replyTo EXCEPT ![m] = None]
        /\ retrying' = [retrying EXCEPT ![p] = None]
        /\ retried' = retried \cup {m}
        /\ UNCHANGED <<lane, attempts, answers, pc, job, ticket, faults, retries, expired>>
    BY <1>3 DEF RetryReplyWrite, workers, bounds
  <2> HIDE DEF m
  <2> QED
    BY <2>1, <2>2, <2>3, <2>4, Bounds
<1>4. ASSUME NEW r \in Runners, ClaimNextPendingReply(r)
      PROVE  Types'
  BY <1>4 DEF ClaimNextPendingReply, NextAttempt, bounds, history
<1>5. ASSUME NEW r \in Runners, ModelFails(r)
      PROVE  Types'
  BY <1>5 DEF ModelFails, Goto, rows, bounds, history
<1>6. ASSUME NEW r \in Runners, NEW o \in Outcomes, PushReply(r, o)
      PROVE  Types'
  BY <1>6 DEF PushReply, Goto, Charge, AnswerOf, rows, history
<1>7. ASSUME NEW r \in Runners, NEW o \in Outcomes, CompleteReply(r, o)
      PROVE  Types'
  BY <1>7 DEF CompleteReply, Goto, Charge, AnswerOf, history
<1>8. ASSUME NEW r \in Runners, NEW o \in Outcomes, Heartbeat(r, o)
      PROVE  Types'
  BY <1>8 DEF Heartbeat, Goto, Charge, rows, history
<1>9. ASSUME NEW r \in Runners, NEW o \in Outcomes, FailReply(r, o)
      PROVE  Types'
  BY <1>9 DEF FailReply, Goto, Charge, history
<1>10. ASSUME NEW r \in Runners, Crash(r)
       PROVE  Types'
  BY <1>10 DEF Crash, Goto, rows, history
<1>11. CASE Tick
  <2>1. age' \in [Messages -> 0..MaxAge]
    BY <1>11, Bounds DEF Tick
  <2> QED
    BY <1>11, <2>1 DEF Tick, workers, bounds
<1>12. CASE UNCHANGED vars
  BY <1>12 DEF vars, rows, workers, bounds, history
<1> QED
  BY <1>1, <1>2, <1>3, <1>4, <1>5, <1>6, <1>7, <1>8, <1>9, <1>10, <1>11, <1>12
     DEF Next, Work

\* Claim tickets are never ahead of the attempts of their message, and no two runners
\* at work hold the same one.
LEMMA TicketsStep == Types /\ Types' /\ Tickets /\ [Next]_vars => Tickets'
<1> SUFFICES ASSUME Types /\ Types' /\ Tickets, [Next]_vars PROVE Tickets'
  OBVIOUS
<1> USE Bounds DEF Types, TypeOK, Busy, Answer, Tickets, LaneOf
<1>1. ASSUME NEW m \in Messages, NEW writer \in {"phone", "macbook"}, SendMessage(m, writer)
      PROVE  Tickets'
  BY <1>1 DEF SendMessage, workers, bounds, history
<1>2. ASSUME NEW p \in Phones, NEW m \in Messages, RetryReplyCheck(p, m)
      PROVE  Tickets'
  BY <1>2 DEF RetryReplyCheck, rows, workers, history
<1>3. ASSUME NEW p \in Phones, RetryReplyWrite(p)
      PROVE  Tickets'
  BY <1>3 DEF RetryReplyWrite, workers, bounds
<1>4. ASSUME NEW r \in Runners, ClaimNextPendingReply(r)
      PROVE  Tickets'
  BY <1>4 DEF ClaimNextPendingReply, NextAttempt, Claimable, bounds, history
<1>5. ASSUME NEW r \in Runners, ModelFails(r)
      PROVE  Tickets'
  BY <1>5 DEF ModelFails, Goto, rows, bounds, history
<1>6. ASSUME NEW r \in Runners, NEW o \in Outcomes, PushReply(r, o)
      PROVE  Tickets'
  BY <1>6 DEF PushReply, Goto, AnswerOf, rows, history
<1>7. ASSUME NEW r \in Runners, NEW o \in Outcomes, CompleteReply(r, o)
      PROVE  Tickets'
  BY <1>7 DEF CompleteReply, Goto, AnswerOf, history
<1>8. ASSUME NEW r \in Runners, NEW o \in Outcomes, Heartbeat(r, o)
      PROVE  Tickets'
  BY <1>8 DEF Heartbeat, Goto, rows, history
<1>9. ASSUME NEW r \in Runners, NEW o \in Outcomes, FailReply(r, o)
      PROVE  Tickets'
  BY <1>9 DEF FailReply, Goto, history
<1>10. ASSUME NEW r \in Runners, Crash(r)
      PROVE  Tickets'
  BY <1>10 DEF Crash, Goto, rows, history
<1>11. CASE Tick
  BY <1>11 DEF Tick, workers, bounds
<1>12. CASE UNCHANGED vars
  BY <1>12 DEF vars, rows, workers, bounds, history
<1> QED
  BY <1>1, <1>2, <1>3, <1>4, <1>5, <1>6, <1>7, <1>8, <1>9, <1>10, <1>11, <1>12
     DEF Next, Work

\* An answer is pushed by a runner of the lane that claimed the message.
LEMMA AuthorsStep == Types /\ Types' /\ Tickets /\ Authors /\ [Next]_vars => Authors'
<1> SUFFICES ASSUME Types /\ Types' /\ Tickets /\ Authors, [Next]_vars PROVE Authors'
  OBVIOUS
<1> USE Bounds DEF Types, TypeOK, Busy, Answer, Tickets, Authors, OneAnswerPerClaim
<1>1. ASSUME NEW m \in Messages, NEW writer \in {"phone", "macbook"}, SendMessage(m, writer)
      PROVE  Authors'
  BY <1>1 DEF SendMessage, workers, bounds, history
<1>2. ASSUME NEW p \in Phones, NEW m \in Messages, RetryReplyCheck(p, m)
      PROVE  Authors'
  BY <1>2 DEF RetryReplyCheck, rows, workers, history
<1>3. ASSUME NEW p \in Phones, RetryReplyWrite(p)
      PROVE  Authors'
  BY <1>3 DEF RetryReplyWrite, workers, bounds
<1>4. ASSUME NEW r \in Runners, ClaimNextPendingReply(r)
      PROVE  Authors'
  BY <1>4 DEF ClaimNextPendingReply, NextAttempt, Claimable, bounds, history
<1>5. ASSUME NEW r \in Runners, ModelFails(r)
      PROVE  Authors'
  BY <1>5 DEF ModelFails, Goto, rows, bounds, history
<1>6. ASSUME NEW r \in Runners, NEW o \in Outcomes, PushReply(r, o)
      PROVE  Authors'
  BY <1>6 DEF PushReply, Goto, AnswerOf, rows, history
<1>7. ASSUME NEW r \in Runners, NEW o \in Outcomes, CompleteReply(r, o)
      PROVE  Authors'
  BY <1>7 DEF CompleteReply, Goto, AnswerOf, history
<1>8. ASSUME NEW r \in Runners, NEW o \in Outcomes, Heartbeat(r, o)
      PROVE  Authors'
  BY <1>8 DEF Heartbeat, Goto, rows, history
<1>9. ASSUME NEW r \in Runners, NEW o \in Outcomes, FailReply(r, o)
      PROVE  Authors'
  BY <1>9 DEF FailReply, Goto, history
<1>10. ASSUME NEW r \in Runners, Crash(r)
      PROVE  Authors'
  BY <1>10 DEF Crash, Goto, rows, history
<1>11. CASE Tick
  BY <1>11 DEF Tick, workers, bounds
<1>12. CASE UNCHANGED vars
  BY <1>12 DEF vars, rows, workers, bounds, history
<1> QED
  BY <1>1, <1>2, <1>3, <1>4, <1>5, <1>6, <1>7, <1>8, <1>9, <1>10, <1>11, <1>12
     DEF Next, Work

\* completeReply only names an answer that its runner has stored.
LEMMA StoredStep == Types /\ Types' /\ Tickets /\ Stored /\ [Next]_vars => Stored'
<1> SUFFICES ASSUME Types /\ Types' /\ Tickets /\ Stored, [Next]_vars PROVE Stored'
  OBVIOUS
<1> USE Bounds DEF Types, TypeOK, Busy, Answer, Tickets, Stored, AnswerOf, RepliedHasAnswer
<1>1. ASSUME NEW m \in Messages, NEW writer \in {"phone", "macbook"}, SendMessage(m, writer)
      PROVE  Stored'
  BY <1>1 DEF SendMessage, workers, bounds, history
<1>2. ASSUME NEW p \in Phones, NEW m \in Messages, RetryReplyCheck(p, m)
      PROVE  Stored'
  BY <1>2 DEF RetryReplyCheck, rows, workers, history
<1>3. ASSUME NEW p \in Phones, RetryReplyWrite(p)
      PROVE  Stored'
  BY <1>3 DEF RetryReplyWrite, workers, bounds
<1>4. ASSUME NEW r \in Runners, ClaimNextPendingReply(r)
      PROVE  Stored'
  BY <1>4 DEF ClaimNextPendingReply, NextAttempt, Claimable, bounds, history
<1>5. ASSUME NEW r \in Runners, ModelFails(r)
      PROVE  Stored'
  BY <1>5 DEF ModelFails, Goto, rows, bounds, history
<1>6. ASSUME NEW r \in Runners, NEW o \in Outcomes, PushReply(r, o)
      PROVE  Stored'
  BY <1>6 DEF PushReply, Goto, AnswerOf, rows, history
<1>7. ASSUME NEW r \in Runners, NEW o \in Outcomes, CompleteReply(r, o)
      PROVE  Stored'
  BY <1>7 DEF CompleteReply, Goto, AnswerOf, history
<1>8. ASSUME NEW r \in Runners, NEW o \in Outcomes, Heartbeat(r, o)
      PROVE  Stored'
  BY <1>8 DEF Heartbeat, Goto, rows, history
<1>9. ASSUME NEW r \in Runners, NEW o \in Outcomes, FailReply(r, o)
      PROVE  Stored'
  BY <1>9 DEF FailReply, Goto, history
<1>10. ASSUME NEW r \in Runners, Crash(r)
      PROVE  Stored'
  BY <1>10 DEF Crash, Goto, rows, history
<1>11. CASE Tick
  BY <1>11 DEF Tick, workers, bounds
<1>12. CASE UNCHANGED vars
  BY <1>12 DEF vars, rows, workers, bounds, history
<1> QED
  BY <1>1, <1>2, <1>3, <1>4, <1>5, <1>6, <1>7, <1>8, <1>9, <1>10, <1>11, <1>12
     DEF Next, Work

\* Without an expired claim or a retry, an answered message cannot be claimed again.
LEMMA LeasesStep == Types /\ Types' /\ Tickets /\ Leases /\ [Next]_vars => Leases'
<1> SUFFICES ASSUME Types /\ Types' /\ Tickets /\ Leases, [Next]_vars PROVE Leases'
  OBVIOUS
<1> USE Bounds DEF Types, TypeOK, Busy, Answer, Tickets, Leases, Stale, LaneOf
<1>1. ASSUME NEW m \in Messages, NEW writer \in {"phone", "macbook"}, SendMessage(m, writer)
      PROVE  Leases'
  BY <1>1 DEF SendMessage, workers, bounds, history
<1>2. ASSUME NEW p \in Phones, NEW m \in Messages, RetryReplyCheck(p, m)
      PROVE  Leases'
  BY <1>2 DEF RetryReplyCheck, rows, workers, history
<1>3. ASSUME NEW p \in Phones, RetryReplyWrite(p)
      PROVE  Leases'
  BY <1>3 DEF RetryReplyWrite, workers, bounds
<1>4. ASSUME NEW r \in Runners, ClaimNextPendingReply(r)
      PROVE  Leases'
  BY <1>4 DEF ClaimNextPendingReply, NextAttempt, Claimable, bounds, history
<1>5. ASSUME NEW r \in Runners, ModelFails(r)
      PROVE  Leases'
  BY <1>5 DEF ModelFails, Goto, rows, bounds, history
<1>6. ASSUME NEW r \in Runners, NEW o \in Outcomes, PushReply(r, o)
      PROVE  Leases'
  BY <1>6 DEF PushReply, Goto, AnswerOf, rows, history
<1>7. ASSUME NEW r \in Runners, NEW o \in Outcomes, CompleteReply(r, o)
      PROVE  Leases'
  BY <1>7 DEF CompleteReply, Goto, AnswerOf, history
<1>8. ASSUME NEW r \in Runners, NEW o \in Outcomes, Heartbeat(r, o)
      PROVE  Leases'
  BY <1>8 DEF Heartbeat, Goto, rows, history
<1>9. ASSUME NEW r \in Runners, NEW o \in Outcomes, FailReply(r, o)
      PROVE  Leases'
  BY <1>9 DEF FailReply, Goto, history
<1>10. ASSUME NEW r \in Runners, Crash(r)
      PROVE  Leases'
  BY <1>10 DEF Crash, Goto, rows, history
<1>11. CASE Tick
  BY <1>11 DEF Tick, workers, bounds
<1>12. CASE UNCHANGED vars
  BY <1>12 DEF vars, rows, workers, bounds, history
<1> QED
  BY <1>1, <1>2, <1>3, <1>4, <1>5, <1>6, <1>7, <1>8, <1>9, <1>10, <1>11, <1>12
     DEF Next, Work

\* As long as nothing has failed, the latest claim of a message is held by a runner.
LEMMA WorkersStep == Types /\ Types' /\ Tickets /\ Workers /\ [Next]_vars => Workers'
<1> SUFFICES ASSUME Types /\ Types' /\ Tickets /\ Workers, [Next]_vars PROVE Workers'
  OBVIOUS
<1> USE Bounds DEF Types, TypeOK, Busy, Answer, Tickets, Workers, ClaimedHasWorker, Working
<1>1. ASSUME NEW m \in Messages, NEW writer \in {"phone", "macbook"}, SendMessage(m, writer)
      PROVE  Workers'
  BY <1>1 DEF SendMessage, workers, bounds, history
<1>2. ASSUME NEW p \in Phones, NEW m \in Messages, RetryReplyCheck(p, m)
      PROVE  Workers'
  BY <1>2 DEF RetryReplyCheck, rows, workers, history
<1>3. ASSUME NEW p \in Phones, RetryReplyWrite(p)
      PROVE  Workers'
  BY <1>3 DEF RetryReplyWrite, workers, bounds
<1>4. ASSUME NEW r \in Runners, ClaimNextPendingReply(r)
      PROVE  Workers'
  BY SMTT(30), <1>4 DEF ClaimNextPendingReply, NextAttempt, Claimable, bounds, history
<1>5. ASSUME NEW r \in Runners, ModelFails(r)
      PROVE  Workers'
  BY <1>5 DEF ModelFails, Goto, rows, bounds, history
<1>6. ASSUME NEW r \in Runners, NEW o \in Outcomes, PushReply(r, o)
      PROVE  Workers'
  BY <1>6 DEF PushReply, Goto, AnswerOf, rows, history, Charge
<1>7. ASSUME NEW r \in Runners, NEW o \in Outcomes, CompleteReply(r, o)
      PROVE  Workers'
  BY <1>7 DEF CompleteReply, Goto, AnswerOf, history, Charge
<1>8. ASSUME NEW r \in Runners, NEW o \in Outcomes, Heartbeat(r, o)
      PROVE  Workers'
  BY <1>8 DEF Heartbeat, Goto, rows, history, Charge
<1>9. ASSUME NEW r \in Runners, NEW o \in Outcomes, FailReply(r, o)
      PROVE  Workers'
  BY <1>9 DEF FailReply, Goto, history, Charge
<1>10. ASSUME NEW r \in Runners, Crash(r)
      PROVE  Workers'
  BY <1>10 DEF Crash, Goto, rows, history
<1>11. CASE Tick
  BY <1>11 DEF Tick, workers, bounds
<1>12. CASE UNCHANGED vars
  BY <1>12 DEF vars, rows, workers, bounds, history
<1> QED
  BY <1>1, <1>2, <1>3, <1>4, <1>5, <1>6, <1>7, <1>8, <1>9, <1>10, <1>11, <1>12
     DEF Next, Work

-----------------------------------------------------------------------------

IInv == Types /\ Tickets /\ Authors /\ Stored /\ Leases /\ Workers

\* The layers together are an inductive invariant of the specification.
THEOREM IInvHolds == Spec => []IInv
<1>1. Init => IInv
  <2> SUFFICES ASSUME Init PROVE IInv
    OBVIOUS
  <2>1. Types
    BY TypesInit
  <2>2. Tickets /\ Authors
    BY DEF Init, Tickets, Authors, OneAnswerPerClaim, Busy
  <2>3. Stored /\ Leases /\ Workers
    BY DEF Init, Stored, RepliedHasAnswer, Leases, Workers, ClaimedHasWorker, Runners
  <2> QED
    BY <2>1, <2>2, <2>3 DEF IInv
<1>2. IInv /\ [Next]_vars => IInv'
  BY TypesStep, TicketsStep, AuthorsStep, StoredStep, LeasesStep, WorkersStep DEF IInv
<1> QED
  BY <1>1, <1>2, PTL DEF Spec

\* Every variable keeps its type: in particular a runner that completes or fails a
\* reply still has the message it claimed.
THEOREM TypeCorrect == Spec => []TypeOK
<1>1. IInv => TypeOK
  BY DEF IInv, Types
<1> QED
  BY <1>1, IInvHolds, PTL

\* completeReply never names an answer that pushMessages has not stored.
THEOREM RepliedRowsHaveAnswers == Spec => []RepliedHasAnswer
<1>1. IInv => RepliedHasAnswer
  BY DEF IInv, Stored
<1> QED
  BY <1>1, IInvHolds, PTL

\* The atomic claim gives each attempt to one runner, which answers it once.
THEOREM ClaimsAnswerOnce == Spec => []OneAnswerPerClaim
<1>1. IInv => OneAnswerPerClaim
  BY DEF IInv, Authors
<1> QED
  BY <1>1, IInvHolds, PTL

\* The hub runners and the desk runners never answer the same message.
THEOREM LanesAreSeparate == Spec => []AnsweredByItsLane
<1>1. IInv => AnsweredByItsLane
  BY DEF IInv, Tickets, AnsweredByItsLane
<1> QED
  BY <1>1, IInvHolds, PTL

\* Without an expired claim or a retry there is no second answer, however many
\* runners there are and whatever crashes.
THEOREM AnswersAreSingleInLease == Spec => []SingleAnswerInLease
<1>1. IInv => SingleAnswerInLease
  <2> SUFFICES ASSUME IInv,
                      NEW a \in answers, NEW b \in answers,
                      a.msg = b.msg, a.msg \notin expired \cup retried
               PROVE  a = b
    BY DEF SingleAnswerInLease
  <2>1. a \in Answer /\ b \in Answer
    BY DEF IInv, Types, TypeOK
  <2>2. attempts[a.msg] <= 1
    BY <2>1 DEF IInv, Leases, Answer
  <2>3. a.attempt = 1 /\ b.attempt = 1
    BY <2>1, <2>2 DEF IInv, Types, TypeOK, Tickets, Answer
  <2> QED
    BY <2>3 DEF IInv, Authors, OneAnswerPerClaim
<1> QED
  BY <1>1, IInvHolds, PTL

\* A claim is never orphaned unless a process or a database call failed.
THEOREM ClaimsHaveWorkers == Spec => []ClaimedHasWorker
<1>1. IInv => ClaimedHasWorker
  BY DEF IInv, Workers
<1> QED
  BY <1>1, IInvHolds, PTL

-----------------------------------------------------------------------------
(***************************************************************************)
(* ReplyQueue implements ReplyPromise: the initial states are initial      *)
(* states of the promise, and every step is a step of the promise or       *)
(* changes nothing the phone can see.                                      *)
(***************************************************************************)

ShownNow == [n \in Messages |-> Shown(status[n])]

\* The message of a claim that was neither retried nor outlived its lease is still
\* claimed when its runner writes the answer, and, as long as nothing failed, when it
\* settles the message.  A retry is about a message that was sent.
Settling ==
  /\ \A r \in Runners :
       /\ Busy(r) /\ job[r] \notin expired \cup retried
       /\ pc[r] = "thinking" \/ (faults = 0 /\ pc[r] \in {"pushed", "failing"})
       => status[job[r]] = "claimed"
  /\ \A p \in Phones : retrying[p] # None => status[retrying[p]] # "none"

\* While a claim holds, only its runner touches the row.
LEMMA SettlingStep ==
  Types /\ Types' /\ Tickets /\ Leases /\ Settling /\ [Next]_vars => Settling'
<1> SUFFICES ASSUME Types /\ Types' /\ Tickets /\ Leases /\ Settling, [Next]_vars PROVE Settling'
  OBVIOUS
<1> USE Bounds DEF Types, TypeOK, Busy, Tickets, Leases, Settling
<1>1. ASSUME NEW m \in Messages, NEW writer \in {"phone", "macbook"}, SendMessage(m, writer)
      PROVE  Settling'
  BY <1>1 DEF SendMessage, workers, bounds, history
<1>2. ASSUME NEW p \in Phones, NEW m \in Messages, RetryReplyCheck(p, m)
      PROVE  Settling'
  BY <1>2 DEF RetryReplyCheck, Retryable, rows, workers, history
<1>3. ASSUME NEW p \in Phones, RetryReplyWrite(p)
      PROVE  Settling'
  BY <1>3 DEF RetryReplyWrite, workers, bounds
<1>4. ASSUME NEW r \in Runners, ClaimNextPendingReply(r)
      PROVE  Settling'
  BY SMTT(30), <1>4 DEF ClaimNextPendingReply, bounds, history
<1>5. ASSUME NEW r \in Runners, ModelFails(r)
      PROVE  Settling'
  BY <1>5 DEF ModelFails, Goto, rows, bounds, history
<1>6. ASSUME NEW r \in Runners, NEW o \in Outcomes, PushReply(r, o)
      PROVE  Settling'
  BY <1>6 DEF PushReply, Goto, Charge, rows, history
<1>7. ASSUME NEW r \in Runners, NEW o \in Outcomes, CompleteReply(r, o)
      PROVE  Settling'
  BY SMTT(60), <1>7 DEF CompleteReply, Goto, Charge, history
<1>8. ASSUME NEW r \in Runners, NEW o \in Outcomes, Heartbeat(r, o)
      PROVE  Settling'
  BY <1>8 DEF Heartbeat, Goto, Charge, rows, history
<1>9. ASSUME NEW r \in Runners, NEW o \in Outcomes, FailReply(r, o)
      PROVE  Settling'
  BY SMTT(60), <1>9 DEF FailReply, Goto, Charge, history
<1>10. ASSUME NEW r \in Runners, Crash(r)
      PROVE  Settling'
  BY <1>10 DEF Crash, Goto, rows, history
<1>11. CASE Tick
  BY <1>11 DEF Tick, workers, bounds
<1>12. CASE UNCHANGED vars
  BY <1>12 DEF vars, rows, workers, bounds, history
<1> QED
  BY <1>1, <1>2, <1>3, <1>4, <1>5, <1>6, <1>7, <1>8, <1>9, <1>10, <1>11, <1>12
     DEF Next, Work

\* One changed status is one changed word on the phone.
LEMMA ShowOne ==
  ASSUME Types, NEW m \in Messages, NEW s, status' = [status EXCEPT ![m] = s]
  PROVE  ShownNow' = [ShownNow EXCEPT ![m] = Shown(s)]
BY DEF Types, TypeOK, ShownNow

\* What the phone is told does not change with the claim.
LEMMA ShowSame ==
  ASSUME Types, NEW m \in Messages, NEW s, status' = [status EXCEPT ![m] = s],
         Shown(s) = Shown(status[m])
  PROVE  ShownNow' = ShownNow
BY DEF Types, TypeOK, ShownNow

\* A runner with a message writes an answer to it.
LEMMA AnswerIsTyped ==
  ASSUME Types, NEW r \in Runners, Busy(r)
  PROVE  /\ AnswerOf(r).msg = job[r]
         /\ job[r] \in Messages
BY DEF Types, AnswerOf

TroubleOnly ==
  /\ UNCHANGED <<status, answers, expired, retried>>
  /\ faults' >= faults

\* A call that fails or a process that stops is trouble and nothing else.
LEMMA TroubleStep == Types /\ Types' /\ TroubleOnly => Promise!Next
<1> SUFFICES ASSUME Types, Types', TroubleOnly PROVE Promise!Next
  OBVIOUS
<1>1. Promise!Trouble
  BY DEF TroubleOnly, Promise!Trouble, Types, TypeOK
<1>2. Promise!Expire
  BY DEF TroubleOnly, Promise!Expire, Types, TypeOK
<1> QED
  BY <1>1, <1>2 DEF Promise!Next

-----------------------------------------------------------------------------

\* A new row waits for its answer.
LEMMA SendKeeps ==
  ASSUME Types, NEW m \in Messages, NEW writer, SendMessage(m, writer)
  PROVE  Promise!Next
<1>1. ShownNow' = [ShownNow EXCEPT ![m] = "waiting"]
  BY ShowOne, "pending" \in Statuses DEF SendMessage, Shown, Statuses
<1>2. Promise!Ask(m)
  BY <1>1 DEF SendMessage, Promise!Ask, Promise!Show, ShownNow, Shown, history
<1> QED
  BY <1>2 DEF Promise!Next, Promise!Trouble, SendMessage, bounds

\* An accepted retry makes a message wait that was sent.
LEMMA RetryKeeps ==
  ASSUME Types, Settling, NEW p \in Phones, RetryReplyWrite(p)
  PROVE  Promise!Next
<1> DEFINE m == retrying[p]
<1>1. m \in Messages /\ status[m] # "none"
  BY DEF RetryReplyWrite, Types, TypeOK, Settling
<1>2. status' = [status EXCEPT ![m] = "pending"]
  BY DEF RetryReplyWrite
<1>3. UNCHANGED <<answers, expired, faults>> /\ retried' = retried \cup {m}
  BY DEF RetryReplyWrite, bounds
<1> HIDE DEF m
<1>4. ShownNow' = [ShownNow EXCEPT ![m] = "waiting"]
  BY <1>1, <1>2, ShowOne DEF Shown
<1>5. Shown(status[m]) # "none"
  BY <1>1 DEF Shown, Types, TypeOK, Statuses
<1>6. Promise!Reopen(m)
  BY <1>1, <1>3, <1>4, <1>5 DEF Promise!Reopen, Promise!Show, ShownNow
<1> QED
  BY <1>1, <1>3, <1>6 DEF Promise!Next, Promise!Trouble

\* An answer is the first one, or its message was reopened.
LEMMA PushKeeps ==
  ASSUME IInv, Types', Settling, NEW r \in Runners, NEW o \in Outcomes, PushReply(r, o)
  PROVE  Promise!Next
<1> DEFINE m == job[r]
<1>0. Types /\ Tickets /\ Authors /\ Leases
  BY DEF IInv
<1>1. m \in Messages /\ AnswerOf(r).msg = m /\ Busy(r) /\ pc[r] = "thinking"
  BY <1>0, AnswerIsTyped DEF PushReply, Busy
<1>2. /\ UNCHANGED <<status, expired, retried>>
      /\ faults' >= faults
  BY <1>0 DEF PushReply, Charge, rows, history, Types, TypeOK
<1>3. CASE o = "notApplied"
  BY <1>0, <1>2, <1>3, TroubleStep DEF TroubleOnly, PushReply
<1>4. CASE o # "notApplied"
  <2>1. answers' = answers \cup {AnswerOf(r)}
    BY <1>4 DEF PushReply
  <2>2. m \notin expired \cup retried => Shown(status[m]) = "waiting"
    BY <1>1 DEF Settling, Shown
  <2>3. ASSUME m \notin expired \cup retried, NEW a \in answers, a.msg = m
        PROVE  FALSE
    <3>1. attempts[m] <= 1 /\ attempts[m] \in Nat
      BY <1>0, <1>1, <2>3 DEF Leases, Types, TypeOK
    <3>2. 1 <= ticket[r] /\ ticket[r] <= attempts[m] /\ ticket[r] \in Nat
      BY <1>0, <1>1 DEF Tickets, Types, TypeOK
    <3>3. 1 <= a.attempt /\ a.attempt <= attempts[m] /\ a.attempt \in Nat
      BY <1>0, <2>3 DEF Tickets, Types, TypeOK, Answer
    <3>4. a.attempt = ticket[r]
      BY <3>1, <3>2, <3>3
    <3> QED
      BY <1>0, <1>1, <2>3, <3>4 DEF Authors
  <2>4. Promise!Answer(m)
    BY <1>1, <1>2, <2>1, <2>2, <2>3
       DEF Promise!Answer, Promise!AnswersTo
  <2>5. Promise!Trouble
    BY <1>0, <1>2 DEF Promise!Trouble, Types, TypeOK
  <2> QED
    BY <1>1, <2>4, <2>5 DEF Promise!Next
<1> QED
  BY <1>3, <1>4

\* What is said of a message may only change after a reopening or some trouble.
LEMMA MaySettle ==
  ASSUME IInv, Settling, NEW r \in Runners, pc[r] \in {"pushed", "failing"}
  PROVE  \/ Shown(status[job[r]]) = "waiting"
         \/ /\ Shown(status[job[r]]) # "none"
            /\ job[r] \in expired \cup retried \/ faults > 0
<1>0. Types /\ Tickets
  BY DEF IInv
<1>1. Busy(r) /\ job[r] \in Messages /\ status[job[r]] # "none"
  BY <1>0 DEF Busy, Types, Tickets
<1>2. Shown(status[job[r]]) # "none"
  BY <1>0, <1>1 DEF Shown, Types, TypeOK, Statuses
<1> QED
  BY <1>0, <1>1, <1>2 DEF Settling, Shown, Types, TypeOK

\* A completed reply has its answer in the chat.
LEMMA CompleteKeeps ==
  ASSUME IInv, Types', Settling, NEW r \in Runners, NEW o \in Outcomes, CompleteReply(r, o)
  PROVE  Promise!Next
<1> DEFINE m == job[r]
<1>0. Types /\ Stored
  BY DEF IInv
<1>1. m \in Messages /\ AnswerOf(r).msg = m /\ pc[r] = "pushed"
  BY <1>0, AnswerIsTyped DEF CompleteReply, Busy
<1>2. UNCHANGED <<answers, expired, retried>> /\ faults' >= faults
  BY <1>0 DEF CompleteReply, Charge, history, Types, TypeOK
<1>3. CASE o = "notApplied"
  BY <1>0, <1>2, <1>3, TroubleStep DEF TroubleOnly, CompleteReply
<1>4. CASE o # "notApplied"
  <2>1. status' = [status EXCEPT ![m] = "replied"]
    BY <1>4 DEF CompleteReply
  <2> HIDE DEF m
  <2>2. ShownNow' = [ShownNow EXCEPT ![m] = "answered"]
    BY <1>0, <1>1, <2>1, ShowOne DEF Shown
  <2> USE DEF m
  <2>3. AnswerOf(r) \in answers
    BY <1>0, <1>1 DEF Stored
  <2>4. Promise!Settle(m)
    BY <1>1, <1>2, <2>2, <2>3, MaySettle
       DEF Promise!Settle, Promise!AnswersTo, Promise!Show, ShownNow
  <2>5. Promise!Trouble
    BY <1>0, <1>2 DEF Promise!Trouble, Types, TypeOK
  <2> QED
    BY <1>1, <2>4, <2>5 DEF Promise!Next
<1> QED
  BY <1>3, <1>4

\* A failure is reported of a message that waits, or after trouble.
LEMMA FailKeeps ==
  ASSUME IInv, Types', Settling, NEW r \in Runners, NEW o \in Outcomes, FailReply(r, o)
  PROVE  Promise!Next
<1> DEFINE m == job[r]
<1>0. Types
  BY DEF IInv
<1>1. m \in Messages /\ pc[r] = "failing"
  BY <1>0 DEF FailReply, Busy, Types
<1>2. UNCHANGED <<answers, expired, retried>> /\ faults' >= faults
  BY <1>0 DEF FailReply, Charge, history, Types, TypeOK
<1>3. CASE o = "notApplied"
  BY <1>0, <1>2, <1>3, TroubleStep DEF TroubleOnly, FailReply
<1>4. CASE o # "notApplied"
  <2>1. status' = [status EXCEPT ![m] = "error"]
    BY <1>4 DEF FailReply
  <2> HIDE DEF m
  <2>2. ShownNow' = [ShownNow EXCEPT ![m] = "failed"]
    BY <1>0, <1>1, <2>1, ShowOne DEF Shown
  <2> USE DEF m
  <2>3. Promise!Settle(m)
    BY <1>1, <1>2, <2>2, MaySettle
       DEF Promise!Settle, Promise!Show, ShownNow
  <2>4. Promise!Trouble
    BY <1>0, <1>2 DEF Promise!Trouble, Types, TypeOK
  <2> QED
    BY <1>1, <2>3, <2>4 DEF Promise!Next
<1> QED
  BY <1>3, <1>4

\* A claim outlives its lease while its message waits.
LEMMA TickKeeps == ASSUME Types, Tick PROVE Promise!Next
<1>1. UNCHANGED <<status, answers, retried, faults>>
  BY DEF Tick, bounds
<1>2. /\ expired \subseteq expired' /\ expired' \subseteq expired \cup Messages
      /\ \A m \in expired' \ expired : m \in Messages /\ status[m] = "claimed"
  BY DEF Tick
<1>3. Promise!Expire
  BY <1>1, <1>2 DEF Promise!Expire, Shown, Types, TypeOK
<1> QED
  BY <1>1, <1>3 DEF Promise!Next, Promise!Trouble

-----------------------------------------------------------------------------

\* The queue keeps what the phone is promised, whatever crashes, fails or is retried.
THEOREM QueueKeepsPromise == Spec => KeepsPromise
<1>1. Init => Promise!Init
  BY DEF Init, Promise!Init, Shown
<1>2. Init => Settling
  BY DEF Init, Settling, Busy
<1>3. ASSUME IInv, IInv', Settling, [Next]_vars PROVE [Promise!Next]_(Promise!promise)
  <2>0. Types /\ Types'
    BY <1>3 DEF IInv
  <2>1. ASSUME NEW m \in Messages, NEW writer \in {"phone", "macbook"}, SendMessage(m, writer)
        PROVE  Promise!Next
    BY <2>0, <2>1, SendKeeps
  <2>2. ASSUME NEW p \in Phones, NEW m \in Messages, RetryReplyCheck(p, m)
        PROVE  UNCHANGED Promise!promise
    BY <2>2 DEF RetryReplyCheck, Promise!promise, rows, history
  <2>3. ASSUME NEW p \in Phones, RetryReplyWrite(p) PROVE Promise!Next
    BY <1>3, <2>0, <2>3, RetryKeeps
  <2>4. ASSUME NEW r \in Runners, ClaimNextPendingReply(r) PROVE UNCHANGED Promise!promise
    <3>1. PICK m \in Messages :
            /\ Claimable(m, r)
            /\ status' = [status EXCEPT ![m] = "claimed"]
      BY <2>4 DEF ClaimNextPendingReply
    <3>2. ShownNow' = ShownNow
      BY <2>0, <3>1, ShowSame DEF Claimable, Shown
    <3> QED
      BY <2>4, <3>2 DEF ClaimNextPendingReply, Promise!promise, ShownNow, bounds, history
  <2>5. ASSUME NEW r \in Runners, ModelFails(r) PROVE UNCHANGED Promise!promise
    BY <2>5 DEF ModelFails, Promise!promise, rows, bounds, history
  <2>6. ASSUME NEW r \in Runners, NEW o \in Outcomes, PushReply(r, o) PROVE Promise!Next
    BY <1>3, <2>0, <2>6, PushKeeps
  <2>7. ASSUME NEW r \in Runners, NEW o \in Outcomes, CompleteReply(r, o) PROVE Promise!Next
    BY <1>3, <2>0, <2>7, CompleteKeeps
  <2>8. ASSUME NEW r \in Runners, NEW o \in Outcomes, Heartbeat(r, o) PROVE Promise!Next
    <3>1. TroubleOnly
      BY <2>0, <2>8 DEF Heartbeat, Charge, TroubleOnly, rows, history, Types, TypeOK
    <3> QED
      BY <2>0, <3>1, TroubleStep
  <2>9. ASSUME NEW r \in Runners, NEW o \in Outcomes, FailReply(r, o) PROVE Promise!Next
    BY <1>3, <2>0, <2>9, FailKeeps
  <2>10. ASSUME NEW r \in Runners, Crash(r) PROVE Promise!Next
    <3>1. TroubleOnly
      BY <2>0, <2>10 DEF Crash, TroubleOnly, rows, history, Types, TypeOK
    <3> QED
      BY <2>0, <3>1, TroubleStep
  <2>11. CASE Tick
    BY <2>0, <2>11, TickKeeps
  <2>12. CASE UNCHANGED vars
    BY <2>12 DEF vars, rows, bounds, history, Promise!promise
  <2> QED
    BY <1>3, <2>1, <2>2, <2>3, <2>4, <2>5, <2>6, <2>7, <2>8, <2>9, <2>10, <2>11, <2>12
       DEF Next, Work
<1>4. IInv /\ IInv' /\ Settling /\ [Next]_vars => Settling'
  BY SettlingStep DEF IInv
<1>5. IInv /\ IInv' /\ Settling /\ [Next]_vars => [Promise!Next]_(Promise!promise)
  BY <1>3
<1> QED
  BY <1>1, <1>2, <1>4, <1>5, IInvHolds, PTL DEF Spec, KeepsPromise, Promise!Spec

=============================================================================

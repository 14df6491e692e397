---------------------------- MODULE ReplyPromise ----------------------------
(***************************************************************************)
(* What the phone is promised about the reply to a message, without the    *)
(* claims, leases and runners ReplyQueue keeps it with.                    *)
(*                                                                         *)
(* A message waits, and is then answered or failed.  "Answered" is only    *)
(* said of a message with an answer in the chat.  As long as nothing       *)
(* untoward happens, there is one answer, and what was said stays said.    *)
(* A message is reopened by a retry or by a claim that outlives its lease: *)
(* then it may get another answer.  After a failed call or a crash, what   *)
(* was said of a message may be revised, but never to an answer that does  *)
(* not exist, and the message is not answered again for that.              *)
(***************************************************************************)
EXTENDS FiniteSets

CONSTANT Messages

VARIABLES
  shown,      \* what the phone is told of each message
  answers,    \* the answers in the chat: records with the message in .msg
  reopened,   \* messages that were retried or whose claim outlived its lease
  troubled    \* some call has failed or some process has stopped

promise == <<shown, answers, reopened, troubled>>

Init ==
  /\ shown = [m \in Messages |-> "none"]
  /\ answers = {}
  /\ reopened = {}
  /\ troubled = FALSE

AnswersTo(m) == {a \in answers : a.msg = m}

Show(m, s) == shown' = [shown EXCEPT ![m] = s]

\* The message is sent.
Ask(m) ==
  /\ shown[m] = "none"
  /\ Show(m, "waiting")
  /\ UNCHANGED <<answers, reopened>>

\* An answer is written to the chat: one, unless the message was reopened.
Answer(m) ==
  /\ m \in reopened \/ (shown[m] = "waiting" /\ AnswersTo(m) = {})
  /\ \E a \in answers' : a.msg = m /\ answers' = answers \cup {a}
  /\ UNCHANGED <<shown, reopened>>

\* The message is settled, or, if it was reopened or after trouble, settled anew.
Settle(m) ==
  /\ shown[m] = "waiting" \/ (shown[m] # "none" /\ (m \in reopened \/ troubled))
  /\ \/ AnswersTo(m) # {} /\ Show(m, "answered")
     \/ Show(m, "failed")
  /\ UNCHANGED <<answers, reopened>>

\* A retry makes it wait again ...
Reopen(m) ==
  /\ shown[m] # "none"
  /\ Show(m, "waiting")
  /\ reopened' = reopened \cup {m}
  /\ UNCHANGED answers

\* ... and a claim that outlives its lease lets another runner at it.
Expire ==
  /\ reopened' \in SUBSET Messages
  /\ \A m \in reopened' \ reopened : shown[m] = "waiting"
  /\ reopened \subseteq reopened'
  /\ UNCHANGED <<shown, answers>>

Trouble == troubled => troubled'

Next ==
  /\ Trouble
  /\ \/ \E m \in Messages : Ask(m) \/ Answer(m) \/ Settle(m) \/ Reopen(m)
     \/ Expire

Spec == Init /\ [][Next]_promise

=============================================================================

------------------------------ MODULE ThreadLog ------------------------------
(***************************************************************************)
(* What a chat thread looks like to those who share it, without the        *)
(* requests, counters, pages and retries ChatLog keeps it with.            *)
(*                                                                         *)
(* The log is a list in which every row has a place of its own for good.   *)
(* A row is added in one step.  It should be added at the end; one that is *)
(* added before another row is late.  A sender is told the place of a row  *)
(* that is there.  A desk has a page with rows of the log, which is always *)
(* replaced as a whole; its marker, wherever it moves, leaves no row       *)
(* behind but those that were on a page and the late ones.                 *)
(***************************************************************************)
EXTENDS Naturals

CONSTANT Messages

VARIABLES
  place,    \* the place of each message's row, 0 if it has none
  told,     \* what senders were told: records with the message and its place
  late,     \* the rows that were added before another row
  marker,   \* the place up to which the desk has read
  page,     \* the rows the desk has before it
  shown     \* the rows it has had before it at some time

thread == <<place, told, late, marker, page, shown>>

Init ==
  /\ place = [m \in Messages |-> 0]
  /\ told = {}
  /\ late = {}
  /\ marker = 0
  /\ page = {}
  /\ shown = {}

Rows == {m \in Messages : place[m] > 0}

\* A row is added in a place that is free.
Append(m) ==
  /\ place[m] = 0
  /\ place'[m] > 0 /\ place' = [place EXCEPT ![m] = place'[m]]
  /\ \A k \in Rows : place[k] # place'[m]
  /\ late' = late \cup {k \in {m} : \E o \in Rows : place[o] > place'[m]}
  /\ UNCHANGED <<told, marker, page, shown>>

\* Senders are told where their rows are.
Tell ==
  /\ told \subseteq told'
  /\ \A r \in told' : r.msg \in Rows /\ r.seq = place[r.msg]
  /\ UNCHANGED <<place, late, marker, page, shown>>

\* The desk is given another page, and no longer has the one before.
Show ==
  /\ page' \subseteq Rows
  /\ shown' = shown \cup page'
  /\ UNCHANGED <<place, told, late, marker>>

\* The marker moves, on or, when an older pull comes second, back.
Mark ==
  /\ \A m \in Rows : place[m] <= marker' => m \in shown \cup late
  /\ UNCHANGED <<place, told, late, page, shown>>

Next == (\E m \in Messages : Append(m)) \/ Tell \/ Show \/ Mark

Spec == Init /\ [][Next]_thread

=============================================================================

--------------------------- MODULE DeskTurnProofs ---------------------------
(***************************************************************************)
(* What DeskTurn promises of the mirror and of the replies holds for any   *)
(* messages, models and texts typed, for sessions of any length, and for   *)
(* any number of crashes and failing calls.                                *)
(***************************************************************************)
EXTENDS DeskTurn, SequenceTheorems, FiniteSetTheorems, TLAPS

\* There is room for an answer to every prompt, the answer being written is open, and a
\* turn has a message.
Shape ==
  /\ Len(session) + Cardinality(queue) <= MaxRows
  /\ open # 0 => session[open].state = "open"
  /\ pc = "idle" => phase = "idle"
  /\ pc \notin {"idle", "read", "push"} => phase # "idle"
  /\ phase # "idle" => job \in Phone
  /\ phase = "idle" => slash = FALSE
  /\ slash = TRUE => job \in Slash

\* A prompt the chat does without.
Excused(i) == session[i].role = "user" /\ (i \in hidden \/ ChatHas("phone", session[i].text))

\* A row that is finished, and that the chat has, is about to get, or does without.
Settled(i) ==
  /\ session[i].state # "open"
  /\ session[i].state = "text" => Mirrored(i) \/ i \in todo \/ Excused(i)

\* The rows a mirror goes past begin where the cursor is.
PassedRows == pc = "push" => cursor <= last /\ \A i \in 1..last : Settled(i)

-----------------------------------------------------------------------------
(* Sequences, the session and the chat *)

\* Appending keeps what a sequence has and adds the new element.
LEMMA AppendHas ==
  ASSUME NEW S, NEW s \in Seq(S), NEW e \in S
  PROVE  /\ Append(s, e) \in Seq(S) /\ Len(Append(s, e)) = Len(s) + 1
         /\ \A i \in 1..Len(s) : Append(s, e)[i] = s[i]
         /\ Append(s, e)[Len(s) + 1] = e
         /\ Range(Append(s, e)) = Range(s) \cup {e}
<1>1. /\ Append(s, e) \in Seq(S) /\ Len(Append(s, e)) = Len(s) + 1
      /\ \A i \in 1..Len(s) : Append(s, e)[i] = s[i]
      /\ Append(s, e)[Len(s) + 1] = e
  BY AppendProperties
<1>2. DOMAIN s = 1..Len(s) /\ DOMAIN Append(s, e) = 1..(Len(s) + 1) /\ Len(s) \in Nat
  BY <1>1
<1>3. Range(Append(s, e)) \subseteq Range(s) \cup {e}
  BY <1>1, <1>2 DEF Range
<1>4. Range(s) \subseteq Range(Append(s, e)) /\ e \in Range(Append(s, e))
  BY <1>1, <1>2 DEF Range
<1> QED
  BY <1>1, <1>3, <1>4

\* What a step does to the rows that are there: none goes, and one that is finished
\* stays as it is.
SessionGrows ==
  /\ Len(session') \in Nat /\ Len(session) <= Len(session')
  /\ \A i \in Rows : /\ session'[i].role = session[i].role /\ session'[i].by = session[i].by
                     /\ session'[i].text = session[i].text /\ session'[i].to = session[i].to
                     /\ session[i].state # "open" => session'[i].state = session[i].state

\* A new row leaves the others alone.
LEMMA NewRow ==
  ASSUME TypeOK, NEW r \in SessionRow, session' = Append(session, r)
  PROVE  /\ session' \in Seq(SessionRow) /\ Len(session') = Len(session) + 1
         /\ SessionGrows /\ session'[Len(session) + 1] = r
         /\ \A i \in Rows : session'[i] = session[i]
  BY AppendHas DEF TypeOK, SessionGrows, Rows

\* An answer that ends leaves the others alone.
LEMMA RowEnds ==
  ASSUME TypeOK, open # 0, session[open].state = "open",
         NEW o \in {"text", "empty", "error"}, session' = [session EXCEPT ![open].state = o]
  PROVE  /\ session' \in Seq(SessionRow) /\ Len(session') = Len(session)
         /\ SessionGrows /\ session'[open].state = o
         /\ \A i \in Rows : i # open => session'[i] = session[i]
<1>1. open \in Rows /\ session \in Seq(SessionRow) /\ session[open] \in SessionRow /\ Len(session) \in Nat
  BY DEF TypeOK, Rows
<1> DEFINE r == [session[open] EXCEPT !.state = o]
<1>2. r \in SessionRow /\ r.state = o /\ r.role = session[open].role /\ r.by = session[open].by
      /\ r.text = session[open].text /\ r.to = session[open].to
  BY <1>1 DEF SessionRow
<1>3. session' = [session EXCEPT ![open] = r]
  OBVIOUS
<1>4. /\ session' \in Seq(SessionRow) /\ Len(session') = Len(session)
      /\ \A j \in 1..Len(session) : session'[j] = IF j = open THEN r ELSE session[j]
  <2> HIDE DEF r
  <2> QED
    BY <1>1, <1>2, <1>3, ExceptSeq DEF Rows
<1> HIDE DEF r
<1> QED
  BY <1>1, <1>2, <1>4 DEF SessionGrows, Rows

\* A session that is left alone has grown.
LEMMA SameRows == ASSUME TypeOK, session' = session PROVE SessionGrows
  BY DEF TypeOK, SessionGrows, Rows

\* What an abort does to the session.
LEMMA AbortEnds ==
  ASSUME TypeOK, Shape, Abort
  PROVE  /\ session' \in Seq(SessionRow) /\ Len(session') = Len(session) /\ SessionGrows
         /\ open' = 0 /\ queue' = {}
         /\ \A i \in Rows : i # open => session'[i] = session[i]
<1>1. CASE open = 0
  BY <1>1, SameRows DEF Abort, TypeOK
<1>2. CASE open # 0
  <2>1. session[open].state = "open" /\ session' = [session EXCEPT ![open].state = "error"]
    BY <1>2 DEF Shape, Abort
  <2> QED
    BY <1>2, <2>1, RowEnds DEF Abort
<1> QED
  BY <1>1, <1>2

\* The queue is finite.
LEMMA FiniteQueue == ASSUME TypeOK PROVE IsFiniteSet(queue) /\ Cardinality(queue) \in Nat
<1>1. Len(session) \in Nat /\ queue \in SUBSET (1..Len(session))
  BY DEF TypeOK, Rows
<1>2. 1 \in Int /\ Len(session) \in Int
  BY <1>1
<1>3. IsFiniteSet(1..Len(session))
  BY <1>2, FS_Interval
<1>4. IsFiniteSet(queue)
  BY <1>1, <1>3, FS_Subset, Zenon
<1> QED
  BY <1>4, FS_CardinalityType

\* What asking does to the session.
LEMMA AskAdds ==
  ASSUME TypeOK, Shape, NEW text \in Texts, NEW by \in {"runner", "terminal"}, HasRoom, Ask(text, by)
  PROVE  /\ session' \in Seq(SessionRow) /\ Len(session') = Len(session) + 1 /\ SessionGrows
         /\ session'[Len(session) + 1] = Prompt(text, by)
         /\ \A i \in Rows : session'[i] = session[i]
         /\ queue' \subseteq 1..Len(session')
         /\ Len(session') + Cardinality(queue') <= MaxRows
<1>1. Prompt(text, by) \in SessionRow
  BY DeskTurnAssumption DEF Prompt, SessionRow
<1>2. /\ session' \in Seq(SessionRow) /\ Len(session') = Len(session) + 1 /\ SessionGrows
      /\ session'[Len(session) + 1] = Prompt(text, by)
      /\ \A i \in Rows : session'[i] = session[i]
  BY <1>1, NewRow DEF Ask
<1>3. queue \subseteq 1..Len(session) /\ Len(session) \in Nat
  BY DEF TypeOK, Rows
<1>4. IsFiniteSet(queue)
  BY FiniteQueue
<1>5. /\ Cardinality(queue) \in Nat
      /\ Cardinality(queue') = IF Len(session) + 1 \in queue THEN Cardinality(queue) ELSE Cardinality(queue) + 1
  BY <1>4, FS_CardinalityType, FS_AddElement DEF Ask
<1>6. Len(session') + Cardinality(queue') <= MaxRows
  BY <1>2, <1>3, <1>5, DeskTurnAssumption DEF HasRoom
<1>7. queue' \subseteq 1..Len(session')
  <2>1. Len(session') = Len(session) + 1 /\ queue' = queue \cup {Len(session) + 1}
    BY <1>2 DEF Ask
  <2>2. 1..Len(session) \subseteq 1..Len(session') /\ Len(session) + 1 \in 1..Len(session')
    BY <1>3, <2>1
  <2> QED
    BY <1>3, <2>1, <2>2, Zenon
<1> QED
  BY <1>2, <1>6, <1>7

\* What the start of an answer does to the session.
LEMMA AnswerStarts ==
  ASSUME TypeOK, Shape, StartAnswer
  PROVE  /\ session' \in Seq(SessionRow) /\ Len(session') = Len(session) + 1 /\ SessionGrows
         /\ \E i \in queue : session'[Len(session) + 1] =
              [role |-> "assistant", by |-> session[i].by, text |-> None, state |-> "open", to |-> i]
         /\ \A i \in Rows : session'[i] = session[i]
         /\ queue' \subseteq queue /\ Len(session') <= MaxRows
         /\ Len(session') + Cardinality(queue') <= MaxRows
<1>1. PICK i \in queue :
        /\ session' = Append(session, [role |-> "assistant", by |-> session[i].by, text |-> None,
                                       state |-> "open", to |-> i])
        /\ queue' = queue \ {i}
  BY DEF StartAnswer
<1>2. queue \subseteq 1..Len(session) /\ Len(session) \in Nat /\ session \in Seq(SessionRow)
      /\ Len(session) <= MaxRows
  BY DEF TypeOK, Rows
<1>3. IsFiniteSet(queue)
  BY FiniteQueue
<1>4. Cardinality(queue') = Cardinality(queue) - 1 /\ Cardinality(queue) \in Nat /\ Cardinality(queue') \in Nat
  <2>1. IsFiniteSet(queue \ {i}) /\ Cardinality(queue \ {i}) = Cardinality(queue) - 1
    BY <1>3, FS_RemoveElement
  <2> QED
    BY <1>1, <1>3, <2>1, FS_CardinalityType
<1>5. session[i] \in SessionRow
  BY <1>2
<1> DEFINE r == [role |-> "assistant", by |-> session[i].by, text |-> None, state |-> "open", to |-> i]
<1>6. r \in SessionRow
  <2>1. session[i].by \in {"runner", "terminal"} /\ i \in 0..MaxRows
    BY <1>2, <1>5, DeskTurnAssumption DEF SessionRow
  <2> QED
    BY <2>1 DEF SessionRow, Texts
<1>7. session' = Append(session, r)
  BY <1>1
<1>8. /\ session' \in Seq(SessionRow) /\ Len(session') = Len(session) + 1 /\ SessionGrows
      /\ session'[Len(session) + 1] = r
      /\ \A j \in Rows : session'[j] = session[j]
  <2> HIDE DEF r
  <2> QED
    BY <1>6, <1>7, NewRow
<1>9. Len(session') + Cardinality(queue') <= MaxRows /\ Len(session') <= MaxRows
  BY <1>2, <1>4, <1>8, DeskTurnAssumption DEF Shape
<1> QED
  BY <1>1, <1>8, <1>9

\* Storing a row keeps the chat's rows and adds this one.
LEMMA StoreAdds ==
  ASSUME TypeOK, NEW kind, NEW x, [kind |-> kind, id |-> x] \in ChatRow, Store(kind, x)
  PROVE  thread' \in Seq(ChatRow) /\ Range(thread') = Range(thread) \cup {[kind |-> kind, id |-> x]}
  BY AppendHas DEF TypeOK, Store, ChatHas


-----------------------------------------------------------------------------
(* Types and shape *)

\* The parts of TypeOK that speak of the chat, of the session, and of the runner.
ChatOK ==
  /\ status \in [Phone -> {"none", "pending", "claimed", "replied", "error"}]
  /\ replyTo \in [Phone -> 0..MaxRows]
  /\ thread \in Seq(ChatRow)

SessionOK ==
  /\ session \in Seq(SessionRow) /\ Len(session) <= MaxRows
  /\ queue \subseteq Rows /\ open \in Rows \cup {0}

MirrorOK ==
  /\ cursor \in Rows \cup {0} /\ todo \subseteq Rows
  /\ last \in 0..Len(session) /\ got \in 0..Len(session) /\ hidden \subseteq Rows

TurnOK ==
  /\ pc \in Steps /\ phase \in {"before", "after", "idle"} /\ job \in Phone \cup {None}
  /\ left \in 0..MaxModels /\ prompt \in 0..MaxRows /\ faults \in 0..MaxFaults
  /\ mixed \subseteq Phone /\ botched \subseteq Phone

FlagsOK == slash \in BOOLEAN /\ fellBack \in BOOLEAN /\ orphaned \in BOOLEAN

LEMMA Parts == TypeOK <=> ChatOK /\ SessionOK /\ MirrorOK /\ TurnOK /\ FlagsOK
  BY DEF TypeOK, ChatOK, SessionOK, MirrorOK, TurnOK, FlagsOK

\* Every step keeps the session well formed, lets it grow, and has room for what is
\* queued.
LEMMA SessionStep ==
  ASSUME TypeOK, Shape, [Next]_vars
  PROVE  /\ SessionOK' /\ SessionGrows
         /\ Len(session') + Cardinality(queue') <= MaxRows
         /\ open' # 0 => session'[open'].state = "open"
         /\ \A i \in Rows : i # open => session'[i] = session[i] /\ open' # i
<1> DEFINE Goal == /\ SessionOK' /\ SessionGrows
                   /\ Len(session') + Cardinality(queue') <= MaxRows
                   /\ open' # 0 => session'[open'].state = "open"
                   /\ \A i \in Rows : i # open => session'[i] = session[i] /\ open' # i
<1>0. /\ SessionOK /\ Len(session) \in Nat /\ MaxRows \in Nat
      /\ Len(session) + Cardinality(queue) <= MaxRows
      /\ open # 0 => session[open].state = "open"
  BY DeskTurnAssumption DEF TypeOK, SessionOK, Shape
<1>1. ASSUME UNCHANGED opencode PROVE Goal
  BY <1>0, <1>1, SameRows DEF opencode, SessionOK, Rows
<1>2. ASSUME Abort PROVE Goal
  <2>1. /\ session' \in Seq(SessionRow) /\ Len(session') = Len(session) /\ SessionGrows
        /\ open' = 0 /\ queue' = {}
        /\ \A i \in Rows : i # open => session'[i] = session[i]
    BY <1>2, AbortEnds
  <2>2. Cardinality(queue') = 0
    BY <2>1, FS_EmptySet
  <2> QED
    BY <1>0, <2>1, <2>2 DEF SessionOK, Rows
<1>3. ASSUME NEW text \in Texts, NEW by \in {"runner", "terminal"}, HasRoom, Ask(text, by), open' = open
      PROVE  Goal
  <2>1. /\ session' \in Seq(SessionRow) /\ Len(session') = Len(session) + 1 /\ SessionGrows
        /\ \A i \in Rows : session'[i] = session[i]
        /\ queue' \subseteq 1..Len(session')
        /\ Len(session') + Cardinality(queue') <= MaxRows
    BY <1>3, AskAdds
  <2>2. Len(session') <= MaxRows
    BY <1>0, <1>3, <2>1, FiniteQueue DEF HasRoom
  <2> QED
    BY <1>0, <1>3, <2>1, <2>2 DEF SessionOK, Rows
<1>4. ASSUME StartAnswer PROVE Goal
  <2>1. /\ session' \in Seq(SessionRow) /\ Len(session') = Len(session) + 1 /\ SessionGrows
        /\ queue' \subseteq queue /\ Len(session') <= MaxRows
        /\ Len(session') + Cardinality(queue') <= MaxRows
        /\ \A i \in Rows : session'[i] = session[i]
    BY <1>4, AnswerStarts
  <2>2. PICK i \in queue : session'[Len(session) + 1] =
          [role |-> "assistant", by |-> session[i].by, text |-> None, state |-> "open", to |-> i]
    BY <1>4, AnswerStarts
  <2>3. session'[Len(session) + 1].state = "open"
    BY <2>2
  <2>4. open' = Len(session) + 1
    BY <1>4 DEF StartAnswer
  <2> QED
    BY <1>0, <2>1, <2>3, <2>4 DEF SessionOK, Rows
<1>5. ASSUME NEW o \in {"text", "empty", "error"}, FinishAnswer(o) PROVE Goal
  <2>1. /\ session' \in Seq(SessionRow) /\ Len(session') = Len(session) /\ SessionGrows
        /\ \A i \in Rows : i # open => session'[i] = session[i]
    BY <1>0, <1>5, RowEnds DEF FinishAnswer
  <2>2. open' = 0 /\ queue' = queue
    BY <1>5 DEF FinishAnswer
  <2> QED
    BY <1>0, <2>1, <2>2 DEF SessionOK, Rows
<1>6. ASSUME OpenCodeDies PROVE Goal
  <2>1. session' = session /\ open' = 0 /\ queue' = {}
    BY <1>6 DEF OpenCodeDies
  <2>2. Cardinality(queue') = 0 /\ SessionGrows
    BY <2>1, FS_EmptySet, SameRows
  <2> QED
    BY <1>0, <2>1, <2>2 DEF SessionOK, Rows
<1> HIDE DEF Goal
<1>7. ASSUME NEW x \in Typed, TypePrompt(x) PROVE Goal
  <2>1. x \in Texts /\ HasRoom /\ Ask(x, "terminal") /\ open' = open
    BY <1>7 DEF TypePrompt, Texts
  <2> QED
    BY <1>3, <2>1
<1>8. ASSUME Attempt PROVE Goal
  <2>1. (IF slash THEN Template(job) ELSE job) \in Texts
    <3>1. pc = "attempt" /\ job \in Phone /\ (slash = TRUE => job \in Slash) /\ slash \in BOOLEAN
      BY <1>8 DEF Attempt, Shape, TypeOK
    <3>2. CASE slash = TRUE
      BY <3>1, <3>2, Zenon DEF Texts
    <3>3. CASE slash = FALSE
      BY <3>1, <3>3, Zenon DEF Texts
    <3> QED
      BY <3>1, <3>2, <3>3, Zenon
  <2> QED
    BY <1>3, <1>8, <2>1 DEF Attempt
<1>9. ASSUME TurnThrows PROVE Goal
  BY <1>1, <1>2, <1>9 DEF TurnThrows
<1>10. ASSUME TerminalAborts PROVE Goal
  BY <1>2, <1>10 DEF TerminalAborts
<1>11. ASSUME RunnerStep, ~Attempt, ~TurnThrows PROVE UNCHANGED opencode
  BY <1>11 DEF RunnerStep, MirrorRead, MirrorPush, MirrorSave, Claim, MirrorAll, BeginTurn,
     TurnReturns, PushNotes, CompleteReply, FailReply, CallFails
<1>12. ASSUME NEW m \in Phone, SendMessage(m) PROVE UNCHANGED opencode
  BY <1>12 DEF SendMessage
<1>13. ASSUME RunnerDies PROVE UNCHANGED opencode
  BY <1>13 DEF RunnerDies
<1>14. ASSUME UNCHANGED vars PROVE UNCHANGED opencode
  BY <1>14 DEF vars
<1>15. Goal
  BY <1>1, <1>4, <1>5, <1>6, <1>7, <1>8, <1>9, <1>10, <1>11, <1>12, <1>13, <1>14
     DEF Next, OpenCodeStep
<1> QED
  BY <1>15 DEF Goal


\* Every step keeps the chat's types.
LEMMA ChatStep ==
  ASSUME TypeOK, Shape, [Next]_vars
  PROVE  ChatOK' /\ Range(thread) \subseteq Range(thread')
<1> DEFINE Goal == ChatOK' /\ Range(thread) \subseteq Range(thread')
<1>0. ChatOK /\ MaxRows \in Nat /\ Len(session) \in Nat /\ Len(session) <= MaxRows
  BY DeskTurnAssumption DEF TypeOK, ChatOK
<1>1. ASSUME thread' = thread, status' = status \/ (\E m, w : w \in {"pending", "claimed", "replied", "error"}
                                                          /\ status' = [status EXCEPT ![m] = w]),
             replyTo' = replyTo \/ (\E m : replyTo' = [replyTo EXCEPT ![m] = got])
      PROVE  Goal
  <2>1. got \in 0..MaxRows
    BY <1>0 DEF TypeOK
  <2> QED
    BY <1>0, <1>1, <2>1 DEF ChatOK
<1>2. ASSUME NEW kind, NEW x, [kind |-> kind, id |-> x] \in ChatRow, Store(kind, x),
             status' = status \/ (\E m \in Phone : status' = [status EXCEPT ![m] = "pending"]),
             replyTo' = replyTo
      PROVE  Goal
  <2>1. thread' \in Seq(ChatRow) /\ Range(thread') = Range(thread) \cup {[kind |-> kind, id |-> x]}
    BY <1>2, StoreAdds
  <2>2. status' \in [Phone -> {"none", "pending", "claimed", "replied", "error"}]
    BY <1>0, <1>2 DEF ChatOK
  <2> QED
    BY <1>0, <1>2, <2>1, <2>2 DEF ChatOK
<1> HIDE DEF Goal
<1>3. ASSUME NEW m \in Phone, SendMessage(m) PROVE Goal
  <2>1. [kind |-> "phone", id |-> m] \in ChatRow
    BY DEF ChatRow
  <2> QED
    BY <1>2, <1>3, <2>1 DEF SendMessage
<1>4. ASSUME MirrorPush PROVE Goal
  <2>1. PICK i \in todo : Store("turn", i)
    BY <1>4 DEF MirrorPush
  <2>2. [kind |-> "turn", id |-> i] \in ChatRow
    BY <1>0, <2>1 DEF ChatRow, TypeOK, Rows
  <2> QED
    BY <1>2, <1>4, <2>1, <2>2 DEF MirrorPush
<1>5. ASSUME PushNotes PROVE Goal
  <2>1. job \in Phone
    BY <1>5 DEF PushNotes, Shape
  <2>2. [kind |-> "command", id |-> job] \in ChatRow /\ [kind |-> "note", id |-> job] \in ChatRow
    BY <2>1 DEF ChatRow
  <2>3. UNCHANGED <<status, replyTo>> /\ (UNCHANGED thread \/ Store("command", job) \/ Store("note", job))
    BY <1>5 DEF PushNotes
  <2> QED
    BY <1>1, <1>2, <2>2, <2>3
<1>6. ASSUME NEW m \in Phone, Claim(m) PROVE Goal
  BY <1>1, <1>6 DEF Claim
<1>7. ASSUME CompleteReply PROVE Goal
  BY <1>1, <1>7 DEF CompleteReply
<1>8. ASSUME FailReply PROVE Goal
  BY <1>1, <1>8 DEF FailReply
<1>9. ASSUME UNCHANGED chat PROVE Goal
  BY <1>1, <1>9 DEF chat
<1>10. ASSUME MirrorRead \/ MirrorSave \/ MirrorAll \/ BeginTurn \/ Attempt \/ TurnReturns
              \/ TurnThrows \/ CallFails \/ RunnerDies
       PROVE  UNCHANGED chat
  BY <1>10 DEF MirrorRead, MirrorSave, MirrorAll, BeginTurn, Attempt, TurnReturns, TurnThrows,
     CallFails, RunnerDies
<1>11. ASSUME NEW x, TypePrompt(x) PROVE UNCHANGED chat
  BY <1>11 DEF TypePrompt
<1>12. ASSUME NEW o, StartAnswer \/ FinishAnswer(o) \/ TerminalAborts \/ OpenCodeDies PROVE UNCHANGED chat
  BY <1>12 DEF StartAnswer, FinishAnswer, TerminalAborts, OpenCodeDies
<1>13. ASSUME UNCHANGED vars PROVE UNCHANGED chat
  BY <1>13 DEF vars
<1>14. Goal
  BY <1>3, <1>4, <1>5, <1>6, <1>7, <1>8, <1>9, <1>10, <1>11, <1>12, <1>13
     DEF Next, RunnerStep, OpenCodeStep
<1> QED
  BY <1>14 DEF Goal

\* Every step keeps the mirror's rows rows of the session.
LEMMA MirrorStep == ASSUME TypeOK, Shape, [Next]_vars PROVE MirrorOK' /\ hidden \subseteq hidden'
<1> DEFINE Goal == MirrorOK' /\ hidden \subseteq hidden'
<1>0. MirrorOK /\ Len(session) \in Nat /\ Len(session') \in Nat /\ Len(session) <= Len(session')
  BY SessionStep DEF TypeOK, MirrorOK, SessionGrows
<1>1. ASSUME cursor' \in {cursor, last}, todo' \subseteq todo, last' \in {last, 0},
             got' \in {got, 0} \cup todo, hidden' = hidden
      PROVE  Goal
  BY <1>0, <1>1 DEF MirrorOK, Rows
<1>2. ASSUME MirrorRead PROVE Goal
  <2>1. Rows' = Rows /\ session' = session /\ cursor' = cursor /\ got' = got
    BY <1>2 DEF MirrorRead, opencode, Rows
  <2>2. Finished \subseteq Rows
    BY DEF Finished
  <2>3. todo' \subseteq Finished /\ last' \in Finished \cup {cursor} /\ hidden' \subseteq hidden \cup Finished
        /\ hidden \subseteq hidden'
    BY <1>2 DEF MirrorRead
  <2>4. last' \in 0..Len(session)
    BY <1>0, <2>2, <2>3 DEF MirrorOK, Rows
  <2> QED
    BY <1>0, <2>1, <2>2, <2>3, <2>4 DEF MirrorOK
<1> HIDE DEF Goal
<1>3. ASSUME UNCHANGED <<cursor, mirror, hidden>> PROVE Goal
  BY <1>1, <1>3 DEF mirror
<1>4. ASSUME MirrorPush PROVE Goal
  BY <1>1, <1>4 DEF MirrorPush, history
<1>5. ASSUME MirrorSave PROVE Goal
  BY <1>1, <1>5 DEF MirrorSave, mirror, history
<1>6. ASSUME NEW m \in Phone, Claim(m) PROVE Goal
  BY <1>1, <1>6 DEF Claim, Mirror
<1>7. ASSUME MirrorAll \/ TurnReturns PROVE Goal
  BY <1>1, <1>7 DEF MirrorAll, TurnReturns, Mirror, history
<1>8. ASSUME CompleteReply \/ FailReply \/ CallFails \/ RunnerDies PROVE Goal
  BY <1>1, <1>8 DEF CompleteReply, FailReply, CallFails, RunnerDies, Rest, mirror, history
<1>9. ASSUME BeginTurn \/ Attempt \/ TurnThrows \/ PushNotes PROVE UNCHANGED <<cursor, mirror, hidden>>
  BY <1>9 DEF BeginTurn, Attempt, TurnThrows, PushNotes, history
<1>10. ASSUME NEW m, SendMessage(m) \/ TypePrompt(m) PROVE UNCHANGED <<cursor, mirror, hidden>>
  BY <1>10 DEF SendMessage, TypePrompt, history
<1>11. ASSUME NEW o, StartAnswer \/ FinishAnswer(o) \/ TerminalAborts \/ OpenCodeDies
       PROVE  UNCHANGED <<cursor, mirror, hidden>>
  BY <1>11 DEF StartAnswer, FinishAnswer, TerminalAborts, OpenCodeDies, history
<1>12. ASSUME UNCHANGED vars PROVE UNCHANGED <<cursor, mirror, hidden>>
  BY <1>12 DEF vars, history
<1>13. Goal
  BY <1>2, <1>3, <1>4, <1>5, <1>6, <1>7, <1>8, <1>9, <1>10, <1>11, <1>12
     DEF Next, RunnerStep, OpenCodeStep
<1> QED
  BY <1>13 DEF Goal


\* Every step keeps the types of the runner's state.
LEMMA TurnStep == ASSUME TypeOK, Shape, [Next]_vars PROVE TurnOK'
<1> DEFINE Where == pc' \in Steps /\ phase' \in {"before", "after", "idle"} /\ job' \in Phone \cup {None}
           Count == left' \in 0..MaxModels /\ prompt' \in 0..MaxRows
           Past  == mixed' \subseteq Phone /\ botched' \subseteq Phone
<1>0. /\ TurnOK /\ MaxRows \in Nat /\ MaxModels \in Nat \ {0} /\ MaxFaults \in Nat
      /\ Len(session) \in Nat /\ Len(session) <= MaxRows
  BY DeskTurnAssumption DEF TypeOK, TurnOK
<1>1. ASSUME faults' = faults \/ Fault PROVE faults' \in 0..MaxFaults
  BY <1>0, <1>1 DEF Fault, TurnOK
<1>2. ASSUME UNCHANGED <<pc, phase, job>> PROVE Where
  BY <1>0, <1>2 DEF TurnOK
<1>3. ASSUME UNCHANGED <<left, prompt>> PROVE Count
  BY <1>0, <1>3 DEF TurnOK
<1>4. ASSUME UNCHANGED <<mixed, botched>> PROVE Past
  BY <1>0, <1>4 DEF TurnOK
<1>5. ASSUME Rest PROVE Where /\ Count
  BY <1>0, <1>5 DEF Rest, Steps
<1>6. ASSUME TurnOK' \/ (Where /\ Count /\ Past /\ (faults' = faults \/ Fault)) PROVE TurnOK'
  BY <1>1, <1>6 DEF TurnOK
<1>7. ASSUME NEW m \in Phone, SendMessage(m) PROVE TurnOK'
  BY <1>2, <1>3, <1>4, <1>6, <1>7 DEF SendMessage, mirror, turn, history
<1>8. ASSUME NEW x, TypePrompt(x) PROVE TurnOK'
  <2>1. Past
    BY <1>0, <1>8 DEF TypePrompt, TurnOK
  <2> QED
    BY <1>2, <1>3, <1>6, <1>8, <2>1 DEF TypePrompt, mirror, turn
<1>9. ASSUME NEW o, StartAnswer \/ FinishAnswer(o) \/ TerminalAborts PROVE TurnOK'
  BY <1>2, <1>3, <1>4, <1>6, <1>9 DEF StartAnswer, FinishAnswer, TerminalAborts, mirror, turn, history
<1>10. ASSUME OpenCodeDies PROVE TurnOK'
  BY <1>2, <1>3, <1>4, <1>6, <1>10 DEF OpenCodeDies, mirror, turn
<1>11. ASSUME MirrorRead PROVE TurnOK'
  <2>1. Where
    BY <1>0, <1>11 DEF MirrorRead, turn, TurnOK, Steps
  <2> QED
    BY <1>3, <1>4, <1>6, <1>11, <2>1 DEF MirrorRead, turn
<1>12. ASSUME MirrorPush PROVE TurnOK'
  BY <1>2, <1>3, <1>4, <1>6, <1>12 DEF MirrorPush, turn, history
<1>13. ASSUME MirrorSave PROVE TurnOK'
  <2>1. Where
    BY <1>0, <1>13 DEF MirrorSave, mirror, turn, TurnOK, AfterMirror, Steps
  <2> QED
    BY <1>3, <1>4, <1>6, <1>13, <2>1 DEF MirrorSave, turn, history
<1>14. ASSUME NEW m \in Phone, Claim(m) PROVE TurnOK'
  <2>1. Where /\ Past
    BY <1>0, <1>14 DEF Claim, Mirror, TurnOK, Steps
  <2> QED
    BY <1>3, <1>6, <1>14, <2>1 DEF Claim
<1>15. ASSUME MirrorAll \/ TurnReturns PROVE TurnOK'
  <2>1. Where
    BY <1>0, <1>15 DEF MirrorAll, TurnReturns, Mirror, turn, TurnOK, Steps
  <2> QED
    BY <1>3, <1>4, <1>6, <1>15, <2>1 DEF MirrorAll, TurnReturns, turn, history
<1>16. ASSUME BeginTurn PROVE TurnOK'
  <2>1. Where /\ Count
    BY <1>0, <1>16 DEF BeginTurn, mirror, TurnOK, Steps
  <2> QED
    BY <1>4, <1>6, <1>16, <2>1 DEF BeginTurn, history
<1>17. ASSUME Attempt PROVE TurnOK'
  <2>1. Where
    BY <1>0, <1>17 DEF Attempt, mirror, TurnOK, Steps
  <2>2. prompt' = Len(session) + 1 /\ left' = left /\ Len(session) + Cardinality(queue) + 2 <= MaxRows
    BY <1>17 DEF Attempt, HasRoom
  <2>3. Count
    BY <1>0, <2>2, FiniteQueue DEF TurnOK
  <2> QED
    BY <1>4, <1>6, <1>17, <2>1, <2>3 DEF Attempt, history
<1>18. ASSUME TurnThrows PROVE TurnOK'
  <2>1. job \in Phone
    BY <1>18 DEF TurnThrows, Shape
  <2>2. Where
    BY <1>0, <1>18 DEF TurnThrows, NextModel, Fail, mirror, TurnOK, Steps
  <2>3. Count
    BY <1>0, <1>18 DEF TurnThrows, NextModel, Fail, TurnOK
  <2>4. Past
    BY <1>0, <1>18, <2>1 DEF TurnThrows, NextModel, Fail, TurnOK
  <2>5. faults' = faults \/ Fault
    BY <1>18 DEF TurnThrows
  <2> QED
    BY <1>6, <2>2, <2>3, <2>4, <2>5
<1>19. ASSUME PushNotes PROVE TurnOK'
  <2>1. job \in Phone
    BY <1>19 DEF PushNotes, Shape
  <2>2. Where /\ Past
    BY <1>0, <1>19, <2>1 DEF PushNotes, Fail, mirror, turn, TurnOK, Steps
  <2> QED
    BY <1>3, <1>6, <1>19, <2>2 DEF PushNotes, turn
<1>20. ASSUME CompleteReply \/ FailReply PROVE TurnOK'
  BY <1>4, <1>5, <1>6, <1>20 DEF CompleteReply, FailReply, history
<1>21. ASSUME CallFails PROVE TurnOK'
  <2>1. faults' = faults \/ Fault
    BY <1>21 DEF CallFails
  <2>2. CASE phase = "idle"
    BY <1>4, <1>5, <1>6, <1>21, <2>1, <2>2 DEF CallFails
  <2>3. CASE phase # "idle"
    <3>1. job \in Phone
      BY <2>3 DEF Shape
    <3>2. Where /\ Past
      BY <1>0, <1>21, <2>3, <3>1 DEF CallFails, Fail, mirror, turn, TurnOK, Steps
    <3>3. Count
      BY <1>3, <1>21, <2>3 DEF CallFails, turn
    <3> QED
      BY <1>6, <2>1, <3>2, <3>3
  <2> QED
    BY <2>2, <2>3
<1>22. ASSUME RunnerDies PROVE TurnOK'
  <2>1. Past
    BY <1>0, <1>22 DEF RunnerDies, TurnOK
  <2> QED
    BY <1>5, <1>6, <1>22, <2>1 DEF RunnerDies
<1>23. ASSUME UNCHANGED vars PROVE TurnOK'
  BY <1>2, <1>3, <1>4, <1>6, <1>23 DEF vars, mirror, turn, history
<1> QED
  BY <1>7, <1>8, <1>9, <1>10, <1>11, <1>12, <1>13, <1>14, <1>15, <1>16, <1>17, <1>18, <1>19,
     <1>20, <1>21, <1>22, <1>23 DEF Next, RunnerStep, OpenCodeStep


\* Every step keeps the flags truth values.
LEMMA FlagsStep == ASSUME TypeOK, [Next]_vars PROVE FlagsOK'
<1>0. slash \in BOOLEAN /\ fellBack \in BOOLEAN /\ orphaned \in BOOLEAN
  BY DEF TypeOK
<1>1. slash' = slash \/ slash' = TRUE \/ slash' = FALSE
  BY Zenon DEF Next, RunnerStep, OpenCodeStep, SendMessage, TypePrompt, StartAnswer, FinishAnswer,
     TerminalAborts, OpenCodeDies, MirrorRead, MirrorPush, MirrorSave, Claim, MirrorAll, BeginTurn,
     Attempt, TurnReturns, TurnThrows, PushNotes, CompleteReply, FailReply, CallFails, RunnerDies,
     Rest, Mirror, turn, vars
<1>2. fellBack' = fellBack \/ fellBack' = TRUE \/ fellBack' = FALSE
  BY Zenon DEF Next, RunnerStep, OpenCodeStep, SendMessage, TypePrompt, StartAnswer, FinishAnswer,
     TerminalAborts, OpenCodeDies, MirrorRead, MirrorPush, MirrorSave, Claim, MirrorAll, BeginTurn,
     Attempt, TurnReturns, TurnThrows, NextModel, PushNotes, CompleteReply, FailReply, CallFails,
     RunnerDies, Rest, Mirror, turn, vars
<1>3. orphaned' = orphaned \/ orphaned' = (orphaned \/ open # 0)
  BY Zenon DEF Next, RunnerStep, OpenCodeStep, SendMessage, TypePrompt, StartAnswer, FinishAnswer,
     TerminalAborts, OpenCodeDies, MirrorRead, MirrorPush, MirrorSave, Claim, MirrorAll, BeginTurn,
     Attempt, TurnReturns, TurnThrows, PushNotes, CompleteReply, FailReply, CallFails, RunnerDies,
     history, vars
<1> QED
  BY <1>0, <1>1, <1>2, <1>3, Zenon DEF FlagsOK

\* Every step keeps the shape.
LEMMA ShapeStep == ASSUME TypeOK, Shape, [Next]_vars PROVE Shape'
<1> DEFINE Turn == /\ pc = "idle" => phase = "idle"
                   /\ pc \notin {"idle", "read", "push"} => phase # "idle"
                   /\ phase # "idle" => job \in Phone
                   /\ phase = "idle" => slash = FALSE
                   /\ slash = TRUE => job \in Slash
<1>0. Turn
  BY DEF Shape
<1>2. ASSUME Rest PROVE Turn'
  BY <1>2 DEF Rest
<1>3. ASSUME NEW x, SendMessage(x) \/ TypePrompt(x) \/ FinishAnswer(x) PROVE Turn'
  BY <1>0, <1>3 DEF SendMessage, TypePrompt, FinishAnswer, mirror, turn
<1>4. ASSUME StartAnswer \/ TerminalAborts \/ OpenCodeDies \/ MirrorPush PROVE Turn'
  BY <1>0, <1>4 DEF StartAnswer, TerminalAborts, OpenCodeDies, MirrorPush, mirror, turn
<1>5. ASSUME MirrorRead PROVE Turn'
  BY <1>0, <1>5 DEF MirrorRead, turn
<1>6. ASSUME MirrorSave PROVE Turn'
  BY <1>0, <1>6 DEF MirrorSave, AfterMirror, mirror, turn, TypeOK
<1>7. ASSUME NEW m \in Phone, Claim(m) PROVE Turn'
  BY <1>0, <1>7 DEF Claim, Mirror
<1>8. ASSUME MirrorAll PROVE Turn'
  BY <1>0, <1>8 DEF MirrorAll, Mirror, turn
<1>9. ASSUME BeginTurn PROVE Turn'
  BY <1>0, <1>9 DEF BeginTurn, mirror
<1>10. ASSUME Attempt PROVE Turn'
  BY <1>0, <1>10 DEF Attempt, mirror
<1>11. ASSUME TurnReturns PROVE Turn'
  BY <1>0, <1>11 DEF TurnReturns, Mirror, turn
<1>12. ASSUME TurnThrows PROVE Turn'
  BY <1>0, <1>12 DEF TurnThrows, NextModel, Fail, mirror
<1>13. ASSUME PushNotes PROVE Turn'
  BY <1>0, <1>13 DEF PushNotes, Fail, mirror, turn
<1>14. ASSUME CompleteReply \/ FailReply \/ RunnerDies PROVE Turn'
  BY <1>2, <1>14 DEF CompleteReply, FailReply, RunnerDies
<1>15. ASSUME CallFails PROVE Turn'
  BY <1>0, <1>2, <1>15 DEF CallFails, Fail, mirror, turn
<1>16. ASSUME UNCHANGED vars PROVE Turn'
  BY <1>0, <1>16 DEF vars, mirror, turn
<1>17. Turn'
  BY <1>3, <1>4, <1>5, <1>6, <1>7, <1>8, <1>9, <1>10, <1>11, <1>12, <1>13, <1>14, <1>15, <1>16
     DEF Next, RunnerStep, OpenCodeStep
<1> QED
  BY <1>17, SessionStep DEF Shape

\* Every step keeps the types.
LEMMA TypeStep == ASSUME TypeOK, Shape, [Next]_vars PROVE TypeOK'
<1>1. ChatOK' /\ SessionOK' /\ MirrorOK' /\ TurnOK' /\ FlagsOK'
  BY ChatStep, SessionStep, MirrorStep, TurnStep, FlagsStep
<1> QED
  BY <1>1 DEF TypeOK, ChatOK, SessionOK, MirrorOK, TurnOK, FlagsOK

-----------------------------------------------------------------------------
(* The mirror skips nothing *)

\* A step takes nothing back: a finished row keeps its state, the chat its rows.
LEMMA Lasts ==
  ASSUME TypeOK, Shape, [Next]_vars, NEW i \in Rows
  PROVE  /\ i \in Rows' /\ session'[i].role = session[i].role /\ session'[i].to = session[i].to
         /\ session'[i].text = session[i].text
         /\ session[i].state # "open" => session'[i].state = session[i].state
         /\ Mirrored(i) => Mirrored(i)'
         /\ Excused(i) => Excused(i)'
<1>1. /\ i \in Rows' /\ session'[i].role = session[i].role /\ session'[i].to = session[i].to
      /\ session'[i].text = session[i].text
      /\ session[i].state # "open" => session'[i].state = session[i].state
  BY SessionStep DEF SessionGrows, Rows, TypeOK
<1>2. Range(thread) \subseteq Range(thread') /\ hidden \subseteq hidden'
  BY ChatStep, MirrorStep
<1>3. Mirrored(i) => Mirrored(i)'
  BY <1>2, Zenon DEF Mirrored, ChatHas
<1>4. Excused(i) => Excused(i)'
  BY <1>1, <1>2, Zenon DEF Excused, ChatHas
<1> QED
  BY <1>1, <1>3, <1>4


\* The states in which the runner has read, or has nothing to push.
LEMMA PushesOnlyAfterReading ==
  ASSUME TypeOK, Shape, [Next]_vars, ~MirrorRead, ~MirrorPush, ~MirrorSave
  PROVE  cursor' = cursor /\ (pc' # "push" \/ (pc = "push" /\ UNCHANGED mirror))
<1>1. ASSUME NEW x, SendMessage(x) \/ TypePrompt(x) \/ FinishAnswer(x) PROVE UNCHANGED <<cursor, pc, mirror>>
  BY <1>1 DEF SendMessage, TypePrompt, FinishAnswer
<1>2. ASSUME StartAnswer \/ TerminalAborts \/ OpenCodeDies PROVE UNCHANGED <<cursor, pc, mirror>>
  BY <1>2 DEF StartAnswer, TerminalAborts, OpenCodeDies
<1>3. ASSUME NEW m \in Phone, Claim(m) PROVE cursor' = cursor /\ pc' # "push"
  BY <1>3 DEF Claim, Mirror
<1>4. ASSUME MirrorAll \/ TurnReturns \/ BeginTurn \/ Attempt PROVE cursor' = cursor /\ pc' # "push"
  BY <1>4 DEF MirrorAll, TurnReturns, BeginTurn, Attempt, Mirror
<1>5. ASSUME TurnThrows \/ PushNotes PROVE cursor' = cursor /\ pc' # "push"
  BY <1>5 DEF TurnThrows, NextModel, PushNotes, Fail
<1>6. ASSUME CompleteReply \/ FailReply \/ CallFails \/ RunnerDies PROVE cursor' = cursor /\ pc' # "push"
  BY <1>6 DEF CompleteReply, FailReply, CallFails, RunnerDies, Rest, Fail
<1>7. ASSUME UNCHANGED vars PROVE UNCHANGED <<cursor, pc, mirror>>
  BY <1>7 DEF vars
<1> QED
  BY <1>1, <1>2, <1>3, <1>4, <1>5, <1>6, <1>7 DEF Next, RunnerStep, OpenCodeStep

\* What lies below the cursor stays settled, and so does what a mirror goes past.
LEMMA SkippedStep ==
  ASSUME TypeOK, Shape, NothingSkipped, PassedRows, [Next]_vars
  PROVE  NothingSkipped' /\ PassedRows'
<1> DEFINE Kept(i) == session[i].state # "open" /\ (session[i].state = "text" => Mirrored(i) \/ Excused(i))
<1>0. /\ cursor \in Rows \cup {0} /\ last \in 0..Len(session) /\ Len(session) \in Nat
      /\ \A i \in 1..cursor : Kept(i) /\ i \in Rows
  <2>1. cursor \in Rows \cup {0} /\ last \in 0..Len(session) /\ Len(session) \in Nat
    BY DEF TypeOK, Rows
  <2>2. \A i \in 1..cursor : i \in Rows
    BY <2>1 DEF Rows
  <2>3. \A i \in 1..cursor : Kept(i)
    BY Zenon DEF NothingSkipped, Excused
  <2> QED
    BY <2>1, <2>2, <2>3
<1>1. ASSUME NEW i \in Rows, Kept(i) PROVE Kept(i)'
  BY <1>1, Lasts
<1>2. ASSUME cursor' = cursor PROVE NothingSkipped'
  <2>1. \A i \in 1..cursor : Kept(i)'
    BY <1>0, <1>1
  <2> QED
    BY <1>2, <2>1 DEF NothingSkipped, Excused
<1>3. ASSUME pc' # "push" \/ (pc = "push" /\ UNCHANGED mirror) PROVE PassedRows'
  <2>1. CASE pc' # "push"
    BY <2>1 DEF PassedRows
  <2>2. CASE pc = "push" /\ UNCHANGED mirror
    <3>1. cursor <= last /\ last' = last /\ todo' = todo
      BY <2>2 DEF PassedRows, mirror
    <3>2. ASSUME NEW i \in 1..last PROVE Settled(i)'
      <4>1. i \in Rows /\ Settled(i)
        BY <1>0, <2>2, <3>2 DEF PassedRows, Rows
      <4> QED
        BY <3>1, <4>1, Lasts DEF Settled
    <3>3. CASE cursor' = cursor
      BY <3>1, <3>2, <3>3 DEF PassedRows
    <3>4. CASE cursor' # cursor
      <4>1. MirrorSave
        <5>1. ~MirrorRead
          BY <2>2 DEF MirrorRead
        <5>2. MirrorPush => cursor' = cursor
          BY DEF MirrorPush
        <5> QED
          BY <3>4, <5>1, <5>2, PushesOnlyAfterReading
      <4>2. cursor' = last
        BY <4>1 DEF MirrorSave
      <4> QED
        BY <1>0, <3>1, <3>2, <4>2 DEF PassedRows
    <3> QED
      BY <3>3, <3>4
  <2> QED
    BY <1>3, <2>1, <2>2
<1>4. CASE MirrorRead
  <2>1. /\ session' = session /\ thread' = thread /\ cursor' = cursor
        /\ todo' = {i \in Finished : session[i].state = "text" /\ ~Drops(i)}
        /\ hidden' = hidden \cup {i \in Finished : phase = "after" /\ slash /\ session[i].role = "user"}
    BY <1>4 DEF MirrorRead, opencode, chat
  <2>2. last' \in Finished \cup {cursor} /\ \A j \in Finished : j <= last'
    BY <1>4 DEF MirrorRead
  <2>3. Finished \subseteq Rows /\ cursor \in Nat /\ \A i \in Finished : i > cursor
    BY <1>0 DEF Finished, Rows
  <2>4. cursor' <= last'
    BY <2>1, <2>2, <2>3 DEF Rows
  <2>5. ASSUME NEW i \in 1..last' PROVE Settled(i)'
    <3>1. CASE i <= cursor
      <4>1. i \in Rows /\ Kept(i)
        BY <1>0, <2>3, <3>1
      <4>2. Kept(i)'
        BY <1>1, <4>1
      <4> QED
        BY <4>2 DEF Settled
    <3>2. CASE i > cursor
      <4>1. last' \in Finished
        BY <2>2, <2>3, <3>2
      <4>2. i \in Rows
        BY <1>0, <2>3, <4>1 DEF Rows
      <4>3. i \in Finished /\ session[i].state # "open"
        BY <2>3, <3>2, <4>1, <4>2 DEF Finished, Rows
      <4>4. ASSUME session[i].state = "text", i \notin todo' PROVE Excused(i)'
        <5>1. Drops(i)
          BY <2>1, <4>3, <4>4
        <5>2. CASE phase = "after" /\ slash
          <6>1. i \in hidden' /\ session'[i].role = "user"
            BY <2>1, <4>3, <5>1, <5>2 DEF Drops
          <6> QED
            BY <6>1 DEF Excused
        <5>3. CASE session[i].text \in PhoneTexts
          <6>1. PICK j \in DOMAIN thread : thread[j].kind = "phone" /\ thread[j].id = session[i].text
            BY <5>3 DEF PhoneTexts
          <6>2. thread[j] \in ChatRow
            BY <6>1 DEF TypeOK
          <6>3. thread[j] = [kind |-> "phone", id |-> session[i].text]
            BY <6>1, <6>2 DEF ChatRow
          <6>4. ChatHas("phone", session[i].text)
            BY <6>3 DEF ChatHas, Range
          <6>5. Excused(i)
            BY <5>1, <6>4 DEF Drops, Excused
          <6> QED
            BY <4>2, <6>5, Lasts
        <5> QED
          BY <5>1, <5>2, <5>3 DEF Drops
      <4> QED
        BY <2>1, <4>3, <4>4 DEF Settled
    <3> QED
      BY <1>0, <2>2, <2>3, <3>1, <3>2 DEF Rows
  <2> QED
    BY <1>2, <2>1, <2>4, <2>5 DEF PassedRows
<1>5. CASE MirrorPush
  <2>1. PICK i \in todo : Store("turn", i) /\ todo' = todo \ {i}
    BY <1>5 DEF MirrorPush
  <2>2. pc = "push" /\ cursor' = cursor /\ last' = last
    BY <1>5 DEF MirrorPush
  <2>3. Mirrored(i)'
    <3>1. [kind |-> "turn", id |-> i] \in ChatRow
      BY <2>1, DeskTurnAssumption DEF TypeOK, ChatRow, Rows
    <3>2. [kind |-> "turn", id |-> i] \in Range(thread')
      BY <2>1, <3>1, StoreAdds
    <3> QED
      BY <3>2 DEF Mirrored, ChatHas
  <2>4. ASSUME NEW j \in 1..last PROVE Settled(j)'
    <3>1. j \in Rows /\ Settled(j)
      BY <1>0, <2>2 DEF PassedRows, Rows
    <3> QED
      BY <2>1, <2>3, <3>1, Lasts DEF Settled
  <2> QED
    BY <1>2, <2>2, <2>4 DEF PassedRows
<1>6. CASE MirrorSave
  <2>1. pc = "push" /\ todo = {} /\ cursor' = last /\ UNCHANGED mirror
    BY <1>6 DEF MirrorSave
  <2>2. ASSUME NEW i \in 1..last PROVE Kept(i)'
    <3>1. i \in Rows /\ Kept(i)
      BY <1>0, <2>1 DEF PassedRows, Settled, Rows
    <3> QED
      BY <1>1, <3>1
  <2>3. NothingSkipped'
    BY <2>1, <2>2 DEF NothingSkipped, Excused
  <2> QED
    BY <1>3, <2>1, <2>3
<1> QED
  BY <1>2, <1>3, <1>4, <1>5, <1>6, PushesOnlyAfterReading


-----------------------------------------------------------------------------
(* What the runner carries to the reply *)

\* An answer follows the prompt it belongs to, and the one being written is the last.
AnswersPoint ==
  /\ \A a \in Rows : /\ session[a].role = "assistant" => session[a].to \in 1..a-1
                     /\ session[a].role = "user" => session[a].state = "text" /\ session[a].to = 0
  /\ open # 0 => /\ session[open].role = "assistant"
                 /\ \A a \in Rows : session[a].role = "assistant" => a <= open

\* What the mirror pushes lies between the cursor and the last row it goes past; the
\* answer it takes for the reply lies above every reply given before.
Carries ==
  /\ pc = "read" => got = 0
  /\ pc = "push" => /\ \A i \in todo : cursor < i /\ i <= last /\ session[i].state = "text"
                    /\ got # 0 => cursor < got /\ got <= last
  /\ pc \in {"push", "reply", "complete"} /\ got # 0 =>
       Mirrored(got) /\ session[got].role = "assistant" /\ session[got].state = "text"
  /\ pc \in {"reply", "complete"} =>
       /\ phase = "after" /\ got <= cursor
       /\ got # 0 => \A n \in Phone : replyTo[n] < got
  /\ pc = "complete" /\ got = 0 => ChatHas("command", job)
  /\ \A n \in Phone : replyTo[n] <= cursor

\* What phones, terminals and OpenCode do leaves the runner where it is.
LEMMA OthersLeaveRunner ==
  ASSUME [Next]_vars, ~RunnerStep, ~RunnerDies
  PROVE  UNCHANGED <<pc, phase, job, slash, prompt, todo, last, got, cursor, replyTo>>
<1>1. ASSUME NEW x, SendMessage(x) \/ TypePrompt(x) \/ FinishAnswer(x)
      PROVE  UNCHANGED <<pc, phase, job, slash, prompt, todo, last, got, cursor, replyTo>>
  BY <1>1 DEF SendMessage, TypePrompt, FinishAnswer, chat, mirror, turn
<1>2. ASSUME StartAnswer \/ TerminalAborts \/ OpenCodeDies
      PROVE  UNCHANGED <<pc, phase, job, slash, prompt, todo, last, got, cursor, replyTo>>
  BY <1>2 DEF StartAnswer, TerminalAborts, OpenCodeDies, chat, mirror, turn
<1>3. ASSUME UNCHANGED vars PROVE UNCHANGED <<pc, phase, job, slash, prompt, todo, last, got, cursor, replyTo>>
  BY <1>3 DEF vars, chat, mirror, turn
<1> QED
  BY <1>1, <1>2, <1>3 DEF Next, OpenCodeStep

\* What a step can do to the session: nothing, end the answer being written, add a
\* prompt, or begin an answer.
LEMMA SessionCases ==
  ASSUME TypeOK, Shape, [Next]_vars
  PROVE  \/ UNCHANGED opencode
         \/ Len(session') = Len(session) /\ open' = 0 /\ queue' \subseteq queue
         \/ \E text \in Texts, by \in {"runner", "terminal"} : HasRoom /\ Ask(text, by) /\ open' = open
               /\ (by = "terminal" \/ Attempt)
         \/ StartAnswer
<1> DEFINE Goal == \/ UNCHANGED opencode
                   \/ Len(session') = Len(session) /\ open' = 0 /\ queue' \subseteq queue
                   \/ \E text \in Texts, by \in {"runner", "terminal"} : HasRoom /\ Ask(text, by) /\ open' = open
                         /\ (by = "terminal" \/ Attempt)
                   \/ StartAnswer
<1>1. Abort => Goal
  BY AbortEnds
<1>2. ASSUME NEW o \in {"text", "empty", "error"}, FinishAnswer(o) PROVE Goal
  <2>1. Len(session') = Len(session)
    BY <1>2, RowEnds DEF FinishAnswer, Shape
  <2> QED
    BY <1>2, <2>1 DEF FinishAnswer
<1>3. ASSUME NEW x \in Typed, TypePrompt(x) PROVE Goal
  BY <1>3 DEF TypePrompt, Texts
<1>4. ASSUME Attempt PROVE Goal
  <2>1. pc = "attempt" /\ job \in Phone /\ (slash = TRUE => job \in Slash) /\ slash \in BOOLEAN
    BY <1>4 DEF Attempt, Shape, TypeOK
  <2>2. (IF slash THEN Template(job) ELSE job) \in Texts
    <3>1. CASE slash = TRUE
      BY <2>1, <3>1, Zenon DEF Texts
    <3>2. CASE slash = FALSE
      BY <2>1, <3>2, Zenon DEF Texts
    <3> QED
      BY <2>1, <3>1, <3>2, Zenon
  <2> QED
    BY <1>4, <2>2 DEF Attempt
<1>5. ASSUME OpenCodeDies PROVE Goal
  BY <1>5 DEF OpenCodeDies
<1>6. ASSUME StartAnswer PROVE Goal
  BY <1>6
<1> HIDE DEF Goal
<1>7. UNCHANGED opencode => Goal
  BY DEF Goal
<1>8. ASSUME TerminalAborts \/ TurnThrows PROVE Abort \/ UNCHANGED opencode
  BY <1>8 DEF TerminalAborts, TurnThrows
<1>9. ASSUME NEW m \in Phone, SendMessage(m) PROVE UNCHANGED opencode
  BY <1>9 DEF SendMessage
<1>10. ASSUME RunnerStep, ~Attempt, ~TurnThrows PROVE UNCHANGED opencode
  BY <1>10 DEF RunnerStep, MirrorRead, MirrorPush, MirrorSave, Claim, MirrorAll, BeginTurn,
     TurnReturns, PushNotes, CompleteReply, FailReply, CallFails
<1>11. ASSUME UNCHANGED vars PROVE UNCHANGED opencode
  BY <1>11 DEF vars
<1>12. ASSUME RunnerDies PROVE Goal
  BY <1>7, <1>12 DEF RunnerDies
<1>13. RunnerStep => Goal
  BY <1>1, <1>4, <1>7, <1>8, <1>10
<1>14. OpenCodeStep => Goal
  BY <1>2, <1>6 DEF OpenCodeStep
<1>15. Goal
  BY <1>1, <1>3, <1>5, <1>7, <1>8, <1>9, <1>11, <1>12, <1>13, <1>14 DEF Next
<1> QED
  BY <1>15 DEF Goal

\* Answers keep pointing to prompts, and the answer being written stays the last.
LEMMA PointStep == ASSUME TypeOK, Shape, AnswersPoint, [Next]_vars PROVE AnswersPoint'
<1>0. /\ Len(session) \in Nat /\ Len(session') \in Nat /\ Len(session) <= Len(session')
      /\ open \in Rows \cup {0}
  BY SessionStep DEF SessionGrows, TypeOK
<1> DEFINE Good(a) == /\ session[a].role = "assistant" => session[a].to \in 1..a-1
                      /\ session[a].role = "user" => session[a].state = "text" /\ session[a].to = 0
           Last == open # 0 => /\ session[open].role = "assistant"
                               /\ \A a \in Rows : session[a].role = "assistant" => a <= open
<1>1. ASSUME NEW a \in Rows PROVE Good(a)'
  <2>1. Good(a)
    BY DEF AnswersPoint
  <2> QED
    BY <2>1, Lasts
<1>2. Last
  BY DEF AnswersPoint
<1>3. ASSUME Last', \A a \in Rows' \ Rows : Good(a)' PROVE AnswersPoint'
  BY <1>1, <1>3 DEF AnswersPoint
<1> HIDE DEF Good
<1>4. CASE UNCHANGED opencode
  BY <1>2, <1>3, <1>4 DEF opencode, Rows
<1>5. CASE Len(session') = Len(session) /\ open' = 0 /\ queue' \subseteq queue
  BY <1>3, <1>5 DEF Rows
<1>6. ASSUME NEW text \in Texts, NEW by \in {"runner", "terminal"}, HasRoom, Ask(text, by), open' = open
      PROVE  AnswersPoint'
  <2>1. PICK n \in Nat : n = Len(session) + 1
    BY <1>0
  <2>2. session'[n] = Prompt(text, by) /\ Len(session') = n /\ \A i \in Rows : session'[i] = session[i]
    BY <1>6, <2>1, AskAdds
  <2>3. session'[n].role = "user" /\ session'[n].state = "text" /\ session'[n].to = 0
    BY <2>2 DEF Prompt
  <2>4. Good(n)'
    BY <2>3 DEF Good
  <2>5. \A a \in Rows' : a \in Rows \/ a = n
    BY <1>0, <2>1, <2>2 DEF Rows
  <2>6. Last'
    BY <1>0, <1>2, <1>6, <2>2, <2>3, <2>5
  <2> QED
    BY <1>3, <2>4, <2>5, <2>6
<1>7. CASE StartAnswer
  <2>1. PICK n \in Nat : n = Len(session) + 1
    BY <1>0
  <2>2. Len(session') = n /\ open' = n
    BY <1>7, <2>1, AnswerStarts DEF StartAnswer
  <2>3. PICK i \in queue : session'[n] =
          [role |-> "assistant", by |-> session[i].by, text |-> None, state |-> "open", to |-> i]
    BY <1>7, <2>1, AnswerStarts
  <2>4. i \in 1..n-1 /\ session'[n].role = "assistant" /\ session'[n].to = i
    BY <1>0, <2>1, <2>3 DEF TypeOK, Rows
  <2>5. Good(n)'
    BY <2>4 DEF Good
  <2>6. \A a \in Rows' : a <= n /\ (a \in Rows \/ a = n)
    BY <1>0, <2>1, <2>2 DEF Rows
  <2>7. Last'
    BY <2>2, <2>4, <2>6
  <2> QED
    BY <1>3, <2>5, <2>6, <2>7
<1> QED
  BY <1>4, <1>5, <1>6, <1>7, SessionCases

\* Every step keeps what the runner carries.
LEMMA CarryStep ==
  ASSUME TypeOK, Shape, NothingSkipped, PassedRows, Carries, [Next]_vars
  PROVE  Carries'
<1>0. /\ cursor \in 0..Len(session) /\ last \in 0..Len(session) /\ got \in 0..Len(session)
      /\ Len(session) \in Nat /\ todo \subseteq Rows /\ replyTo \in [Phone -> 0..MaxRows] /\ MaxRows \in Nat
  BY DeskTurnAssumption DEF TypeOK, Rows
<1>1. \A k, x : ChatHas(k, x) => ChatHas(k, x)'
  BY ChatStep DEF ChatHas
<1>2. ASSUME NEW i \in 0..Len(session), i # 0, Mirrored(i), session[i].role = "assistant", session[i].state = "text"
      PROVE  Mirrored(i)' /\ session'[i].role = "assistant" /\ session'[i].state = "text"
  <2>1. i \in Rows
    BY <1>0, <1>2 DEF Rows
  <2> QED
    BY <1>2, <2>1, Lasts
<1>3. ASSUME UNCHANGED <<pc, phase, job, todo, last, got, cursor, replyTo>> PROVE Carries'
  <2>1. \A i \in todo : pc = "push" => cursor < i /\ i <= last /\ session'[i].state = "text"
    BY <1>0, Lasts DEF Carries
  <2>2. pc \in {"push", "reply", "complete"} /\ got # 0 =>
          Mirrored(got)' /\ session'[got].role = "assistant" /\ session'[got].state = "text"
    BY <1>0, <1>2, <1>3 DEF Carries
  <2>3. pc = "complete" /\ got = 0 => ChatHas("command", job)'
    BY <1>1, <1>3 DEF Carries
  <2>4. /\ pc' = "complete" /\ got' = 0 => ChatHas("command", job)'
        /\ pc' \in {"push", "reply", "complete"} /\ got' # 0 =>
             Mirrored(got)' /\ session'[got'].role = "assistant" /\ session'[got'].state = "text"
    BY <1>3, <2>2, <2>3
  <2> QED
    BY <1>3, <2>1, <2>4 DEF Carries
<1>4. ASSUME pc' \notin {"read", "push", "reply", "complete"}, replyTo' = replyTo, cursor' = cursor PROVE Carries'
  BY <1>4 DEF Carries
<1>5. ASSUME pc' = "read", got' = 0, replyTo' = replyTo, cursor' = cursor PROVE Carries'
  BY <1>5 DEF Carries
<1>6. CASE MirrorRead
  <2>1. /\ pc = "read" /\ pc' = "push" /\ got' = got /\ cursor' = cursor /\ replyTo' = replyTo
        /\ session' = session
        /\ todo' = {i \in Finished : session[i].state = "text" /\ ~Drops(i)}
        /\ \A j \in Finished : j <= last'
    BY <1>6 DEF MirrorRead, chat, opencode
  <2>2. got' = 0
    BY <2>1 DEF Carries
  <2>3. \A i \in todo' : cursor' < i /\ i <= last' /\ session'[i].state = "text"
    BY <1>0, <2>1 DEF Finished
  <2> QED
    BY <2>1, <2>2, <2>3 DEF Carries
<1>7. CASE MirrorPush
  <2>1. PICK i \in todo : /\ Store("turn", i) /\ todo' = todo \ {i}
                         /\ got' = IF session[i].role = "assistant" THEN i ELSE got
    BY <1>7 DEF MirrorPush
  <2>2. /\ pc = "push" /\ pc' = "push" /\ cursor' = cursor /\ last' = last /\ replyTo' = replyTo
        /\ session' = session
    BY <1>7 DEF MirrorPush, opencode
  <2>3. Mirrored(i)'
    <3>1. [kind |-> "turn", id |-> i] \in ChatRow
      BY <2>1, DeskTurnAssumption DEF TypeOK, ChatRow, Rows
    <3>2. [kind |-> "turn", id |-> i] \in Range(thread')
      BY <2>1, <3>1, StoreAdds
    <3> QED
      BY <3>2 DEF Mirrored, ChatHas
  <2>4. i \in Rows /\ cursor < i /\ i <= last /\ session[i].state = "text"
    BY <1>0, <2>1, <2>2 DEF Carries
  <2>5. CASE session[i].role = "assistant"
    <3>1. got' = i
      BY <2>1, <2>5
    <3>2. Mirrored(got)'
      BY <2>3, <3>1 DEF Mirrored, ChatHas
    <3> QED
      BY <2>1, <2>2, <2>4, <2>5, <3>1, <3>2 DEF Carries
  <2>6. CASE session[i].role # "assistant"
    <3>1. got' = got
      BY <2>1, <2>6
    <3>2. got # 0 => Mirrored(got)'
      <4>1. got # 0 => Mirrored(got)
        BY <2>2 DEF Carries
      <4>2. \A x : ChatHas("turn", x) => [kind |-> "turn", id |-> x] \in Range(thread')
        BY ChatStep DEF ChatHas
      <4> QED
        BY <3>1, <4>1, <4>2 DEF Mirrored, ChatHas
    <3> QED
      BY <2>1, <2>2, <3>1, <3>2 DEF Carries
  <2> QED
    BY <2>5, <2>6
<1>8. CASE MirrorSave
  <2>1. /\ pc = "push" /\ cursor' = last /\ got' = got /\ replyTo' = replyTo /\ phase' = phase
        /\ session' = session /\ thread' = thread /\ pc' = AfterMirror
    BY <1>8 DEF MirrorSave, chat, opencode, mirror
  <2>2. cursor <= last /\ \A n \in Phone : replyTo[n] <= cursor
    BY <2>1 DEF PassedRows, Carries
  <2>3. \A n \in Phone : replyTo'[n] <= cursor'
    BY <1>0, <2>1, <2>2
  <2>4. pc' \in {"begin", "idle"} \/ (pc' = "reply" /\ phase = "after")
    BY <2>1 DEF AfterMirror
  <2>5. got # 0 => cursor < got /\ got <= last
    BY <2>1 DEF Carries
  <2>6. got' # 0 => \A n \in Phone : replyTo'[n] < got'
    BY <1>0, <2>1, <2>2, <2>5
  <2>7. got' <= cursor'
    BY <1>0, <2>1, <2>5
  <2>8. got' # 0 => Mirrored(got)' /\ session'[got'].role = "assistant" /\ session'[got'].state = "text"
    BY <2>1 DEF Carries, Mirrored, ChatHas
  <2> QED
    BY <2>1, <2>3, <2>4, <2>6, <2>7, <2>8 DEF Carries
<1>9. CASE PushNotes
  <2>1. /\ pc = "reply" /\ got' = got /\ cursor' = cursor /\ replyTo' = replyTo /\ phase' = phase
        /\ session' = session /\ job' = job
    BY <1>9 DEF PushNotes, opencode, mirror, turn
  <2>2. CASE pc' = "failing"
    BY <1>4, <2>1, <2>2
  <2>3. CASE pc' = "complete"
    <3>1. got = 0 => ChatHas("command", job)'
      <4>1. ASSUME got = 0 PROVE Store("command", job)
        <5>1. "complete" # "failing"
          OBVIOUS
        <5>2. ~Fail(job)
          BY <2>3, <5>1, Zenon DEF Fail
        <5> QED
          BY <1>9, <4>1, <5>2, Zenon DEF PushNotes
      <4>2. job \in Phone
        BY <2>1 DEF Shape
      <4>3. [kind |-> "command", id |-> job] \in ChatRow
        BY <4>2 DEF ChatRow
      <4>4. ASSUME got = 0 PROVE [kind |-> "command", id |-> job] \in Range(thread')
        BY <4>1, <4>3, <4>4, StoreAdds
      <4> QED
        BY <2>1, <4>4 DEF ChatHas
    <3>2. got # 0 => Mirrored(got)' /\ session'[got].role = "assistant" /\ session'[got].state = "text"
      BY <1>0, <1>2, <2>1 DEF Carries
    <3>3. /\ got' = 0 => ChatHas("command", job)'
          /\ got' # 0 => Mirrored(got)' /\ session'[got'].role = "assistant" /\ session'[got'].state = "text"
      BY <2>1, <3>1, <3>2
    <3> QED
      BY <2>1, <2>3, <3>3 DEF Carries
  <2> QED
    BY <1>9, <2>2, <2>3 DEF PushNotes, Fail
<1>10. CASE CompleteReply
  <2>1. pc = "complete" /\ pc' = "idle" /\ cursor' = cursor /\ replyTo' = [replyTo EXCEPT ![job] = got]
    BY <1>10 DEF CompleteReply, Rest
  <2>2. \A n \in Phone : replyTo'[n] <= cursor'
    BY <1>0, <2>1 DEF Carries
  <2> QED
    BY <2>1, <2>2 DEF Carries
<1>11. ASSUME NEW m \in Phone, Claim(m) PROVE Carries'
  BY <1>5, <1>11 DEF Claim, Mirror
<1>12. ASSUME MirrorAll \/ TurnReturns PROVE Carries'
  BY <1>5, <1>12 DEF MirrorAll, TurnReturns, Mirror, chat
<1>13. ASSUME BeginTurn \/ Attempt \/ TurnThrows PROVE Carries'
  BY <1>4, <1>13 DEF BeginTurn, Attempt, TurnThrows, NextModel, Fail, chat
<1>14. ASSUME FailReply \/ CallFails \/ RunnerDies PROVE Carries'
  BY <1>4, <1>14 DEF FailReply, CallFails, RunnerDies, Rest, Fail, chat
<1> QED
  BY <1>3, <1>6, <1>7, <1>8, <1>9, <1>10, <1>11, <1>12, <1>13, <1>14, OthersLeaveRunner DEF RunnerStep


-----------------------------------------------------------------------------
(* A turn nobody disturbs *)

\* Row i is a prompt of message m's turn.
Asks(m, i) == session[i].text \in {m, Template(m)}

\* Row i is a prompt of m's turn or the answer to one.
Own(m, i) ==
  /\ session[i].role = "user" => Asks(m, i)
  /\ session[i].role = "assistant" => Asks(m, session[i].to)

\* The mirror cannot get past position c: OpenCode died while it wrote the next row.
Stuck(c) == c + 1 \in Rows /\ session[c + 1].state = "open" /\ open # c + 1

\* What is queued and what the mirror has not gone past belongs to m's turn.
Work(m) ==
  /\ \A i \in queue : Asks(m, i)
  /\ Stuck(cursor) \/ \A i \in Rows : i > cursor => Own(m, i)

Working == pc \in {"begin", "attempt", "ask"} \/ (phase = "after" /\ pc \in {"read", "push"})

\* Until the first mirror is done the session rests; from then on what comes is m's own.
Undisturbed(m) ==
  /\ phase = "before" /\ pc \in {"read", "push"} => queue = {} /\ open = 0
  /\ phase = "before" /\ pc = "push" => last = Len(session) \/ Stuck(last)
  /\ Working => Work(m)
  /\ phase = "after" /\ got # 0 /\ pc \in {"push", "reply", "complete"} => Asks(m, session[got].to)

OwnTurns == \A m \in Phone : job = m /\ m \notin mixed /\ phase # "idle" => Undisturbed(m)

\* A prompt keeps its text, an answer its prompt.
LEMMA OwnLasts ==
  ASSUME TypeOK, Shape, AnswersPoint, [Next]_vars, NEW m, NEW i \in Rows
  PROVE  /\ session'[i].text = session[i].text
         /\ session[i].role = "assistant" => /\ session'[i].to = session[i].to
                                             /\ session'[session'[i].to].text = session[session[i].to].text
         /\ Own(m, i) => Own(m, i)'
<1>1. /\ session'[i].role = session[i].role /\ session'[i].text = session[i].text
      /\ session'[i].to = session[i].to
  BY Lasts
<1>2. session[i].role = "assistant" => session'[session[i].to].text = session[session[i].to].text
  <2>1. session[i].role = "assistant" => session[i].to \in Rows
    BY DEF AnswersPoint, Rows, TypeOK
  <2> QED
    BY <2>1, SessionStep DEF SessionGrows
<1> QED
  BY <1>1, <1>2 DEF Own, Asks

\* The work stays the turn's own when what is added is.
LEMMA WorkLasts ==
  ASSUME TypeOK, Shape, AnswersPoint, [Next]_vars, NEW m, Work(m), cursor' = cursor,
         \A i \in queue' : i \in queue \/ session'[i].text \in {m, Template(m)},
         \A i \in Rows' \ Rows : Own(m, i)'
  PROVE  Work(m)'
<1>0. cursor \in 0..Len(session) /\ Len(session) \in Nat /\ Len(session) <= Len(session') /\ Len(session') \in Nat
      /\ queue \subseteq Rows
  BY SessionStep DEF TypeOK, SessionGrows, Rows
<1>1. \A i \in queue' : Asks(m, i)'
  BY <1>0, OwnLasts DEF Work, Asks
<1>2. Stuck(cursor) => Stuck(cursor)'
  <2>1. ASSUME Stuck(cursor) PROVE cursor + 1 \in Rows' /\ session'[cursor + 1].state = "open" /\ open' # cursor + 1
    BY <1>0, <2>1, SessionStep DEF Stuck, Rows
  <2> QED
    BY <2>1 DEF Stuck
<1>3. ASSUME \A i \in Rows : i > cursor => Own(m, i) PROVE \A i \in Rows' : i > cursor' => Own(m, i)'
  BY <1>3, OwnLasts
<1> QED
  BY <1>1, <1>2, <1>3 DEF Work

\* A turn that nobody disturbs stays so.
LEMMA OwnStep ==
  ASSUME TypeOK, Shape, AnswersPoint, PassedRows, Carries, OwnTurns, [Next]_vars
  PROVE  OwnTurns'
<1> SUFFICES ASSUME NEW m \in Phone, job' = m, m \notin mixed', phase' # "idle" PROVE Undisturbed(m)'
  BY DEF OwnTurns
<1>0. /\ cursor \in 0..Len(session) /\ last \in 0..Len(session) /\ got \in 0..Len(session)
      /\ Len(session) \in Nat /\ todo \subseteq Rows /\ queue \subseteq Rows /\ open \in Rows \cup {0}
      /\ Len(session') \in Nat /\ m # None
  BY SessionStep, DeskTurnAssumption DEF TypeOK, SessionGrows, Rows
<1>1. ASSUME UNCHANGED <<job, phase>>, mixed' = mixed \/ mixed' = mixed \cup ({job} \ {None}) PROVE Undisturbed(m)
  BY <1>1 DEF OwnTurns
<1>2. ASSUME pc' \notin {"begin", "attempt", "ask", "read", "push"},
             phase = "after" /\ got # 0 => Asks(m, session[got].to) /\ pc \in {"push", "reply", "complete"},
             UNCHANGED <<phase, got>>
      PROVE  Undisturbed(m)'
  <2>1. ASSUME phase = "after", got # 0, pc \in {"push", "reply", "complete"}
        PROVE  session'[session'[got].to].text \in {m, Template(m)}
    <3>1. got \in Rows /\ session[got].role = "assistant"
      BY <1>0, <2>1 DEF Carries, Rows
    <3> QED
      BY <1>2, <2>1, <3>1, OwnLasts DEF Asks
  <2> QED
    BY <1>2, <2>1 DEF Undisturbed, Asks, Working
<1>3. ASSUME UNCHANGED <<pc, phase, job, last, got, cursor>>, Undisturbed(m),
             \A i \in queue' : i \in queue \/ session'[i].text \in {m, Template(m)},
             \A i \in Rows' \ Rows : Own(m, i)',
             queue = {} /\ open = 0 => session' = session /\ queue' = {} /\ open' = 0
      PROVE  Undisturbed(m)'
  <2>1. Working' => Work(m)'
    BY <1>3, WorkLasts DEF Undisturbed, Working
  <2>2. ASSUME phase = "before", pc \in {"read", "push"}
        PROVE  session' = session /\ queue' = {} /\ open' = 0 /\ open = 0
    BY <1>3, <2>2 DEF Undisturbed
  <2>3. ASSUME phase = "after", got # 0, pc \in {"push", "reply", "complete"}
        PROVE  session'[session'[got].to].text \in {m, Template(m)}
    <3>1. got \in Rows /\ session[got].role = "assistant" /\ Asks(m, session[got].to)
      BY <1>0, <1>3, <2>3 DEF Carries, Rows, Undisturbed
    <3> QED
      BY <3>1, OwnLasts DEF Asks
  <2>4. ASSUME phase = "before", pc = "push" PROVE (last = Len(session) \/ Stuck(last))'
    BY <1>3, <2>2, <2>4 DEF Undisturbed, Stuck, Rows
  <2> QED
    BY <1>3, <2>1, <2>2, <2>3, <2>4 DEF Undisturbed, Asks
<1>4. ASSUME UNCHANGED <<pc, phase, job, last, got, cursor, mixed, opencode>> PROVE Undisturbed(m)'
  BY <1>1, <1>3, <1>4 DEF opencode, Rows
<1>5. ASSUME NEW x \in Phone, SendMessage(x) PROVE Undisturbed(m)'
  BY <1>4, <1>5 DEF SendMessage, mirror, turn, history
<1>6. ASSUME UNCHANGED vars PROVE Undisturbed(m)'
  BY <1>4, <1>6 DEF vars, mirror, turn, history
<1>7. ASSUME NEW x, TypePrompt(x) PROVE FALSE
  BY <1>0, <1>7 DEF TypePrompt, turn
<1>8. CASE StartAnswer
  <2>1. UNCHANGED <<pc, phase, job, last, got, cursor, mixed>> /\ queue # {}
    BY <1>8 DEF StartAnswer, mirror, turn, history
  <2>2. Undisturbed(m)
    BY <1>1, <2>1
  <2>3. Len(session') = Len(session) + 1 /\ queue' \subseteq queue /\ \A i \in Rows : session'[i] = session[i]
    BY <1>8, AnswerStarts
  <2>4. PICK i \in queue : session'[Len(session) + 1] =
          [role |-> "assistant", by |-> session[i].by, text |-> None, state |-> "open", to |-> i]
    BY <1>8, AnswerStarts
  <2>5. CASE Working
    <3>1. PICK n \in Nat : n = Len(session) + 1
      BY <1>0
    <3>2. session'[n].role = "assistant" /\ session'[n].to = i
      BY <2>4, <3>1
    <3>3. session'[i].text \in {m, Template(m)}
      BY <1>0, <2>2, <2>3, <2>5 DEF Undisturbed, Work, Asks
    <3>4. Own(m, n)'
      BY <3>2, <3>3 DEF Own, Asks
    <3>5. \A j \in Rows' \ Rows : j = n
      BY <1>0, <2>3, <3>1 DEF Rows
    <3> QED
      BY <1>3, <2>1, <2>2, <2>3, <3>4, <3>5
  <2>6. CASE ~Working
    <3>1. ~(phase = "before" /\ pc \in {"read", "push"})
      BY <2>1, <2>2 DEF Undisturbed
    <3>2. ASSUME phase = "after", got # 0, pc \in {"push", "reply", "complete"}
          PROVE  session'[session'[got].to].text \in {m, Template(m)}
      <4>1. got \in Rows /\ session[got].role = "assistant" /\ Asks(m, session[got].to)
        BY <1>0, <2>2, <3>2 DEF Carries, Rows, Undisturbed
      <4> QED
        BY <4>1, OwnLasts DEF Asks
    <3> QED
      BY <2>1, <2>6, <3>1, <3>2 DEF Undisturbed, Working, Asks
  <2> QED
    BY <2>5, <2>6
<1>9. ASSUME NEW o \in {"text", "empty", "error"}, FinishAnswer(o) PROVE Undisturbed(m)'
  <2>1. UNCHANGED <<pc, phase, job, last, got, cursor, mixed, queue>> /\ open # 0
    BY <1>9 DEF FinishAnswer, mirror, turn, history
  <2>2. Len(session') = Len(session)
    BY <1>9, RowEnds DEF FinishAnswer, Shape
  <2> QED
    BY <1>1, <1>3, <2>1, <2>2 DEF Rows
<1>10. CASE TerminalAborts
  <2>1. UNCHANGED <<pc, phase, job, last, got, cursor, mixed>> /\ open # 0 /\ Abort
    BY <1>10 DEF TerminalAborts, mirror, turn, history
  <2>2. Len(session') = Len(session) /\ queue' = {}
    BY <2>1, AbortEnds
  <2> QED
    BY <1>1, <1>3, <2>1, <2>2 DEF Rows
<1>11. CASE OpenCodeDies
  <2>1. /\ UNCHANGED <<pc, phase, job, last, got, cursor, mixed, session>>
        /\ queue' = {} /\ open' = 0
    BY <1>11 DEF OpenCodeDies, mirror, turn
  <2> QED
    BY <1>1, <1>3, <2>1 DEF Rows
<1>12. CASE MirrorRead
  <2>1. /\ pc = "read" /\ pc' = "push" /\ got' = got /\ got = 0
        /\ UNCHANGED <<phase, job, cursor, mixed, session, queue, open>>
        /\ last' \in Finished \cup {cursor} /\ \A j \in Finished : j <= last'
    BY <1>12 DEF MirrorRead, Carries, opencode, turn
  <2>2. Undisturbed(m)
    BY <1>1, <2>1
  <2>3. ASSUME phase = "before", last' # Len(session) PROVE Stuck(last)'
    <3>1. open = 0 /\ \A i \in Finished : i \in Rows /\ i > cursor
      BY <2>1, <2>2, <2>3 DEF Undisturbed, Finished
    <3>2. PICK l : l = last'
      OBVIOUS
    <3>3. l \in 0..Len(session) /\ l + 1 \in Rows /\ cursor < l + 1
      BY <1>0, <2>1, <2>3, <3>1, <3>2 DEF Rows
    <3>4. l + 1 \notin Finished
      BY <2>1, <3>2, <3>3
    <3>5. PICK j \in Rows : cursor < j /\ j <= l + 1 /\ session[j].state = "open"
      BY <3>3, <3>4 DEF Finished
    <3>6. ~(j <= l)
      <4>1. CASE l \in Finished
        BY <3>5, <4>1 DEF Finished
      <4>2. CASE l = cursor
        BY <1>0, <3>5, <4>2 DEF Rows
      <4> QED
        BY <2>1, <3>2, <4>1, <4>2
    <3>7. j = l + 1
      BY <3>3, <3>5, <3>6 DEF Rows
    <3>8. Rows' = Rows /\ session'[l + 1].state = "open"
      BY <2>1, <3>5, <3>7 DEF Rows
    <3>9. open' # l + 1
      BY <2>1, <3>1, <3>3 DEF Rows
    <3>10. last' + 1 \in Rows' /\ session'[last' + 1].state = "open" /\ open' # last' + 1
      BY <3>2, <3>3, <3>8, <3>9
    <3> QED
      BY <3>10 DEF Stuck
  <2>4. Working' => Work(m)'
    <3>1. Working' => Working
      BY <2>1 DEF Working
    <3> QED
      BY <2>1, <2>2, <3>1, WorkLasts DEF Undisturbed, Rows
  <2> QED
    BY <2>1, <2>2, <2>3, <2>4 DEF Undisturbed
<1>13. CASE MirrorPush
  <2>1. /\ pc = "push" /\ UNCHANGED <<pc, phase, job, last, cursor, mixed, session, queue, open>>
    BY <1>13 DEF MirrorPush, opencode, turn, history
  <2>2. PICK i \in todo : got' = IF session[i].role = "assistant" THEN i ELSE got
    BY <1>13 DEF MirrorPush
  <2>3. Undisturbed(m)
    BY <1>1, <2>1
  <2>4. Working' => Work(m)'
    <3>1. Working' => Working
      BY <2>1 DEF Working
    <3> QED
      BY <2>1, <2>3, <3>1, WorkLasts DEF Undisturbed, Rows
  <2>5. ASSUME phase = "after", session[i].role = "assistant" PROVE Asks(m, session[i].to)
    <3>1. i \in Rows /\ cursor < i /\ i <= last
      BY <1>0, <2>1 DEF Carries
    <3>2. ~Stuck(cursor)
      BY <1>0, <2>1, <3>1 DEF PassedRows, Settled, Stuck, Rows
    <3> QED
      BY <2>1, <2>3, <2>5, <3>1, <3>2 DEF Undisturbed, Working, Work, Own
  <2>6. ASSUME phase = "after", got' # 0 PROVE session[session[got'].to].text \in {m, Template(m)}
    <3>1. CASE session[i].role = "assistant"
      BY <2>2, <2>5, <2>6, <3>1 DEF Asks
    <3>2. CASE session[i].role # "assistant"
      BY <2>1, <2>2, <2>3, <2>6, <3>2 DEF Asks, Undisturbed
    <3> QED
      BY <3>1, <3>2
  <2>7. phase = "before" => queue' = {} /\ open' = 0 /\ (last' = Len(session') \/ Stuck(last)')
    BY <2>1, <2>3 DEF Undisturbed, Stuck, Rows
  <2> QED
    BY <2>1, <2>4, <2>6, <2>7 DEF Undisturbed, Asks
<1>14. CASE MirrorSave
  <2>1. /\ pc = "push" /\ pc' = AfterMirror /\ cursor' = last
        /\ UNCHANGED <<phase, job, last, got, mixed, session, queue, open>>
    BY <1>14 DEF MirrorSave, opencode, mirror, turn, history
  <2>2. Undisturbed(m)
    BY <1>1, <2>1
  <2>3. CASE phase = "before"
    <3>1. pc' = "begin" /\ queue = {}
      BY <2>1, <2>2, <2>3 DEF AfterMirror, Undisturbed
    <3>2. Stuck(cursor)' \/ \A i \in Rows' : ~(i > cursor')
      BY <1>0, <2>1, <2>2, <2>3 DEF Undisturbed, Stuck, Rows
    <3>3. Work(m)'
      BY <2>1, <3>1, <3>2 DEF Work
    <3> QED
      BY <2>1, <2>3, <3>1, <3>3 DEF Undisturbed
  <2>4. CASE phase = "after"
    <3>1. pc' = "reply"
      BY <2>1, <2>4 DEF AfterMirror
    <3> QED
      BY <1>2, <2>1, <2>2, <3>1 DEF Undisturbed
  <2> QED
    BY <2>1, <2>3, <2>4 DEF TypeOK
<1>15. ASSUME NEW x \in Phone, Claim(x) PROVE Undisturbed(m)'
  <2>1. /\ pc' = "read" /\ phase' = "before" /\ x = m /\ UNCHANGED opencode
        /\ mixed' = IF open # 0 \/ queue # {} THEN mixed \cup {x} ELSE mixed
    BY <1>15 DEF Claim, Mirror
  <2>2. queue' = {} /\ open' = 0
    BY <2>1 DEF opencode
  <2> QED
    BY <2>1, <2>2 DEF Undisturbed, Working
<1>16. CASE MirrorAll
  BY <1>16 DEF MirrorAll, Mirror
<1>17. CASE BeginTurn
  <2>1. /\ pc = "begin" /\ pc' = "attempt"
        /\ UNCHANGED <<phase, job, cursor, mixed, session, queue, open>>
    BY <1>17 DEF BeginTurn, opencode, mirror, history
  <2>2. Work(m)'
    BY <1>1, <2>1, WorkLasts DEF Undisturbed, Working, Rows
  <2> QED
    BY <2>1, <2>2 DEF Undisturbed
<1>18. CASE Attempt
  <2>1. /\ pc = "attempt" /\ pc' = "ask" /\ UNCHANGED <<phase, job, cursor, mixed>>
        /\ HasRoom /\ Ask(IF slash THEN Template(job) ELSE job, "runner")
    BY <1>18 DEF Attempt, mirror, history
  <2>2. PICK text \in Texts \cap {m, Template(m)} : Ask(text, "runner")
    <3>1. job = m /\ (slash = TRUE => job \in Slash) /\ slash \in BOOLEAN
      BY <2>1 DEF Shape, TypeOK
    <3>2. (IF slash THEN Template(job) ELSE job) \in Texts \cap {m, Template(m)}
      <4>1. CASE slash = TRUE
        BY <3>1, <4>1, Zenon DEF Texts
      <4>2. CASE slash = FALSE
        BY <3>1, <4>2, Zenon DEF Texts
      <4> QED
        BY <3>1, <4>1, <4>2, Zenon
    <3> QED
      BY <2>1, <3>2
  <2>3. /\ Len(session') = Len(session) + 1 /\ session'[Len(session) + 1] = Prompt(text, "runner")
        /\ queue' = queue \cup {Len(session) + 1}
    BY <2>1, <2>2, AskAdds DEF Ask
  <2>4. session'[Len(session) + 1].text \in {m, Template(m)} /\ session'[Len(session) + 1].role = "user"
    BY <2>2, <2>3 DEF Prompt
  <2>5. \A i \in Rows' \ Rows : Own(m, i)'
    <3>1. PICK n \in Nat : n = Len(session) + 1
      BY <1>0
    <3>2. Own(m, n)'
      BY <2>4, <3>1 DEF Own, Asks
    <3>3. \A i \in Rows' \ Rows : i = n
      BY <1>0, <2>3, <3>1 DEF Rows
    <3> QED
      BY <3>2, <3>3
  <2>6. Work(m)
    BY <1>1, <2>1 DEF Undisturbed, Working
  <2>7. Work(m)'
    <3>1. \A i \in queue' : i \in queue \/ session'[i].text \in {m, Template(m)}
      BY <2>3, <2>4
    <3> QED
      BY <2>1, <2>5, <2>6, <3>1, WorkLasts
  <2> QED
    BY <2>1, <2>7 DEF Undisturbed
<1>19. CASE TurnReturns
  <2>1. /\ pc = "ask" /\ pc' = "read" /\ phase' = "after" /\ got' = 0
        /\ UNCHANGED <<job, cursor, mixed, session, queue, open>>
    BY <1>19 DEF TurnReturns, Mirror, opencode, turn, history
  <2>2. Undisturbed(m)
    <3>1. phase # "idle"
      BY <2>1 DEF Shape
    <3> QED
      BY <2>1, <3>1 DEF OwnTurns
  <2>3. Work(m)'
    BY <2>1, <2>2, WorkLasts DEF Undisturbed, Working, Rows
  <2> QED
    BY <2>1, <2>3 DEF Undisturbed
<1>20. CASE TurnThrows
  <2>1. /\ pc = "ask" /\ pc' \in {"attempt", "failing"} /\ UNCHANGED <<phase, job, cursor, mixed>>
        /\ Abort \/ UNCHANGED opencode
    BY <1>20 DEF TurnThrows, NextModel, Fail, mirror
  <2>2. Len(session') = Len(session) /\ queue' \subseteq queue
    BY <2>1, AbortEnds DEF opencode
  <2>3. Work(m)'
    BY <1>1, <2>1, <2>2, WorkLasts DEF Undisturbed, Working, Rows
  <2> QED
    BY <2>1, <2>3 DEF Undisturbed
<1>21. CASE PushNotes
  <2>1. /\ pc = "reply" /\ pc' \in {"failing", "complete"} /\ UNCHANGED <<phase, job, got, mixed>>
    BY <1>21 DEF PushNotes, Fail, mirror, turn
  <2>2. Undisturbed(m)
    BY <1>1, <2>1
  <2> QED
    BY <1>2, <2>1, <2>2 DEF Undisturbed
<1>22. CASE CompleteReply \/ FailReply \/ RunnerDies
  BY <1>22 DEF CompleteReply, FailReply, RunnerDies, Rest
<1>23. CASE CallFails
  <2>1. pc' = "failing" /\ pc' \notin {"read", "push", "begin", "attempt", "ask", "reply", "complete"}
    BY <1>23 DEF CallFails, Rest, Fail
  <2> QED
    BY <2>1 DEF Undisturbed, Working
<1> QED
  BY <1>5, <1>6, <1>7, <1>8, <1>9, <1>10, <1>11, <1>12, <1>13, <1>14, <1>15, <1>16, <1>17, <1>18,
     <1>19, <1>20, <1>21, <1>22, <1>23 DEF Next, RunnerStep, OpenCodeStep


-----------------------------------------------------------------------------
(* The replies *)

\* A reply is an answer.
RepliesAreAnswers == \A n \in Phone : replyTo[n] # 0 => replyTo[n] \in Rows /\ session[replyTo[n]].role = "assistant"

\* What a message is told is its own.
Given(m) ==
  \/ replyTo[m] = 0 /\ ChatHas("command", m)
  \/ /\ Mirrored(replyTo[m]) /\ session[replyTo[m]].state = "text"
     /\ m \in mixed \/ Asks(m, session[replyTo[m]].to)

\* What is remembered of a message's turn is not forgotten.
LEMMA MixedGrows == ASSUME [Next]_vars PROVE mixed \subseteq mixed'
<1>1. mixed' = mixed \/ (\E S : mixed' = mixed \cup S)
  BY Zenon DEF Next, RunnerStep, OpenCodeStep, SendMessage, TypePrompt, StartAnswer, FinishAnswer,
     TerminalAborts, OpenCodeDies, MirrorRead, MirrorPush, MirrorSave, Claim, MirrorAll, BeginTurn,
     Attempt, TurnReturns, TurnThrows, PushNotes, CompleteReply, FailReply, CallFails, RunnerDies,
     history, vars
<1> QED
  BY <1>1

\* A reply that is given stays so.
LEMMA ReplyLasts ==
  ASSUME TypeOK, Shape, AnswersPoint, Carries, RepliesAreAnswers, [Next]_vars,
         NEW m \in Phone, replyTo'[m] = replyTo[m]
  PROVE  /\ replyTo[m] # 0 => replyTo[m] \in Rows' /\ session'[replyTo[m]].role = "assistant"
         /\ Given(m) => Given(m)'
<1>1. PICK r \in Nat : r = replyTo[m]
  BY DeskTurnAssumption DEF TypeOK
<1>2. ASSUME r # 0
      PROVE  /\ r \in Rows' /\ session'[r].role = "assistant"
             /\ session[r].state = "text" => session'[r].state = "text"
             /\ Asks(m, session[r].to) => session'[session'[r].to].text \in {m, Template(m)}
  <2>1. r \in Rows /\ session[r].role = "assistant"
    BY <1>1, <1>2 DEF RepliesAreAnswers
  <2> QED
    BY <2>1, Lasts, OwnLasts DEF Asks
<1>3. Range(thread) \subseteq Range(thread') /\ mixed \subseteq mixed'
  BY ChatStep, MixedGrows
<1>4. CASE replyTo[m] = 0 /\ ChatHas("command", m)
  <2>1. replyTo'[m] = 0 /\ ChatHas("command", m)'
    BY <1>3, <1>4 DEF ChatHas
  <2> QED
    BY <1>1, <1>2, <2>1 DEF Given
<1>5. ASSUME Mirrored(r), session[r].state = "text", m \in mixed \/ Asks(m, session[r].to)
      PROVE  Given(m)'
  <2>1. r # 0
    <3>1. PICK i \in DOMAIN thread : thread[i] = [kind |-> "turn", id |-> r]
      BY <1>5, Zenon DEF Mirrored, ChatHas, Range
    <3>2. thread[i] \in ChatRow
      BY <3>1 DEF TypeOK
    <3> QED
      BY <3>1, <3>2, DeskTurnAssumption DEF ChatRow
  <2>2. Mirrored(r)'
    BY <1>3, <1>5 DEF Mirrored, ChatHas
  <2>3. session'[r].state = "text" /\ (m \in mixed' \/ session'[session'[r].to].text \in {m, Template(m)})
    <3>1. session'[r].state = "text"
      BY <1>2, <1>5, <2>1
    <3>2. CASE m \in mixed
      BY <1>3, <3>1, <3>2
    <3>3. CASE Asks(m, session[r].to)
      BY <1>2, <2>1, <3>1, <3>3, Zenon
    <3> QED
      BY <1>5, <3>2, <3>3
  <2>4. replyTo'[m] = r
    BY <1>1
  <2>5. Mirrored(replyTo[m])'
    BY <2>2, <2>4 DEF Mirrored, ChatHas
  <2> QED
    BY <2>3, <2>4, <2>5 DEF Given, Asks
<1>6. Given(m) => \/ replyTo[m] = 0 /\ ChatHas("command", m)
                  \/ Mirrored(r) /\ session[r].state = "text" /\ (m \in mixed \/ Asks(m, session[r].to))
  BY <1>1, Zenon DEF Given
<1> QED
  BY <1>1, <1>2, <1>4, <1>5, <1>6

\* A step either leaves the replies alone or completes one.
LEMMA RepliesChange ==
  ASSUME TypeOK, [Next]_vars, ~CompleteReply
  PROVE  replyTo' = replyTo /\ \A m \in Phone : status'[m] = "replied" => status[m] = "replied"
<1>1. status \in [Phone -> {"none", "pending", "claimed", "replied", "error"}]
  BY DEF TypeOK
<1>2. ASSUME NEW x \in Phone, SendMessage(x) \/ Claim(x)
      PROVE  replyTo' = replyTo /\ \A m \in Phone : status'[m] = "replied" => status[m] = "replied"
  BY <1>1, <1>2 DEF SendMessage, Claim
<1>3. ASSUME FailReply
      PROVE  replyTo' = replyTo /\ \A m \in Phone : status'[m] = "replied" => status[m] = "replied"
  BY <1>1, <1>3 DEF FailReply
<1>4. ASSUME NEW x, TypePrompt(x) \/ FinishAnswer(x) PROVE UNCHANGED <<status, replyTo>>
  BY <1>4 DEF TypePrompt, FinishAnswer, chat
<1>5. ASSUME StartAnswer \/ TerminalAborts \/ OpenCodeDies \/ MirrorRead \/ MirrorPush \/ MirrorSave
             \/ MirrorAll \/ BeginTurn \/ Attempt \/ TurnReturns \/ TurnThrows \/ PushNotes \/ CallFails
             \/ RunnerDies
      PROVE  UNCHANGED <<status, replyTo>>
  BY <1>5 DEF StartAnswer, TerminalAborts, OpenCodeDies, MirrorRead, MirrorPush, MirrorSave, MirrorAll,
     BeginTurn, Attempt, TurnReturns, TurnThrows, PushNotes, CallFails, RunnerDies, chat
<1>6. ASSUME UNCHANGED vars PROVE UNCHANGED <<status, replyTo>>
  BY <1>6 DEF vars, chat
<1> QED
  BY <1>2, <1>3, <1>4, <1>5, <1>6 DEF Next, RunnerStep, OpenCodeStep

\* Replies stay their messages' own.
LEMMA ReplyStep ==
  ASSUME TypeOK, Shape, AnswersPoint, Carries, OwnTurns, RepliesAreAnswers, ReplyIsItsOwn, [Next]_vars
  PROVE  ReplyIsItsOwn' /\ RepliesAreAnswers'
<1>0. /\ \A m \in Phone : status[m] = "replied" => Given(m)
      /\ \A m, n \in Phone : replyTo[m] = replyTo[n] /\ replyTo[m] # 0 => m = n
  BY Zenon DEF ReplyIsItsOwn, Given, Asks
<1>1. ASSUME \A m \in Phone : status'[m] = "replied" => Given(m)',
             \A m, n \in Phone : replyTo'[m] = replyTo'[n] /\ replyTo'[m] # 0 => m = n
      PROVE  ReplyIsItsOwn'
  BY <1>1, Zenon DEF ReplyIsItsOwn, Given, Asks
<1>2. CASE ~CompleteReply
  <2>1. replyTo' = replyTo /\ \A m \in Phone : status'[m] = "replied" => status[m] = "replied"
    BY <1>2, RepliesChange
  <2>2. \A m \in Phone : status'[m] = "replied" => Given(m)'
    BY <1>0, <2>1, ReplyLasts
  <2>3. RepliesAreAnswers'
    BY <2>1, ReplyLasts DEF RepliesAreAnswers
  <2> QED
    BY <1>0, <1>1, <2>1, <2>2, <2>3
<1>3. CASE CompleteReply
  <2>1. /\ pc = "complete" /\ status' = [status EXCEPT ![job] = "replied"]
        /\ replyTo' = [replyTo EXCEPT ![job] = got]
        /\ UNCHANGED <<thread, session, mixed>>
    BY <1>3 DEF CompleteReply, opencode, history
  <2>2. job \in Phone /\ phase = "after" /\ got \in 0..Len(session) /\ Len(session) \in Nat
        /\ status \in [Phone -> {"none", "pending", "claimed", "replied", "error"}]
        /\ replyTo \in [Phone -> 0..MaxRows] /\ MaxRows \in Nat
    BY <2>1, DeskTurnAssumption DEF Shape, Carries, TypeOK
  <2>3. PICK j \in Phone : j = job
    BY <2>2
  <2>4. replyTo'[j] = got /\ \A m \in Phone : m # j => replyTo'[m] = replyTo[m] /\ status'[m] = status[m]
    BY <2>1, <2>2, <2>3
  <2>5. got # 0 => /\ got \in Rows /\ session[got].role = "assistant" /\ session[got].state = "text"
                  /\ Mirrored(got) /\ \A n \in Phone : replyTo[n] < got
    BY <2>1, <2>2 DEF Carries, Rows
  <2>6. Given(j)'
    <3>1. CASE got = 0
      <4>1. ChatHas("command", j)
        BY <2>1, <2>3, <3>1 DEF Carries
      <4>2. replyTo'[j] = 0 /\ ChatHas("command", j)'
        BY <2>1, <2>4, <3>1, <4>1 DEF ChatHas
      <4> QED
        BY <4>2 DEF Given
    <3>2. CASE got # 0
      <4>1. j \notin mixed => Asks(j, session[got].to)
        BY <2>1, <2>2, <2>3, <3>2 DEF OwnTurns, Undisturbed
      <4>2. [kind |-> "turn", id |-> got] \in Range(thread)
        BY <2>5, <3>2 DEF Mirrored, ChatHas
      <4>3. [kind |-> "turn", id |-> replyTo'[j]] \in Range(thread')
        BY <2>1, <2>4, <4>2
      <4>4. Mirrored(replyTo[j])'
        BY <4>3 DEF Mirrored, ChatHas
      <4>5. /\ session'[replyTo'[j]].state = "text"
            /\ j \in mixed' \/ session'[session'[replyTo'[j]].to].text \in {j, Template(j)}
        BY <2>1, <2>4, <2>5, <3>2, <4>1 DEF Asks
      <4> QED
        BY <4>4, <4>5 DEF Given, Asks
    <3> QED
      BY <3>1, <3>2
  <2>7. \A m \in Phone : status'[m] = "replied" => Given(m)'
    BY <1>0, <2>4, <2>6, ReplyLasts
  <2>8. \A m, n \in Phone : replyTo'[m] = replyTo'[n] /\ replyTo'[m] # 0 => m = n
    BY <1>0, <2>2, <2>4, <2>5
  <2>9. RepliesAreAnswers'
    <3>1. \A n \in Phone : replyTo'[n] # 0 => replyTo'[n] \in Rows /\ session[replyTo'[n]].role = "assistant"
      BY <2>4, <2>5 DEF RepliesAreAnswers
    <3>2. \A n \in Phone : replyTo'[n] # 0 => replyTo'[n] \in Rows' /\ session'[replyTo'[n]].role = "assistant"
      BY <2>1, <3>1 DEF Rows
    <3> QED
      BY <3>2 DEF RepliesAreAnswers
  <2> QED
    BY <1>1, <2>7, <2>8, <2>9
<1> QED
  BY <1>2, <1>3

-----------------------------------------------------------------------------
(* No echo *)

\* A prompt the runner wrote.
RunnersOwn(i) == session[i].role = "user" /\ session[i].by = "runner"

\* Row i may be in the chat at position q although a phone's message is behind it.
Excusable(i, q) ==
  \/ \E m \in botched : session[i].text = Template(m)
  \/ \E p \in DOMAIN thread :
       thread[p] = [kind |-> "phone", id |-> session[i].text] /\ q - p > ContextRows

\* OpenCode died while it wrote an answer between the cursor and row i.
Blocked(i) == \E r \in Rows : cursor < r /\ r < i /\ session[r].state = "open" /\ r # open

\* Row i is the template of the command that is running, which will drop it.
Passing(m, i) ==
  /\ job = m /\ slash = TRUE
  /\ \/ pc = "ask" /\ i = prompt
     \/ phase = "after" /\ pc = "read" /\ i = prompt /\ Answered(prompt)
     \/ phase = "after" /\ pc = "push" /\ i <= last

\* No mirror will push row i, the template of command m, unless m's turn broke off.
Covered(m, i) == m \in botched \/ i <= cursor \/ Blocked(i) \/ Passing(m, i)

\* A message that was asked about is in the chat.
Sent ==
  /\ \A m \in Phone : status[m] # "none" => ChatHas("phone", m)
  /\ job \in Phone => status[job] # "none"

\* What the runner asks is a message of the chat, or a template that is covered.
RunnerPrompts ==
  \A i \in Rows : RunnersOwn(i) =>
    \/ session[i].text \in Phone /\ ChatHas("phone", session[i].text)
    \/ \E m \in Slash : session[i].text = Template(m) /\ Covered(m, i)

\* A command has one attempt.
CommandsAskOnce == slash = TRUE /\ pc \in {"attempt", "ask"} => left = 1

\* What is about to be pushed is excusable from the chat's end on.
Forgotten == pc = "push" => \A i \in todo : RunnersOwn(i) => Excusable(i, Len(thread) + 1)

\* The chat's turns are rows of the session.
TurnsAreRows == \A q \in DOMAIN thread : thread[q].kind = "turn" => thread[q].id \in Rows

\* The chat only grows, and only by what is stored.
LEMMA ThreadGrows ==
  ASSUME TypeOK, Shape, [Next]_vars
  PROVE  /\ thread \in Seq(ChatRow) /\ thread' \in Seq(ChatRow) /\ Len(thread) <= Len(thread')
         /\ \A q \in 1..Len(thread) : thread'[q] = thread[q]
         /\ \A q \in 1..Len(thread') : q \in 1..Len(thread)
              \/ (q = Len(thread) + 1 /\ (thread'[q].kind = "turn" => MirrorPush /\ thread'[q].id \in todo))
<1> DEFINE Goal == /\ thread \in Seq(ChatRow) /\ thread' \in Seq(ChatRow) /\ Len(thread) <= Len(thread')
                   /\ \A q \in 1..Len(thread) : thread'[q] = thread[q]
                   /\ \A q \in 1..Len(thread') : q \in 1..Len(thread)
                        \/ (q = Len(thread) + 1 /\ (thread'[q].kind = "turn" => MirrorPush /\ thread'[q].id \in todo))
<1>0. thread \in Seq(ChatRow) /\ Len(thread) \in Nat /\ MaxRows \in Nat
  BY DeskTurnAssumption DEF TypeOK
<1>1. ASSUME thread' = thread PROVE Goal
  BY <1>0, <1>1
<1>2. ASSUME NEW kind, NEW x, [kind |-> kind, id |-> x] \in ChatRow, Store(kind, x),
             kind = "turn" => MirrorPush /\ x \in todo
      PROVE  Goal
  <2>1. CASE ChatHas(kind, x)
    BY <1>1, <1>2, <2>1 DEF Store
  <2>2. CASE ~ChatHas(kind, x)
    <3>1. thread' = Append(thread, [kind |-> kind, id |-> x])
      BY <1>2, <2>2 DEF Store
    <3>2. /\ thread' \in Seq(ChatRow) /\ Len(thread') = Len(thread) + 1
          /\ \A q \in 1..Len(thread) : thread'[q] = thread[q]
          /\ thread'[Len(thread) + 1] = [kind |-> kind, id |-> x]
      BY <1>0, <1>2, <3>1, AppendHas
    <3>3. thread'[Len(thread) + 1].kind = kind /\ thread'[Len(thread) + 1].id = x
      BY <3>2
    <3> QED
      BY <1>0, <1>2, <3>2, <3>3
  <2> QED
    BY <2>1, <2>2
<1> HIDE DEF Goal
<1>3. ASSUME NEW m \in Phone, SendMessage(m) PROVE Goal
  <2>1. [kind |-> "phone", id |-> m] \in ChatRow
    BY DEF ChatRow
  <2> QED
    BY <1>2, <1>3, <2>1 DEF SendMessage
<1>4. ASSUME MirrorPush PROVE Goal
  <2>1. PICK i \in todo : Store("turn", i)
    BY <1>4 DEF MirrorPush
  <2>2. [kind |-> "turn", id |-> i] \in ChatRow
    BY <1>0, <2>1 DEF ChatRow, TypeOK, Rows
  <2> QED
    BY <1>2, <1>4, <2>1, <2>2
<1>5. ASSUME PushNotes PROVE Goal
  <2>1. job \in Phone
    BY <1>5 DEF PushNotes, Shape
  <2>2. [kind |-> "command", id |-> job] \in ChatRow /\ [kind |-> "note", id |-> job] \in ChatRow
    BY <2>1 DEF ChatRow
  <2>3. UNCHANGED thread \/ Store("command", job) \/ Store("note", job)
    BY <1>5 DEF PushNotes
  <2> QED
    BY <1>1, <1>2, <2>2, <2>3
<1>6. ASSUME NEW x, TypePrompt(x) \/ FinishAnswer(x) PROVE thread' = thread
  BY <1>6 DEF TypePrompt, FinishAnswer, chat
<1>7. ASSUME StartAnswer \/ TerminalAborts \/ OpenCodeDies \/ RunnerDies PROVE thread' = thread
  BY <1>7 DEF StartAnswer, TerminalAborts, OpenCodeDies, RunnerDies, chat
<1>8. ASSUME RunnerStep, ~MirrorPush, ~PushNotes PROVE thread' = thread
  BY <1>8 DEF RunnerStep, MirrorRead, MirrorSave, Claim, MirrorAll, BeginTurn, Attempt, TurnReturns,
     TurnThrows, CompleteReply, FailReply, CallFails, chat
<1>9. ASSUME UNCHANGED vars PROVE thread' = thread
  BY <1>9 DEF vars, chat
<1>10. Goal
  BY <1>1, <1>3, <1>4, <1>5, <1>6, <1>7, <1>8, <1>9 DEF Next, OpenCodeStep
<1> QED
  BY <1>10 DEF Goal

\* What broke off is remembered.
LEMMA BotchedGrows == ASSUME [Next]_vars PROVE botched \subseteq botched'
<1>1. botched' = botched \/ (\E S : botched' = botched \cup S)
  BY Zenon DEF Next, RunnerStep, OpenCodeStep, SendMessage, TypePrompt, StartAnswer, FinishAnswer,
     TerminalAborts, OpenCodeDies, MirrorRead, MirrorPush, MirrorSave, Claim, MirrorAll, BeginTurn,
     Attempt, TurnReturns, TurnThrows, NextModel, PushNotes, CompleteReply, FailReply, CallFails,
     RunnerDies, Fail, history, vars
<1> QED
  BY <1>1

\* An excuse lasts.
LEMMA ExcuseLasts ==
  ASSUME TypeOK, Shape, [Next]_vars, NEW i \in Rows, NEW q \in Nat, NEW r \in Nat, q <= r, Excusable(i, q)
  PROVE  /\ \/ \E m \in botched' : session'[i].text = Template(m)
            \/ \E p \in DOMAIN thread' :
                 thread'[p] = [kind |-> "phone", id |-> session'[i].text] /\ r - p > ContextRows
         /\ RunnersOwn(i)' => RunnersOwn(i)
<1>1. session'[i].text = session[i].text /\ (RunnersOwn(i)' => RunnersOwn(i))
  BY SessionStep DEF SessionGrows, RunnersOwn
<1>2. CASE \E m \in botched : session[i].text = Template(m)
  BY <1>1, <1>2, BotchedGrows
<1>3. ASSUME NEW p \in DOMAIN thread, thread[p] = [kind |-> "phone", id |-> session[i].text], q - p > ContextRows
      PROVE  p \in DOMAIN thread' /\ thread'[p] = [kind |-> "phone", id |-> session'[i].text] /\ r - p > ContextRows
  <2>1. p \in 1..Len(thread) /\ p \in 1..Len(thread') /\ DOMAIN thread' = 1..Len(thread') /\ p \in Nat
    BY <1>3, ThreadGrows
  <2>2. r - p > ContextRows
    BY <1>3, <2>1, DeskTurnAssumption
  <2> QED
    BY <1>1, <1>3, <2>1, <2>2, ThreadGrows
<1> QED
  BY <1>1, <1>2, <1>3 DEF Excusable


\* A message that is asked about stays in the chat.
LEMMA SentStep == ASSUME TypeOK, Shape, Sent, [Next]_vars PROVE Sent'
<1>0. /\ status \in [Phone -> {"none", "pending", "claimed", "replied", "error"}] /\ None \notin Phone
      /\ \A m \in Phone : ChatHas("phone", m) => ChatHas("phone", m)'
  BY ChatStep, DeskTurnAssumption DEF TypeOK, ChatHas
<1>1. ASSUME UNCHANGED status, job' \in {job, None} PROVE Sent'
  BY <1>0, <1>1 DEF Sent
<1>2. ASSUME NEW x \in Phone, SendMessage(x) PROVE Sent'
  <2>1. status' = [status EXCEPT ![x] = "pending"] /\ job' = job
    BY <1>2 DEF SendMessage, turn
  <2>2. [kind |-> "phone", id |-> x] \in ChatRow
    BY DEF ChatRow
  <2>3. [kind |-> "phone", id |-> x] \in Range(thread')
    BY <1>2, <2>2, StoreAdds DEF SendMessage
  <2>4. ChatHas("phone", x)'
    BY <2>3 DEF ChatHas
  <2> QED
    BY <1>0, <2>1, <2>4 DEF Sent
<1>3. ASSUME NEW x \in Phone, Claim(x) PROVE Sent'
  BY <1>0, <1>3 DEF Claim, Claimable, Sent
<1>4. ASSUME CompleteReply \/ FailReply PROVE Sent'
  <2>1. job \in Phone /\ job' = None /\ status' \in {status, [status EXCEPT ![job] = "replied"], [status EXCEPT ![job] = "error"]}
    BY <1>4 DEF CompleteReply, FailReply, Rest, Shape
  <2> QED
    BY <1>0, <2>1 DEF Sent
<1>5. ASSUME NEW x, TypePrompt(x) \/ FinishAnswer(x) PROVE status' = status /\ job' = job
  BY <1>5 DEF TypePrompt, FinishAnswer, chat, turn
<1>6. ASSUME StartAnswer \/ TerminalAborts \/ OpenCodeDies PROVE status' = status /\ job' = job
  BY <1>6 DEF StartAnswer, TerminalAborts, OpenCodeDies, chat, turn
<1>7. ASSUME MirrorRead \/ MirrorPush \/ MirrorSave \/ MirrorAll \/ BeginTurn \/ Attempt \/ TurnReturns
             \/ TurnThrows \/ PushNotes
      PROVE  status' = status /\ job' = job
  BY <1>7 DEF MirrorRead, MirrorPush, MirrorSave, MirrorAll, BeginTurn, Attempt, TurnReturns, TurnThrows,
     PushNotes, chat, turn
<1>8. ASSUME CallFails \/ RunnerDies PROVE status' = status /\ job' \in {job, None}
  BY <1>8 DEF CallFails, RunnerDies, Rest, chat, turn
<1>9. ASSUME UNCHANGED vars PROVE status' = status /\ job' = job
  BY <1>9 DEF vars, chat, turn
<1> QED
  BY <1>1, <1>2, <1>3, <1>4, <1>5, <1>6, <1>7, <1>8, <1>9 DEF Next, RunnerStep, OpenCodeStep

\* A command keeps to its one attempt.
LEMMA CommandStep == ASSUME TypeOK, Shape, CommandsAskOnce, [Next]_vars PROVE CommandsAskOnce'
<1>1. ASSUME pc' \in {"attempt", "ask"} PROVE
        \/ UNCHANGED <<slash, left>> /\ pc \in {"attempt", "ask"}
        \/ slash' = TRUE /\ left' = 1
        \/ slash' = FALSE
        \/ left > 1 /\ UNCHANGED slash /\ pc = "ask"
  <2>1. ASSUME NEW x, SendMessage(x) \/ TypePrompt(x) \/ FinishAnswer(x) PROVE UNCHANGED <<pc, slash, left>>
    BY <2>1 DEF SendMessage, TypePrompt, FinishAnswer, turn
  <2>2. ASSUME StartAnswer \/ TerminalAborts \/ OpenCodeDies PROVE UNCHANGED <<pc, slash, left>>
    BY <2>2 DEF StartAnswer, TerminalAborts, OpenCodeDies, turn
  <2>3. ASSUME UNCHANGED vars PROVE UNCHANGED <<pc, slash, left>>
    BY <2>3 DEF vars, turn
  <2>4. BeginTurn => (slash' = TRUE /\ left' = 1) \/ slash' = FALSE
    BY Zenon DEF BeginTurn
  <2>5. Attempt => UNCHANGED <<slash, left>> /\ pc \in {"attempt", "ask"}
    BY DEF Attempt
  <2>6. TurnThrows => left > 1 /\ UNCHANGED slash /\ pc = "ask"
    BY <1>1 DEF TurnThrows, NextModel, Fail
  <2>7. ASSUME NEW m \in Phone, Claim(m) PROVE FALSE
    BY <1>1, <2>7 DEF Claim, Mirror
  <2>8. ~(MirrorRead \/ MirrorSave \/ MirrorAll \/ TurnReturns \/ PushNotes)
    BY <1>1 DEF MirrorRead, MirrorSave, AfterMirror, MirrorAll, TurnReturns, PushNotes, Mirror, Fail
  <2>9. ~(MirrorPush \/ CompleteReply \/ FailReply \/ CallFails \/ RunnerDies)
    BY <1>1 DEF MirrorPush, CompleteReply, FailReply, CallFails, RunnerDies, Rest, Fail
  <2> QED
    BY <1>1, <2>1, <2>2, <2>3, <2>4, <2>5, <2>6, <2>7, <2>8, <2>9 DEF Next, RunnerStep, OpenCodeStep
<1>2. ~(slash = TRUE /\ left > 1 /\ pc = "ask")
  <2>1. SUFFICES ASSUME slash = TRUE, pc = "ask" PROVE ~(left > 1)
    BY Zenon
  <2>2. left = 1
    BY <2>1, Zenon DEF CommandsAskOnce
  <2> QED
    BY <2>2
<1> QED
  BY <1>1, <1>2, Zenon DEF CommandsAskOnce

\* The cursor never goes back, and never passes an answer that is blocked.
LEMMA CursorGrows ==
  ASSUME TypeOK, Shape, PassedRows, [Next]_vars
  PROVE  cursor \in Nat /\ cursor' \in Nat /\ cursor <= cursor'
         /\ \A i \in Rows : Blocked(i) => Blocked(i)'
<1>0. cursor \in 0..Len(session) /\ last \in 0..Len(session) /\ Len(session) \in Nat
      /\ Len(session') \in Nat /\ Len(session) <= Len(session')
  BY SessionStep DEF TypeOK, SessionGrows, Rows
<1>1. cursor' = cursor \/ (pc = "push" /\ cursor' = last)
  BY PushesOnlyAfterReading DEF MirrorRead, MirrorPush, MirrorSave
<1>2. ASSUME NEW r \in Rows, cursor < r, session[r].state = "open", r # open
      PROVE  r \in Rows' /\ cursor' < r /\ session'[r].state = "open" /\ r # open'
  <2>1. session'[r].state = "open" /\ r # open' /\ r \in Rows'
    BY <1>0, <1>2, SessionStep DEF Rows
  <2>2. CASE cursor' = cursor
    BY <1>2, <2>1, <2>2
  <2>3. CASE pc = "push" /\ cursor' = last
    <3>1. r \notin 1..last
      BY <1>2, <2>3 DEF PassedRows, Settled
    <3> QED
      BY <1>0, <2>1, <2>3, <3>1 DEF Rows
  <2> QED
    BY <1>1, <2>2, <2>3
<1>3. cursor <= cursor' /\ cursor' \in Nat
  BY <1>0, <1>1 DEF PassedRows
<1> QED
  BY <1>0, <1>2, <1>3 DEF Blocked

\* A prompt that has been answered stays so.
LEMMA AnsweredLasts ==
  ASSUME TypeOK, Shape, [Next]_vars, NEW i, Answered(i)
  PROVE  \E a \in Rows' : session'[a].to = i /\ session'[a].state # "open"
<1>1. PICK a \in Rows : session[a].to = i /\ session[a].state # "open"
  BY DEF Answered
<1> QED
  BY <1>1, Lasts

\* A command's template is on its way past the mirror until it is past it, cannot be
\* reached, or its turn breaks off.
LEMMA PassingStep ==
  ASSUME TypeOK, Shape, AnswersPoint, CommandsAskOnce, [Next]_vars,
         NEW m \in Slash, NEW i \in Rows, session[i].role = "user", Passing(m, i)
  PROVE  m \in botched' \/ i <= cursor' \/ Blocked(i)' \/ Passing(m, i)'
<1> DEFINE Goal == m \in botched' \/ i <= cursor' \/ Blocked(i)' \/ Passing(m, i)'
<1>0. /\ m # None /\ m \in Phone /\ job = m /\ slash = TRUE /\ i \in Nat /\ i # 0
      /\ pc \in {"ask", "read", "push"}
      /\ pc = "ask" => i = prompt
      /\ pc = "read" => phase = "after" /\ i = prompt /\ Answered(i)
      /\ pc = "push" => phase = "after" /\ i <= last
  BY DeskTurnAssumption DEF Passing, Rows
<1>1. ASSUME UNCHANGED <<pc, phase, job, slash, prompt, last>> PROVE Goal
  <2>1. Answered(i) => Answered(i)'
    BY AnsweredLasts DEF Answered
  <2>2. Passing(m, i)'
    BY <1>0, <1>1, <2>1 DEF Passing
  <2> QED
    BY <2>2
<1>2. ASSUME RunnerDies PROVE Goal
  BY <1>0, <1>2 DEF RunnerDies
<1>3. ASSUME TurnReturns PROVE Goal
  <2>1. /\ pc = "ask" /\ Answered(prompt) /\ pc' = "read" /\ phase' = "after"
        /\ job' = job /\ slash' = slash /\ prompt' = prompt
    BY <1>3 DEF TurnReturns, Mirror, turn
  <2>2. Answered(i)
    BY <1>0, <2>1 DEF Answered
  <2>3. Answered(i)'
    BY <2>2, AnsweredLasts DEF Answered
  <2>4. Passing(m, i)'
    BY <1>0, <2>1, <2>3 DEF Passing
  <2> QED
    BY <2>4
<1>4. ASSUME TurnThrows PROVE Goal
  <2>1. pc = "ask" /\ (NextModel \/ Fail(job))
    BY <1>4 DEF TurnThrows
  <2>2. left = 1
    BY <1>0, <2>1, Zenon DEF CommandsAskOnce
  <2>3. ~NextModel
    BY <2>2 DEF NextModel
  <2> QED
    BY <1>0, <2>1, <2>3 DEF Fail
<1>5. ASSUME MirrorRead PROVE Goal
  <2>1. /\ pc = "read" /\ pc' = "push" /\ phase' = phase /\ cursor' = cursor
        /\ job' = job /\ slash' = slash /\ session' = session /\ open' = open
    BY <1>5 DEF MirrorRead, turn, opencode
  <2>2. phase = "after" /\ Answered(i)
    BY <1>0, <2>1
  <2>3. CASE i <= cursor
    BY <2>1, <2>3
  <2>4. CASE i \in Finished
    <3>1. last' \in Nat /\ i <= last'
      <4>1. PICK k \in Finished \cup {cursor} : (\A j \in Finished : j <= k) /\ last' = k
        BY <1>5 DEF MirrorRead
      <4>2. k \in Nat
        BY <4>1 DEF Finished, Rows, TypeOK
      <4> QED
        BY <2>4, <4>1, <4>2
    <3>2. Passing(m, i)'
      BY <1>0, <2>1, <2>2, <3>1 DEF Passing
    <3> QED
      BY <3>2
  <2>5. CASE i > cursor /\ i \notin Finished
    <3>1. PICK r \in Rows : cursor < r /\ r <= i /\ session[r].state = "open"
      BY <2>5 DEF Finished
    <3>2. r < i
      <4>1. session[i].state = "text"
        BY DEF AnswersPoint
      <4> QED
        BY <3>1, <4>1 DEF Rows
    <3>3. r # open
      <4>1. PICK a \in Rows : session[a].to = i /\ session[a].state # "open"
        BY <2>2 DEF Answered
      <4>2. session \in Seq(SessionRow) /\ session[a] \in SessionRow
        BY <4>1 DEF TypeOK, Rows
      <4>3. session[a].role = "assistant"
        BY <1>0, <4>1, <4>2 DEF AnswersPoint, SessionRow
      <4>4. i < a
        BY <4>1, <4>3 DEF AnswersPoint, Rows
      <4>5. open # 0 => a <= open
        BY <4>3 DEF AnswersPoint
      <4> QED
        BY <3>1, <3>2, <4>4, <4>5 DEF Rows
    <3>4. Blocked(i)'
      BY <2>1, <3>1, <3>2, <3>3 DEF Blocked, Rows
    <3> QED
      BY <3>4
  <2> QED
    BY <1>0, <2>3, <2>4, <2>5 DEF TypeOK, Rows
<1>6. ASSUME MirrorPush PROVE Goal
  <2>1. /\ pc = "push" /\ pc' = pc /\ phase' = phase /\ last' = last /\ job' = job /\ slash' = slash
    BY <1>6 DEF MirrorPush, turn
  <2>2. Passing(m, i)'
    BY <1>0, <2>1 DEF Passing
  <2> QED
    BY <2>2
<1>7. ASSUME MirrorSave PROVE Goal
  BY <1>0, <1>7 DEF MirrorSave
<1>8. ASSUME CallFails PROVE Goal
  BY <1>0, <1>8 DEF CallFails, Fail
<1>9. ~(MirrorAll \/ BeginTurn \/ Attempt \/ PushNotes \/ CompleteReply \/ FailReply \/ \E x \in Phone : Claim(x))
  BY <1>0 DEF MirrorAll, BeginTurn, Attempt, PushNotes, CompleteReply, FailReply, Claim
<1> HIDE DEF Goal
<1>10. RunnerStep => Goal
  BY <1>3, <1>4, <1>5, <1>6, <1>7, <1>8, <1>9 DEF RunnerStep
<1>11. Goal
  BY <1>1, <1>2, <1>10, OthersLeaveRunner
<1> QED
  BY <1>11 DEF Goal

\* What is covered stays covered.
LEMMA CoverStep ==
  ASSUME TypeOK, Shape, AnswersPoint, PassedRows, CommandsAskOnce, [Next]_vars,
         NEW m \in Slash, NEW i \in Rows, session[i].role = "user", Covered(m, i)
  PROVE  m \in botched' \/ i <= cursor' \/ Blocked(i)' \/ Passing(m, i)'
<1>1. CASE m \in botched
  BY <1>1, BotchedGrows
<1>2. CASE i <= cursor
  BY <1>2, CursorGrows DEF Rows
<1>3. CASE Blocked(i)
  BY <1>3, CursorGrows
<1>4. CASE Passing(m, i)
  BY <1>4, PassingStep
<1> QED
  BY <1>1, <1>2, <1>3, <1>4 DEF Covered

\* What the runner asks is the message it has, or its template.
LEMMA AttemptAsks ==
  ASSUME TypeOK, Shape, Sent, Attempt, NEW n \in Nat, n = Len(session) + 1
  PROVE  \/ session'[n].text \in Phone /\ ChatHas("phone", session[n].text)'
         \/ \E m \in Slash : session'[n].text = Template(m) /\ Covered(m, n)'
<1>1. /\ pc = "attempt" /\ pc' = "ask" /\ prompt' = n /\ job' = job /\ slash' = slash
      /\ thread' = thread /\ HasRoom
      /\ Ask(IF slash THEN Template(job) ELSE job, "runner")
  BY DEF Attempt, chat
<1>2. job \in Phone /\ slash \in BOOLEAN /\ (slash = TRUE => job \in Slash)
  BY <1>1 DEF Shape, TypeOK
<1>3. PICK j \in Phone : j = job
  BY <1>2
<1>4. ChatHas("phone", j)
  BY <1>3 DEF Sent
<1>5. CASE slash = TRUE
  <2>1. j \in Slash
    BY <1>2, <1>3, <1>5
  <2>2. Ask(Template(j), "runner") /\ Template(j) \in Texts
    BY <1>1, <1>3, <1>5, <2>1, Zenon DEF Texts
  <2>3. session'[n] = Prompt(Template(j), "runner")
    BY <1>1, <2>2, AskAdds
  <2>4. session'[n].text = Template(j)
    BY <2>3 DEF Prompt
  <2>5. Passing(j, n)'
    BY <1>1, <1>3, <1>5, Zenon DEF Passing
  <2> QED
    BY <2>1, <2>4, <2>5 DEF Covered
<1>6. CASE slash = FALSE
  <2>1. Ask(j, "runner") /\ j \in Texts
    BY <1>1, <1>3, <1>6, Zenon DEF Texts
  <2>2. session'[n] = Prompt(j, "runner")
    BY <1>1, <2>1, AskAdds
  <2>3. session'[n].text = j
    BY <2>2 DEF Prompt
  <2>4. [kind |-> "phone", id |-> session'[n].text] \in Range(thread')
    BY <1>1, <1>4, <2>3 DEF ChatHas
  <2> QED
    BY <2>3, <2>4 DEF ChatHas
<1> QED
  BY <1>2, <1>5, <1>6

\* What the runner asks stays a message of the chat, or a template that is covered.
LEMMA PromptsStep ==
  ASSUME TypeOK, Shape, AnswersPoint, PassedRows, CommandsAskOnce, Sent, RunnerPrompts, [Next]_vars
  PROVE  RunnerPrompts'
<1> DEFINE Good(i) == \/ session[i].text \in Phone /\ ChatHas("phone", session[i].text)
                      \/ \E m \in Slash : session[i].text = Template(m) /\ Covered(m, i)
<1>0. Len(session) \in Nat /\ Len(session') \in Nat /\ Range(thread) \subseteq Range(thread')
  BY SessionStep, ChatStep DEF TypeOK, SessionGrows
<1>1. ASSUME NEW i \in Rows, RunnersOwn(i)' PROVE Good(i)'
  <2>1. /\ session'[i].text = session[i].text /\ session'[i].role = session[i].role
        /\ session'[i].by = session[i].by
    BY <1>1, SessionStep DEF SessionGrows
  <2>2. RunnersOwn(i) /\ session[i].role = "user"
    BY <1>1, <2>1 DEF RunnersOwn
  <2>3. CASE session[i].text \in Phone /\ ChatHas("phone", session[i].text)
    <3>1. session'[i].text \in Phone /\ [kind |-> "phone", id |-> session'[i].text] \in Range(thread')
      BY <1>0, <2>1, <2>3 DEF ChatHas
    <3> QED
      BY <3>1 DEF ChatHas
  <2>4. ASSUME NEW m \in Slash, session[i].text = Template(m), Covered(m, i) PROVE Good(i)'
    <3>1. Covered(m, i)'
      BY <2>2, <2>4, CoverStep DEF Covered
    <3> QED
      BY <2>1, <2>4, <3>1
  <2> QED
    BY <2>2, <2>3, <2>4 DEF RunnerPrompts
<1>2. ASSUME NEW i \in Rows', i \notin Rows, RunnersOwn(i)' PROVE Good(i)'
  <2>1. i \in Nat /\ i <= Len(session') /\ i > Len(session)
    BY <1>0, <1>2 DEF Rows
  <2>2. PICK n \in Nat : n = Len(session) + 1
    BY <1>0
  <2>3. ASSUME NEW text \in Texts, NEW by \in {"runner", "terminal"}, HasRoom, Ask(text, by),
               by = "terminal" \/ Attempt
        PROVE  Good(i)'
    <3>1. session'[n] = Prompt(text, by) /\ Len(session') = n
      BY <2>2, <2>3, AskAdds
    <3>2. i = n
      BY <1>0, <2>1, <2>2, <3>1
    <3>3. session'[n].by = by
      BY <3>1 DEF Prompt
    <3>4. Attempt
      BY <1>2, <2>3, <3>2, <3>3 DEF RunnersOwn
    <3>5. Good(n)'
      BY <2>2, <3>4, AttemptAsks
    <3> QED
      BY <3>2, <3>5
  <2>4. ~StartAnswer
    <3>1. SUFFICES ASSUME StartAnswer PROVE FALSE
      OBVIOUS
    <3>2. Len(session') = n
      BY <2>2, <3>1, AnswerStarts
    <3>3. PICK k \in queue : session'[n] =
            [role |-> "assistant", by |-> session[k].by, text |-> None, state |-> "open", to |-> k]
      BY <2>2, <3>1, AnswerStarts
    <3>4. i = n /\ session'[n].role = "assistant"
      BY <1>0, <2>1, <2>2, <3>2, <3>3
    <3> QED
      BY <1>2, <3>4 DEF RunnersOwn
  <2>5. ~(UNCHANGED opencode) /\ Len(session') # Len(session)
    BY <2>1, <1>0 DEF opencode
  <2> QED
    BY <2>3, <2>4, <2>5, SessionCases
<1> QED
  BY <1>1, <1>2 DEF RunnerPrompts

\* What a mirror is about to push stays excusable.
LEMMA ForgottenStep ==
  ASSUME TypeOK, Shape, RunnerPrompts, Forgotten, [Next]_vars
  PROVE  Forgotten'
<1>0. /\ thread \in Seq(ChatRow) /\ Len(thread) \in Nat /\ Len(thread') \in Nat /\ Len(thread) <= Len(thread')
      /\ todo \subseteq Rows /\ ContextRows \in Nat /\ Rows \subseteq Nat
      /\ \A q \in 1..Len(thread) : thread'[q] = thread[q]
  BY ThreadGrows, DeskTurnAssumption DEF TypeOK, Rows
<1> DEFINE q == Len(thread) + 1
           r == Len(thread') + 1
<1>1. ASSUME pc = "push", todo' \subseteq todo PROVE Forgotten'
  <2>1. ASSUME NEW i \in todo, RunnersOwn(i)' PROVE Excusable(i, Len(thread) + 1)'
    <3>1. q \in Nat /\ r \in Nat /\ q <= r /\ i \in Rows
      BY <1>0, <2>1
    <3>2. RunnersOwn(i)
      BY <2>1, <3>1, SessionStep DEF SessionGrows, RunnersOwn
    <3>3. Excusable(i, q)
      BY <1>1, <2>1, <3>2 DEF Forgotten
    <3> HIDE DEF q
    <3>4. \/ \E m \in botched' : session'[i].text = Template(m)
          \/ \E p \in DOMAIN thread' :
               thread'[p] = [kind |-> "phone", id |-> session'[i].text] /\ r - p > ContextRows
      <4> HIDE DEF r
      <4> QED
        BY <3>1, <3>3, ExcuseLasts
    <3> QED
      BY <3>4 DEF Excusable
  <2> QED
    BY <1>1, <2>1 DEF Forgotten
<1>2. ASSUME MirrorRead PROVE Forgotten'
  <2>1. /\ todo' = {i \in Finished : session[i].state = "text" /\ ~Drops(i)}
        /\ session' = session /\ thread' = thread /\ botched' = botched /\ cursor' = cursor
        /\ pc = "read"
    BY <1>2 DEF MirrorRead, chat, opencode
  <2>2. ASSUME NEW i \in todo', RunnersOwn(i)' PROVE Excusable(i, Len(thread) + 1)'
    <3>1. i \in Finished /\ i \in Rows /\ i > cursor /\ ~Drops(i)
      BY <2>1, <2>2 DEF Finished
    <3>2. RunnersOwn(i) /\ session[i].role = "user"
      BY <2>1, <2>2 DEF RunnersOwn
    <3>3. session[i].text \notin PhoneTexts /\ ~(phase = "after" /\ slash = TRUE)
      BY <3>1, <3>2, Zenon DEF Drops
    <3>4. CASE session[i].text \in Phone /\ ChatHas("phone", session[i].text)
      <4>1. PICK p \in DOMAIN thread : thread[p] = [kind |-> "phone", id |-> session[i].text]
        BY <3>4, Zenon DEF ChatHas, Range
      <4>2. p \in 1..Len(thread) /\ thread[p].kind = "phone" /\ thread[p].id = session[i].text
        BY <1>0, <4>1
      <4>3. ~(p > Len(thread) - ContextRows)
        <5>1. SUFFICES ASSUME p > Len(thread) - ContextRows PROVE session[i].text \in PhoneTexts
          BY <3>3
        <5> QED
          BY <4>1, <4>2, <5>1 DEF PhoneTexts
      <4>4. (Len(thread) + 1) - p > ContextRows
        BY <1>0, <4>2, <4>3
      <4> QED
        BY <2>1, <4>1, <4>4 DEF Excusable
    <3>5. ASSUME NEW m \in Slash, session[i].text = Template(m), Covered(m, i)
          PROVE  Excusable(i, Len(thread) + 1)'
      <4>1. ~Passing(m, i)
        BY <2>1, <3>3, Zenon DEF Passing
      <4>2. ~Blocked(i)
        BY <3>1 DEF Blocked, Finished, Rows
      <4>3. ~(i <= cursor)
        BY <3>1 DEF TypeOK, Rows
      <4>4. m \in botched
        BY <3>5, <4>1, <4>2, <4>3 DEF Covered
      <4> QED
        BY <2>1, <3>5, <4>4 DEF Excusable
    <3> QED
      BY <3>1, <3>2, <3>4, <3>5 DEF RunnerPrompts
  <2> QED
    BY <2>2 DEF Forgotten
<1>3. ASSUME MirrorPush PROVE pc = "push" /\ todo' \subseteq todo
  BY <1>3 DEF MirrorPush
<1>4. ASSUME MirrorSave PROVE pc' # "push"
  BY <1>4 DEF MirrorSave, AfterMirror
<1>5. pc' # "push" => Forgotten'
  BY DEF Forgotten
<1>6. ASSUME UNCHANGED mirror PROVE todo' \subseteq todo
  BY <1>6 DEF mirror
<1> QED
  BY <1>1, <1>2, <1>3, <1>4, <1>5, <1>6, PushesOnlyAfterReading

\* What the chat holds of the session stays excusable.
LEMMA EchoStep ==
  ASSUME TypeOK, Shape, Forgotten, TurnsAreRows, NoPhoneEcho, [Next]_vars
  PROVE  TurnsAreRows' /\ NoPhoneEcho'
<1>0. /\ thread \in Seq(ChatRow) /\ thread' \in Seq(ChatRow)
      /\ Len(thread) \in Nat /\ Len(thread') \in Nat /\ Len(thread) <= Len(thread')
      /\ DOMAIN thread = 1..Len(thread) /\ DOMAIN thread' = 1..Len(thread')
      /\ \A q \in 1..Len(thread) : thread'[q] = thread[q]
      /\ todo \subseteq Rows
  BY ThreadGrows DEF TypeOK
<1>1. ASSUME NEW q \in DOMAIN thread', thread'[q].kind = "turn", q \in 1..Len(thread)
      PROVE  /\ thread'[q].id \in Rows
             /\ RunnersOwn(thread[q].id)' => Excusable(thread[q].id, q)'
  <2>1. PICK i \in Rows : thread[q].id = i /\ thread'[q].id = i
    BY <1>0, <1>1 DEF TurnsAreRows
  <2>2. ASSUME RunnersOwn(i)' PROVE Excusable(i, q)'
    <3>1. RunnersOwn(i)
      BY <2>2, SessionStep DEF SessionGrows, RunnersOwn
    <3>2. Excusable(i, q)
      BY <1>0, <1>1, <2>1, <3>1 DEF NoPhoneEcho, RunnersOwn, Excusable
    <3>3. q \in Nat /\ q <= q
      BY <1>0, <1>1
    <3> QED
      BY <3>2, <3>3, ExcuseLasts DEF Excusable
  <2> QED
    BY <2>1, <2>2 DEF RunnersOwn, Excusable
<1>2. ASSUME NEW q \in DOMAIN thread', thread'[q].kind = "turn", q \notin 1..Len(thread)
      PROVE  /\ thread'[q].id \in Rows
             /\ RunnersOwn(thread[q].id)' => Excusable(thread[q].id, q)'
  <2>1. q = Len(thread) + 1 /\ MirrorPush /\ thread'[q].id \in todo
    BY <1>0, <1>2, ThreadGrows
  <2>2. PICK i \in Rows : thread'[q].id = i /\ i \in todo
    BY <1>0, <2>1
  <2>3. ASSUME RunnersOwn(i)' PROVE Excusable(i, q)'
    <3>1. RunnersOwn(i)
      BY <2>3, SessionStep DEF SessionGrows, RunnersOwn
    <3>2. Excusable(i, q)
      BY <2>1, <2>2, <3>1 DEF Forgotten, MirrorPush
    <3>3. q \in Nat /\ q <= q
      BY <1>0, <2>1
    <3> QED
      BY <3>2, <3>3, ExcuseLasts DEF Excusable
  <2> QED
    BY <2>2, <2>3 DEF RunnersOwn, Excusable
<1>3. Rows \subseteq Rows'
  BY SessionStep DEF SessionGrows, Rows, TypeOK
<1>4. TurnsAreRows'
  BY <1>1, <1>2, <1>3 DEF TurnsAreRows
<1>5. NoPhoneEcho'
  BY <1>1, <1>2 DEF NoPhoneEcho, RunnersOwn, Excusable
<1> QED
  BY <1>4, <1>5

-----------------------------------------------------------------------------
(* Theorems *)

IInv ==
  /\ TypeOK /\ Shape /\ AnswersPoint
  /\ NothingSkipped /\ PassedRows
  /\ Carries /\ OwnTurns
  /\ ReplyIsItsOwn /\ RepliesAreAnswers
  /\ CommandsAskOnce /\ Sent /\ RunnerPrompts /\ Forgotten /\ TurnsAreRows /\ NoPhoneEcho

\* A new project satisfies the invariant.
LEMMA InvInit == Init => IInv
<1> SUFFICES ASSUME Init PROVE IInv
  OBVIOUS
<1>1. Len(session) = 0 /\ Rows = {} /\ cursor = 0
  BY DEF Init, Rows
<1>2. ChatOK /\ TurnOK
  BY DeskTurnAssumption DEF Init, ChatOK, TurnOK, Steps
<1>3. SessionOK /\ MirrorOK /\ FlagsOK
  <2>1. SessionOK
    BY <1>1, DeskTurnAssumption DEF Init, SessionOK
  <2>2. MirrorOK
    BY <1>1 DEF Init, MirrorOK
  <2>3. FlagsOK
    BY Zenon DEF Init, FlagsOK
  <2> QED
    BY <2>1, <2>2, <2>3
<1>4. TypeOK
  BY <1>2, <1>3, Parts
<1>5. Shape
  <2>1. Cardinality(queue) = 0
    BY FS_EmptySet DEF Init
  <2> QED
    BY <1>1, <2>1, DeskTurnAssumption DEF Init, Shape
<1>6. AnswersPoint /\ NothingSkipped /\ PassedRows /\ OwnTurns
  BY <1>1 DEF Init, AnswersPoint, NothingSkipped, PassedRows, OwnTurns
<1>7. Carries /\ RepliesAreAnswers
  BY <1>1 DEF Init, Carries, RepliesAreAnswers
<1>8. ReplyIsItsOwn
  BY DEF Init, ReplyIsItsOwn
<1>9. CommandsAskOnce /\ Sent
  <2>1. job \notin Phone /\ pc = "idle" /\ \A m \in Phone : status[m] = "none"
    BY DeskTurnAssumption DEF Init
  <2> QED
    BY <2>1 DEF CommandsAskOnce, Sent
<1>10. RunnerPrompts /\ Forgotten
  BY <1>1 DEF Init, RunnerPrompts, Forgotten
<1>11. TurnsAreRows /\ NoPhoneEcho
  <2>1. DOMAIN thread = {}
    BY DEF Init
  <2> QED
    BY <2>1 DEF TurnsAreRows, NoPhoneEcho
<1> QED
  BY <1>4, <1>5, <1>6, <1>7, <1>8, <1>9, <1>10, <1>11 DEF IInv

\* Every step preserves the invariant.
LEMMA InvStep == IInv /\ [Next]_vars => IInv'
  BY TypeStep, ShapeStep, PointStep, SkippedStep, CarryStep, OwnStep, ReplyStep, CommandStep, SentStep,
     PromptsStep, ForgottenStep, EchoStep DEF IInv

\* Every reachable state satisfies the invariant (desk-runner.mjs tick, answer and
\* mirrorDeskSession).
THEOREM Inductive == Spec => []IInv
  BY InvInit, InvStep, PTL DEF Spec

\* Every reachable state is well typed: the rows the runner has in hand are rows of
\* the session, and the models it may still try never run below one.
THEOREM TypeCorrect == Spec => []TypeOK
<1>1. IInv => TypeOK
  BY DEF IInv
<1> QED
  BY <1>1, Inductive, PTL

\* What the cursor has passed is finished and in the chat, or is a prompt the chat does
\* without, whenever the runner stops or a call fails (mirrorDeskSession).
THEOREM TheMirrorSkipsNothing == Spec => []NothingSkipped
<1>1. IInv => NothingSkipped
  BY DEF IInv
<1> QED
  BY <1>1, Inductive, PTL

\* A message is completed with an answer to its own prompt, unless others prompted the
\* session during its turn, and never with another message's reply (answer).
THEOREM RepliesAreTheirOwn == Spec => []ReplyIsItsOwn
<1>1. IInv => ReplyIsItsOwn
  BY DEF IInv
<1> QED
  BY <1>1, Inductive, PTL

\* A phone's prompt does not come back to it as a turn of the session, but for a command
\* whose turn broke off and for a text too far back in the chat (mirrorDeskSession).
THEOREM NoPhoneHearsItself == Spec => []NoPhoneEcho
<1>1. IInv => NoPhoneEcho
  BY DEF IInv
<1> QED
  BY <1>1, Inductive, PTL

=============================================================================

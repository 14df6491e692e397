----------------------------- MODULE ChatLogProofs -----------------------------
(***************************************************************************)
(* Proofs about ChatLog for any messages, requests, processes, page sizes  *)
(* and bounds.  The inductive invariant is built in layers; each layer is  *)
(* shown to be preserved by a step given the layers below it, in both      *)
(* states of the step.                                                     *)
(***************************************************************************)
EXTENDS ChatLog, TLAPS

\* Layer 1: every stored seq was drawn from the counter, and a seq that a request
\* still holds belongs to it alone.
Drawn ==
  /\ \A m \in Messages : log[m] <= counter
  /\ \A p \in Pushers : pc[p] = "insert" =>
       /\ 0 < drawn[p] /\ drawn[p] <= counter
       /\ \A m \in Messages : log[m] # drawn[p]
       /\ \A o \in Pushers : pc[o] = "insert" /\ drawn[o] = drawn[p] => o = p
  /\ UniqueSeqs

\* Layer 2: results speak of stored rows, and an answer waits until lastSeq covers it.
Reported ==
  /\ \A p \in Pushers : \A r \in results[p] : 0 < r.seq /\ log[r.msg] = r.seq
  /\ \A r \in acked : 0 < r.seq /\ log[r.msg] = r.seq
  /\ \A p \in Pushers : pc[p] = "answer" => \A r \in results[p] : r.seq <= threadLast
  /\ ThreadLastCoversAcked

\* Layer 3: a cursor is 0 or the seq of a row, and everything up to it has been in the
\* pull file or was overtaken; so it is for the position of a pull, counting what the
\* pull holds.
Position(c) == c = 0 \/ \E m \in Messages : log[m] = c

Covers(c, S) == \A m \in Stored : log[m] <= c => m \in S \cup overtaken

Covered ==
  /\ Position(cursor)
  /\ Covers(cursor, filed)
  /\ \A q \in Pullers : Pulling(q) =>
       /\ Position(at[q])
       /\ Covers(at[q], filed \cup held[q])
       /\ stage[q] = "saving" => held[q] \subseteq filed

\* Layer 4: of the rows a pull owes it holds those it has passed, and once its last page
\* was not full it has passed them all.
CaughtUp ==
  /\ \A q \in Pullers : owed[q] \subseteq Stored
  /\ \A q \in Pullers : Pulling(q) => \A m \in owed[q] : log[m] <= at[q] => m \in held[q]
  /\ \A q \in Pullers : stage[q] \in {"writing", "saving"} /\ ~more[q] =>
       \A m \in owed[q] : log[m] <= at[q]

\* Layer 5: while a pull is alone, the file it has written stays as it wrote it.
Solitude ==
  \A q \in Pullers : alone[q] =>
    /\ \A o \in Pullers : Pulling(o) => o = q
    /\ stage[q] = "saving" => file = held[q]

\* The constants are what the assumption says.
LEMMA Bounds ==
  /\ PageLimit \in Nat \ {0} /\ PageCap \in [Pullers -> Nat \ {0}]
  /\ MaxPushes \in Nat /\ MaxFaults \in Nat
  /\ \A b \in Batches : b \in Seq(Messages) /\ b # <<>>
BY ChatLogAssumption

\* The initial values have their types.
LEMMA TypesInit == Init => TypeOK
BY Bounds DEF Init, TypeOK, Result

\* Request p goes on to its next message, or to the end, with the result (m, s).
Settled(p, m, s) ==
  /\ pc' \in [Pushers -> {"idle", "find", "draw", "insert", "meta", "answer"}]
  /\ todo' \in [Pushers -> Seq(Messages)]
  /\ drawn' \in [Pushers -> Nat]
  /\ results' \in [Pushers -> SUBSET Result]
  /\ pc'[p] \in {"find", "meta"}
  /\ pc'[p] = "find" => todo'[p] # <<>>
  /\ drawn' = [drawn EXCEPT ![p] = 0]
  /\ results' = [results EXCEPT ![p] = results[p] \cup {[msg |-> m, seq |-> s]}]
  /\ \A o \in Pushers : o # p =>
       pc'[o] = pc[o] /\ todo'[o] = todo[o]

\* What Settle does to the request that settles, and that it leaves the others alone.
LEMMA SettleEffect ==
  ASSUME TypeOK, NEW p \in Pushers, NEW m \in Messages, NEW s \in Nat, todo[p] # <<>>,
         Settle(p, [msg |-> m, seq |-> s])
  PROVE  Settled(p, m, s)
<1> DEFINE t == Tail(todo[p])
<1>1. t \in Seq(Messages)
  BY DEF TypeOK
<1>2. /\ todo' = [todo EXCEPT ![p] = t]
      /\ pc' = [pc EXCEPT ![p] = IF t = <<>> THEN "meta" ELSE "find"]
      /\ drawn' = [drawn EXCEPT ![p] = 0]
      /\ results' = [results EXCEPT ![p] = results[p] \cup {[msg |-> m, seq |-> s]}]
  BY DEF Settle
<1>3. [msg |-> m, seq |-> s] \in Result
  BY DEF Result
<1> HIDE DEF t
<1>4. results' \in [Pushers -> SUBSET Result]
  BY <1>2, <1>3 DEF TypeOK
<1> QED
  BY <1>1, <1>2, <1>4 DEF TypeOK, Settled

\* What Find and Insert do, without the list of messages still to come.
LEMMA FindEffect ==
  ASSUME TypeOK, NEW p \in Pushers, Find(p)
  PROVE  /\ UNCHANGED <<store, acked, pulling, desk, pushes, faults, overtaken>>
         /\ pc[p] = "find"
         /\ \/ \E m \in Messages : log[m] > 0 /\ Settled(p, m, log[m])
            \/ pc' = [pc EXCEPT ![p] = "draw"] /\ UNCHANGED <<todo, drawn, results>>
<1> DEFINE m == Head(todo[p])
<1>1. todo[p] # <<>> /\ m \in Messages
  BY DEF TypeOK, Find
<1>2. log[m] \in Nat
  BY <1>1 DEF TypeOK
<1>3. CASE log[m] > 0
  <2>1. Settle(p, [msg |-> m, seq |-> log[m]])
    BY <1>1, <1>2, <1>3 DEF Find
  <2>2. Settled(p, m, log[m])
    BY <1>1, <1>2, <2>1, SettleEffect
  <2> QED
    BY <1>1, <1>3, <2>2 DEF Find
<1>4. CASE log[m] = 0
  BY <1>1, <1>2, <1>4 DEF Find
<1> QED
  BY <1>2, <1>3, <1>4

\* What Insert stores and reports, for the winner and the loser of an insert race.
LEMMA InsertEffect ==
  ASSUME TypeOK, NEW p \in Pushers, Insert(p)
  PROVE  /\ UNCHANGED <<counter, threadLast, acked, pulling, desk, pushes, faults>>
         /\ pc[p] = "insert"
         /\ \E m \in Messages :
              \/ /\ log[m] = 0
                 /\ log' = [log EXCEPT ![m] = drawn[p]]
                 /\ overtaken' = IF \E n \in Stored : log[n] > drawn[p]
                                 THEN overtaken \cup {m} ELSE overtaken
                 /\ Settled(p, m, drawn[p])
              \/ log[m] > 0 /\ Settled(p, m, log[m]) /\ UNCHANGED <<log, overtaken>>
<1> DEFINE m == Head(todo[p])
<1>1. todo[p] # <<>> /\ m \in Messages
  BY DEF TypeOK, Insert
<1>2. log[m] \in Nat /\ drawn[p] \in Nat
  BY <1>1 DEF TypeOK
<1>3. CASE log[m] > 0
  <2>1. Settle(p, [msg |-> m, seq |-> log[m]]) /\ UNCHANGED <<log, overtaken>>
    BY <1>2, <1>3 DEF Insert
  <2>2. Settled(p, m, log[m])
    BY <1>1, <1>2, <2>1, SettleEffect
  <2> QED
    BY <1>1, <1>3, <2>1, <2>2 DEF Insert
<1>4. CASE log[m] = 0
  <2>1. Settle(p, [msg |-> m, seq |-> drawn[p]])
    BY <1>2, <1>4 DEF Insert
  <2>2. Settled(p, m, drawn[p])
    BY <1>1, <1>2, <2>1, SettleEffect
  <2> QED
    BY <1>1, <1>4, <2>2 DEF Insert
<1> QED
  BY <1>2, <1>3, <1>4

\* Every step keeps the types.
LEMMA TypesStep == TypeOK /\ [Next]_vars => TypeOK'
<1> SUFFICES ASSUME TypeOK, [Next]_vars PROVE TypeOK'
  OBVIOUS
<1> USE Bounds DEF TypeOK, Result
<1>1. ASSUME NEW p \in Pushers, NEW b \in Batches, Push(p, b)
      PROVE  TypeOK'
  BY <1>1 DEF Push, store, pulling, desk
<1>2. ASSUME NEW p \in Pushers, Find(p)
      PROVE  TypeOK'
  <2>1. /\ UNCHANGED <<store, acked, pulling, desk, pushes, faults, overtaken>>
        /\ pc[p] = "find"
        /\ \/ \E m \in Messages : log[m] > 0 /\ Settled(p, m, log[m])
           \/ pc' = [pc EXCEPT ![p] = "draw"] /\ UNCHANGED <<todo, drawn, results>>
    BY <1>2, FindEffect
  <2>2. CASE pc' = [pc EXCEPT ![p] = "draw"] /\ UNCHANGED <<todo, drawn, results>>
    BY <2>1, <2>2 DEF store, pulling, desk
  <2>3. ASSUME NEW m \in Messages, log[m] > 0, Settled(p, m, log[m]) PROVE TypeOK'
    BY <2>1, <2>3 DEF Settled, store, pulling, desk
  <2> QED
    BY <2>1, <2>2, <2>3
<1>3. ASSUME NEW p \in Pushers, NextSeq(p)
      PROVE  TypeOK'
  BY <1>3 DEF NextSeq, pulling, desk
<1>4. ASSUME NEW p \in Pushers, Insert(p)
      PROVE  TypeOK'
  <2>1. /\ UNCHANGED <<counter, threadLast, acked, pulling, desk, pushes, faults>>
        /\ pc[p] = "insert"
        /\ \E m \in Messages :
             \/ /\ log[m] = 0
                /\ log' = [log EXCEPT ![m] = drawn[p]]
                /\ overtaken' = IF \E n \in Stored : log[n] > drawn[p]
                                THEN overtaken \cup {m} ELSE overtaken
                /\ Settled(p, m, drawn[p])
             \/ log[m] > 0 /\ Settled(p, m, log[m]) /\ UNCHANGED <<log, overtaken>>
    BY <1>4, InsertEffect
  <2>2. ASSUME NEW m \in Messages, log[m] > 0, Settled(p, m, log[m]), UNCHANGED <<log, overtaken>>
        PROVE  TypeOK'
    BY <2>1, <2>2 DEF Settled, pulling, desk
  <2>3. ASSUME NEW m \in Messages, log[m] = 0,
               log' = [log EXCEPT ![m] = drawn[p]],
               overtaken' = IF \E n \in Stored : log[n] > drawn[p]
                            THEN overtaken \cup {m} ELSE overtaken,
               Settled(p, m, drawn[p])
        PROVE  TypeOK'
    BY <2>1, <2>3 DEF Settled, pulling, desk
  <2> QED
    BY <2>1, <2>2, <2>3
<1>5. ASSUME NEW p \in Pushers, UpsertThreadMeta(p)
      PROVE  TypeOK'
  BY <1>5 DEF UpsertThreadMeta, Later, pulling, desk
<1>6. ASSUME NEW p \in Pushers, PushAnswered(p)
      PROVE  TypeOK'
  BY <1>6 DEF PushAnswered, Finish, store, pulling, desk
<1>7. ASSUME NEW p \in Pushers, PushBreaksOff(p)
      PROVE  TypeOK'
  BY <1>7 DEF PushBreaksOff, Finish, store, pulling, desk
<1>8. ASSUME NEW q \in Pullers, StartPull(q)
      PROVE  TypeOK'
  BY <1>8 DEF StartPull, store, pushing, desk, Stored
<1>9. ASSUME NEW q \in Pullers, PullPage(q)
      PROVE  TypeOK'
  <2> PICK P \in SUBSET Messages, n \in 0..counter :
         /\ held' = [held EXCEPT ![q] = @ \cup P]
         /\ at' = [at EXCEPT ![q] = n]
         /\ more' = [more EXCEPT ![q] = Cardinality(P) = PageLimit]
    BY <1>9 DEF PullPage
  <2>1. held' \in [Pullers -> SUBSET Messages] /\ at' \in [Pullers -> Nat]
    OBVIOUS
  <2>2. more' \in [Pullers -> BOOLEAN]
    OBVIOUS
  <2>3. /\ pages' \in [Pullers -> Nat]
        /\ stage' \in [Pullers -> {"idle", "paging", "writing", "saving", "recovered"}]
    BY <1>9 DEF PullPage
  <2> QED
    BY <1>9, <2>1, <2>2, <2>3 DEF PullPage, store, pushing, desk
<1>10. ASSUME NEW q \in Pullers, WritePull(q)
      PROVE  TypeOK'
  BY <1>10 DEF WritePull, store, pushing
<1>11. ASSUME NEW q \in Pullers, SavePull(q)
      PROVE  TypeOK'
  BY <1>11 DEF SavePull, EndPull, store, pushing
<1>12. ASSUME NEW q \in Pullers, PullBreaksOff(q)
      PROVE  TypeOK'
  BY <1>12 DEF PullBreaksOff, EndPull, store, pushing, desk
<1>13. CASE UNCHANGED vars
  BY <1>13 DEF vars, store, pushing, pulling, desk
<1> QED
  BY <1>1, <1>2, <1>3, <1>4, <1>5, <1>6, <1>7, <1>8, <1>9, <1>10, <1>11, <1>12, <1>13
     DEF Next, ServePush, RunPull

\* A drawn seq stays its drawer's until it is stored or given up.
LEMMA DrawnStep == TypeOK /\ TypeOK' /\ Drawn /\ [Next]_vars => Drawn'
<1> SUFFICES ASSUME TypeOK /\ TypeOK' /\ Drawn, [Next]_vars PROVE Drawn'
  OBVIOUS
<1> USE Bounds DEF TypeOK, Result, Drawn, UniqueSeqs, Stored
<1>1. ASSUME NEW p \in Pushers, NEW b \in Batches, Push(p, b)
      PROVE  Drawn'
  BY <1>1 DEF Push, store, pulling, desk
<1>2. ASSUME NEW p \in Pushers, Find(p)
      PROVE  Drawn'
  <2>1. /\ UNCHANGED <<store, acked, pulling, desk, pushes, faults, overtaken>>
        /\ pc[p] = "find"
        /\ \/ \E m \in Messages : log[m] > 0 /\ Settled(p, m, log[m])
           \/ pc' = [pc EXCEPT ![p] = "draw"] /\ UNCHANGED <<todo, drawn, results>>
    BY <1>2, FindEffect
  <2>2. CASE pc' = [pc EXCEPT ![p] = "draw"] /\ UNCHANGED <<todo, drawn, results>>
    BY <2>1, <2>2 DEF store, pulling, desk
  <2>3. ASSUME NEW m \in Messages, log[m] > 0, Settled(p, m, log[m]) PROVE Drawn'
    <3>1. \A o \in Pushers : pc'[o] = "insert" => o # p /\ pc[o] = "insert" /\ drawn'[o] = drawn[o]
      BY <2>1, <2>3 DEF Settled
    <3>2. UNCHANGED <<log, counter>>
      BY <2>1, <2>3 DEF store
    <3> QED
      BY SMTT(30), <3>1, <3>2
  <2> QED
    BY <2>1, <2>2, <2>3
<1>3. ASSUME NEW p \in Pushers, NextSeq(p)
      PROVE  Drawn'
  BY <1>3 DEF NextSeq, pulling, desk
<1>4. ASSUME NEW p \in Pushers, Insert(p)
      PROVE  Drawn'
  <2>1. /\ UNCHANGED <<counter, threadLast, acked, pulling, desk, pushes, faults>>
        /\ pc[p] = "insert"
        /\ \E m \in Messages :
             \/ /\ log[m] = 0
                /\ log' = [log EXCEPT ![m] = drawn[p]]
                /\ overtaken' = IF \E n \in Stored : log[n] > drawn[p]
                                THEN overtaken \cup {m} ELSE overtaken
                /\ Settled(p, m, drawn[p])
             \/ log[m] > 0 /\ Settled(p, m, log[m]) /\ UNCHANGED <<log, overtaken>>
    BY <1>4, InsertEffect
  <2>2. ASSUME NEW m \in Messages, log[m] > 0, Settled(p, m, log[m]), UNCHANGED <<log, overtaken>>
        PROVE  Drawn'
    <3>1. \A o \in Pushers : pc'[o] = "insert" => o # p /\ pc[o] = "insert" /\ drawn'[o] = drawn[o]
      BY <2>1, <2>2 DEF Settled
    <3>2. UNCHANGED <<log, counter>>
      BY <2>1, <2>2
    <3> QED
      BY SMTT(30), <3>1, <3>2
  <2>3. ASSUME NEW m \in Messages, log[m] = 0,
               log' = [log EXCEPT ![m] = drawn[p]],
               overtaken' = IF \E n \in Stored : log[n] > drawn[p]
                            THEN overtaken \cup {m} ELSE overtaken,
               Settled(p, m, drawn[p])
        PROVE  Drawn'
    <3>1. \A o \in Pushers : pc'[o] = "insert" => o # p /\ pc[o] = "insert" /\ drawn'[o] = drawn[o]
      BY SMTT(30), <2>1, <2>3 DEF Settled
    <3>2. \A n \in Messages : log'[n] = IF n = m THEN drawn[p] ELSE log[n]
      BY <2>3
    <3>3. UNCHANGED counter
      BY <2>1
    <3>4. (\A n \in Messages : log[n] <= counter)'
      BY SMTT(30), <2>1, <3>2, <3>3
    <3>5. (\A o \in Pushers : pc[o] = "insert" =>
              /\ 0 < drawn[o] /\ drawn[o] <= counter
              /\ \A n \in Messages : log[n] # drawn[o]
              /\ \A r \in Pushers : pc[r] = "insert" /\ drawn[r] = drawn[o] => r = o)'
      <4> SUFFICES ASSUME NEW o \in Pushers, pc'[o] = "insert"
                   PROVE  /\ 0 < drawn'[o] /\ drawn'[o] <= counter'
                          /\ \A n \in Messages : log'[n] # drawn'[o]
                          /\ \A r \in Pushers :
                               pc'[r] = "insert" /\ drawn'[r] = drawn'[o] => r = o
        OBVIOUS
      <4>1. o # p /\ pc[o] = "insert" /\ drawn'[o] = drawn[o] /\ drawn[o] # drawn[p]
        BY <2>1, <3>1
      <4>2. 0 < drawn[o] /\ drawn[o] <= counter /\ \A n \in Messages : log[n] # drawn[o]
        BY <4>1
      <4>3. 0 < drawn'[o] /\ drawn'[o] <= counter'
        BY <3>3, <4>1, <4>2
      <4>4. \A n \in Messages : log'[n] # drawn'[o]
        BY <3>2, <4>1, <4>2
      <4>5. \A r \in Pushers : pc'[r] = "insert" /\ drawn'[r] = drawn'[o] => r = o
        BY <3>1, <4>1
      <4> QED
        BY <4>3, <4>4, <4>5
    <3>6. UniqueSeqs'
      BY SMTT(30), <2>1, <3>2
    <3> QED
      BY <3>4, <3>5, <3>6
  <2> QED
    BY <2>1, <2>2, <2>3
<1>5. ASSUME NEW p \in Pushers, UpsertThreadMeta(p)
      PROVE  Drawn'
  BY <1>5 DEF UpsertThreadMeta, Later, pulling, desk
<1>6. ASSUME NEW p \in Pushers, PushAnswered(p)
      PROVE  Drawn'
  BY <1>6 DEF PushAnswered, Finish, store, pulling, desk
<1>7. ASSUME NEW p \in Pushers, PushBreaksOff(p)
      PROVE  Drawn'
  BY <1>7 DEF PushBreaksOff, Finish, store, pulling, desk
<1>8. ASSUME NEW q \in Pullers, StartPull(q)
      PROVE  Drawn'
  BY <1>8 DEF StartPull, store, pushing, desk, Stored
<1>9. ASSUME NEW q \in Pullers, PullPage(q)
      PROVE  Drawn'
  BY <1>9 DEF PullPage, store, pushing, desk
<1>10. ASSUME NEW q \in Pullers, WritePull(q)
      PROVE  Drawn'
  BY <1>10 DEF WritePull, store, pushing
<1>11. ASSUME NEW q \in Pullers, SavePull(q)
      PROVE  Drawn'
  BY <1>11 DEF SavePull, EndPull, store, pushing
<1>12. ASSUME NEW q \in Pullers, PullBreaksOff(q)
      PROVE  Drawn'
  BY <1>12 DEF PullBreaksOff, EndPull, store, pushing, desk
<1>13. CASE UNCHANGED vars
  BY <1>13 DEF vars, store, pushing, pulling, desk
<1> QED
  BY <1>1, <1>2, <1>3, <1>4, <1>5, <1>6, <1>7, <1>8, <1>9, <1>10, <1>11, <1>12, <1>13
     DEF Next, ServePush, RunPull

\* Results stay true, because rows stay where they are.
LEMMA ReportedStep == TypeOK /\ TypeOK' /\ Drawn /\ Reported /\ [Next]_vars => Reported'
<1> SUFFICES ASSUME TypeOK /\ TypeOK' /\ Drawn /\ Reported, [Next]_vars PROVE Reported'
  OBVIOUS
<1> USE Bounds DEF TypeOK, Result, Drawn, Reported, ThreadLastCoversAcked
<1>1. ASSUME NEW p \in Pushers, NEW b \in Batches, Push(p, b)
      PROVE  Reported'
  BY <1>1 DEF Push, store, pulling, desk
<1>2. ASSUME NEW p \in Pushers, Find(p)
      PROVE  Reported'
  <2>1. /\ UNCHANGED <<store, acked, pulling, desk, pushes, faults, overtaken>>
        /\ pc[p] = "find"
        /\ \/ \E m \in Messages : log[m] > 0 /\ Settled(p, m, log[m])
           \/ pc' = [pc EXCEPT ![p] = "draw"] /\ UNCHANGED <<todo, drawn, results>>
    BY <1>2, FindEffect
  <2>2. CASE pc' = [pc EXCEPT ![p] = "draw"] /\ UNCHANGED <<todo, drawn, results>>
    BY <2>1, <2>2 DEF store, pulling, desk
  <2>3. ASSUME NEW m \in Messages, log[m] > 0, Settled(p, m, log[m]) PROVE Reported'
    BY SMTT(30), <2>1, <2>3 DEF Settled, store, pulling, desk
  <2> QED
    BY <2>1, <2>2, <2>3
<1>3. ASSUME NEW p \in Pushers, NextSeq(p)
      PROVE  Reported'
  BY <1>3 DEF NextSeq, pulling, desk
<1>4. ASSUME NEW p \in Pushers, Insert(p)
      PROVE  Reported'
  <2>1. /\ UNCHANGED <<counter, threadLast, acked, pulling, desk, pushes, faults>>
        /\ pc[p] = "insert"
        /\ \E m \in Messages :
             \/ /\ log[m] = 0
                /\ log' = [log EXCEPT ![m] = drawn[p]]
                /\ overtaken' = IF \E n \in Stored : log[n] > drawn[p]
                                THEN overtaken \cup {m} ELSE overtaken
                /\ Settled(p, m, drawn[p])
             \/ log[m] > 0 /\ Settled(p, m, log[m]) /\ UNCHANGED <<log, overtaken>>
    BY <1>4, InsertEffect
  <2>2. ASSUME NEW m \in Messages, log[m] > 0, Settled(p, m, log[m]), UNCHANGED <<log, overtaken>>
        PROVE  Reported'
    BY SMTT(30), <2>1, <2>2 DEF Settled, pulling, desk
  <2>3. ASSUME NEW m \in Messages, log[m] = 0,
               log' = [log EXCEPT ![m] = drawn[p]],
               overtaken' = IF \E n \in Stored : log[n] > drawn[p]
                            THEN overtaken \cup {m} ELSE overtaken,
               Settled(p, m, drawn[p])
        PROVE  Reported'
    BY SMTT(30), <2>1, <2>3 DEF Settled, pulling, desk
  <2> QED
    BY <2>1, <2>2, <2>3
<1>5. ASSUME NEW p \in Pushers, UpsertThreadMeta(p)
      PROVE  Reported'
  BY <1>5 DEF UpsertThreadMeta, Later, pulling, desk
<1>6. ASSUME NEW p \in Pushers, PushAnswered(p)
      PROVE  Reported'
  BY <1>6 DEF PushAnswered, Finish, store, pulling, desk
<1>7. ASSUME NEW p \in Pushers, PushBreaksOff(p)
      PROVE  Reported'
  BY <1>7 DEF PushBreaksOff, Finish, store, pulling, desk
<1>8. ASSUME NEW q \in Pullers, StartPull(q)
      PROVE  Reported'
  BY <1>8 DEF StartPull, store, pushing, desk, Stored
<1>9. ASSUME NEW q \in Pullers, PullPage(q)
      PROVE  Reported'
  BY <1>9 DEF PullPage, store, pushing, desk
<1>10. ASSUME NEW q \in Pullers, WritePull(q)
      PROVE  Reported'
  BY <1>10 DEF WritePull, store, pushing
<1>11. ASSUME NEW q \in Pullers, SavePull(q)
      PROVE  Reported'
  BY <1>11 DEF SavePull, EndPull, store, pushing
<1>12. ASSUME NEW q \in Pullers, PullBreaksOff(q)
      PROVE  Reported'
  BY <1>12 DEF PullBreaksOff, EndPull, store, pushing, desk
<1>13. CASE UNCHANGED vars
  BY <1>13 DEF vars, store, pushing, pulling, desk
<1> QED
  BY <1>1, <1>2, <1>3, <1>4, <1>5, <1>6, <1>7, <1>8, <1>9, <1>10, <1>11, <1>12, <1>13
     DEF Next, ServePush, RunPull

\* A page takes all rows up to its last one, and a page that is not full all there are.
LEMMA PageTakesAll ==
  ASSUME TypeOK, NEW q \in Pullers, NEW P \in SUBSET Messages, NEW n \in 0..counter,
         IsPage(P, at[q]), NextAfter(P, at[q], n), NEW m \in Messages, log[m] > at[q]
  PROVE  /\ log[m] <= n => m \in P
         /\ Cardinality(P) # PageLimit => m \in P /\ log[m] <= n
<1> USE DEF TypeOK, IsPage, NextAfter
<1>1. log[m] <= n => m \in P
  <2>1. CASE P = {} /\ n = at[q]
    BY <2>1
  <2>2. ASSUME NEW k \in P, n = log[k] PROVE log[m] <= n => m \in P
    BY <2>2
  <2> QED
    BY <2>1, <2>2
<1>2. ASSUME Cardinality(P) # PageLimit PROVE m \in P /\ log[m] <= n
  BY <1>2
<1> QED
  BY <1>1, <1>2

\* A cursor never passes a row that has not been in the file, unless the row comes late.
LEMMA CoveredStep == TypeOK /\ TypeOK' /\ Drawn /\ Covered /\ [Next]_vars => Covered'
<1> SUFFICES ASSUME TypeOK /\ TypeOK' /\ Drawn /\ Covered, [Next]_vars PROVE Covered'
  OBVIOUS
<1> USE Bounds DEF TypeOK, Result, Drawn, Covered, Position, Covers, Pulling, Stored
<1>1. ASSUME NEW p \in Pushers, NEW b \in Batches, Push(p, b)
      PROVE  Covered'
  BY <1>1 DEF Push, store, pulling, desk
<1>2. ASSUME NEW p \in Pushers, Find(p)
      PROVE  Covered'
  <2>1. /\ UNCHANGED <<store, acked, pulling, desk, pushes, faults, overtaken>>
        /\ pc[p] = "find"
        /\ \/ \E m \in Messages : log[m] > 0 /\ Settled(p, m, log[m])
           \/ pc' = [pc EXCEPT ![p] = "draw"] /\ UNCHANGED <<todo, drawn, results>>
    BY <1>2, FindEffect
  <2>2. CASE pc' = [pc EXCEPT ![p] = "draw"] /\ UNCHANGED <<todo, drawn, results>>
    BY <2>1, <2>2 DEF store, pulling, desk
  <2>3. ASSUME NEW m \in Messages, log[m] > 0, Settled(p, m, log[m]) PROVE Covered'
    BY <2>1, <2>3 DEF Settled, store, pulling, desk
  <2> QED
    BY <2>1, <2>2, <2>3
<1>3. ASSUME NEW p \in Pushers, NextSeq(p)
      PROVE  Covered'
  BY <1>3 DEF NextSeq, pulling, desk
<1>4. ASSUME NEW p \in Pushers, Insert(p)
      PROVE  Covered'
  <2>1. /\ UNCHANGED <<counter, threadLast, acked, pulling, desk, pushes, faults>>
        /\ pc[p] = "insert"
        /\ \E m \in Messages :
             \/ /\ log[m] = 0
                /\ log' = [log EXCEPT ![m] = drawn[p]]
                /\ overtaken' = IF \E n \in Stored : log[n] > drawn[p]
                                THEN overtaken \cup {m} ELSE overtaken
                /\ Settled(p, m, drawn[p])
             \/ log[m] > 0 /\ Settled(p, m, log[m]) /\ UNCHANGED <<log, overtaken>>
    BY <1>4, InsertEffect
  <2>2. ASSUME NEW m \in Messages, log[m] > 0, Settled(p, m, log[m]), UNCHANGED <<log, overtaken>>
        PROVE  Covered'
    BY <2>1, <2>2 DEF Settled, pulling, desk
  <2>3. ASSUME NEW m \in Messages, log[m] = 0,
               log' = [log EXCEPT ![m] = drawn[p]],
               overtaken' = IF \E n \in Stored : log[n] > drawn[p]
                            THEN overtaken \cup {m} ELSE overtaken,
               Settled(p, m, drawn[p])
        PROVE  Covered'
    <3>1. ASSUME NEW c \in Nat, Position(c)
          PROVE  /\ c = 0 \/ \E n \in Messages : log'[n] = c
                 /\ \A n \in Messages : log'[n] > 0 /\ log'[n] <= c
                      => n \in overtaken' \/ (log[n] > 0 /\ log[n] <= c)
      <4>1. CASE c = 0
        BY <4>1
      <4>2. ASSUME NEW k \in Messages, c > 0, log[k] = c
            PROVE  /\ \E n \in Messages : log'[n] = c
                   /\ \A n \in Messages : log'[n] > 0 /\ log'[n] <= c
                        => n \in overtaken' \/ (log[n] > 0 /\ log[n] <= c)
        <5>1. k # m /\ log'[k] = c
          BY <2>3, <4>2
        <5>2. drawn[p] # c /\ log'[m] = drawn[p] /\ drawn[p] \in Nat
          BY <2>1, <2>3, <4>2
        <5>3. ASSUME drawn[p] < c PROVE m \in overtaken'
          <6>1. \E n \in Stored : log[n] > drawn[p]
            BY <4>2, <5>3
          <6>2. overtaken' = overtaken \cup {m}
            BY <2>3, <6>1, Zenon
          <6> QED
            BY <6>2
        <5>4. \A n \in Messages : n # m => log'[n] = log[n]
          BY <2>3
        <5>5. log'[m] <= c => m \in overtaken'
          BY SMTT(30), <5>2, <5>3
        <5> QED
          BY <5>1, <5>4, <5>5
      <4>3. CASE c # 0
        <5>1. c > 0
          BY <4>3
        <5>2. PICK k \in Messages : log[k] = c
          BY <3>1, <4>3
        <5> QED
          BY <4>2, <5>1, <5>2
      <4> QED
        BY <4>1, <4>3
    <3>2. UNCHANGED <<cursor, filed, stage, at, held>> /\ overtaken \subseteq overtaken'
      BY <2>1, <2>3 DEF pulling, desk
    <3>3. (Position(cursor) /\ Covers(cursor, filed))'
      BY <3>1, <3>2
    <3>4. ASSUME NEW o \in Pullers, Pulling(o)
          PROVE  (Position(at[o]) /\ Covers(at[o], filed \cup held[o]))'
      <4>1. Position(at[o]) /\ Covers(at[o], filed \cup held[o]) /\ at[o] \in Nat
        BY <3>4
      <4> QED
        BY <3>1, <3>2, <4>1
    <3> QED
      BY <3>2, <3>3, <3>4
  <2> QED
    BY <2>1, <2>2, <2>3
<1>5. ASSUME NEW p \in Pushers, UpsertThreadMeta(p)
      PROVE  Covered'
  BY <1>5 DEF UpsertThreadMeta, Later, pulling, desk
<1>6. ASSUME NEW p \in Pushers, PushAnswered(p)
      PROVE  Covered'
  BY <1>6 DEF PushAnswered, Finish, store, pulling, desk
<1>7. ASSUME NEW p \in Pushers, PushBreaksOff(p)
      PROVE  Covered'
  BY <1>7 DEF PushBreaksOff, Finish, store, pulling, desk
<1>8. ASSUME NEW q \in Pullers, StartPull(q)
      PROVE  Covered'
  BY <1>8 DEF StartPull, store, pushing, desk, Stored
<1>9. ASSUME NEW q \in Pullers, PullPage(q)
      PROVE  Covered'
  <2>1. PICK P \in SUBSET Messages, n \in 0..counter :
         /\ IsPage(P, at[q])
         /\ NextAfter(P, at[q], n)
         /\ held' = [held EXCEPT ![q] = @ \cup P]
         /\ at' = [at EXCEPT ![q] = n]
    BY <1>9 DEF PullPage
  <2>2. /\ UNCHANGED <<log, cursor, filed, overtaken>>
        /\ stage[q] = "paging" /\ stage'[q] \in {"paging", "writing"}
        /\ \A o \in Pullers : o # q => /\ stage'[o] = stage[o]
                                      /\ at'[o] = at[o] /\ held'[o] = held[o]
    BY <1>9, <2>1 DEF PullPage, store, desk
  <2>3. at'[q] = n /\ held'[q] = held[q] \cup P
    BY <2>1
  <2>4. Position(n)
    <3>1. CASE n = at[q]
      BY <2>2, <3>1
    <3>2. ASSUME NEW m \in P, n = log[m] PROVE Position(n)
      BY <3>2
    <3> QED
      BY <2>1, <3>1, <3>2 DEF NextAfter
  <2>5. ASSUME NEW m \in Stored, log[m] <= n PROVE m \in filed \cup held'[q] \cup overtaken
    <3>1. CASE log[m] <= at[q]
      BY <2>2, <2>3, <3>1
    <3>2. CASE log[m] > at[q]
      BY <2>1, <2>3, <2>5, <3>2, PageTakesAll
    <3> QED
      BY <3>1, <3>2
  <2>6. (Position(cursor) /\ Covers(cursor, filed))'
    BY <2>2
  <2>7. ASSUME NEW o \in Pullers, Pulling(o)'
        PROVE  (/\ Position(at[o])
                /\ Covers(at[o], filed \cup held[o])
                /\ stage[o] = "saving" => held[o] \subseteq filed)'
    <3>1. CASE o = q
      BY <2>2, <2>3, <2>4, <2>5, <3>1
    <3>2. CASE o # q
      BY <2>2, <2>7, <3>2
    <3> QED
      BY <3>1, <3>2
  <2> QED
    BY <2>6, <2>7
<1>10. ASSUME NEW q \in Pullers, WritePull(q)
      PROVE  Covered'
  BY <1>10 DEF WritePull, store, pushing
<1>11. ASSUME NEW q \in Pullers, SavePull(q)
      PROVE  Covered'
  BY <1>11 DEF SavePull, EndPull, store, pushing
<1>12. ASSUME NEW q \in Pullers, PullBreaksOff(q)
      PROVE  Covered'
  BY <1>12 DEF PullBreaksOff, EndPull, store, pushing, desk
<1>13. CASE UNCHANGED vars
  BY <1>13 DEF vars, store, pushing, pulling, desk
<1> QED
  BY <1>1, <1>2, <1>3, <1>4, <1>5, <1>6, <1>7, <1>8, <1>9, <1>10, <1>11, <1>12, <1>13
     DEF Next, ServePush, RunPull

\* Requests leave the desk and its pulls alone, and the rows that are there.
LEMMA PulledOrKept ==
  ASSUME TypeOK, [Next]_vars
  PROVE  \/ \E q \in Pullers : RunPull(q) \/ PullBreaksOff(q)
         \/ UNCHANGED <<pulling, desk>> /\ \A m \in Messages : log[m] > 0 => log'[m] = log[m]
<1>1. ASSUME NEW p \in Pushers, Insert(p)
      PROVE  UNCHANGED <<pulling, desk>> /\ \A m \in Messages : log[m] > 0 => log'[m] = log[m]
  <2>1. UNCHANGED <<pulling, desk>>
    BY <1>1 DEF Insert
  <2>2. \/ \E m \in Messages : log[m] = 0 /\ log' = [log EXCEPT ![m] = drawn[p]]
        \/ UNCHANGED log
    BY <1>1, InsertEffect
  <2> QED
    BY <2>1, <2>2 DEF TypeOK
<1>2. \/ \E p \in Pushers : Insert(p)
      \/ \E q \in Pullers : RunPull(q) \/ PullBreaksOff(q)
      \/ UNCHANGED <<pulling, desk, log>>
  BY DEF Next, ServePush, Push, Find, NextSeq, UpsertThreadMeta, PushAnswered, PushBreaksOff,
         vars, store
<1> QED
  BY <1>1, <1>2

\* A pull stops short of a row it owes only when it says so.
LEMMA CaughtUpStep == TypeOK /\ TypeOK' /\ CaughtUp /\ [Next]_vars => CaughtUp'
<1> SUFFICES ASSUME TypeOK, TypeOK', CaughtUp, [Next]_vars PROVE CaughtUp'
  OBVIOUS
<1> USE DEF CaughtUp, Pulling, Stored
<1>1. CASE /\ UNCHANGED <<pulling, desk>>
           /\ \A m \in Messages : log[m] > 0 => log'[m] = log[m]
  <2>1. \A q \in Pullers : \A m \in owed[q] : m \in Messages /\ log[m] > 0 /\ log'[m] = log[m]
    BY <1>1
  <2>2. UNCHANGED <<stage, at, more, held, owed>>
    BY <1>1 DEF pulling
  <2>3. log' \in [Messages -> Nat]
    BY DEF TypeOK
  <2> QED
    BY <2>1, <2>2, <2>3
<1>2. ASSUME NEW q \in Pullers, StartPull(q)
      PROVE  CaughtUp'
  <2>1. /\ UNCHANGED <<log, more, held>>
        /\ stage' = [stage EXCEPT ![q] = "paging"]
        /\ at' = [at EXCEPT ![q] = cursor]
        /\ owed' = [owed EXCEPT ![q] = {m \in Stored : log[m] > cursor}]
    BY <1>2 DEF StartPull, store
  <2> QED
    BY <2>1 DEF TypeOK
<1>3. ASSUME NEW q \in Pullers, PullPage(q)
      PROVE  CaughtUp'
  <2>1. PICK P \in SUBSET Messages, n \in 0..counter :
         /\ IsPage(P, at[q])
         /\ NextAfter(P, at[q], n)
         /\ held' = [held EXCEPT ![q] = @ \cup P]
         /\ at' = [at EXCEPT ![q] = n]
         /\ more' = [more EXCEPT ![q] = Cardinality(P) = PageLimit]
    BY <1>3 DEF PullPage
  <2>2. /\ UNCHANGED <<log, owed>>
        /\ stage[q] = "paging"
        /\ \A o \in Pullers : o # q => /\ stage'[o] = stage[o] /\ more'[o] = more[o]
                                      /\ at'[o] = at[o] /\ held'[o] = held[o]
    BY <1>3, <2>1 DEF PullPage, store, TypeOK
  <2>3. at'[q] = n /\ held'[q] = held[q] \cup P /\ more'[q] = (Cardinality(P) = PageLimit)
    BY <2>1 DEF TypeOK
  <2>4. at[q] <= n
    BY <2>1 DEF NextAfter, IsPage, TypeOK
  <2>5. ASSUME NEW m \in owed[q]
        PROVE  /\ log[m] <= at'[q] => m \in held'[q]
               /\ ~more'[q] => log[m] <= at'[q]
    <3>1. m \in Messages /\ log[m] \in Nat /\ at[q] \in Nat /\ n \in Nat
      BY DEF TypeOK
    <3>2. CASE log[m] <= at[q]
      BY <2>2, <2>3, <2>4, <3>1, <3>2
    <3>3. CASE log[m] > at[q]
      <4>1. /\ log[m] <= n => m \in P
            /\ Cardinality(P) # PageLimit => m \in P /\ log[m] <= n
        BY <2>1, <3>1, <3>3, PageTakesAll
      <4> QED
        BY <2>3, <4>1
    <3> QED
      BY <3>1, <3>2, <3>3
  <2> QED
    BY <2>2, <2>5
<1>4. ASSUME NEW q \in Pullers, WritePull(q)
      PROVE  CaughtUp'
  BY <1>4 DEF WritePull, store, TypeOK
<1>5. ASSUME NEW q \in Pullers, SavePull(q) \/ PullBreaksOff(q)
      PROVE  CaughtUp'
  <2>1. /\ UNCHANGED log
        /\ stage'[q] \in {"idle", "recovered"} /\ owed'[q] = {}
    BY <1>5 DEF SavePull, PullBreaksOff, EndPull, store, TypeOK
  <2>2. \A o \in Pullers : o # q => /\ stage'[o] = stage[o] /\ more'[o] = more[o]
                                  /\ at'[o] = at[o] /\ held'[o] = held[o]
                                  /\ owed'[o] = owed[o]
    BY <1>5 DEF SavePull, PullBreaksOff, EndPull, TypeOK
  <2> QED
    BY <2>1, <2>2
<1> QED
  BY <1>1, <1>2, <1>3, <1>4, <1>5, PulledOrKept DEF RunPull

\* Only a pull that starts while another is at work, or goes on beside it, can spoil the
\* file for it, and then neither is alone.
LEMMA SolitudeStep == TypeOK /\ TypeOK' /\ Solitude /\ [Next]_vars => Solitude'
<1> SUFFICES ASSUME TypeOK, TypeOK', Solitude, [Next]_vars PROVE Solitude'
  OBVIOUS
<1> USE DEF Solitude, Pulling
<1>1. CASE UNCHANGED <<pulling, desk>>
  BY <1>1 DEF pulling, desk
<1>2. ASSUME NEW q \in Pullers, StartPull(q)
      PROVE  Solitude'
  <2>1. /\ alone' = [o \in Pullers |-> o = q /\ \A p \in Pullers : ~Pulling(p)]
        /\ stage' = [stage EXCEPT ![q] = "paging"]
    BY <1>2 DEF StartPull
  <2> QED
    BY <2>1 DEF TypeOK
<1>3. ASSUME NEW q \in Pullers, PullPage(q)
      PROVE  Solitude'
  <2>1. /\ UNCHANGED <<alone, file>>
        /\ stage[q] = "paging" /\ stage'[q] \in {"paging", "writing"}
        /\ \A o \in Pullers : o # q => stage'[o] = stage[o]
    BY <1>3 DEF PullPage, desk, TypeOK
  <2>2. \A o \in Pullers : Pulling(o)' <=> Pulling(o)
    BY <2>1
  <2>3. \A o \in Pullers : o # q => held'[o] = held[o]
    BY <1>3 DEF PullPage, TypeOK
  <2> QED
    BY <2>1, <2>2, <2>3
<1>4. ASSUME NEW q \in Pullers, WritePull(q)
      PROVE  Solitude'
  BY <1>4 DEF WritePull, TypeOK
<1>5. ASSUME NEW q \in Pullers, SavePull(q) \/ PullBreaksOff(q)
      PROVE  Solitude'
  <2>1. /\ UNCHANGED file
        /\ stage'[q] \in {"idle", "recovered"} /\ ~alone'[q]
        /\ \A o \in Pullers : o # q => /\ stage'[o] = stage[o] /\ held'[o] = held[o]
                                      /\ alone'[o] = alone[o]
    BY <1>5 DEF SavePull, PullBreaksOff, EndPull, desk, TypeOK
  <2> QED
    BY <2>1
<1> QED
  BY <1>1, <1>2, <1>3, <1>4, <1>5, PulledOrKept DEF RunPull

-----------------------------------------------------------------------------

IInv == TypeOK /\ Drawn /\ Reported /\ Covered /\ CaughtUp /\ Solitude

\* The layers together are an inductive invariant of the specification.
THEOREM IInvHolds == Spec => []IInv
<1>1. Init => IInv
  <2> SUFFICES ASSUME Init PROVE IInv
    OBVIOUS
  <2>1. TypeOK
    BY TypesInit
  <2>2. Drawn /\ Reported
    BY DEF Init, Drawn, Reported, UniqueSeqs, ThreadLastCoversAcked, Stored
  <2>3. Covered /\ CaughtUp /\ Solitude
    BY DEF Init, Covered, CaughtUp, Solitude, Position, Covers, Pulling, Stored
  <2> QED
    BY <2>1, <2>2, <2>3 DEF IInv
<1>2. IInv /\ [Next]_vars => IInv'
  BY TypesStep, DrawnStep, ReportedStep, CoveredStep, CaughtUpStep, SolitudeStep DEF IInv
<1> QED
  BY <1>1, <1>2, PTL DEF Spec

\* Every variable keeps its type, and a request that is to handle a message has one.
THEOREM TypeCorrect == Spec => []TypeOK
<1>1. IInv => TypeOK
  BY DEF IInv
<1> QED
  BY <1>1, IInvHolds, PTL

\* No seq is used twice, however many requests draw, race and give up.
THEOREM SeqsAreUnique == Spec => []UniqueSeqs
<1>1. IInv => UniqueSeqs
  BY DEF IInv, Drawn
<1> QED
  BY <1>1, IInvHolds, PTL

\* A sender is never told a seq under which its message is not stored.
THEOREM AcksAreTrue == Spec => []AckedIsStored
<1>1. IInv => AckedIsStored
  BY DEF IInv, Reported, AckedIsStored
<1> QED
  BY <1>1, IInvHolds, PTL

\* The thread's lastSeq covers every row a sender knows to be stored.
THEOREM LastSeqCovers == Spec => []ThreadLastCoversAcked
<1>1. IInv => ThreadLastCoversAcked
  BY DEF IInv, Reported
<1> QED
  BY <1>1, IInvHolds, PTL

\* Together: what the answer to a push says holds.
THEOREM AcksHoldAlways == Spec => []AcksHold
  BY SeqsAreUnique, AcksAreTrue, LastSeqCovers, PTL DEF AcksHold

\* Rows are only ever added.
THEOREM RowsStay == Spec => AppendOnly
<1>1. IInv /\ [Next]_vars => [\A m \in Stored : log'[m] = log[m]]_vars
  <2> SUFFICES ASSUME IInv, Next PROVE \A m \in Stored : log'[m] = log[m]
    BY DEF vars, store, Stored
  <2>1. ASSUME NEW p \in Pushers, Insert(p) PROVE \A m \in Stored : log'[m] = log[m]
    BY <2>1 DEF Insert, IInv, TypeOK, Stored
  <2>2. (\E p \in Pushers : Insert(p)) \/ UNCHANGED log
    BY DEF Next, ServePush, RunPull, Push, Find, NextSeq, UpsertThreadMeta, PushAnswered,
           PushBreaksOff, StartPull, PullPage, WritePull, SavePull, PullBreaksOff, store
  <2> QED
    BY <2>1, <2>2 DEF Stored
<1> QED
  BY <1>1, IInvHolds, PTL DEF Spec, AppendOnly

\* The cursor of a desk moves past a row that is not late only after the row has been in
\* the pull file, for any page size, page caps and number of pulls at a time.
THEOREM CursorsSkipLateRowsOnly == Spec => []NoSkippedRow
<1>1. IInv => NoSkippedRow
  BY DEF IInv, Covered, Covers, NoSkippedRow
<1> QED
  BY <1>1, IInvHolds, PTL

\* A pull that reports success returns all it owes, and what it returns is in the file
\* if no other pull was at work beside it.
THEOREM SuccessMeansCaughtUp == Spec => RecoveredMeansCaughtUp
<1> DEFINE Honest == \A q \in Pullers : stage[q] = "saving" /\ stage'[q] = "recovered" =>
                       /\ owed[q] \subseteq held[q]
                       /\ alone[q] => file = held[q]
<1>1. IInv /\ [Next]_vars => [Honest]_vars
  <2> SUFFICES ASSUME IInv, [Next]_vars,
                      NEW q \in Pullers, stage[q] = "saving", stage'[q] = "recovered"
               PROVE  owed[q] \subseteq held[q] /\ (alone[q] => file = held[q])
    OBVIOUS
  <2>1. TypeOK /\ CaughtUp /\ Solitude
    BY DEF IInv
  <2>2. PICK o \in Pullers : RunPull(o) \/ PullBreaksOff(o)
    BY <2>1, PulledOrKept DEF pulling
  <2>3. SavePull(q)
    BY <2>1, <2>2 DEF RunPull, StartPull, PullPage, WritePull, SavePull, PullBreaksOff, EndPull,
                      TypeOK
  <2>4. ~more[q]
    BY <2>1, <2>3 DEF SavePull, EndPull, TypeOK
  <2>5. owed[q] \subseteq held[q]
    BY <2>1, <2>4 DEF CaughtUp, Pulling
  <2> QED
    BY <2>1, <2>5 DEF Solitude
<1> QED
  BY <1>1, IInvHolds, PTL DEF Spec, RecoveredMeansCaughtUp

-----------------------------------------------------------------------------
(***************************************************************************)
(* ChatLog implements ThreadLog: every step adds one row, tells senders,   *)
(* gives the desk another page or moves its marker, or is not seen.        *)
(***************************************************************************)

\* What a pull holds is in the log.
HeldIsStored == \A q \in Pullers : held[q] \subseteq Stored

\* Rows stay, so what a pull holds stays in the log too.
LEMMA HeldStep == TypeOK /\ TypeOK' /\ HeldIsStored /\ [Next]_vars => HeldIsStored'
<1> SUFFICES ASSUME TypeOK, TypeOK', HeldIsStored, [Next]_vars PROVE HeldIsStored'
  OBVIOUS
<1> USE DEF HeldIsStored, Stored
<1>1. ASSUME NEW p \in Pushers, Insert(p) PROVE HeldIsStored'
  <2>1. UNCHANGED held
    BY <1>1 DEF Insert, pulling
  <2>2. \/ \E m \in Messages : log[m] = 0 /\ log' = [log EXCEPT ![m] = drawn[p]]
        \/ UNCHANGED log
    BY <1>1, InsertEffect
  <2>3. log \in [Messages -> Nat]
    BY DEF TypeOK
  <2>4. \A m \in Messages : log[m] > 0 => log'[m] = log[m]
    BY <2>2, <2>3
  <2> QED
    BY <2>1, <2>4
<1>2. ASSUME NEW q \in Pullers, PullPage(q) PROVE HeldIsStored'
  <2>1. PICK P \in SUBSET Messages : /\ IsPage(P, at[q])
                                     /\ held' = [held EXCEPT ![q] = held[q] \cup P]
    BY <1>2 DEF PullPage
  <2>2. P \subseteq Stored
    BY <2>1 DEF IsPage, TypeOK
  <2>3. UNCHANGED log
    BY <1>2 DEF PullPage, store
  <2> QED
    BY <2>1, <2>2, <2>3 DEF TypeOK
<1>3. ASSUME NEW q \in Pullers, SavePull(q) \/ PullBreaksOff(q) PROVE HeldIsStored'
  BY <1>3 DEF SavePull, PullBreaksOff, EndPull, store, TypeOK
<1>4. ASSUME UNCHANGED <<log, held>> PROVE HeldIsStored'
  BY <1>4
<1>5. \/ \E p \in Pushers : Insert(p)
      \/ \E q \in Pullers : PullPage(q) \/ SavePull(q) \/ PullBreaksOff(q)
      \/ UNCHANGED <<log, held>>
  BY DEF Next, ServePush, RunPull, Push, Find, NextSeq, UpsertThreadMeta, PushAnswered,
         PushBreaksOff, StartPull, WritePull, vars, store, pulling
<1> QED
  BY <1>1, <1>2, <1>3, <1>4, <1>5

\* The winner of an insert race adds a row, the loser changes nothing others see.
LEMMA InsertAppends ==
  ASSUME IInv, NEW p \in Pushers, Insert(p)
  PROVE  Shared!Next \/ UNCHANGED Shared!thread
<1>0. TypeOK /\ Drawn
  BY DEF IInv
<1>1. /\ UNCHANGED <<acked, cursor, file, filed>>
      /\ pc[p] = "insert"
  BY <1>0, InsertEffect DEF desk
<1>2. PICK m \in Messages :
        \/ /\ log[m] = 0
           /\ log' = [log EXCEPT ![m] = drawn[p]]
           /\ overtaken' = IF \E n \in Stored : log[n] > drawn[p]
                           THEN overtaken \cup {m} ELSE overtaken
        \/ UNCHANGED <<log, overtaken>>
  BY <1>0, InsertEffect
<1>3. CASE UNCHANGED <<log, overtaken>>
  BY <1>1, <1>3 DEF Shared!thread
<1>4. CASE /\ log[m] = 0
           /\ log' = [log EXCEPT ![m] = drawn[p]]
           /\ overtaken' = IF \E n \in Stored : log[n] > drawn[p]
                           THEN overtaken \cup {m} ELSE overtaken
  <2>1. log'[m] = drawn[p]
    BY <1>0, <1>4 DEF TypeOK
  <2>2. 0 < drawn[p] /\ \A k \in Messages : log[k] # drawn[p]
    BY <1>0, <1>1 DEF Drawn
  <2>3. Shared!Rows = Stored
    BY DEF Shared!Rows, Stored
  <2>4. overtaken' = overtaken \cup {k \in {m} : \E n \in Stored : log[n] > drawn[p]}
    BY <1>4
  <2>5. Shared!Append(m)
    BY <1>1, <1>4, <2>1, <2>2, <2>3, <2>4 DEF Shared!Append, Stored
  <2> QED
    BY <2>5 DEF Shared!Next
<1> QED
  BY <1>2, <1>3, <1>4

\* A request's results are true when they are told.
LEMMA AnswerTells ==
  ASSUME IInv, NEW p \in Pushers, PushAnswered(p)
  PROVE  Shared!Next
<1>1. UNCHANGED <<log, overtaken, cursor, file, filed>> /\ acked' = acked \cup results[p]
  BY DEF PushAnswered, store, desk
<1>2. \A r \in acked' : r.msg \in Messages /\ 0 < r.seq /\ r.seq = log[r.msg]
  BY <1>1 DEF IInv, TypeOK, Result, Reported
<1>3. Shared!Tell
  BY <1>1, <1>2 DEF Shared!Tell, Shared!Rows
<1> QED
  BY <1>3 DEF Shared!Next

\* What a pull writes are rows of the log.
LEMMA WriteShows ==
  ASSUME HeldIsStored, NEW q \in Pullers, WritePull(q)
  PROVE  Shared!Next
<1>1. UNCHANGED <<log, acked, overtaken, cursor>> /\ file' = held[q] /\ filed' = filed \cup held[q]
  BY DEF WritePull, store
<1>2. Shared!Show
  BY <1>1 DEF Shared!Show, Shared!Rows, HeldIsStored, Stored
<1> QED
  BY <1>2 DEF Shared!Next

\* The position of a pull that saves it leaves nothing behind that was not in the file.
LEMMA SaveMarks ==
  ASSUME IInv, NEW q \in Pullers, SavePull(q)
  PROVE  Shared!Next
<1>1. UNCHANGED <<log, acked, overtaken, file, filed>> /\ cursor' = at[q] /\ stage[q] = "saving"
  BY DEF SavePull, store
<1>2. \A m \in Stored : log[m] <= at[q] => m \in filed \cup overtaken
  BY <1>1 DEF IInv, Covered, Covers, Pulling
<1>3. Shared!Mark
  BY <1>1, <1>2 DEF Shared!Mark, Shared!Rows, Stored
<1> QED
  BY <1>3 DEF Shared!Next

\* The thread is a log to which rows are added one at a time, and the desk is shown all
\* of it but what came late, whatever requests and pulls overlap, are repeated or break off.
THEOREM ThreadIsALog == Spec => KeepsLog
<1>1. Init => Shared!Init
  BY DEF Init, Shared!Init
<1>2. Init => HeldIsStored
  BY DEF Init, HeldIsStored
<1>3. IInv /\ IInv' /\ HeldIsStored /\ [Next]_vars => HeldIsStored'
  BY HeldStep DEF IInv
<1>4. ASSUME IInv, HeldIsStored, [Next]_vars PROVE [Shared!Next]_(Shared!thread)
  <2>1. \/ \E p \in Pushers : Insert(p) \/ PushAnswered(p)
        \/ \E q \in Pullers : WritePull(q) \/ SavePull(q)
        \/ UNCHANGED <<log, acked, overtaken, cursor, file, filed>>
    BY <1>4 DEF Next, ServePush, RunPull, Push, Find, NextSeq, UpsertThreadMeta, PushBreaksOff,
                StartPull, PullPage, PullBreaksOff, vars, store, desk
  <2>2. CASE UNCHANGED <<log, acked, overtaken, cursor, file, filed>>
    BY <2>2 DEF Shared!thread
  <2> QED
    BY <1>4, <2>1, <2>2, InsertAppends, AnswerTells, WriteShows, SaveMarks
<1> QED
  BY <1>1, <1>2, <1>3, <1>4, IInvHolds, PTL DEF Spec, KeepsLog, Shared!Spec

=============================================================================

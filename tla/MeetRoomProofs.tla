--------------------------- MODULE MeetRoomProofs ---------------------------
(***************************************************************************)
(* The prompter keeps the processes of a room apart until it stops one,    *)
(* the file of a meeting and the pointer to it agree, and everybody who is *)
(* asked to speak answers once or stays parked, for any gotchis, any       *)
(* choice of speakers and any number of processes.                         *)
(*                                                                         *)
(* Two invariants, one on top of the other.  IInv says who runs and who is *)
(* over.  Kept says, of rooms whose processes keep apart, how the lists    *)
(* that a process, the round file and the stack hold fit each other and    *)
(* what has been answered.                                                 *)
(***************************************************************************)
EXTENDS MeetRoom, SequenceTheorems, TLAPS

ProcRec == [kind : Kinds, pc : {"none", "start", "pick", "speak", "agent", "gone", "closed"},
            line : Lines, todo : Seq(Gotchi), agents : Seq(Agents),
            colabo : BOOLEAN, last : BOOLEAN, sig : BOOLEAN]

RoundRec == [line : Lines, rest : Seq(Gotchi)]

Pardons == [{"waiting", "killed"} -> 0..MaxProcs]

\* A process that waits for somebody has somebody to wait for.
OKProc(r) ==
  /\ r \in ProcRec
  /\ r.pc = "speak" => r.todo # <<>>
  /\ r.pc = "agent" => r.agents # <<>>

\* The chair is not among the agents of a parked colabo.
OKStack(s) ==
  /\ s \in [colabo : BOOLEAN, line : Lines, rest : Seq(Gotchi)]
  /\ s.colabo => s.rest \in Seq(Agents)

Shape == (\A p \in Procs : OKProc(proc[p])) /\ OKStack(stack)

\* Until a process is told to stop, the one that runs is the prompter's active child.
Tidy ==
  ~stopped =>
    /\ ~crossed
    /\ pardon.killed = 0
    /\ \A p \in Procs :
         /\ ~proc[p].sig
         /\ Live(p) \/ proc[p].pc = "gone" => p = active /\ busy

\* A process that will save its copy of the meeting works in an open one.
WorkIsInOpenMeeting == ~crossed => \A p \in Procs : AtWork(p) => current

IInv == TypeOK /\ Shape /\ Tidy /\ SavedAsLeft /\ WorkIsInOpenMeeting

-----------------------------------------------------------------------------
(* What a step of a process does to it *)

\* Process p goes on as r: it is well formed, and was not told to stop unless q was.
Moves(p, q, r) ==
  /\ OKProc(r)
  /\ r.pc \in {"pick", "speak", "agent", "gone"}
  /\ r.sig => q.sig
  /\ proc' = [proc EXCEPT ![p] = r]

FilesOK == round' \in RoundRec /\ OKStack(stack') /\ request' \in BOOLEAN

LEMMA AgentsAreGotchi == ASSUME NEW s \in Seq(Agents) PROVE s \in Seq(Gotchi)
  BY DEF Agents

LEMMA GoMoves ==
  ASSUME NEW p, NEW q \in ProcRec, NEW pc \in {"pick", "speak", "agent"}, Go(p, q, pc),
         pc = "speak" => q.todo # <<>>, pc = "agent" => q.agents # <<>>
  PROVE  \E r : Moves(p, q, r)
<1> DEFINE r == [q EXCEPT !.pc = pc]
<1>1. r \in ProcRec /\ r.pc = pc /\ r.todo = q.todo /\ r.agents = q.agents /\ r.sig = q.sig
  BY DEF ProcRec
<1>2. OKProc(r)
  BY <1>1 DEF OKProc
<1>3. Moves(p, q, r)
  BY <1>1, <1>2 DEF Moves, Go
<1> QED
  BY <1>3

LEMMA ExitMoves ==
  ASSUME NEW p \in Procs, NEW q, OKProc(proc[p]), Exit(p)
  PROVE  \E r : Moves(p, q, r) /\ r.pc = "gone"
<1> DEFINE r == Over(p, "gone")
<1>1. proc[p].kind \in Kinds
  BY DEF OKProc, ProcRec
<1>2. NoProc \in ProcRec /\ NoProc.sig = FALSE
  BY MeetRoomAssumption DEF NoProc, ProcRec, Kinds, Lines
<1>3. r \in ProcRec /\ r.pc = "gone" /\ r.sig = FALSE
  BY <1>1, <1>2 DEF Over, ProcRec
<1>4. Moves(p, q, r)
  BY <1>3 DEF Moves, Exit, OKProc
<1> QED
  BY <1>3, <1>4

LEMMA NextAgentMoves ==
  ASSUME NEW p \in Procs, NEW q \in ProcRec, NEW rd \in RoundRec, NEW st, NEW rq \in BOOLEAN,
         OKProc(proc[p]), OKStack(st), NextAgent(p, q, rd, st, rq)
  PROVE  FilesOK /\ \E r : Moves(p, q, r)
<1>1. CASE q.agents = <<>>
  <2> DEFINE q1 == [q EXCEPT !.last = TRUE]
  <2>1. q1 \in ProcRec /\ q1.sig = q.sig
    BY DEF ProcRec
  <2>2. \E r : Moves(p, q1, r)
    BY <1>1, <2>1, GoMoves DEF NextAgent
  <2>3. OKStack(NoStack)
    BY MeetRoomAssumption DEF OKStack, NoStack, Lines
  <2> QED
    BY <1>1, <2>1, <2>2, <2>3 DEF NextAgent, Files, FilesOK, Moves
<1>2. CASE q.agents # <<>> /\ rq
  <2>1. q.agents \in Seq(Agents) /\ q.agents \in Seq(Gotchi) /\ q.line \in Lines
    BY AgentsAreGotchi DEF ProcRec
  <2>2. OKStack([colabo |-> TRUE, line |-> q.line, rest |-> q.agents])
    BY <2>1 DEF OKStack
  <2> QED
    BY <1>2, <2>2, ExitMoves DEF NextAgent, Files, FilesOK
<1>3. CASE q.agents # <<>> /\ ~rq
  BY <1>3, GoMoves DEF NextAgent, Files, FilesOK
<1> QED
  BY <1>1, <1>2, <1>3

LEMMA EndRoundMoves ==
  ASSUME NEW p \in Procs, NEW q \in ProcRec, NEW rd \in RoundRec, NEW st, NEW rq \in BOOLEAN,
         OKProc(proc[p]), OKStack(st), EndRound(p, q, rd, st, rq)
  PROVE  FilesOK /\ saved' = "open" /\ \E r : Moves(p, q, r)
<1>1. CASE q.colabo /\ ~q.last
  BY <1>1, NextAgentMoves DEF EndRound
<1>2. CASE ~(q.colabo /\ ~q.last)
  BY <1>2, ExitMoves DEF EndRound, Files, FilesOK
<1> QED
  BY <1>1, <1>2

\* One turn of sayTurn's loop.
LEMMA NextSpeakerMoves ==
  ASSUME NEW p \in Procs, NEW q \in ProcRec, NEW rd \in RoundRec, NEW rq \in BOOLEAN,
         OKProc(proc[p]), OKStack(stack), dropped \subseteq Procs, NextSpeaker(p, q, rd, rq)
  PROVE  /\ FilesOK /\ saved' \in {saved, "open"} /\ dropped' \subseteq Procs
         /\ \E r : Moves(p, q, r)
<1>1. OKStack(NoStack) /\ NoRound \in RoundRec /\ {stack.line} \ {0} \subseteq Procs
  BY MeetRoomAssumption DEF OKStack, NoStack, NoRound, RoundRec, Lines, Procs
<1>2. CASE q.todo = <<>>
  <2> DEFINE st == IF q.kind = "continue" /\ ~q.colabo THEN NoStack ELSE stack
  <2>1. OKStack(st) /\ EndRound(p, q, NoRound, st, rq) /\ UNCHANGED dropped
    BY <1>1, <1>2 DEF NextSpeaker
  <2> QED
    BY <1>1, <2>1, EndRoundMoves
<1>3. CASE q.todo # <<>> /\ rq
  <2> DEFINE q1 == [q EXCEPT !.todo = <<>>]
             st == [colabo |-> FALSE, line |-> rd.line, rest |-> rd.rest]
  <2>1. q1 \in ProcRec /\ q1.sig = q.sig
    <3>1. <<>> \in Seq(Gotchi)
      OBVIOUS
    <3> QED
      BY <3>1 DEF ProcRec
  <2>2. OKStack(st)
    <3>1. rd.line \in Lines /\ rd.rest \in Seq(Gotchi)
      BY DEF RoundRec
    <3> QED
      BY <3>1 DEF OKStack
  <2>3. EndRound(p, q1, rd, st, FALSE) /\ dropped' = dropped \cup ({stack.line} \ {0, rd.line})
    BY <1>3 DEF NextSpeaker
  <2>4. FilesOK /\ saved' = "open" /\ \E r : Moves(p, q1, r)
    BY <2>1, <2>2, <2>3, EndRoundMoves
  <2> QED
    BY <1>1, <2>1, <2>3, <2>4 DEF Moves
<1>4. CASE q.todo # <<>> /\ ~rq
  <2>1. Go(p, q, "speak") /\ Files(rd, stack, rq) /\ UNCHANGED <<saved, dropped>>
    BY <1>4 DEF NextSpeaker
  <2> QED
    BY <1>4, <2>1, GoMoves DEF Files, FilesOK
<1> QED
  BY <1>2, <1>3, <1>4

-----------------------------------------------------------------------------
(* Steps of the processes *)

\* What the invariant says of the files and of the history.
LEMMA KnownTypes ==
  ASSUME IInv
  PROVE  /\ round \in RoundRec /\ OKStack(stack) /\ OKStack(NoStack) /\ request \in BOOLEAN
         /\ picked \in [Procs -> SUBSET Gotchi] /\ spoke \in [Procs -> SUBSET Gotchi]
         /\ twice \in [Procs -> SUBSET Gotchi]
         /\ dropped \subseteq Procs /\ {stack.line} \ {0} \subseteq Procs
<1>1. round \in RoundRec /\ OKStack(stack) /\ request \in BOOLEAN
  BY DEF IInv, TypeOK, Shape, RoundRec
<1>2. OKStack(NoStack)
  BY MeetRoomAssumption DEF OKStack, NoStack, Lines
<1>3. {stack.line} \ {0} \subseteq Procs
  BY <1>1, MeetRoomAssumption DEF OKStack, Lines, Procs
<1> QED
  BY <1>1, <1>2, <1>3 DEF IInv, TypeOK

\* A process goes on, or exits and leaves the meeting as it is.
LEMMA MoveKeeps ==
  ASSUME IInv, NEW p \in Procs, NEW q, NEW r, Live(p), Moves(p, q, r), FilesOK,
         q.sig => proc[p].sig,
         UNCHANGED <<inProject, current, started, prompter, stopped, misparked>>,
         saved' \in {saved, "open"}, dropped' \subseteq Procs,
         picked' \in [Procs -> SUBSET Gotchi], spoke' \in [Procs -> SUBSET Gotchi],
         twice' \in [Procs -> SUBSET Gotchi],
         crossed' \in BOOLEAN, crossed => crossed', crossed' => crossed \/ stopped,
         crossed' \/ current \/ (saved' = saved /\ r.pc = "gone")
  PROVE  IInv'
<1>1. proc \in [Procs -> ProcRec] /\ proc' \in [Procs -> ProcRec]
  BY DEF IInv, TypeOK, Moves, OKProc, ProcRec
<1>2. TypeOK'
  <2>1. round' \in [line : Lines, rest : Seq(Gotchi)] /\ request' \in BOOLEAN
        /\ stack' \in [colabo : BOOLEAN, line : Lines, rest : Seq(Gotchi)]
    BY DEF FilesOK, RoundRec, OKStack
  <2>2. saved' \in {"open", "ended"}
    BY DEF IInv, TypeOK
  <2> QED
    BY <1>1, <2>1, <2>2 DEF IInv, TypeOK, ProcRec, prompter
<1>3. Shape'
  BY <1>1 DEF IInv, Shape, Moves, FilesOK
<1>4. Tidy'
  BY <1>1 DEF IInv, Tidy, Moves, Live, prompter
<1>5. SavedAsLeft' /\ WorkIsInOpenMeeting'
  BY <1>1 DEF IInv, SavedAsLeft, WorkIsInOpenMeeting, AtWork, Moves
<1> QED
  BY <1>2, <1>3, <1>4, <1>5 DEF IInv

\* Whoever starts to work beside another does so after a process was told to stop.
LEMMA StartCrosses ==
  ASSUME IInv, NEW p \in Procs, NEW kind, Starts(p, kind)
  PROVE  /\ Live(p) /\ current /\ OKProc(proc[p]) /\ proc[p] \in ProcRec
         /\ UNCHANGED <<inProject, started, prompter, spoke, twice, stopped, misparked>>
         /\ crossed' \in BOOLEAN /\ (crossed => crossed') /\ (crossed' => crossed \/ stopped)
<1>1. OtherAtWork(p) => stopped
  BY DEF IInv, Tidy, OtherAtWork, AtWork, Starts, Live
<1>2. crossed' = (crossed \/ OtherAtWork(p)) /\ crossed \in BOOLEAN
  BY DEF Starts, IInv, TypeOK
<1>3. crossed' \in BOOLEAN
  BY <1>2
<1>4. Live(p) /\ current /\ UNCHANGED <<inProject, started, prompter, spoke, twice, stopped, misparked>>
  BY DEF Starts, Live
<1>5. OKProc(proc[p]) /\ proc[p] \in ProcRec
  BY DEF IInv, Shape, OKProc
<1> QED
  BY <1>1, <1>2, <1>3, <1>4, <1>5

\* writePardonRound and the turn of the loop that follows it.
LEMMA BeginRoundMoves ==
  ASSUME IInv, NEW p \in Procs, NEW q \in ProcRec, NEW speakers \in Picks \cup {<<>>, <<Chair>>},
         BeginRound(p, q, speakers, request)
  PROVE  /\ FilesOK /\ saved' \in {saved, "open"} /\ dropped' \subseteq Procs
         /\ picked' \in [Procs -> SUBSET Gotchi]
         /\ \E r : Moves(p, q, r)
<1> DEFINE q1 == [q EXCEPT !.todo = speakers]
           rd == [line |-> LineOf(q), rest |-> speakers]
<1>1. speakers \in Seq(Gotchi) /\ q.line \in Lines /\ 0 \in Lines
  <2>1. <<>> \in Seq(Gotchi) /\ <<Chair>> \in Seq(Gotchi)
    BY MeetRoomAssumption
  <2>2. q.line \in Lines /\ 0 \in Lines
    BY MeetRoomAssumption DEF ProcRec, Lines
  <2> QED
    BY <2>1, <2>2, MeetRoomAssumption
<1>2. q1 \in ProcRec /\ q1.sig = q.sig
  BY <1>1 DEF ProcRec
<1>3. rd \in RoundRec
  BY <1>1 DEF RoundRec, LineOf
<1>4. OKProc(proc[p]) /\ OKStack(stack) /\ dropped \subseteq Procs /\ request \in BOOLEAN
  BY DEF IInv, Shape, TypeOK
<1>5. NextSpeaker(p, q1, rd, request)
  BY DEF BeginRound
<1>6. /\ FilesOK /\ saved' \in {saved, "open"} /\ dropped' \subseteq Procs
      /\ \E r : Moves(p, q1, r)
  BY <1>2, <1>3, <1>4, <1>5, NextSpeakerMoves
<1>7. picked' \in [Procs -> SUBSET Gotchi]
  <2>1. Range(speakers) \subseteq Gotchi
    BY <1>1 DEF Range
  <2>2. picked \in [Procs -> SUBSET Gotchi]
    BY DEF IInv, TypeOK
  <2> QED
    BY <2>1, <2>2 DEF BeginRound
<1> QED
  BY <1>2, <1>6, <1>7 DEF Moves

LEMMA SayStartsStep == ASSUME IInv, NEW p \in Procs, SayStarts(p) PROVE IInv'
<1>1. Starts(p, "say")
  BY DEF SayStarts
<1>2. FilesOK
  BY KnownTypes DEF SayStarts, Files, FilesOK
<1>3. PICK r : Moves(p, proc[p], r)
  BY <1>1, StartCrosses, GoMoves DEF SayStarts
<1>4. dropped' \subseteq Procs
  BY KnownTypes DEF SayStarts
<1> QED
  BY <1>1, <1>2, <1>3, <1>4, StartCrosses, MoveKeeps DEF SayStarts, meeting, IInv, TypeOK

LEMMA PardonStartsStep == ASSUME IInv, NEW p \in Procs, PardonStarts(p) PROVE IInv'
<1>1. Starts(p, "pardon") /\ current' = current
  BY DEF PardonStarts
<1>2. PICK speakers \in Picks : BeginRound(p, proc[p], speakers, request)
  BY DEF PardonStarts
<1>3. /\ FilesOK /\ saved' \in {saved, "open"} /\ dropped' \subseteq Procs
      /\ picked' \in [Procs -> SUBSET Gotchi]
      /\ \E r : Moves(p, proc[p], r)
  BY <1>1, <1>2, StartCrosses, BeginRoundMoves
<1> QED
  BY <1>1, <1>3, StartCrosses, MoveKeeps DEF IInv, TypeOK

LEMMA ColaboStartsStep == ASSUME IInv, NEW p \in Procs, ColaboStarts(p) PROVE IInv'
<1>1. Starts(p, "colabo")
  BY DEF ColaboStarts
<1>2. FilesOK
  BY KnownTypes DEF ColaboStarts, Files, FilesOK
<1>3. dropped' \subseteq Procs
  BY KnownTypes DEF ColaboStarts
<1>4. PICK list \in AgentLists :
        /\ Go(p, [proc[p] EXCEPT !.colabo = TRUE, !.agents = list], "pick")
        /\ picked' = [picked EXCEPT ![p] = Range(list)]
  BY DEF ColaboStarts
<1>5. list \in Seq(Agents) /\ Range(list) \subseteq Gotchi
  <2>1. list \in Seq(Gotchi) /\ Range(list) \subseteq Agents
    BY MeetRoomAssumption DEF AgentLists
  <2>2. \A i \in 1..Len(list) : list[i] \in Agents
    BY <2>1 DEF Range
  <2> QED
    BY <2>1, <2>2 DEF Range, Agents
<1>6. picked' \in [Procs -> SUBSET Gotchi]
  BY <1>4, <1>5 DEF IInv, TypeOK
<1>7. PICK r : Moves(p, proc[p], r)
  <2> DEFINE q0 == [proc[p] EXCEPT !.colabo = TRUE]
             q == [q0 EXCEPT !.agents = list]
  <2>1. q0 \in ProcRec /\ q0.sig = proc[p].sig
    BY <1>1, StartCrosses DEF ProcRec
  <2>2. q \in ProcRec /\ q.sig = proc[p].sig
    BY <1>5, <2>1 DEF ProcRec
  <2>3. q = [proc[p] EXCEPT !.colabo = TRUE, !.agents = list]
    OBVIOUS
  <2>4. \E r : Moves(p, q, r)
    BY <1>4, <2>2, <2>3, GoMoves
  <2> QED
    BY <2>2, <2>4 DEF Moves
<1> QED
  BY <1>1, <1>2, <1>3, <1>6, <1>7, StartCrosses, MoveKeeps DEF ColaboStarts, meeting, IInv, TypeOK

LEMMA ContinueStartsStep == ASSUME IInv, NEW p \in Procs, ContinueStarts(p) PROVE IInv'
<1> DEFINE q == [proc[p] EXCEPT !.line = stack.line]
<1>1. Starts(p, "continue") /\ stack.rest # <<>> /\ OKStack(stack)
  BY KnownTypes DEF ContinueStarts, Parked
<1>2. stack.line \in Lines /\ stack.rest \in Seq(Gotchi)
  BY <1>1 DEF OKStack
<1>3. q \in ProcRec /\ q.sig = proc[p].sig
  BY <1>1, <1>2, StartCrosses DEF ProcRec
<1>4. CASE stack.colabo
  <2> DEFINE q0 == [q EXCEPT !.colabo = TRUE]
             q1 == [q0 EXCEPT !.agents = stack.rest]
  <2>1. stack.rest \in Seq(Agents)
    BY <1>1, <1>4 DEF OKStack
  <2>2. q0 \in ProcRec /\ q0.sig = proc[p].sig
    BY <1>3 DEF ProcRec
  <2>3. q1 \in ProcRec /\ q1.sig = proc[p].sig /\ q1.agents = stack.rest
    BY <2>1, <2>2 DEF ProcRec
  <2>4. Go(p, q1, "agent") /\ Files(round, NoStack, FALSE)
    BY <1>4 DEF ContinueStarts
  <2>5. \E r : Moves(p, q1, r)
    BY <1>1, <2>3, <2>4, GoMoves
  <2>6. PICK r : Moves(p, proc[p], r)
    BY <2>3, <2>5 DEF Moves
  <2>7. FilesOK
    BY <2>4, KnownTypes DEF Files, FilesOK
  <2> QED
    BY <1>1, <2>6, <2>7, StartCrosses, MoveKeeps, KnownTypes DEF ContinueStarts, meeting
<1>5. CASE ~stack.colabo
  <2> DEFINE q1 == [q EXCEPT !.todo = stack.rest]
             rd == [line |-> stack.line, rest |-> stack.rest]
  <2>1. q1 \in ProcRec /\ q1.sig = proc[p].sig /\ q1.todo = stack.rest
    BY <1>2, <1>3 DEF ProcRec
  <2>2. Go(p, q1, "speak") /\ Files(rd, NoStack, FALSE)
    BY <1>5 DEF ContinueStarts
  <2>3. \E r : Moves(p, q1, r)
    BY <1>1, <2>1, <2>2, GoMoves
  <2>4. PICK r : Moves(p, proc[p], r)
    BY <2>1, <2>3 DEF Moves
  <2>5. rd \in RoundRec
    BY <1>2 DEF RoundRec
  <2>6. FilesOK
    BY <2>2, <2>5, KnownTypes DEF Files, FilesOK
  <2> QED
    BY <1>1, <2>4, <2>6, StartCrosses, MoveKeeps, KnownTypes DEF ContinueStarts, meeting
<1> QED
  BY <1>4, <1>5

\* A meeting is ended beside nobody who will save an open copy of it, unless a process
\* was told to stop.
LEMMA EndStartsStep == ASSUME IInv, NEW p \in Procs, EndStarts(p) PROVE IInv'
<1>1. Starts(p, "end") /\ saved' = "ended" /\ current' = FALSE /\ UNCHANGED files
  BY DEF EndStarts
<1>2. crossed' = (crossed \/ OtherAtWork(p))
  BY <1>1 DEF Starts
<1>3. PICK r : Moves(p, proc[p], r) /\ r.pc = "gone"
  BY <1>1, StartCrosses, ExitMoves DEF EndStarts
<1>4. proc \in [Procs -> ProcRec] /\ proc' \in [Procs -> ProcRec]
  BY <1>3 DEF IInv, TypeOK, Moves, OKProc, ProcRec
<1>5. TypeOK'
  BY <1>1, <1>4, StartCrosses DEF IInv, TypeOK, ProcRec, EndStarts, files, prompter
<1>6. Shape'
  BY <1>1, <1>3, <1>4 DEF IInv, Shape, Moves, files
<1>7. Tidy'
  BY <1>1, <1>3, <1>4, StartCrosses DEF IInv, Tidy, Moves, Live, prompter
<1>8. SavedAsLeft' /\ WorkIsInOpenMeeting'
  BY <1>1, <1>2, <1>3, <1>4 DEF SavedAsLeft, WorkIsInOpenMeeting, AtWork, OtherAtWork, Moves
<1> QED
  BY <1>5, <1>6, <1>7, <1>8 DEF IInv

LEMMA NothingToDoStep == ASSUME IInv, NEW p \in Procs, NothingToDo(p) PROVE IInv'
<1>1. OKProc(proc[p]) /\ Live(p)
  BY DEF IInv, Shape, NothingToDo, Live
<1>2. PICK r : Moves(p, proc[p], r) /\ r.pc = "gone"
  BY <1>1, ExitMoves DEF NothingToDo
<1>3. FilesOK
  BY KnownTypes DEF NothingToDo, files, FilesOK
<1> QED
  BY <1>1, <1>2, <1>3, KnownTypes, MoveKeeps DEF NothingToDo, meeting, history, IInv, TypeOK

\* A process stops because it was told to.
LEMMA StopsStep == ASSUME IInv, NEW p \in Procs, Stops(p) PROVE IInv'
<1>1. OKProc(proc[p]) /\ Live(p) /\ proc[p].line \in Lines
  BY DEF IInv, Shape, Stops, OKProc, ProcRec
<1>2. PICK r : Moves(p, proc[p], r) /\ r.pc = "gone"
  BY <1>1, ExitMoves DEF Stops
<1>3. FilesOK
  <2>1. OKStack(ParkRound)
    <3>1. round.line \in Lines /\ round.rest \in Seq(Gotchi)
      BY KnownTypes DEF RoundRec
    <3>2. OKStack([colabo |-> FALSE, line |-> round.line, rest |-> round.rest])
      BY <3>1 DEF OKStack
    <3> QED
      BY <3>2, KnownTypes DEF ParkRound
  <2> QED
    BY <2>1, KnownTypes DEF Stops, FilesOK
<1>4. dropped' \subseteq Procs
  BY <1>1, KnownTypes, MeetRoomAssumption DEF Stops, Lines, Procs
<1> QED
  BY <1>1, <1>2, <1>3, <1>4, KnownTypes, MoveKeeps DEF Stops, meeting, IInv, TypeOK

LEMMA ChairPicksStep == ASSUME IInv, NEW p \in Procs, ChairPicks(p) PROVE IInv'
<1>1. OKProc(proc[p]) /\ proc[p] \in ProcRec /\ Live(p) /\ (crossed \/ current)
  BY DEF IInv, Shape, OKProc, ChairPicks, Live, WorkIsInOpenMeeting, AtWork
<1>2. PICK speakers \in Picks \cup {<<>>, <<Chair>>} : BeginRound(p, proc[p], speakers, request)
  BY DEF ChairPicks
<1>3. /\ FilesOK /\ saved' \in {saved, "open"} /\ dropped' \subseteq Procs
      /\ picked' \in [Procs -> SUBSET Gotchi]
      /\ \E r : Moves(p, proc[p], r)
  BY <1>1, <1>2, BeginRoundMoves
<1> QED
  BY <1>1, <1>3, KnownTypes, MoveKeeps DEF ChairPicks, IInv, TypeOK

\* Who answers a line is one of the gotchis.
LEMMA SaysTypes ==
  ASSUME IInv, NEW line \in Lines, NEW g \in Gotchi, Says(line, g)
  PROVE  spoke' \in [Procs -> SUBSET Gotchi] /\ twice' \in [Procs -> SUBSET Gotchi]
  BY KnownTypes DEF Says, Lines, Procs

LEMMA AgentDoneStep == ASSUME IInv, NEW p \in Procs, AgentDone(p) PROVE IInv'
<1> DEFINE q == proc[p]
           q1 == [q EXCEPT !.agents = Tail(@)]
<1>1. OKProc(q) /\ q \in ProcRec /\ Live(p) /\ (crossed \/ current) /\ q.agents # <<>>
  BY DEF IInv, Shape, OKProc, AgentDone, Live, WorkIsInOpenMeeting, AtWork
<1>2. q.agents \in Seq(Agents) /\ q.line \in Lines /\ Head(q.agents) \in Gotchi
      /\ Tail(q.agents) \in Seq(Agents)
  BY <1>1 DEF ProcRec, Agents
<1>3. q1 \in ProcRec /\ q1.sig = q.sig
  BY <1>1, <1>2 DEF ProcRec
<1>4. PICK r : Moves(p, q, r)
  <2>1. CASE current
    <3>1. \E r : Moves(p, q1, r)
      BY <1>3, <2>1, GoMoves DEF AgentDone
    <3> QED
      BY <1>3, <3>1 DEF Moves
  <2>2. CASE ~current
    BY <1>1, <2>2, ExitMoves DEF AgentDone
  <2> QED
    BY <2>1, <2>2
<1>5. spoke' \in [Procs -> SUBSET Gotchi] /\ twice' \in [Procs -> SUBSET Gotchi]
  BY <1>2, SaysTypes DEF AgentDone
<1>6. FilesOK
  BY KnownTypes DEF AgentDone, files, FilesOK
<1>7. crossed' \in BOOLEAN /\ (crossed => crossed') /\ (crossed' => crossed \/ stopped)
  <2>1. crossed' = (crossed \/ q.sig)
    BY DEF AgentDone
  <2>2. q.sig => stopped
    BY DEF IInv, Tidy
  <2>3. crossed \in BOOLEAN /\ q.sig \in BOOLEAN
    BY <1>1 DEF IInv, TypeOK, ProcRec
  <2> QED
    BY <2>1, <2>2, <2>3
<1> QED
  BY <1>1, <1>4, <1>5, <1>6, <1>7, KnownTypes, MoveKeeps DEF AgentDone, meeting

LEMMA ReplyStep == ASSUME IInv, NEW p \in Procs, Reply(p) PROVE IInv'
<1> DEFINE q == proc[p]
           line == IF round = NoRound THEN LineOf(q) ELSE round.line
<1>1. OKProc(q) /\ q \in ProcRec /\ Live(p) /\ (crossed \/ current) /\ q.todo # <<>>
  BY DEF IInv, Shape, OKProc, Reply, Live, WorkIsInOpenMeeting, AtWork
<1>2. q.todo \in Seq(Gotchi) /\ Head(q.todo) \in Gotchi /\ Tail(q.todo) \in Seq(Gotchi)
      /\ LineOf(q) \in Lines
  BY <1>1, MeetRoomAssumption DEF ProcRec, LineOf, Lines
<1>3. line \in Lines
  BY <1>2, KnownTypes DEF RoundRec
<1>4. PICK cued \in Cued(q) :
        /\ NextSpeaker(p, [q EXCEPT !.todo = Tail(q.todo) \o cued],
                       [line |-> line, rest |-> Unspoken(q, cued)], request)
        /\ picked' = IF LineOf(q) = 0 THEN picked
                     ELSE [picked EXCEPT ![q.line] = @ \cup Range(cued)]
  BY DEF Reply
<1>5. cued \in Seq(Gotchi) /\ Range(cued) \subseteq Gotchi
  <2>1. cued = <<>> \/ \E g \in Gotchi : cued = <<g>>
    BY <1>4 DEF Cued, Agents
  <2>2. CASE cued = <<>>
    BY <2>2 DEF Range
  <2>3. ASSUME NEW g \in Gotchi, cued = <<g>> PROVE cued \in Seq(Gotchi) /\ Range(cued) \subseteq Gotchi
    <3>1. <<g>> \in Seq(Gotchi) /\ DOMAIN <<g>> = {1} /\ <<g>>[1] = g
      OBVIOUS
    <3> QED
      BY <2>3, <3>1 DEF Range
  <2> QED
    BY <2>1, <2>2, <2>3
<1> DEFINE left == Tail(q.todo) \o cued
           q1 == [q EXCEPT !.todo = left]
           rd == [line |-> line, rest |-> left]
<1>6. left \in Seq(Gotchi)
  BY <1>2, <1>5
<1>7. q1 \in ProcRec /\ q1.sig = q.sig
  BY <1>1, <1>6 DEF ProcRec
<1>8. rd \in RoundRec
  BY <1>3, <1>6 DEF RoundRec
<1>9. NextSpeaker(p, q1, rd, request)
  BY <1>4 DEF Unspoken
<1>10. /\ FilesOK /\ saved' \in {saved, "open"} /\ dropped' \subseteq Procs
       /\ \E r : Moves(p, q1, r)
  BY <1>1, <1>7, <1>8, <1>9, KnownTypes, NextSpeakerMoves
<1>11. PICK r : Moves(p, q, r)
  BY <1>7, <1>10 DEF Moves
<1>12. picked' \in [Procs -> SUBSET Gotchi]
  BY <1>4, <1>5, KnownTypes
<1>13. spoke' \in [Procs -> SUBSET Gotchi] /\ twice' \in [Procs -> SUBSET Gotchi]
  BY <1>2, SaysTypes DEF Reply
<1>14. crossed' \in BOOLEAN /\ (crossed => crossed') /\ (crossed' => crossed \/ stopped)
  <2>1. crossed' = (crossed \/ q.sig)
    BY DEF Reply
  <2>2. q.sig => stopped
    BY DEF IInv, Tidy
  <2>3. crossed \in BOOLEAN /\ q.sig \in BOOLEAN
    BY <1>1 DEF IInv, TypeOK, ProcRec
  <2> QED
    BY <2>1, <2>2, <2>3
<1>15. UNCHANGED <<inProject, current, started, prompter, stopped, misparked>>
  BY DEF Reply
<1> QED
  BY <1>1, <1>10, <1>11, <1>12, <1>13, <1>14, <1>15, MoveKeeps

LEMMA ProcStepKeeps == ASSUME IInv, NEW p \in Procs, ProcStep(p) PROVE IInv'
  BY NothingToDoStep, SayStartsStep, PardonStartsStep, ColaboStartsStep, ContinueStartsStep,
     EndStartsStep, ChairPicksStep, ReplyStep, AgentDoneStep DEF ProcStep

-----------------------------------------------------------------------------
(* Steps of the prompter *)

Idle == \A p \in Procs : ~Live(p) /\ proc[p].pc # "gone"

\* A new child finds nobody at work, unless a process was told to stop.
LEMMA SpawnKeeps ==
  ASSUME IInv, NEW kind \in Kinds, Spawn(kind, proc), stopped \/ Idle,
         UNCHANGED <<inProject, stack, round, meeting, history>>, request' \in BOOLEAN,
         pardon' \in Pardons, stopped \/ pardon'.killed = 0
  PROVE  IInv'
<1> DEFINE n == started + 1
           r0 == [NoProc EXCEPT !.kind = kind]
           r1 == [r0 EXCEPT !.pc = "start"]
           r == [r1 EXCEPT !.line = n]
<1>1. n \in Procs /\ n \in Lines /\ started' = n /\ n \in 0..MaxProcs /\ n \in 0..n
  BY MeetRoomAssumption DEF IInv, TypeOK, Spawn, Procs, Lines
<1>2. NoProc \in ProcRec /\ NoProc.sig = FALSE
  BY MeetRoomAssumption DEF NoProc, ProcRec, Kinds, Lines
<1>3. r0 \in ProcRec /\ r0.sig = FALSE
  BY <1>2 DEF ProcRec
<1>4. r1 \in ProcRec /\ r1.sig = FALSE /\ r1.pc = "start"
  BY <1>3 DEF ProcRec
<1>5. r \in ProcRec /\ r.sig = FALSE /\ r.pc = "start"
  BY <1>1, <1>4 DEF ProcRec
<1>6. proc' = [proc EXCEPT ![n] = r] /\ busy' = TRUE /\ active' = n
  BY DEF Spawn
<1>7. proc \in [Procs -> ProcRec] /\ proc' \in [Procs -> ProcRec]
  BY <1>5, <1>6 DEF IInv, TypeOK, ProcRec
<1>8. TypeOK'
  BY <1>1, <1>6, <1>7 DEF IInv, TypeOK, ProcRec, Pardons, meeting, history
<1>9. Shape'
  BY <1>5, <1>6, <1>7 DEF IInv, Shape, OKProc
<1>10. Tidy'
  BY <1>5, <1>6, <1>7 DEF IInv, Tidy, Live, Idle, history
<1>11. SavedAsLeft' /\ WorkIsInOpenMeeting'
  BY <1>5, <1>6, <1>7 DEF IInv, SavedAsLeft, WorkIsInOpenMeeting, AtWork, meeting, history
<1> QED
  BY <1>8, <1>9, <1>10, <1>11 DEF IInv

\* Nobody is at work when the prompter is not busy or knows of no child.
LEMMA NobodyAtWork == ASSUME IInv, ~busy \/ active = 0 PROVE stopped \/ Idle
  BY DEF IInv, Tidy, Idle, Procs

\* A signal changes no more than a process's sig.
LEMMA KillKeeps ==
  ASSUME IInv, proc' = Kill(active), stopped' = TRUE, OKStack(stack'),
         UNCHANGED <<inProject, round, request, meeting, started, picked, spoke, twice,
                     dropped, crossed>>,
         misparked' \in BOOLEAN, busy' \in BOOLEAN, active' \in 0..started, pardon' \in Pardons
  PROVE  IInv'
<1>1. /\ \A p \in Procs : OKProc(proc'[p]) /\ proc'[p].pc = proc[p].pc
      /\ proc' \in [Procs -> ProcRec]
  <2>1. proc \in [Procs -> ProcRec] /\ \A p \in Procs : OKProc(proc[p])
    BY DEF IInv, TypeOK, Shape, ProcRec
  <2>2. CASE active # 0 /\ Live(active)
    <3> DEFINE r == [proc[active] EXCEPT !.sig = TRUE]
    <3>1. active \in Procs
      BY <2>2, MeetRoomAssumption DEF IInv, TypeOK, Procs
    <3>2. r \in ProcRec /\ r.pc = proc[active].pc /\ r.todo = proc[active].todo
          /\ r.agents = proc[active].agents
      BY <2>1, <3>1 DEF ProcRec
    <3>3. OKProc(r)
      BY <2>1, <3>1, <3>2 DEF OKProc
    <3>4. proc' = [proc EXCEPT ![active] = r]
      BY <2>2 DEF Kill
    <3> QED
      BY <2>1, <3>1, <3>2, <3>3, <3>4
  <2>3. CASE ~(active # 0 /\ Live(active))
    BY <2>1, <2>3 DEF Kill
  <2> QED
    BY <2>2, <2>3
<1>2. TypeOK'
  BY <1>1 DEF IInv, TypeOK, ProcRec, OKStack, Pardons, meeting
<1>3. Shape'
  BY <1>1 DEF Shape
<1>4. Tidy' /\ SavedAsLeft' /\ WorkIsInOpenMeeting'
  BY <1>1 DEF IInv, Tidy, SavedAsLeft, WorkIsInOpenMeeting, AtWork, meeting
<1> QED
  BY <1>2, <1>3, <1>4 DEF IInv

LEMMA UserStepKeeps == ASSUME IInv, UserStep PROVE IInv'
<1>1. ASSUME NEW k \in {"say", "colabo", "end", "continue"}, Submit(k) PROVE IInv'
  BY <1>1, NobodyAtWork, SpawnKeeps DEF Submit, Kinds, files, IInv, TypeOK, Tidy, Pardons
<1>2. ASSUME SubmitPardon PROVE IInv'
  BY <1>2, NobodyAtWork, SpawnKeeps DEF SubmitPardon, Kinds, files, IInv, TypeOK, Tidy, Pardons
<1>3. ASSUME AskForPause PROVE IInv'
  <2>1. request' \in BOOLEAN
    BY <1>3 DEF AskForPause, IInv, TypeOK
  <2>2. TypeOK'
    <3>1. pardon \in Pardons /\ pardon.waiting + 1 \in 0..MaxProcs
      BY <1>3, MeetRoomAssumption DEF AskForPause, IInv, TypeOK, Pardons
    <3>2. pardon' \in Pardons
      BY <1>3, <3>1 DEF AskForPause, Pardons
    <3> QED
      BY <1>3, <2>1, <3>2 DEF AskForPause, IInv, TypeOK, Pardons, meeting, history
  <2>3. Shape' /\ Tidy' /\ SavedAsLeft' /\ WorkIsInOpenMeeting'
    BY <1>3 DEF AskForPause, IInv, Shape, Tidy, Live, SavedAsLeft, WorkIsInOpenMeeting, AtWork,
         meeting, history
  <2> QED
    BY <2>2, <2>3 DEF IInv
<1>4. ASSUME CtrlC PROVE IInv'
  <2>1. active' \in 0..started /\ busy' \in BOOLEAN
    <3>1. started \in 0..MaxProcs
      BY DEF IInv, TypeOK
    <3>2. started \in Nat
      BY <3>1, MeetRoomAssumption
    <3>3. active' = 0 /\ busy' \in BOOLEAN
      BY <1>4, Zenon DEF CtrlC
    <3> QED
      BY <3>2, <3>3
  <2> QED
    BY <1>4, <2>1, KnownTypes, KillKeeps DEF CtrlC, files, IInv, TypeOK, Pardons
<1> QED
  BY <1>1, <1>2, <1>3, <1>4 DEF UserStep, SubmitContinue

LEMMA PrompterStepKeeps == ASSUME IInv, PrompterStep PROVE IInv'
<1>1. ASSUME PauseSeen PROVE IInv'
  <2>1. request' \in BOOLEAN
    BY <1>1, KnownTypes DEF PauseSeen, ClearRequest, IInv, TypeOK
  <2>2. pardon \in Pardons /\ pardon.waiting - 1 \in 0..MaxProcs
    BY <1>1, MeetRoomAssumption DEF PauseSeen, IInv, TypeOK, Pardons
  <2>3. pardon' \in Pardons /\ pardon'.killed = pardon.killed
    BY <1>1, <2>2 DEF PauseSeen, Pardons
  <2>4. stopped \/ pardon'.killed = 0
    BY <2>3 DEF IInv, Tidy
  <2> QED
    BY <1>1, <2>1, <2>3, <2>4, NobodyAtWork, SpawnKeeps DEF PauseSeen, Kinds
<1>2. ASSUME GraceOver PROVE IInv'
  <2>1. OKStack(stack')
    <3>1. round.line \in Lines /\ round.rest \in Seq(Gotchi)
      BY KnownTypes DEF RoundRec
    <3>2. OKStack([colabo |-> FALSE, line |-> round.line, rest |-> round.rest])
      BY <3>1 DEF OKStack
    <3> QED
      BY <1>2, <3>2, KnownTypes DEF GraceOver, ParkRound
  <2>2. pardon' \in Pardons
    BY <1>2, MeetRoomAssumption DEF GraceOver, IInv, TypeOK, Pardons
  <2> QED
    BY <1>2, <2>1, <2>2, KillKeeps DEF GraceOver, IInv, TypeOK
<1>3. ASSUME PardonAfterKill PROVE IInv'
  <2>1. request' \in BOOLEAN /\ stopped
    BY <1>3, KnownTypes DEF PardonAfterKill, ClearRequest, IInv, TypeOK, Tidy, Pardons
  <2>2. pardon' \in Pardons
    <3>1. pardon \in Pardons /\ pardon.killed - 1 \in 0..MaxProcs
      BY <1>3, MeetRoomAssumption DEF PardonAfterKill, IInv, TypeOK, Pardons
    <3> QED
      BY <1>3, <3>1 DEF PardonAfterKill, Pardons
  <2> QED
    BY <1>3, <2>1, <2>2, SpawnKeeps DEF PardonAfterKill, Kinds
<1>4. ASSUME NEW p \in Procs, Close(p) PROVE IInv'
  <2> DEFINE r == Over(p, "closed")
  <2>1. proc \in [Procs -> ProcRec] /\ proc[p].kind \in Kinds
    BY DEF IInv, TypeOK, ProcRec
  <2>2. NoProc \in ProcRec /\ NoProc.sig = FALSE
    BY MeetRoomAssumption DEF NoProc, ProcRec, Kinds, Lines
  <2>3. r \in ProcRec /\ r.pc = "closed" /\ r.sig = FALSE
    BY <2>1, <2>2 DEF Over, ProcRec
  <2>4. proc' = [proc EXCEPT ![p] = r] /\ proc' \in [Procs -> ProcRec]
    BY <1>4, <2>1, <2>3 DEF Close
  <2>5. TypeOK'
    <3>1. started \in 0..MaxProcs /\ active \in 0..started
      BY DEF IInv, TypeOK
    <3>2. started \in Nat
      BY <3>1, MeetRoomAssumption
    <3>3. active' \in {0, active} /\ busy' \in BOOLEAN
      BY <1>4, Zenon DEF Close
    <3>4. active' \in 0..started
      BY <3>1, <3>2, <3>3
    <3> QED
      BY <1>4, <2>4, <3>3, <3>4 DEF Close, IInv, TypeOK, ProcRec, files, meeting, history
  <2>6. Shape'
    BY <1>4, <2>1, <2>3, <2>4 DEF Close, IInv, Shape, OKProc, files
  <2>7. Tidy'
    BY <1>4, <2>1, <2>3, <2>4 DEF Close, IInv, Tidy, Live, history
  <2>8. SavedAsLeft' /\ WorkIsInOpenMeeting'
    BY <1>4, <2>1, <2>3, <2>4 DEF Close, IInv, SavedAsLeft, WorkIsInOpenMeeting, AtWork, meeting,
         history
  <2> QED
    BY <2>5, <2>6, <2>7, <2>8 DEF IInv
<1> QED
  BY <1>1, <1>2, <1>3, <1>4 DEF PrompterStep

-----------------------------------------------------------------------------
(* The theorems *)

\* An open meeting with nothing under way satisfies the invariant.
LEMMA InvInit == Init => IInv
<1> SUFFICES ASSUME Init PROVE IInv
  OBVIOUS
<1>1. NoProc \in ProcRec /\ NoProc.sig = FALSE /\ NoProc.pc = "none"
  BY MeetRoomAssumption DEF NoProc, ProcRec, Kinds, Lines
<1>2. proc \in [Procs -> ProcRec] /\ \A p \in Procs : OKProc(proc[p]) /\ proc[p] = NoProc
  BY <1>1 DEF Init, OKProc
<1>3. OKStack(NoStack) /\ NoRound \in RoundRec
  BY MeetRoomAssumption DEF OKStack, NoStack, NoRound, RoundRec, Lines
<1>4. started \in 0..MaxProcs /\ active \in 0..started
  BY MeetRoomAssumption DEF Init
<1>5. TypeOK
  <2>1. pardon \in Pardons
    BY MeetRoomAssumption DEF Init, Pardons
  <2> QED
    BY <1>2, <1>3, <1>4, <2>1 DEF Init, TypeOK, ProcRec, OKStack, RoundRec, Pardons
<1>6. Shape /\ Tidy /\ SavedAsLeft /\ WorkIsInOpenMeeting
  BY <1>1, <1>2, <1>3 DEF Init, Shape, Tidy, Live, SavedAsLeft, WorkIsInOpenMeeting, AtWork
<1> QED
  BY <1>5, <1>6 DEF IInv

\* The invariant holds in every state.
THEOREM Inductive == Spec => []IInv
<1>1. IInv /\ [Next]_vars => IInv'
  <2> SUFFICES ASSUME IInv, [Next]_vars PROVE IInv'
    OBVIOUS
  <2>1. CASE Next
    BY <2>1, UserStepKeeps, PrompterStepKeeps, ProcStepKeeps, StopsStep DEF Next
  <2>2. CASE UNCHANGED vars
    BY <2>2 DEF vars, files, meeting, prompter, history, IInv, TypeOK, Shape, OKProc, OKStack,
         Tidy, Live, SavedAsLeft, WorkIsInOpenMeeting, AtWork
  <2> QED
    BY <2>1, <2>2
<1> QED
  BY InvInit, <1>1, PTL DEF Spec

\* The variables keep their types.
THEOREM TypeCorrect == Spec => []TypeOK
<1>1. IInv => TypeOK
  BY DEF IInv
<1> QED
  BY Inductive, <1>1, PTL

\* Two processes of a room are at work at once only after one was told to stop.
THEOREM ProcessesStayApart == Spec => []OneAtATime
<1>1. IInv => OneAtATime
  BY DEF IInv, Tidy, OneAtATime
<1> QED
  BY Inductive, <1>1, PTL

\* A round that saves the meeting it read when it began does not open an ended one.
THEOREM MeetingStaysEnded == Spec => []SavedAsLeft
<1>1. IInv => SavedAsLeft
  BY DEF IInv
<1> QED
  BY Inductive, <1>1, PTL

-----------------------------------------------------------------------------
(* Nobody is lost: what processes and files hold while processes keep apart *)

ColaboLines == {p \in Procs : proc[p].kind = "colabo"}

AtWorkPcs == {"pick", "speak", "agent"}

\* What process q, number p, holds fits what it does, in a room of n processes of which C
\* are colabos, when pick are those picked for the line p.
RecFits(p, q, pick, C, n) ==
  /\ q.todo # <<>> => q.pc = "speak"
  /\ q.agents # <<>> \/ q.pc = "agent" => q.colabo
  /\ q.colabo => q.pc \in AtWorkPcs /\ q.line \in C
  /\ q.pc \in AtWorkPcs /\ ~q.colabo => q.line \notin C /\ (q.kind # "continue" => q.line = p)
  /\ q.pc = "pick" /\ ~q.colabo => q.kind # "continue" /\ pick = {}
  /\ q.pc = "start" => q.line = p /\ pick = {}
  /\ q.line <= n

RoundFits(rd, C, n) == rd.line <= n /\ rd.line \notin C

StackFits(st, C, n) == st.line <= n /\ (st.colabo <=> st.line \in C)

\* The round in the file is the one of the process whose turn it is.
SpeakerRound ==
  \A p \in Procs : proc[p].pc = "speak" =>
    round = [line |-> LineOf(proc[p]), rest |-> proc[p].todo]

Apart == \A p, o \in Procs : AtWork(p) /\ AtWork(o) => p = o

Unborn == \A p \in Procs : p > started => proc[p].pc = "none" /\ picked[p] = {}

Fitting ==
  /\ Apart /\ Unborn /\ SpeakerRound
  /\ \A p \in Procs : RecFits(p, proc[p], picked[p], ColaboLines, started)
  /\ RoundFits(round, ColaboLines, started)
  /\ StackFits(stack, ColaboLines, started)

-----------------------------------------------------------------------------
(* Steps that keep what is held fitting *)

\* The lines of colabos are those of the processes there are.
LEMMA ColaboLinesKept ==
  ASSUME IInv, NEW p \in Procs, NEW r, proc' = [proc EXCEPT ![p] = r], r.kind = proc[p].kind
  PROVE  ColaboLines' = ColaboLines
<1>1. proc \in [Procs -> ProcRec]
  BY DEF IInv, TypeOK, ProcRec
<1> QED
  BY <1>1 DEF ColaboLines

\* A process goes on as r.
LEMMA MoveFits ==
  ASSUME IInv, Fitting, NEW p \in Procs, NEW r, Live(p),
         proc' = [proc EXCEPT ![p] = r], r.kind = proc[p].kind, started' = started,
         r.pc \in AtWorkPcs \cup {"gone"},
         r.pc \in AtWorkPcs => ~OtherAtWork(p),
         RecFits(p, r, picked'[p], ColaboLines, started),
         \A o \in Procs \ {p} : picked'[o] = picked[o],
         RoundFits(round', ColaboLines, started), StackFits(stack', ColaboLines, started),
         r.pc = "speak" => round' = [line |-> LineOf(r), rest |-> r.todo],
         round' = round \/ ~OtherAtWork(p)
  PROVE  Fitting' /\ ColaboLines' = ColaboLines
<1>1. proc \in [Procs -> ProcRec]
  BY DEF IInv, TypeOK, ProcRec
<1>2. ColaboLines' = ColaboLines
  BY ColaboLinesKept
<1>3. proc'[p] = r /\ \A o \in Procs \ {p} : proc'[o] = proc[o]
  BY <1>1
<1>4. Apart'
  BY <1>3 DEF Fitting, Apart, AtWork, AtWorkPcs, OtherAtWork
<1>5. p <= started
  <2>1. proc[p].pc # "none"
    BY DEF Live
  <2>2. p \in Nat /\ started \in Nat
    BY MeetRoomAssumption DEF Procs, IInv, TypeOK
  <2> QED
    BY <2>1, <2>2 DEF Fitting, Unborn
<1>6. Unborn'
  <2> SUFFICES ASSUME NEW o \in Procs, o > started PROVE proc'[o].pc = "none" /\ picked'[o] = {}
    BY DEF Unborn
  <2>1. o # p
    BY <1>5, MeetRoomAssumption DEF Procs, IInv, TypeOK
  <2> QED
    BY <1>3, <2>1 DEF Fitting, Unborn
<1>7. SpeakerRound'
  <2> SUFFICES ASSUME NEW o \in Procs, proc'[o].pc = "speak"
               PROVE  round' = [line |-> LineOf(proc'[o]), rest |-> proc'[o].todo]
    BY DEF SpeakerRound, LineOf
  <2>1. CASE o = p
    BY <1>3, <2>1
  <2>2. CASE o # p
    BY <1>3, <2>2 DEF Fitting, SpeakerRound, OtherAtWork, AtWork
  <2> QED
    BY <2>1, <2>2
<1>8. \A o \in Procs : RecFits(o, proc'[o], picked'[o], ColaboLines, started)
  BY <1>3 DEF Fitting
<1> QED
  BY <1>2, <1>4, <1>6, <1>7, <1>8 DEF Fitting

-----------------------------------------------------------------------------
(* What a turn of the loop comes to *)

\* Process q goes on as r, at pc, with todo to speak.
Becomes(r, q, pc, todo) ==
  /\ r.pc = pc /\ r.todo = todo
  /\ r.kind = q.kind /\ r.line = q.line /\ r.agents = q.agents /\ r.colabo = q.colabo
  /\ r.sig = q.sig

\* Nothing is left of process q.
Leaves(r, q) ==
  /\ r.pc = "gone" /\ r.todo = <<>> /\ r.agents = <<>> /\ r.line = 0
  /\ r.kind = q.kind /\ r.colabo = FALSE /\ r.sig = FALSE

Replaces(p, r) == proc' = [proc EXCEPT ![p] = r]

LEMMA GoBecomes ==
  ASSUME NEW p, NEW q \in ProcRec, NEW pc, Go(p, q, pc)
  PROVE  \E r : Replaces(p, r) /\ Becomes(r, q, pc, q.todo)
<1> DEFINE r == [q EXCEPT !.pc = pc]
<1>1. Replaces(p, r)
  BY DEF Go, Replaces
<1>2. Becomes(r, q, pc, q.todo)
  BY DEF ProcRec, Becomes
<1> QED
  BY <1>1, <1>2

LEMMA OverLeaves ==
  ASSUME NEW p \in Procs, NEW pc
  PROVE  LET r == Over(p, pc) IN
         /\ r.pc = pc /\ r.todo = <<>> /\ r.agents = <<>> /\ r.line = 0
         /\ r.kind = proc[p].kind /\ r.colabo = FALSE /\ r.sig = FALSE
  BY DEF Over, NoProc

LEMMA ExitLeaves ==
  ASSUME NEW p \in Procs, Exit(p)
  PROVE  \E r : Replaces(p, r) /\ Leaves(r, proc[p])
<1>1. Replaces(p, Over(p, "gone"))
  BY DEF Exit, Replaces
<1>2. Leaves(Over(p, "gone"), proc[p])
  BY OverLeaves DEF Leaves
<1> QED
  BY <1>1, <1>2

\* The stack is forgotten for the line l.
ForgetsFor(l) == dropped' = dropped \cup ({stack.line} \ {0, l})

\* The next one speaks.
SpeaksNext(p, q, r, rd) ==
  /\ q.todo # <<>> /\ Becomes(r, q, "speak", q.todo)
  /\ round' = rd /\ stack' = stack /\ dropped' = dropped

\* Everybody has spoken: a continued round takes the parked one along.
EndsRound(p, q, r) ==
  /\ q.todo = <<>> /\ Leaves(r, q)
  /\ round' = NoRound /\ dropped' = dropped
  /\ stack' = IF q.kind = "continue" /\ ~q.colabo THEN NoStack ELSE stack

\* The round is parked in the place of another.
PausesRound(p, q, r, rd) ==
  /\ q.todo # <<>> /\ Leaves(r, q)
  /\ round' = rd /\ ForgetsFor(rd.line)
  /\ stack' = [colabo |-> FALSE, line |-> rd.line, rest |-> rd.rest]

\* A colabo goes on after one of its rounds: to its last report, to the next agent, or
\* it parks the agents that are left.
ColaboGoesOn(p, q, r, rd) ==
  /\ q.colabo /\ round' \in {rd, NoRound} /\ (dropped' = dropped \/ ForgetsFor(rd.line))
  /\ \/ q.agents = <<>> /\ Becomes(r, q, "pick", <<>>) /\ stack' = NoStack
     \/ q.agents # <<>> /\ Leaves(r, q)
        /\ stack' = [colabo |-> TRUE, line |-> q.line, rest |-> q.agents]
     \/ q.agents # <<>> /\ Becomes(r, q, "agent", <<>>)
        /\ stack' \in {stack, [colabo |-> FALSE, line |-> rd.line, rest |-> rd.rest]}

TurnOf(p, q, r, rd) ==
  SpeaksNext(p, q, r, rd) \/ EndsRound(p, q, r) \/ PausesRound(p, q, r, rd)
  \/ ColaboGoesOn(p, q, r, rd)

LEMMA NextAgentTurn ==
  ASSUME NEW p \in Procs, NEW q \in ProcRec, NEW rd, NEW st, NEW rq \in BOOLEAN,
         q.kind = proc[p].kind, q.colabo, q.todo = <<>>, NextAgent(p, q, rd, st, rq)
  PROVE  /\ round' = rd
         /\ \E r : /\ Replaces(p, r)
                   /\ \/ q.agents = <<>> /\ Becomes(r, q, "pick", <<>>) /\ stack' = NoStack
                      \/ q.agents # <<>> /\ Leaves(r, q)
                         /\ stack' = [colabo |-> TRUE, line |-> q.line, rest |-> q.agents]
                      \/ q.agents # <<>> /\ Becomes(r, q, "agent", <<>>) /\ stack' = st
<1>1. CASE q.agents = <<>>
  <2> DEFINE q1 == [q EXCEPT !.last = TRUE]
  <2>1. q1 \in ProcRec /\ q1.todo = <<>> /\ \A r : Becomes(r, q1, "pick", <<>>) => Becomes(r, q, "pick", <<>>)
    BY DEF ProcRec, Becomes
  <2>2. \E r : Replaces(p, r) /\ Becomes(r, q1, "pick", <<>>)
    BY <1>1, <2>1, GoBecomes DEF NextAgent
  <2> QED
    BY <1>1, <2>1, <2>2 DEF NextAgent, Files
<1>2. CASE q.agents # <<>> /\ rq
  <2>1. PICK r : Replaces(p, r) /\ Leaves(r, proc[p])
    BY <1>2, ExitLeaves DEF NextAgent
  <2>2. Leaves(r, q)
    BY <2>1 DEF Leaves
  <2> QED
    BY <1>2, <2>1, <2>2 DEF NextAgent, Files
<1>3. CASE q.agents # <<>> /\ ~rq
  <2>1. PICK r : Replaces(p, r) /\ Becomes(r, q, "agent", <<>>)
    BY <1>3, GoBecomes DEF NextAgent
  <2> QED
    BY <1>3, <2>1 DEF NextAgent, Files
<1> QED
  BY <1>1, <1>2, <1>3

LEMMA ExitTurn ==
  ASSUME NEW p \in Procs, NEW q, q.kind = proc[p].kind, Exit(p)
  PROVE  \E r : Replaces(p, r) /\ Leaves(r, q)
<1>1. PICK r : Replaces(p, r) /\ Leaves(r, proc[p])
  BY ExitLeaves
<1>2. Leaves(r, q)
  BY <1>1 DEF Leaves
<1> QED
  BY <1>1, <1>2

\* sayTurn's loop comes to one of the four.
LEMMA Turns ==
  ASSUME NEW p \in Procs, NEW q \in ProcRec, NEW rd, NEW rq \in BOOLEAN,
         q.kind = proc[p].kind, NextSpeaker(p, q, rd, rq)
  PROVE  \E r : Replaces(p, r) /\ TurnOf(p, q, r, rd)
<1>1. CASE q.todo = <<>>
  <2> DEFINE st == IF q.kind = "continue" /\ ~q.colabo THEN NoStack ELSE stack
  <2>1. EndRound(p, q, NoRound, st, rq) /\ dropped' = dropped
    BY <1>1 DEF NextSpeaker
  <2>2. CASE q.colabo /\ ~q.last
    <3>1. NextAgent(p, q, NoRound, stack, rq)
      BY <2>1, <2>2 DEF EndRound
    <3>2. PICK r :
            /\ Replaces(p, r)
            /\ \/ q.agents = <<>> /\ Becomes(r, q, "pick", <<>>) /\ stack' = NoStack
               \/ q.agents # <<>> /\ Leaves(r, q)
                  /\ stack' = [colabo |-> TRUE, line |-> q.line, rest |-> q.agents]
               \/ q.agents # <<>> /\ Becomes(r, q, "agent", <<>>) /\ stack' = stack
      BY <1>1, <2>2, <3>1, NextAgentTurn
    <3>3. round' = NoRound
      BY <1>1, <2>2, <3>1, NextAgentTurn
    <3> QED
      BY <2>1, <2>2, <3>2, <3>3 DEF TurnOf, ColaboGoesOn
  <2>3. CASE ~(q.colabo /\ ~q.last)
    <3>1. Exit(p) /\ Files(NoRound, st, rq)
      BY <2>1, <2>3 DEF EndRound
    <3> QED
      BY <1>1, <2>1, <3>1, ExitTurn DEF TurnOf, EndsRound, Files
  <2> QED
    BY <2>2, <2>3
<1>2. CASE q.todo # <<>> /\ rq
  <2> DEFINE q1 == [q EXCEPT !.todo = <<>>]
             st == [colabo |-> FALSE, line |-> rd.line, rest |-> rd.rest]
  <2>1. EndRound(p, q1, rd, st, FALSE) /\ ForgetsFor(rd.line)
    BY <1>2 DEF NextSpeaker, ForgetsFor
  <2>2. /\ q1 \in ProcRec /\ q1.todo = <<>> /\ q1.kind = q.kind /\ q1.colabo = q.colabo
        /\ q1.last = q.last /\ q1.agents = q.agents /\ q1.line = q.line
        /\ \A r, pc : Becomes(r, q1, pc, <<>>) => Becomes(r, q, pc, <<>>)
        /\ \A r : Leaves(r, q1) => Leaves(r, q)
    <3>1. <<>> \in Seq(Gotchi)
      OBVIOUS
    <3>2. /\ q1 \in ProcRec /\ q1.todo = <<>> /\ q1.kind = q.kind /\ q1.colabo = q.colabo
          /\ q1.last = q.last /\ q1.agents = q.agents /\ q1.line = q.line /\ q1.sig = q.sig
      BY <3>1 DEF ProcRec
    <3> QED
      BY <3>2 DEF Becomes, Leaves
  <2> HIDE DEF q1
  <2>3. CASE q.colabo /\ ~q.last
    <3>1. NextAgent(p, q1, rd, st, FALSE)
      BY <2>1, <2>2, <2>3 DEF EndRound
    <3>2. PICK r :
            /\ Replaces(p, r)
            /\ \/ q1.agents = <<>> /\ Becomes(r, q1, "pick", <<>>) /\ stack' = NoStack
               \/ q1.agents # <<>> /\ Leaves(r, q1)
                  /\ stack' = [colabo |-> TRUE, line |-> q1.line, rest |-> q1.agents]
               \/ q1.agents # <<>> /\ Becomes(r, q1, "agent", <<>>) /\ stack' = st
      BY <2>2, <2>3, <3>1, NextAgentTurn
    <3>3. round' = rd
      BY <2>2, <2>3, <3>1, NextAgentTurn
    <3> QED
      BY <2>1, <2>2, <2>3, <3>2, <3>3 DEF TurnOf, ColaboGoesOn
  <2>4. CASE ~(q.colabo /\ ~q.last)
    <3>1. Exit(p) /\ Files(rd, st, FALSE)
      BY <2>1, <2>2, <2>4 DEF EndRound
    <3> QED
      BY <1>2, <2>1, <3>1, ExitTurn DEF TurnOf, PausesRound, Files
  <2> QED
    BY <2>3, <2>4
<1>3. CASE q.todo # <<>> /\ ~rq
  <2>1. Go(p, q, "speak") /\ Files(rd, stack, rq) /\ dropped' = dropped
    BY <1>3 DEF NextSpeaker
  <2> QED
    BY <1>3, <2>1, GoBecomes DEF TurnOf, SpeaksNext, Files
<1> QED
  BY <1>1, <1>2, <1>3

-----------------------------------------------------------------------------
(* Nobody waits in vain *)

\* A process is to ask g for the line, or g is parked for it.
HeldFor(line, g)   == \E p \in Procs : proc[p].line = line /\ g \in Range(proc[p].todo)
ParkedFor(line, g) == stack.line = line /\ g \in Range(stack.rest)

NobodyWaitsInVain ==
  \A line \in (Procs \ dropped) \ ColaboLines : \A g \in picked[line] \ spoke[line] :
    HeldFor(line, g) \/ ParkedFor(line, g)

\* What is parked while process q continues a round is of that round: q takes it along.
TakesAlong(q, st, sp) ==
  q.kind = "continue" /\ ~q.colabo /\ st.rest # <<>> =>
    /\ st.line = q.line
    /\ q.line # 0 => Range(st.rest) \subseteq sp[q.line] \cup Range(q.todo)

Continues == \A p \in Procs : AtWork(p) => TakesAlong(proc[p], stack, spoke)

\* Whatever line was not answered when a colabo began is forgotten.
ColaboClears ==
  \A p \in Procs : proc[p].colabo =>
    \A line \in (Procs \ dropped) \ ColaboLines : picked[line] \subseteq spoke[line]

Waiting == NobodyWaitsInVain /\ Continues /\ ColaboClears

\* A line for which nobody was picked has nobody parked and no round.
Begun ==
  \A line \in Procs \ ColaboLines : picked[line] = {} =>
    /\ round.rest # <<>> => round.line # line
    /\ stack.rest # <<>> => stack.line # line

\* When the line that process q asks is parked as well, it is parked for nobody who is
\* through; and q has been told to stop and everybody it was to ask is parked, or the
\* prompter, of which act is the child, no longer knows q and will not tell it to.
RestIsOpen(q, st, sp) == q.line # 0 => Range(st.rest) \subseteq sp[q.line] \cup Range(q.todo)

OwnIsParked(q, st) == q.pc = "speak" /\ ~q.colabo /\ st.rest # <<>> /\ st.line = q.line

ParkedIsLeft(p, q, st, sp, act) ==
  OwnIsParked(q, st) =>
    /\ RestIsOpen(q, st, sp)
    /\ IF q.sig THEN Range(q.todo) \subseteq Range(st.rest) ELSE act # p

Own == Begun /\ \A p \in Procs : ParkedIsLeft(p, proc[p], stack, spoke, active)

-----------------------------------------------------------------------------
(* A turn of sayTurn's loop *)

\* Process p, which has become q, goes on as r after a turn of the loop; only the line that
\* it asks has new speakers and answers.
TurnTaken(p, q, r) ==
  /\ Live(p) /\ q \in ProcRec /\ started' = started /\ ~OtherAtWork(p)
  /\ q.kind = proc[p].kind /\ q.colabo = proc[p].colabo /\ q.line = proc[p].line
  /\ q.agents = proc[p].agents /\ q.sig = proc[p].sig
  /\ Replaces(p, r) /\ TurnOf(p, q, r, [line |-> LineOf(q), rest |-> q.todo])
  /\ \A l \in Procs : l # LineOf(q) => picked'[l] = picked[l] /\ spoke'[l] = spoke[l]
  /\ \A l \in Procs : l # p => picked'[l] = picked[l]
  /\ \A l \in Procs : picked[l] \subseteq picked'[l]
  /\ q.agents # <<>> => q.colabo
  /\ IF q.colabo THEN q.line \in ColaboLines
     ELSE q.line \notin ColaboLines /\ (q.kind # "continue" => q.line = p)
  /\ q.line <= started

LEMMA ZeroIsNoColabo == 0 \notin ColaboLines /\ 0 \notin Procs
  BY DEF ColaboLines, Procs

LEMMA TurnFits ==
  ASSUME IInv, Fitting, NEW p \in Procs, NEW q, NEW r, TurnTaken(p, q, r)
  PROVE  Fitting' /\ ColaboLines' = ColaboLines
<1> DEFINE rd == [line |-> LineOf(q), rest |-> q.todo]
<1>1. /\ q \in ProcRec /\ q.kind = proc[p].kind /\ q.colabo \in BOOLEAN /\ started' = started
      /\ Live(p) /\ ~OtherAtWork(p) /\ Replaces(p, r) /\ TurnOf(p, q, r, rd)
      /\ \A o \in Procs \ {p} : picked'[o] = picked[o]
      /\ q.agents # <<>> => q.colabo
      /\ IF q.colabo THEN q.line \in ColaboLines
         ELSE q.line \notin ColaboLines /\ (q.kind # "continue" => q.line = p)
      /\ q.line <= started
  BY DEF TurnTaken, ProcRec
<1>2. 0 <= started /\ 0 \notin ColaboLines /\ LineOf(q) \notin ColaboLines /\ LineOf(q) <= started
  BY <1>1, ZeroIsNoColabo, MeetRoomAssumption DEF IInv, TypeOK, LineOf
<1>3. /\ r.kind = proc[p].kind /\ r.pc \in AtWorkPcs \cup {"gone"}
      /\ RecFits(p, r, picked'[p], ColaboLines, started)
      /\ r.pc = "speak" => round' = [line |-> LineOf(r), rest |-> r.todo]
  <2>1. CASE SpeaksNext(p, q, r, rd)
    BY <1>1, <1>2, <2>1 DEF SpeaksNext, Becomes, RecFits, AtWorkPcs, LineOf
  <2>2. CASE EndsRound(p, q, r)
    BY <1>1, <1>2, <2>2 DEF EndsRound, Leaves, RecFits, AtWorkPcs
  <2>3. CASE PausesRound(p, q, r, rd)
    BY <1>1, <1>2, <2>3 DEF PausesRound, Leaves, RecFits, AtWorkPcs
  <2>4. CASE ColaboGoesOn(p, q, r, rd)
    BY <1>1, <1>2, <2>4 DEF ColaboGoesOn, Becomes, Leaves, RecFits, AtWorkPcs
  <2> QED
    BY <1>1, <2>1, <2>2, <2>3, <2>4 DEF TurnOf
<1>4. RoundFits(round', ColaboLines, started)
  BY <1>1, <1>2 DEF TurnOf, SpeaksNext, EndsRound, PausesRound, ColaboGoesOn, RoundFits, NoRound
<1>5. StackFits(stack', ColaboLines, started)
  <2>1. StackFits(stack, ColaboLines, started)
    BY DEF Fitting
  <2>2. StackFits(NoStack, ColaboLines, started)
    BY <1>2 DEF StackFits, NoStack
  <2>3. StackFits([colabo |-> FALSE, line |-> rd.line, rest |-> rd.rest], ColaboLines, started)
    BY <1>2 DEF StackFits
  <2>4. q.colabo => StackFits([colabo |-> TRUE, line |-> q.line, rest |-> q.agents], ColaboLines, started)
    BY <1>1 DEF StackFits
  <2>5. \/ stack' \in {stack, NoStack, [colabo |-> FALSE, line |-> rd.line, rest |-> rd.rest]}
        \/ q.colabo /\ stack' = [colabo |-> TRUE, line |-> q.line, rest |-> q.agents]
    BY <1>1 DEF TurnOf, SpeaksNext, EndsRound, PausesRound, ColaboGoesOn
  <2> QED
    BY <2>1, <2>2, <2>3, <2>4, <2>5
<1> QED
  BY <1>1, <1>3, <1>4, <1>5, MoveFits DEF Replaces

\* Whoever holds a line open beside p is parked.
LEMMA OthersHoldNothing ==
  ASSUME Fitting, NEW p \in Procs, ~OtherAtWork(p), NEW o \in Procs, o # p
  PROVE  proc[o].todo = <<>> /\ proc[o].agents = <<>> /\ ~proc[o].colabo
<1>1. ~AtWork(o)
  BY DEF OtherAtWork
<1>2. RecFits(o, proc[o], picked[o], ColaboLines, started)
  BY DEF Fitting
<1> QED
  BY <1>1, <1>2 DEF RecFits, AtWork, AtWorkPcs

LEMMA NothingInEmpty == Range(<<>>) = {} /\ IsInjective(<<>>)
  BY DEF Range, IsInjective

\* A line that is not p's, and that has not been forgotten, waits for those who are parked.
LEMMA OtherLineIsParked ==
  ASSUME IInv, Fitting, Waiting, NEW p \in Procs, ~OtherAtWork(p),
         NEW line \in (Procs \ dropped) \ ColaboLines, proc[p].todo = <<>> \/ line # proc[p].line,
         NEW g \in picked[line] \ spoke[line]
  PROVE  ParkedFor(line, g)
<1>1. HeldFor(line, g) \/ ParkedFor(line, g)
  BY DEF Waiting, NobodyWaitsInVain
<1>2. ASSUME NEW o \in Procs, proc[o].line = line, g \in Range(proc[o].todo) PROVE FALSE
  BY <1>2, OthersHoldNothing, NothingInEmpty
<1> QED
  BY <1>1, <1>2 DEF HeldFor

LEMMA TurnKeepsWaiting ==
  ASSUME IInv, Fitting, Waiting, NEW p \in Procs, NEW q, NEW r, TurnTaken(p, q, r),
         \A l \in (Procs \ dropped) \ ColaboLines : l = LineOf(q) =>
           \A g \in picked'[l] \ spoke'[l] : g \in Range(q.todo) \/ ParkedFor(l, g),
         TakesAlong(q, stack, spoke'),
         ~q.colabo /\ stack.rest # <<>> /\ stack.line = q.line => RestIsOpen(q, stack, spoke')
  PROVE  Waiting'
<1> DEFINE rd == [line |-> LineOf(q), rest |-> q.todo]
<1>1. /\ q \in ProcRec /\ q.colabo = proc[p].colabo /\ q.line = proc[p].line
      /\ Live(p) /\ ~OtherAtWork(p) /\ Replaces(p, r) /\ TurnOf(p, q, r, rd)
      /\ \A l \in Procs : l # LineOf(q) => picked'[l] = picked[l] /\ spoke'[l] = spoke[l]
      /\ q.colabo => q.line \in ColaboLines
  BY DEF TurnTaken
<1>2. proc \in [Procs -> ProcRec] /\ ColaboLines' = ColaboLines
  BY TurnFits DEF IInv, TypeOK, ProcRec
<1>3. proc'[p] = r /\ \A o \in Procs \ {p} : proc'[o] = proc[o]
  BY <1>1, <1>2 DEF Replaces
<1>4. dropped \subseteq dropped'
  BY <1>1 DEF TurnOf, SpeaksNext, EndsRound, PausesRound, ColaboGoesOn, ForgetsFor
<1>5. NobodyWaitsInVain'
  <2> SUFFICES ASSUME NEW l \in Procs, l \notin dropped', l \notin ColaboLines,
                      NEW g \in picked'[l] \ spoke'[l]
               PROVE  HeldFor(l, g)' \/ ParkedFor(l, g)'
    BY <1>2 DEF NobodyWaitsInVain
  <2>1. l \in (Procs \ dropped) \ ColaboLines
    BY <1>4
  <2>2. CASE l # LineOf(q)
    <3>1. g \in picked[l] \ spoke[l] /\ l # q.line
      BY <1>1, <2>2 DEF LineOf
    <3>2. ParkedFor(l, g)
      BY <1>1, <2>1, <3>1, OtherLineIsParked
    <3>3. CASE SpeaksNext(p, q, r, rd)
      BY <3>2, <3>3 DEF SpeaksNext, ParkedFor
    <3>4. CASE EndsRound(p, q, r)
      <4>1. ~(q.kind = "continue" /\ ~q.colabo)
        BY <3>1, <3>2, NothingInEmpty DEF TakesAlong, ParkedFor
      <4> QED
        BY <3>2, <3>4, <4>1 DEF EndsRound, ParkedFor
    <3>5. ~PausesRound(p, q, r, rd)
      BY <2>2, <3>2, ZeroIsNoColabo DEF PausesRound, ForgetsFor, ParkedFor
    <3>6. ~ColaboGoesOn(p, q, r, rd)
      BY <1>1, <2>1, <3>1 DEF ColaboGoesOn, Waiting, ColaboClears
    <3> QED
      BY <1>1, <3>3, <3>4, <3>5, <3>6 DEF TurnOf
  <2>3. CASE l = LineOf(q)
    <3>1. ~q.colabo /\ l = q.line /\ l # 0
      BY <2>3, ZeroIsNoColabo DEF LineOf
    <3>2. g \in Range(q.todo) \/ ParkedFor(l, g)
      BY <2>1, <2>3
    <3>3. CASE SpeaksNext(p, q, r, rd)
      <4>1. CASE g \in Range(q.todo)
        BY <1>3, <3>1, <3>3, <4>1 DEF SpeaksNext, Becomes, HeldFor
      <4>2. CASE ParkedFor(l, g)
        BY <3>3, <4>2 DEF SpeaksNext, ParkedFor
      <4> QED
        BY <3>2, <4>1, <4>2
    <3>4. CASE EndsRound(p, q, r)
      <4>1. ParkedFor(l, g)
        BY <3>2, <3>4, NothingInEmpty DEF EndsRound
      <4>2. q.kind # "continue"
        BY <3>1, <3>4, <4>1, NothingInEmpty DEF TakesAlong, ParkedFor, EndsRound
      <4> QED
        BY <3>4, <4>1, <4>2 DEF EndsRound, ParkedFor
    <3>5. CASE PausesRound(p, q, r, rd)
      <4>1. ParkedFor(l, g) => g \in Range(q.todo)
        BY <3>1, NothingInEmpty DEF ParkedFor, RestIsOpen
      <4> QED
        BY <2>3, <3>2, <3>5, <4>1 DEF PausesRound, ParkedFor
    <3> QED
      BY <1>1, <3>1, <3>3, <3>4, <3>5 DEF TurnOf, ColaboGoesOn
  <2> QED
    BY <2>2, <2>3
<1>6. Continues'
  <2> SUFFICES ASSUME NEW o \in Procs, AtWork(o)' PROVE TakesAlong(proc'[o], stack', spoke')
    BY DEF Continues
  <2>1. o = p
    BY <1>1, <1>3 DEF OtherAtWork, AtWork
  <2>2. CASE SpeaksNext(p, q, r, rd)
    BY <1>3, <2>1, <2>2 DEF SpeaksNext, Becomes, TakesAlong
  <2>3. CASE ColaboGoesOn(p, q, r, rd)
    BY <1>3, <2>1, <2>3 DEF ColaboGoesOn, Becomes, Leaves, TakesAlong, AtWork
  <2>4. ~EndsRound(p, q, r) /\ ~PausesRound(p, q, r, rd)
    BY <1>3, <2>1 DEF EndsRound, PausesRound, Leaves, AtWork
  <2> QED
    BY <1>1, <2>2, <2>3, <2>4 DEF TurnOf
<1>7. ColaboClears'
  <2> SUFFICES ASSUME NEW o \in Procs, proc'[o].colabo,
                      NEW l \in Procs, l \notin dropped', l \notin ColaboLines
               PROVE  picked'[l] \subseteq spoke'[l]
    BY <1>2 DEF ColaboClears
  <2>1. o = p
    BY <1>1, <1>3, OthersHoldNothing
  <2>2. q.colabo
    BY <1>1, <1>3, <2>1 DEF TurnOf, SpeaksNext, EndsRound, PausesRound, ColaboGoesOn, Becomes, Leaves
  <2>3. picked[l] \subseteq spoke[l]
    BY <1>1, <1>4, <2>2 DEF Waiting, ColaboClears
  <2> QED
    BY <1>1, <2>2, <2>3, ZeroIsNoColabo DEF LineOf
<1> QED
  BY <1>5, <1>6, <1>7 DEF Waiting

\* A turn of the loop leaves parked only what is left of the line it asks.
LEMMA TurnKeepsOwn ==
  ASSUME IInv, Fitting, Own, NEW p \in Procs, NEW q, NEW r, TurnTaken(p, q, r), active' = active,
         ~q.colabo /\ stack.rest # <<>> /\ stack.line = q.line =>
           RestIsOpen(q, stack, spoke') /\ ~q.sig /\ active # p,
         LineOf(q) # 0 /\ q.todo # <<>> => picked'[LineOf(q)] # {}
  PROVE  Own'
<1> DEFINE rd == [line |-> LineOf(q), rest |-> q.todo]
<1>1. /\ ~OtherAtWork(p) /\ Replaces(p, r) /\ TurnOf(p, q, r, rd)
      /\ \A l \in Procs : picked[l] \subseteq picked'[l]
      /\ q.colabo => q.line \in ColaboLines
  BY DEF TurnTaken
<1>2. proc \in [Procs -> ProcRec] /\ ColaboLines' = ColaboLines
  BY TurnFits DEF IInv, TypeOK, ProcRec
<1>3. proc'[p] = r /\ \A o \in Procs \ {p} : proc'[o] = proc[o]
  BY <1>1, <1>2 DEF Replaces
<1>4. Begun'
  <2> SUFFICES ASSUME NEW l \in Procs \ ColaboLines, picked'[l] = {}
               PROVE  /\ round'.rest # <<>> => round'.line # l
                      /\ stack'.rest # <<>> => stack'.line # l
    BY <1>2 DEF Begun
  <2>1. stack.rest # <<>> => stack.line # l
    BY <1>1 DEF Own, Begun
  <2>2. rd.rest # <<>> => rd.line # l
    BY ZeroIsNoColabo
  <2>3. round' \in {rd, NoRound}
    BY <1>1 DEF TurnOf, SpeaksNext, EndsRound, PausesRound, ColaboGoesOn
  <2>4. \/ stack' \in {stack, NoStack, [colabo |-> FALSE, line |-> rd.line, rest |-> rd.rest]}
        \/ q.colabo /\ stack' = [colabo |-> TRUE, line |-> q.line, rest |-> q.agents]
    BY <1>1 DEF TurnOf, SpeaksNext, EndsRound, PausesRound, ColaboGoesOn
  <2> QED
    BY <1>1, <2>1, <2>2, <2>3, <2>4 DEF NoRound, NoStack
<1>5. ASSUME NEW o \in Procs, proc'[o].pc = "speak"
      PROVE  ParkedIsLeft(o, proc'[o], stack', spoke', active')
  <2>1. o = p
    BY <1>1, <1>3, <1>5 DEF OtherAtWork, AtWork
  <2>2. SpeaksNext(p, q, r, rd)
    BY <1>1, <1>3, <1>5, <2>1
    DEF TurnOf, EndsRound, PausesRound, ColaboGoesOn, Becomes, Leaves
  <2> QED
    BY <1>3, <2>1, <2>2
    DEF SpeaksNext, Becomes, ParkedIsLeft, OwnIsParked, RestIsOpen
<1> QED
  BY <1>4, <1>5 DEF Own, ParkedIsLeft, OwnIsParked

-----------------------------------------------------------------------------
(* Nobody is asked twice *)

\* Those in rest have been picked for the line, and are still to answer it once.
Waits(line, rest, pk, sp) ==
  /\ IsInjective(rest)
  /\ line # 0 => Range(rest) \subseteq pk[line] \ sp[line]

\* While a process that was not stopped asks a line, nobody is parked for the line.
OwnIsNotParked(q, st) == ~q.sig /\ st.rest # <<>> => q.line = 0 \/ st.line # q.line

Once ==
  /\ \A line \in Procs : twice[line] = {} /\ spoke[line] \subseteq picked[line]
  /\ Waits(stack.line, stack.rest, picked, spoke)
  /\ Waits(round.line, round.rest, picked, spoke)
  /\ \A p \in Procs : /\ Waits(LineOf(proc[p]), proc[p].todo, picked, spoke)
                      /\ Waits(proc[p].line, proc[p].agents, picked, spoke)
                      /\ AtWork(p) => OwnIsNotParked(proc[p], stack)

LEMMA NobodyWaits == ASSUME NEW line, NEW pk, NEW sp PROVE Waits(line, <<>>, pk, sp)
  BY NothingInEmpty DEF Waits

\* Those who wait still do when more are picked and others answer.
LEMMA StillWaits ==
  ASSUME NEW line \in Lines, NEW rest, NEW pk, NEW sp, NEW pk2, NEW sp2, Waits(line, rest, pk, sp),
         line \in Procs => pk[line] \subseteq pk2[line] /\ sp2[line] = sp[line]
  PROVE  Waits(line, rest, pk2, sp2)
<1>1. line # 0 => line \in Procs
  BY MeetRoomAssumption DEF Lines, Procs
<1> QED
  BY <1>1 DEF Waits

LEMMA TurnKeepsOnce ==
  ASSUME IInv, Fitting, Once, NEW p \in Procs, NEW q, NEW r, TurnTaken(p, q, r),
         \A l \in Procs : twice'[l] = {} /\ spoke'[l] \subseteq picked'[l],
         Waits(LineOf(q), q.todo, picked', spoke'),
         OwnIsNotParked(q, stack), q.sig => spoke' = spoke
  PROVE  Once'
<1> DEFINE rd == [line |-> LineOf(q), rest |-> q.todo]
<1>1. /\ q \in ProcRec /\ q.colabo = proc[p].colabo /\ q.line = proc[p].line
      /\ q.agents = proc[p].agents /\ q.sig = proc[p].sig
      /\ Live(p) /\ ~OtherAtWork(p) /\ Replaces(p, r) /\ TurnOf(p, q, r, rd)
      /\ \A l \in Procs : l # LineOf(q) => picked'[l] = picked[l] /\ spoke'[l] = spoke[l]
      /\ \A l \in Procs : picked[l] \subseteq picked'[l]
      /\ q.agents # <<>> => q.colabo
      /\ q.line \in Lines
  BY DEF TurnTaken, ProcRec
<1>2. proc \in [Procs -> ProcRec] /\ stack.line \in Lines /\ q.colabo \in BOOLEAN
      /\ stack.rest \in Seq(Gotchi)
  BY <1>1 DEF IInv, TypeOK, ProcRec
<1>3. proc'[p] = r /\ \A o \in Procs \ {p} : proc'[o] = proc[o]
  BY <1>1, <1>2 DEF Replaces
<1>4. Waits(stack.line, stack.rest, picked', spoke')
  <2>1. Waits(stack.line, stack.rest, picked, spoke)
    BY DEF Once
  <2>2. CASE stack.rest = <<>>
    BY <2>2, NobodyWaits
  <2>3. CASE stack.rest # <<>>
    <3>1. q.sig \/ stack.line # LineOf(q) \/ stack.line = 0
      BY <2>3 DEF OwnIsNotParked, LineOf
    <3>2. stack.line \in Procs => picked[stack.line] \subseteq picked'[stack.line]
                                  /\ spoke'[stack.line] = spoke[stack.line]
      BY <1>1, <3>1, ZeroIsNoColabo
    <3> QED
      BY <1>2, <2>1, <3>2, StillWaits
  <2> QED
    BY <2>2, <2>3
<1>5. Waits(q.line, q.agents, picked', spoke')
  <2>1. CASE q.colabo
    <3>1. LineOf(q) = 0
      BY <2>1 DEF LineOf
    <3>2. Waits(q.line, q.agents, picked, spoke)
      BY <1>1 DEF Once
    <3>3. q.line \in Procs => picked[q.line] \subseteq picked'[q.line] /\ spoke'[q.line] = spoke[q.line]
      BY <1>1, <3>1, ZeroIsNoColabo
    <3> QED
      BY <1>1, <3>2, <3>3, StillWaits
  <2>2. CASE ~q.colabo
    BY <1>1, <2>2, NobodyWaits
  <2> QED
    BY <2>1, <2>2
<1>6. Waits(NoStack.line, NoStack.rest, picked', spoke') /\ Waits(NoRound.line, NoRound.rest, picked', spoke')
  BY NobodyWaits DEF NoStack, NoRound
<1>7. Waits(round.line, round.rest, picked, spoke)'
  BY <1>1, <1>6 DEF TurnOf, SpeaksNext, EndsRound, PausesRound, ColaboGoesOn
<1>8. Waits(stack.line, stack.rest, picked, spoke)'
  <2>1. \/ stack' \in {stack, NoStack, [colabo |-> FALSE, line |-> rd.line, rest |-> rd.rest]}
        \/ stack' = [colabo |-> TRUE, line |-> q.line, rest |-> q.agents]
    BY <1>1 DEF TurnOf, SpeaksNext, EndsRound, PausesRound, ColaboGoesOn
  <2> QED
    BY <1>4, <1>5, <1>6, <2>1
<1>9. /\ Waits(LineOf(r), r.todo, picked', spoke') /\ Waits(r.line, r.agents, picked', spoke')
      /\ r.pc \in AtWorkPcs => OwnIsNotParked(r, stack')
  <2>1. CASE SpeaksNext(p, q, r, rd)
    BY <1>5, <2>1 DEF SpeaksNext, Becomes, LineOf, OwnIsNotParked
  <2>2. CASE Leaves(r, q)
    BY <2>2, NobodyWaits DEF Leaves, AtWorkPcs
  <2>3. CASE q.agents = <<>> /\ Becomes(r, q, "pick", <<>>) /\ stack' = NoStack
    BY <1>5, <2>3, NobodyWaits DEF Becomes, OwnIsNotParked, NoStack
  <2>4. CASE q.colabo /\ Becomes(r, q, "agent", <<>>)
             /\ stack' \in {stack, [colabo |-> FALSE, line |-> rd.line, rest |-> rd.rest]}
    <3>1. LineOf(q) = 0
      BY <2>4 DEF LineOf
    <3>2. OwnIsNotParked(r, stack')
      BY <2>4, <3>1 DEF Becomes, OwnIsNotParked
    <3> QED
      BY <1>5, <2>4, <3>2, NobodyWaits DEF Becomes
  <2> QED
    BY <1>1, <2>1, <2>2, <2>3, <2>4 DEF TurnOf, EndsRound, PausesRound, ColaboGoesOn
<1>10. ASSUME NEW o \in Procs, o # p
       PROVE  /\ Waits(LineOf(proc[o]), proc[o].todo, picked', spoke')
              /\ Waits(proc[o].line, proc[o].agents, picked', spoke') /\ ~AtWork(o)
  BY <1>1, <1>10, OthersHoldNothing, NobodyWaits DEF OtherAtWork
<1>11. ASSUME NEW o \in Procs
       PROVE  /\ Waits(LineOf(proc'[o]), proc'[o].todo, picked', spoke')
              /\ Waits(proc'[o].line, proc'[o].agents, picked', spoke')
              /\ AtWork(o)' => OwnIsNotParked(proc'[o], stack')
  <2>1. CASE o = p
    BY <1>3, <1>9, <2>1 DEF AtWork, AtWorkPcs
  <2>2. CASE o # p
    BY <1>3, <1>10, <2>2 DEF AtWork
  <2> QED
    BY <2>1, <2>2
<1> QED
  BY <1>7, <1>8, <1>11 DEF Once, LineOf

-----------------------------------------------------------------------------
(* Steps that leave the rounds alone *)

\* Process q has become r: it was told to stop, or its end was noticed, or nothing was.
SameProc(q, r) ==
  /\ r.kind = q.kind /\ r.todo = q.todo /\ r.agents = q.agents /\ r.colabo = q.colabo
  /\ \/ r.pc = q.pc /\ r.line = q.line /\ (q.sig => r.sig)
     \/ q.pc = "gone" /\ r.pc = "closed" /\ r.line = 0

\* The round in the file may have been parked.
QuietStep ==
  /\ UNCHANGED <<started, round, picked, spoke, twice, dropped>>
  /\ \A p \in Procs : SameProc(proc[p], proc'[p])
  /\ stack' = stack \/ (~Parked /\ stack' = ParkRound)

LEMMA QuietFits ==
  ASSUME IInv, Fitting, QuietStep
  PROVE  Fitting' /\ ColaboLines' = ColaboLines
<1>1. ColaboLines' = ColaboLines
  BY DEF QuietStep, SameProc, ColaboLines
<1>2. \A p \in Procs : SameProc(proc[p], proc'[p])
  BY DEF QuietStep
<1>3. Apart'
  BY <1>2 DEF SameProc, Fitting, Apart, AtWork
<1>4. Unborn'
  BY <1>2 DEF SameProc, Fitting, Unborn, QuietStep
<1>5. SpeakerRound'
  BY <1>2 DEF SameProc, Fitting, SpeakerRound, QuietStep, LineOf
<1>6. ASSUME NEW p \in Procs
      PROVE  RecFits(p, proc'[p], picked'[p], ColaboLines, started)
  <2>1. SameProc(proc[p], proc'[p]) /\ picked' = picked
    BY <1>2 DEF QuietStep
  <2>2. RecFits(p, proc[p], picked[p], ColaboLines, started)
    BY DEF Fitting
  <2>3. CASE proc'[p].pc = proc[p].pc /\ proc'[p].line = proc[p].line
    BY <2>1, <2>2, <2>3 DEF SameProc, RecFits
  <2>4. CASE proc[p].pc = "gone" /\ proc'[p].pc = "closed" /\ proc'[p].line = 0
    <3>1. 0 <= started
      BY MeetRoomAssumption DEF IInv, TypeOK
    <3> QED
      BY <2>1, <2>2, <2>4, <3>1 DEF SameProc, RecFits, AtWorkPcs
  <2> QED
    BY <2>1, <2>3, <2>4 DEF SameProc
<1>7. StackFits(stack', ColaboLines, started)
  <2>1. CASE stack' = stack
    BY <2>1 DEF Fitting
  <2>2. CASE stack' = ParkRound
    BY <2>2 DEF Fitting, ParkRound, RoundFits, StackFits
  <2> QED
    BY <2>1, <2>2 DEF QuietStep
<1>8. RoundFits(round, ColaboLines, started) /\ round' = round /\ started' = started
  BY DEF Fitting, QuietStep
<1> QED
  BY <1>1, <1>3, <1>4, <1>5, <1>6, <1>7, <1>8 DEF Fitting

LEMMA NotParkedForAnyone == ASSUME ~Parked, NEW line, NEW g PROVE ~ParkedFor(line, g)
  BY NothingInEmpty DEF Parked, ParkedFor

LEMMA QuietKeepsWaiting ==
  ASSUME IInv, Fitting, Waiting, QuietStep
  PROVE  Waiting'
<1>1. /\ ColaboLines' = ColaboLines /\ UNCHANGED <<picked, spoke, dropped>>
      /\ \A p \in Procs : SameProc(proc[p], proc'[p])
  BY QuietFits DEF QuietStep
<1>2. ASSUME NEW p \in Procs, proc[p].pc = "gone" PROVE proc[p].todo = <<>>
  BY <1>2 DEF Fitting, RecFits
<1>3. NobodyWaitsInVain'
  <2> SUFFICES ASSUME NEW l \in (Procs \ dropped) \ ColaboLines, NEW g \in picked[l] \ spoke[l]
               PROVE  HeldFor(l, g)' \/ ParkedFor(l, g)'
    BY <1>1 DEF NobodyWaitsInVain
  <2>1. CASE HeldFor(l, g)
    BY <1>1, <1>2, <2>1, NothingInEmpty DEF HeldFor, SameProc
  <2>2. CASE ParkedFor(l, g)
    <3>1. stack' = stack
      BY <2>2, NotParkedForAnyone DEF QuietStep
    <3> QED
      BY <2>2, <3>1 DEF ParkedFor
  <2> QED
    BY <2>1, <2>2 DEF Waiting, NobodyWaitsInVain
<1>4. Continues'
  <2> SUFFICES ASSUME NEW p \in Procs, AtWork(p)' PROVE TakesAlong(proc'[p], stack', spoke')
    BY DEF Continues
  <2>1. AtWork(p) /\ SameProc(proc[p], proc'[p]) /\ proc'[p].line = proc[p].line
    BY <1>1 DEF AtWork, SameProc
  <2>2. CASE stack' = stack
    <3>1. TakesAlong(proc[p], stack, spoke)
      BY <2>1 DEF Waiting, Continues
    <3> QED
      BY <1>1, <2>1, <2>2, <3>1 DEF TakesAlong, SameProc
  <2>3. CASE stack' = ParkRound /\ stack' # stack
    <3> SUFFICES ASSUME proc[p].kind = "continue", ~proc[p].colabo
                 PROVE  stack'.line = proc[p].line /\ Range(stack'.rest) \subseteq Range(proc[p].todo)
      BY <2>1 DEF TakesAlong, SameProc
    <3>1. proc[p].pc = "speak"
      BY <2>1 DEF Fitting, RecFits, AtWork
    <3>2. round = [line |-> proc[p].line, rest |-> proc[p].todo]
      BY <3>1 DEF Fitting, SpeakerRound, LineOf
    <3> QED
      BY <2>3, <3>2 DEF ParkRound
  <2> QED
    BY <2>2, <2>3 DEF QuietStep
<1>5. ColaboClears'
  BY <1>1 DEF Waiting, ColaboClears, SameProc
<1> QED
  BY <1>3, <1>4, <1>5 DEF Waiting

LEMMA QuietKeepsOwn ==
  ASSUME IInv, Fitting, Own, QuietStep,
         \A p \in Procs : proc[p].pc = "speak" =>
           /\ proc'[p].sig => proc[p].sig \/ active = p
           /\ ~proc'[p].sig /\ (stack' # stack \/ active # p) => active' # p
  PROVE  Own'
<1>1. /\ ColaboLines' = ColaboLines /\ UNCHANGED <<round, picked, spoke>>
      /\ \A p \in Procs : SameProc(proc[p], proc'[p])
      /\ stack' = stack \/ stack' = ParkRound
  BY QuietFits DEF QuietStep
<1>2. Begun'
  BY <1>1 DEF Own, Begun, ParkRound
<1>3. ASSUME NEW p \in Procs, OwnIsParked(proc'[p], stack')
      PROVE  /\ RestIsOpen(proc'[p], stack', spoke)
             /\ IF proc'[p].sig THEN Range(proc'[p].todo) \subseteq Range(stack'.rest)
                ELSE active' # p
  <2>1. SameProc(proc[p], proc'[p]) /\ proc[p].pc = "speak" /\ proc'[p].line = proc[p].line
        /\ proc'[p].todo = proc[p].todo /\ ~proc[p].colabo
    BY <1>1, <1>3 DEF OwnIsParked, SameProc
  <2>2. CASE stack' = stack
    <3>1. RestIsOpen(proc[p], stack, spoke)
          /\ IF proc[p].sig THEN Range(proc[p].todo) \subseteq Range(stack.rest) ELSE active # p
      BY <1>3, <2>1, <2>2 DEF Own, ParkedIsLeft, OwnIsParked
    <3> QED
      BY <2>1, <2>2, <3>1 DEF SameProc, RestIsOpen
  <2>3. CASE stack' # stack
    <3>1. round = [line |-> proc[p].line, rest |-> proc[p].todo]
      BY <2>1 DEF Fitting, SpeakerRound, LineOf
    <3>2. stack'.rest = proc[p].todo
      BY <1>1, <2>3, <3>1 DEF ParkRound
    <3> QED
      BY <2>1, <2>3, <3>2 DEF RestIsOpen
  <2> QED
    BY <2>2, <2>3
<1> QED
  BY <1>1, <1>2, <1>3 DEF Own, ParkedIsLeft

LEMMA QuietKeepsOnce ==
  ASSUME IInv, Fitting, Once, QuietStep,
         stack' = stack \/ \A p \in Procs : AtWork(p) => proc'[p].sig
  PROVE  Once'
<1>1. /\ UNCHANGED <<picked, spoke, twice, round>>
      /\ \A p \in Procs : SameProc(proc[p], proc'[p])
  BY DEF QuietStep
<1>2. Waits(stack'.line, stack'.rest, picked, spoke)
  <2>1. Waits(stack.line, stack.rest, picked, spoke) /\ Waits(round.line, round.rest, picked, spoke)
    BY DEF Once
  <2> QED
    BY <2>1 DEF QuietStep, ParkRound
<1>3. ASSUME NEW p \in Procs
      PROVE  /\ Waits(LineOf(proc'[p]), proc'[p].todo, picked, spoke)
             /\ Waits(proc'[p].line, proc'[p].agents, picked, spoke)
             /\ AtWork(p)' => OwnIsNotParked(proc'[p], stack')
  <2>1. /\ SameProc(proc[p], proc'[p])
        /\ Waits(LineOf(proc[p]), proc[p].todo, picked, spoke)
        /\ Waits(proc[p].line, proc[p].agents, picked, spoke)
        /\ AtWork(p) => OwnIsNotParked(proc[p], stack)
    BY <1>1 DEF Once
  <2>2. CASE proc'[p].pc = proc[p].pc /\ proc'[p].line = proc[p].line /\ (proc[p].sig => proc'[p].sig)
    <3>1. AtWork(p)' => OwnIsNotParked(proc'[p], stack')
      BY <2>1, <2>2 DEF AtWork, OwnIsNotParked
    <3> QED
      BY <2>1, <2>2, <3>1 DEF SameProc, LineOf
  <2>3. CASE proc[p].pc = "gone" /\ proc'[p].pc = "closed"
    <3>1. proc'[p].todo = <<>> /\ proc'[p].agents = <<>>
      BY <2>1, <2>3 DEF Fitting, RecFits, SameProc, AtWorkPcs
    <3> QED
      BY <2>3, <3>1, NobodyWaits DEF AtWork
  <2> QED
    BY <2>1, <2>2, <2>3 DEF SameProc
<1> QED
  BY <1>1, <1>2, <1>3 DEF Once, LineOf

-----------------------------------------------------------------------------
(* Processes that exit *)

\* Process p exits.  The line it holds open is forgotten, if there is one, or parked.
LeavesFiles(p, r) ==
  /\ Live(p) /\ Replaces(p, r) /\ Leaves(r, proc[p])
  /\ UNCHANGED <<started, round, stack, picked, spoke, twice>>
  /\ dropped \subseteq dropped'
  /\ \/ proc[p].todo = <<>> \/ proc[p].line = 0 \/ proc[p].line \in dropped' \/ proc[p].colabo
     \/ proc[p].sig /\ OwnIsParked(proc[p], stack)

\* Process p exits, and the round in the file is parked.
LeavesParked(p, r) ==
  /\ AtWork(p) /\ Replaces(p, r) /\ Leaves(r, proc[p])
  /\ ~Parked /\ round.rest # <<>> /\ stack' = ParkRound
  /\ UNCHANGED <<started, round, picked, spoke, twice, dropped>>

LEMMA LeaverFits ==
  ASSUME IInv, Fitting, NEW p \in Procs, NEW r, LeavesFiles(p, r) \/ LeavesParked(p, r)
  PROVE  /\ Fitting' /\ ColaboLines' = ColaboLines
         /\ proc'[p] = r /\ \A o \in Procs \ {p} : proc'[o] = proc[o]
<1>1. 0 <= started /\ proc \in [Procs -> ProcRec]
  BY MeetRoomAssumption DEF IInv, TypeOK, ProcRec
<1>2. Live(p) /\ Replaces(p, r) /\ Leaves(r, proc[p]) /\ UNCHANGED <<started, round, picked>>
  BY DEF LeavesFiles, LeavesParked, Live, AtWork
<1>3. RecFits(p, r, picked'[p], ColaboLines, started)
  BY <1>1, <1>2 DEF Leaves, RecFits, AtWorkPcs
<1>4. StackFits(stack', ColaboLines, started) /\ RoundFits(round', ColaboLines, started)
  <2>1. StackFits(stack, ColaboLines, started) /\ RoundFits(round, ColaboLines, started)
    BY DEF Fitting
  <2> QED
    BY <1>2, <2>1 DEF LeavesFiles, LeavesParked, ParkRound, StackFits, RoundFits
<1>5. Fitting' /\ ColaboLines' = ColaboLines
  BY <1>2, <1>3, <1>4, MoveFits DEF Leaves, Replaces, AtWorkPcs
<1> QED
  BY <1>1, <1>2, <1>5 DEF Replaces

LEMMA LeaverKeepsWaiting ==
  ASSUME IInv, Fitting, Own, Waiting, NEW p \in Procs, NEW r, LeavesFiles(p, r) \/ LeavesParked(p, r)
  PROVE  Waiting'
<1>1. /\ ColaboLines' = ColaboLines
      /\ proc'[p] = r /\ (\A o \in Procs \ {p} : proc'[o] = proc[o])
      /\ r.pc = "gone" /\ ~r.colabo /\ picked' = picked /\ spoke' = spoke /\ dropped \subseteq dropped'
  BY LeaverFits DEF Leaves, LeavesFiles, LeavesParked
<1>2. NobodyWaitsInVain'
  <2> SUFFICES ASSUME NEW l \in (Procs \ dropped') \ ColaboLines, NEW g \in picked[l] \ spoke[l]
               PROVE  HeldFor(l, g)' \/ ParkedFor(l, g)'
    BY <1>1 DEF NobodyWaitsInVain
  <2>1. HeldFor(l, g) \/ ParkedFor(l, g)
    BY <1>1 DEF Waiting, NobodyWaitsInVain
  <2>2. CASE ParkedFor(l, g)
    BY <2>2, NotParkedForAnyone DEF ParkedFor, LeavesFiles, LeavesParked
  <2>3. ASSUME NEW o \in Procs, proc[o].line = l, g \in Range(proc[o].todo)
        PROVE  HeldFor(l, g)' \/ ParkedFor(l, g)'
    <3>1. CASE o # p
      BY <1>1, <2>3, <3>1 DEF HeldFor
    <3>2. CASE o = p
      <4>1. RecFits(p, proc[p], picked[p], ColaboLines, started)
        BY DEF Fitting
      <4>2. ~proc[p].colabo /\ proc[p].pc = "speak" /\ proc[p].todo # <<>>
        BY <2>3, <3>2, <4>1, NothingInEmpty DEF RecFits
      <4>3. CASE LeavesParked(p, r)
        <5>1. round = [line |-> proc[p].line, rest |-> proc[p].todo]
          BY <4>2 DEF Fitting, SpeakerRound, LineOf
        <5> QED
          BY <2>3, <3>2, <4>3, <5>1 DEF LeavesParked, ParkRound, ParkedFor
      <4>4. CASE LeavesFiles(p, r)
        <5>1. proc[p].sig /\ OwnIsParked(proc[p], stack) /\ stack' = stack
          BY <2>3, <3>2, <4>2, <4>4, ZeroIsNoColabo DEF LeavesFiles
        <5>2. Range(proc[p].todo) \subseteq Range(stack.rest)
          BY <5>1 DEF Own, ParkedIsLeft
        <5> QED
          BY <2>3, <3>2, <5>1, <5>2 DEF OwnIsParked, ParkedFor
      <4> QED
        BY <4>3, <4>4
    <3> QED
      BY <3>1, <3>2
  <2> QED
    BY <2>1, <2>2, <2>3 DEF HeldFor
<1>3. Continues'
  <2> SUFFICES ASSUME NEW o \in Procs, AtWork(o)' PROVE TakesAlong(proc'[o], stack', spoke')
    BY DEF Continues
  <2>1. o # p /\ AtWork(o) /\ proc'[o] = proc[o]
    BY <1>1 DEF AtWork
  <2>2. ~LeavesParked(p, r)
    BY <2>1 DEF LeavesParked, Fitting, Apart
  <2>3. stack' = stack
    BY <2>2 DEF LeavesFiles
  <2> QED
    BY <1>1, <2>1, <2>3 DEF Waiting, Continues
<1>4. ColaboClears'
  BY <1>1 DEF Waiting, ColaboClears
<1> QED
  BY <1>2, <1>3, <1>4 DEF Waiting

LEMMA LeaverKeepsOwn ==
  ASSUME IInv, Fitting, Own, NEW p \in Procs, NEW r, LeavesFiles(p, r) \/ LeavesParked(p, r),
         active' = active
  PROVE  Own'
<1>1. /\ ColaboLines' = ColaboLines /\ UNCHANGED <<round, picked, spoke>>
      /\ proc'[p] = r /\ (\A o \in Procs \ {p} : proc'[o] = proc[o]) /\ r.pc = "gone"
      /\ stack' = stack \/ stack' = ParkRound
  BY LeaverFits DEF Leaves, LeavesFiles, LeavesParked
<1>2. Begun'
  BY <1>1 DEF Own, Begun, ParkRound
<1>3. ASSUME NEW o \in Procs, proc'[o].pc = "speak"
      PROVE  ParkedIsLeft(o, proc'[o], stack', spoke', active')
  <2>1. o # p /\ AtWork(o) /\ proc'[o] = proc[o]
    BY <1>1, <1>3 DEF AtWork
  <2>2. stack' = stack
    BY <2>1 DEF LeavesFiles, LeavesParked, Fitting, Apart
  <2> QED
    BY <1>1, <2>1, <2>2 DEF Own
<1> QED
  BY <1>2, <1>3 DEF Own, ParkedIsLeft, OwnIsParked

LEMMA LeaverKeepsOnce ==
  ASSUME IInv, Fitting, Once, NEW p \in Procs, NEW r, LeavesFiles(p, r) \/ LeavesParked(p, r)
  PROVE  Once'
<1>1. /\ proc'[p] = r /\ (\A o \in Procs \ {p} : proc'[o] = proc[o])
      /\ r.pc = "gone" /\ r.todo = <<>> /\ r.agents = <<>>
      /\ UNCHANGED <<round, picked, spoke, twice>>
  BY LeaverFits DEF Leaves, LeavesFiles, LeavesParked
<1>2. Waits(stack'.line, stack'.rest, picked, spoke)
  BY DEF Once, LeavesFiles, LeavesParked, ParkRound
<1>3. ASSUME NEW o \in Procs
      PROVE  /\ Waits(LineOf(proc'[o]), proc'[o].todo, picked, spoke)
             /\ Waits(proc'[o].line, proc'[o].agents, picked, spoke)
             /\ AtWork(o)' => OwnIsNotParked(proc'[o], stack')
  <2>1. CASE o = p
    BY <1>1, <2>1, NobodyWaits DEF AtWork
  <2>2. CASE o # p
    <3>1. /\ Waits(LineOf(proc[o]), proc[o].todo, picked, spoke)
          /\ Waits(proc[o].line, proc[o].agents, picked, spoke)
          /\ AtWork(o) => OwnIsNotParked(proc[o], stack)
      BY DEF Once
    <3>2. AtWork(o) => stack' = stack
      BY <2>2 DEF LeavesFiles, LeavesParked, Fitting, Apart
    <3> QED
      BY <1>1, <2>2, <3>1, <3>2 DEF AtWork
  <2> QED
    BY <2>1, <2>2
<1> QED
  BY <1>1, <1>2, <1>3 DEF Once, LineOf

-----------------------------------------------------------------------------
(* Processes that begin by forgetting what is parked *)

\* Process p begins to work on a line of its own as r, before anybody was asked.
BeginsAnew(p, r) ==
  /\ proc[p].pc = "start" /\ Replaces(p, r) /\ ~OtherAtWork(p)
  /\ r.kind = proc[p].kind /\ r.pc = "pick" /\ r.todo = <<>> /\ r.line = proc[p].line
  /\ r.kind # "continue" /\ (r.colabo <=> r.kind = "colabo") /\ (~r.colabo => r.agents = <<>>)
  /\ IsInjective(r.agents)
  /\ picked' = [picked EXCEPT ![p] = Range(r.agents)]
  /\ UNCHANGED <<started, round, spoke, twice>>
  /\ stack' = NoStack /\ ForgetsFor(0)

LEMMA BeginnerFits ==
  ASSUME IInv, Fitting, NEW p \in Procs, NEW r, BeginsAnew(p, r)
  PROVE  /\ Fitting' /\ ColaboLines' = ColaboLines
         /\ proc'[p] = r /\ (\A o \in Procs \ {p} : proc'[o] = proc[o])
         /\ r.line = p /\ picked[p] = {} /\ proc[p].todo = <<>>
         /\ picked'[p] = Range(r.agents) /\ \A o \in Procs \ {p} : picked'[o] = picked[o]
<1>1. 0 <= started /\ proc \in [Procs -> ProcRec] /\ picked \in [Procs -> SUBSET Gotchi]
  BY MeetRoomAssumption DEF IInv, TypeOK, ProcRec
<1>2. RecFits(p, proc[p], picked[p], ColaboLines, started)
  BY DEF Fitting
<1>3. r.line = p /\ picked[p] = {} /\ proc[p].todo = <<>> /\ p <= started
  BY <1>2 DEF BeginsAnew, RecFits
<1>4. picked'[p] = Range(r.agents) /\ \A o \in Procs \ {p} : picked'[o] = picked[o]
  BY <1>1 DEF BeginsAnew
<1>5. p \in ColaboLines <=> r.colabo
  BY DEF BeginsAnew, ColaboLines
<1>6. RecFits(p, r, picked'[p], ColaboLines, started)
  BY <1>3, <1>4, <1>5, NothingInEmpty DEF BeginsAnew, RecFits, AtWorkPcs
<1>7. StackFits(stack', ColaboLines, started) /\ RoundFits(round', ColaboLines, started)
  BY <1>1, ZeroIsNoColabo DEF BeginsAnew, StackFits, NoStack, Fitting
<1>8. Live(p) /\ r.pc \in AtWorkPcs /\ r.pc # "speak" /\ proc' = [proc EXCEPT ![p] = r]
      /\ ~OtherAtWork(p) /\ r.kind = proc[p].kind /\ started' = started
  BY DEF Live, BeginsAnew, AtWorkPcs, Replaces
<1>9. Fitting' /\ ColaboLines' = ColaboLines
  BY <1>4, <1>6, <1>7, <1>8, MoveFits
<1> QED
  BY <1>1, <1>3, <1>4, <1>8, <1>9

LEMMA BeginnerKeepsWaiting ==
  ASSUME IInv, Fitting, Waiting, NEW p \in Procs, NEW r, BeginsAnew(p, r)
  PROVE  Waiting'
<1>1. /\ ColaboLines' = ColaboLines
      /\ proc'[p] = r /\ (\A o \in Procs \ {p} : proc'[o] = proc[o])
      /\ proc[p].todo = <<>> /\ spoke' = spoke /\ ~OtherAtWork(p)
      /\ dropped' = dropped \cup ({stack.line} \ {0})
      /\ r.kind = proc[p].kind /\ r.kind # "continue" /\ (r.colabo <=> r.kind = "colabo")
      /\ picked[p] = {} /\ picked'[p] = Range(r.agents) /\ (~r.colabo => r.agents = <<>>)
      /\ \A o \in Procs \ {p} : picked'[o] = picked[o]
  BY BeginnerFits DEF BeginsAnew, ForgetsFor
<1>2. ASSUME NEW l \in (Procs \ dropped') \ ColaboLines PROVE picked'[l] \subseteq spoke[l]
  <2>1. l \in (Procs \ dropped) \ ColaboLines /\ (l = stack.line => l = 0)
    BY <1>1
  <2>2. picked'[l] = picked[l]
    BY <1>1, NothingInEmpty DEF ColaboLines
  <2>3. ASSUME NEW g \in picked[l] \ spoke[l] PROVE FALSE
    BY <1>1, <2>1, OtherLineIsParked, ZeroIsNoColabo DEF ParkedFor
  <2> QED
    BY <2>2, <2>3
<1>3. NobodyWaitsInVain' /\ ColaboClears'
  BY <1>1, <1>2 DEF NobodyWaitsInVain, ColaboClears
<1>4. Continues'
  BY <1>1 DEF Continues, AtWork, OtherAtWork, TakesAlong
<1> QED
  BY <1>3, <1>4 DEF Waiting

LEMMA NothingParkedIsLeft ==
  ASSUME NEW p, NEW q, NEW sp, NEW act PROVE ParkedIsLeft(p, q, NoStack, sp, act)
  BY DEF ParkedIsLeft, OwnIsParked, NoStack

LEMMA BeginnerKeepsOwn ==
  ASSUME IInv, Fitting, Own, NEW p \in Procs, NEW r, BeginsAnew(p, r), round' = round
  PROVE  Own'
<1>1. ColaboLines' = ColaboLines /\ stack' = NoStack
  BY BeginnerFits DEF BeginsAnew
<1>2. picked \in [Procs -> SUBSET Gotchi] /\ picked[p] = {}
  BY KnownTypes DEF BeginsAnew, Fitting, RecFits
<1>3. \A l \in Procs : picked'[l] = {} => picked[l] = {}
  BY <1>2 DEF BeginsAnew
<1>4. Begun'
  BY <1>1, <1>3 DEF Own, Begun, NoStack
<1> QED
  BY <1>1, <1>4, NothingParkedIsLeft DEF Own

LEMMA BeginnerKeepsOnce ==
  ASSUME IInv, Fitting, Once, NEW p \in Procs, NEW r, BeginsAnew(p, r)
  PROVE  Once'
<1>1. /\ proc'[p] = r /\ (\A o \in Procs \ {p} : proc'[o] = proc[o])
      /\ r.line = p /\ picked[p] = {} /\ picked'[p] = Range(r.agents)
      /\ \A o \in Procs \ {p} : picked'[o] = picked[o]
  BY BeginnerFits
<1>2. /\ UNCHANGED <<round, spoke, twice>> /\ stack' = NoStack /\ ~OtherAtWork(p)
      /\ r.todo = <<>> /\ IsInjective(r.agents)
  BY DEF BeginsAnew
<1>3. \A l \in Procs : picked[l] \subseteq picked'[l] /\ spoke[l] \subseteq picked[l] /\ twice[l] = {}
  BY <1>1 DEF Once
<1>4. Waits(stack'.line, stack'.rest, picked', spoke')
  BY <1>2, NobodyWaits DEF NoStack
<1>5. Waits(round.line, round.rest, picked', spoke)
  <2>1. round.line \in Lines /\ Waits(round.line, round.rest, picked, spoke)
    BY DEF IInv, TypeOK, Once
  <2> QED
    BY <1>3, <2>1, StillWaits
<1>6. Waits(LineOf(r), r.todo, picked', spoke) /\ Waits(r.line, r.agents, picked', spoke)
  <2>1. spoke[p] = {}
    BY <1>1, <1>3
  <2> QED
    BY <1>1, <1>2, <2>1, NobodyWaits DEF Waits
<1>7. ASSUME NEW o \in Procs
      PROVE  /\ Waits(LineOf(proc'[o]), proc'[o].todo, picked', spoke')
             /\ Waits(proc'[o].line, proc'[o].agents, picked', spoke')
             /\ AtWork(o)' => OwnIsNotParked(proc'[o], stack')
  <2>1. OwnIsNotParked(proc'[o], stack')
    BY <1>2 DEF OwnIsNotParked, NoStack
  <2>2. CASE o = p
    BY <1>1, <1>2, <1>6, <2>1, <2>2
  <2>3. CASE o # p
    BY <1>1, <1>2, <2>1, <2>3, OthersHoldNothing, NobodyWaits
  <2> QED
    BY <2>2, <2>3
<1> QED
  BY <1>2, <1>3, <1>4, <1>5, <1>7 DEF Once, LineOf

-----------------------------------------------------------------------------
(* A process that takes up what is parked *)

TakesUp(p, r) ==
  /\ proc[p].pc = "start" /\ Parked /\ Replaces(p, r) /\ ~OtherAtWork(p)
  /\ r.kind = "continue" /\ proc[p].kind = "continue" /\ r.line = stack.line
  /\ UNCHANGED <<started, picked, spoke, twice, dropped>>
  /\ stack' = NoStack
  /\ IF stack.colabo
     THEN /\ r.colabo /\ r.pc = "agent" /\ r.agents = stack.rest /\ r.todo = <<>>
          /\ round' = round
     ELSE /\ ~r.colabo /\ r.pc = "speak" /\ r.agents = <<>> /\ r.todo = stack.rest
          /\ round' = [line |-> stack.line, rest |-> stack.rest]

LEMMA TakerFits ==
  ASSUME IInv, Fitting, NEW p \in Procs, NEW r, TakesUp(p, r)
  PROVE  /\ Fitting' /\ ColaboLines' = ColaboLines
         /\ proc'[p] = r /\ (\A o \in Procs \ {p} : proc'[o] = proc[o])
         /\ proc[p].todo = <<>>
<1>1. 0 <= started /\ proc \in [Procs -> ProcRec]
  BY MeetRoomAssumption DEF IInv, TypeOK, ProcRec
<1>2. /\ RecFits(p, proc[p], picked[p], ColaboLines, started)
      /\ StackFits(stack, ColaboLines, started) /\ RoundFits(round, ColaboLines, started)
  BY DEF Fitting
<1>3. proc[p].todo = <<>>
  BY <1>2 DEF TakesUp, RecFits
<1>4. RecFits(p, r, picked'[p], ColaboLines, started)
  BY <1>2 DEF TakesUp, RecFits, StackFits, AtWorkPcs
<1>5. StackFits(stack', ColaboLines, started) /\ RoundFits(round', ColaboLines, started)
  BY <1>1, <1>2, ZeroIsNoColabo DEF TakesUp, StackFits, RoundFits, NoStack
<1>6. /\ Live(p) /\ r.pc \in AtWorkPcs /\ r.kind = proc[p].kind /\ proc' = [proc EXCEPT ![p] = r]
      /\ ~OtherAtWork(p) /\ UNCHANGED <<started, picked>>
      /\ r.pc = "speak" => round' = [line |-> LineOf(r), rest |-> r.todo]
  BY DEF Live, TakesUp, AtWorkPcs, Replaces, LineOf
<1>7. Fitting' /\ ColaboLines' = ColaboLines
  BY <1>4, <1>5, <1>6, MoveFits
<1> QED
  BY <1>1, <1>3, <1>6, <1>7

LEMMA TakerKeepsWaiting ==
  ASSUME IInv, Fitting, Waiting, NEW p \in Procs, NEW r, TakesUp(p, r)
  PROVE  Waiting'
<1>1. /\ ColaboLines' = ColaboLines
      /\ proc'[p] = r /\ (\A o \in Procs \ {p} : proc'[o] = proc[o])
      /\ proc[p].todo = <<>> /\ ~OtherAtWork(p)
      /\ UNCHANGED <<picked, spoke, dropped>> /\ stack' = NoStack /\ r.line = stack.line
  BY TakerFits DEF TakesUp
<1>2. ASSUME NEW l \in (Procs \ dropped) \ ColaboLines, NEW g \in picked[l] \ spoke[l]
      PROVE  ~r.colabo /\ HeldFor(l, g)'
  <2>1. ParkedFor(l, g)
    BY <1>1, OtherLineIsParked
  <2>2. ~stack.colabo
    BY <2>1 DEF ParkedFor, Fitting, StackFits
  <2>3. r.todo = stack.rest /\ ~r.colabo
    BY <2>2 DEF TakesUp
  <2> QED
    BY <1>1, <2>1, <2>3 DEF HeldFor, ParkedFor
<1>3. NobodyWaitsInVain'
  BY <1>1, <1>2 DEF NobodyWaitsInVain
<1>4. Continues'
  BY <1>1 DEF Continues, TakesAlong, NoStack
<1>5. ColaboClears'
  <2> SUFFICES ASSUME NEW o \in Procs, proc'[o].colabo, NEW l \in (Procs \ dropped) \ ColaboLines
               PROVE  picked[l] \subseteq spoke[l]
    BY <1>1 DEF ColaboClears
  <2>1. o = p
    BY <1>1, OthersHoldNothing
  <2> QED
    BY <1>1, <1>2, <2>1
<1> QED
  BY <1>3, <1>4, <1>5 DEF Waiting

LEMMA TakerKeepsOwn ==
  ASSUME IInv, Fitting, Own, NEW p \in Procs, NEW r, TakesUp(p, r)
  PROVE  Own'
<1>1. ColaboLines' = ColaboLines /\ stack' = NoStack /\ picked' = picked
  BY TakerFits DEF TakesUp
<1>2. round' = round \/ round' = [line |-> stack.line, rest |-> stack.rest]
  BY DEF TakesUp
<1>3. Begun'
  BY <1>1, <1>2 DEF Own, Begun, NoStack
<1> QED
  BY <1>1, <1>3, NothingParkedIsLeft DEF Own

LEMMA TakerKeepsOnce ==
  ASSUME IInv, Fitting, Once, NEW p \in Procs, NEW r, TakesUp(p, r)
  PROVE  Once'
<1>1. /\ proc'[p] = r /\ (\A o \in Procs \ {p} : proc'[o] = proc[o]) /\ ~OtherAtWork(p)
      /\ UNCHANGED <<picked, spoke, twice>> /\ stack' = NoStack
  BY TakerFits DEF TakesUp
<1>2. Waits(stack.line, stack.rest, picked, spoke) /\ Waits(round.line, round.rest, picked, spoke)
  BY DEF Once
<1>3. /\ Waits(round'.line, round'.rest, picked, spoke)
      /\ Waits(LineOf(r), r.todo, picked, spoke) /\ Waits(r.line, r.agents, picked, spoke)
  BY <1>2, NobodyWaits DEF TakesUp, LineOf
<1>4. ASSUME NEW o \in Procs
      PROVE  /\ Waits(LineOf(proc'[o]), proc'[o].todo, picked, spoke)
             /\ Waits(proc'[o].line, proc'[o].agents, picked, spoke)
             /\ OwnIsNotParked(proc'[o], stack')
  <2>1. OwnIsNotParked(proc'[o], stack')
    BY <1>1 DEF OwnIsNotParked, NoStack
  <2>2. CASE o = p
    BY <1>1, <1>3, <2>1, <2>2
  <2>3. CASE o # p
    BY <1>1, <2>1, <2>3, OthersHoldNothing, NobodyWaits
  <2> QED
    BY <2>2, <2>3
<1>5. Waits(stack'.line, stack'.rest, picked, spoke)
  BY <1>1, NobodyWaits DEF NoStack
<1>6. \A l \in Procs : twice[l] = {} /\ spoke[l] \subseteq picked[l]
  BY DEF Once
<1> QED
  BY <1>1, <1>3, <1>4, <1>5, <1>6 DEF Once, LineOf

-----------------------------------------------------------------------------
(* The answers in a colabo *)

LEMMA HeadTail ==
  ASSUME NEW S, NEW s \in Seq(S), s # <<>>
  PROVE  /\ Head(s) \in Range(s) /\ Range(Tail(s)) \subseteq Range(s)
         /\ \A x \in Range(s) : x = Head(s) \/ x \in Range(Tail(s))
         /\ IsInjective(s) => IsInjective(Tail(s)) /\ Head(s) \notin Range(Tail(s))
<1>1. /\ Len(s) \in Nat \ {0} /\ DOMAIN s = 1..Len(s) /\ Head(s) = s[1]
      /\ Tail(s) \in Seq(S) /\ DOMAIN Tail(s) = 1..(Len(s) - 1)
      /\ \A i \in 1..(Len(s) - 1) : Tail(s)[i] = s[i + 1] /\ i + 1 \in 1..Len(s)
  BY HeadTailProperties
<1>2. Head(s) \in Range(s) /\ Range(Tail(s)) \subseteq Range(s)
  BY <1>1 DEF Range
<1>3. ASSUME NEW x \in Range(s) PROVE x = Head(s) \/ x \in Range(Tail(s))
  <2>1. PICK i \in 1..Len(s) : s[i] = x
    BY <1>1 DEF Range
  <2>2. CASE i = 1
    BY <1>1, <2>1, <2>2
  <2>3. CASE i # 1
    <3>1. i - 1 \in 1..(Len(s) - 1) /\ (i - 1) + 1 = i
      BY <1>1, <2>3
    <3>2. Tail(s)[i - 1] = x
      BY <1>1, <2>1, <3>1
    <3> QED
      BY <1>1, <3>1, <3>2 DEF Range
  <2> QED
    BY <2>2, <2>3
<1>4. IsInjective(s) => IsInjective(Tail(s)) /\ Head(s) \notin Range(Tail(s))
  <2> SUFFICES ASSUME IsInjective(s) PROVE IsInjective(Tail(s)) /\ Head(s) \notin Range(Tail(s))
    OBVIOUS
  <2>1. \A a, b \in 1..Len(s) : s[a] = s[b] => a = b
    BY <1>1 DEF IsInjective
  <2>2. \A a, b \in 1..(Len(s) - 1) : Tail(s)[a] = Tail(s)[b] => a = b
    BY <1>1, <2>1
  <2>3. \A i \in 1..(Len(s) - 1) : Tail(s)[i] # s[1]
    BY <1>1, <2>1
  <2> QED
    BY <1>1, <2>2, <2>3 DEF IsInjective, Range
<1> QED
  BY <1>2, <1>3, <1>4

\* An agent of a colabo that was not told to stop has answered.
Answers(p, r) ==
  /\ proc[p].pc = "agent" /\ ~proc[p].sig /\ Replaces(p, r)
  /\ \/ r.kind = proc[p].kind /\ r.pc = "pick" /\ r.colabo = proc[p].colabo /\ r.line = proc[p].line
        /\ r.todo = proc[p].todo /\ r.agents = Tail(proc[p].agents) /\ r.sig = FALSE
     \/ Leaves(r, proc[p])
  /\ Says(proc[p].line, Head(proc[p].agents))
  /\ UNCHANGED <<started, files, picked, dropped>>

LEMMA AnswererFits ==
  ASSUME IInv, Fitting, NEW p \in Procs, NEW r, Answers(p, r)
  PROVE  /\ Fitting' /\ ColaboLines' = ColaboLines
         /\ proc'[p] = r /\ (\A o \in Procs \ {p} : proc'[o] = proc[o])
         /\ proc[p].todo = <<>> /\ proc[p].colabo /\ proc[p].line \in ColaboLines
         /\ AtWork(p) /\ ~OtherAtWork(p)
<1>1. 0 <= started /\ proc \in [Procs -> ProcRec]
  BY MeetRoomAssumption DEF IInv, TypeOK, ProcRec
<1>2. RecFits(p, proc[p], picked[p], ColaboLines, started) /\ AtWork(p)
  BY DEF Fitting, Answers, AtWork
<1>3. proc[p].todo = <<>> /\ proc[p].colabo /\ proc[p].line \in ColaboLines
  BY <1>2 DEF Answers, RecFits
<1>4. ~OtherAtWork(p)
  BY <1>2 DEF Fitting, Apart, OtherAtWork
<1>5. RecFits(p, r, picked'[p], ColaboLines, started)
  BY <1>1, <1>2, <1>3 DEF Answers, Leaves, RecFits, AtWorkPcs
<1>6. StackFits(stack', ColaboLines, started) /\ RoundFits(round', ColaboLines, started)
  BY DEF Answers, files, Fitting
<1>7. /\ Live(p) /\ r.pc \in AtWorkPcs \cup {"gone"} /\ r.kind = proc[p].kind
      /\ proc' = [proc EXCEPT ![p] = r] /\ UNCHANGED <<started, picked>> /\ r.pc # "speak"
  BY DEF Live, Answers, Leaves, AtWorkPcs, Replaces
<1>8. Fitting' /\ ColaboLines' = ColaboLines
  BY <1>4, <1>5, <1>6, <1>7, MoveFits
<1> QED
  BY <1>1, <1>2, <1>3, <1>4, <1>7, <1>8

LEMMA AnswererKeepsWaiting ==
  ASSUME IInv, Fitting, Waiting, NEW p \in Procs, NEW r, Answers(p, r)
  PROVE  Waiting'
<1>1. /\ ColaboLines' = ColaboLines
      /\ proc'[p] = r /\ (\A o \in Procs \ {p} : proc'[o] = proc[o])
      /\ proc[p].todo = <<>> /\ proc[p].colabo /\ proc[p].line \in ColaboLines /\ ~OtherAtWork(p)
      /\ UNCHANGED <<picked, stack, dropped>>
  BY AnswererFits DEF Answers, files
<1>2. \A l \in Procs \ ColaboLines : spoke'[l] = spoke[l]
  <2>1. spoke \in [Procs -> SUBSET Gotchi]
    BY KnownTypes
  <2> QED
    BY <1>1, <2>1 DEF Answers, Says
<1>3. NobodyWaitsInVain'
  <2> SUFFICES ASSUME NEW l \in (Procs \ dropped) \ ColaboLines, NEW g \in picked[l] \ spoke'[l]
               PROVE  ParkedFor(l, g)'
    BY <1>1 DEF NobodyWaitsInVain
  <2>1. ParkedFor(l, g)
    BY <1>1, <1>2, OtherLineIsParked
  <2> QED
    BY <1>1, <2>1 DEF ParkedFor
<1>4. Continues'
  BY <1>1 DEF Continues, TakesAlong, AtWork, OtherAtWork, Answers, Leaves
<1>5. ColaboClears'
  BY <1>1, <1>2, OthersHoldNothing DEF Waiting, ColaboClears
<1> QED
  BY <1>3, <1>4, <1>5 DEF Waiting

LEMMA AnswererKeepsOwn ==
  ASSUME IInv, Fitting, Own, NEW p \in Procs, NEW r, Answers(p, r)
  PROVE  Own'
<1>1. /\ ColaboLines' = ColaboLines /\ UNCHANGED <<stack, round, picked>>
      /\ proc'[p] = r /\ (\A o \in Procs \ {p} : proc'[o] = proc[o])
      /\ r.pc # "speak" /\ ~OtherAtWork(p)
  BY AnswererFits DEF Answers, Leaves, files
<1>2. Begun'
  BY <1>1 DEF Own, Begun
<1>3. ASSUME NEW o \in Procs PROVE proc'[o].pc # "speak"
  BY <1>1 DEF OtherAtWork, AtWork
<1> QED
  BY <1>2, <1>3 DEF Own, ParkedIsLeft, OwnIsParked

LEMMA AnswererKeepsOnce ==
  ASSUME IInv, Fitting, Once, NEW p \in Procs, NEW r, Answers(p, r)
  PROVE  Once'
<1> DEFINE line == proc[p].line
           g == Head(proc[p].agents)
<1>1. /\ proc'[p] = r /\ (\A o \in Procs \ {p} : proc'[o] = proc[o])
      /\ proc[p].todo = <<>> /\ line \in ColaboLines /\ line \in Procs /\ line # 0
      /\ AtWork(p) /\ ~OtherAtWork(p) /\ UNCHANGED <<picked, stack, round>>
  BY AnswererFits, ZeroIsNoColabo DEF Answers, files, ColaboLines
<1>2. proc[p].agents \in Seq(Agents) /\ proc[p].agents # <<>>
  BY DEF IInv, Shape, OKProc, ProcRec, Answers
<1>3. Waits(line, proc[p].agents, picked, spoke)
  BY DEF Once
<1>4. /\ g \in picked[line] \ spoke[line] /\ IsInjective(Tail(proc[p].agents))
      /\ Range(Tail(proc[p].agents)) \subseteq (picked[line] \ spoke[line]) \ {g}
  BY <1>1, <1>2, <1>3, HeadTail DEF Waits
<1>5. /\ twice' = twice /\ spoke'[line] = spoke[line] \cup {g}
      /\ \A l \in Procs \ {line} : spoke'[l] = spoke[l]
  <2>1. spoke \in [Procs -> SUBSET Gotchi]
    BY KnownTypes
  <2> QED
    BY <1>1, <1>4, <2>1 DEF Answers, Says
<1> HIDE DEF line, g
<1>6. Waits(line, Tail(proc[p].agents), picked, spoke')
  BY <1>4, <1>5 DEF Waits
<1>7. stack.rest = <<>> \/ stack.line # line
  BY <1>1 DEF Once, OwnIsNotParked, Answers, line
<1>8. Waits(stack.line, stack.rest, picked, spoke') /\ Waits(round.line, round.rest, picked, spoke')
  <2>1. stack.line \in Lines /\ round.line \in Lines /\ round.line \notin ColaboLines
    BY DEF IInv, TypeOK, Fitting, RoundFits
  <2>2. Waits(stack.line, stack.rest, picked, spoke) /\ Waits(round.line, round.rest, picked, spoke)
    BY DEF Once
  <2> QED
    BY <1>1, <1>5, <1>7, <2>1, <2>2, StillWaits, NobodyWaits
<1>9. ASSUME NEW o \in Procs
      PROVE  /\ Waits(LineOf(proc'[o]), proc'[o].todo, picked, spoke')
             /\ Waits(proc'[o].line, proc'[o].agents, picked, spoke')
             /\ AtWork(o)' => OwnIsNotParked(proc'[o], stack')
  <2>1. CASE o # p
    BY <1>1, <2>1, OthersHoldNothing, NobodyWaits DEF AtWork, OtherAtWork
  <2>2. CASE o = p /\ Leaves(r, proc[p])
    BY <1>1, <2>2, NobodyWaits DEF Leaves, AtWork
  <2>3. CASE o = p /\ r.line = proc[p].line /\ r.todo = <<>> /\ r.agents = Tail(proc[p].agents)
    BY <1>1, <1>6, <1>7, <2>3, NobodyWaits DEF OwnIsNotParked, line
  <2> QED
    BY <1>1, <2>1, <2>2, <2>3 DEF Answers
<1>10. \A l \in Procs : twice'[l] = {} /\ spoke'[l] \subseteq picked[l]
  BY <1>4, <1>5 DEF Once
<1> QED
  BY <1>1, <1>8, <1>9, <1>10 DEF Once, LineOf

-----------------------------------------------------------------------------
(* A new process *)

Born(n, r) ==
  /\ n = started + 1 /\ started' = n /\ n \in Procs /\ Replaces(n, r)
  /\ r.pc = "start" /\ r.line = n /\ r.todo = <<>> /\ r.agents = <<>> /\ r.colabo = FALSE
  /\ UNCHANGED <<stack, round, picked, spoke, twice, dropped>>

LEMMA SpawnBears ==
  ASSUME IInv, NEW kind, Spawn(kind, proc), UNCHANGED <<stack, round, history>>
  PROVE  \E r : Born(started + 1, r)
<1> DEFINE n == started + 1
           r == [NoProc EXCEPT !.kind = kind, !.pc = "start", !.line = n]
<1>1. n \in Procs /\ started' = n
  BY MeetRoomAssumption DEF IInv, TypeOK, Spawn, Procs
<1>2. Replaces(n, r)
  BY DEF Spawn, Replaces
<1>3. r.pc = "start" /\ r.line = n /\ r.todo = <<>> /\ r.agents = <<>> /\ r.colabo = FALSE
  BY DEF NoProc
<1>4. Born(n, r)
  BY <1>1, <1>2, <1>3 DEF Born, history
<1> QED
  BY <1>4

LEMMA BornFits ==
  ASSUME IInv, Fitting, NEW n, NEW r, Born(n, r)
  PROVE  /\ Fitting' /\ ColaboLines' \ {n} = ColaboLines \ {n}
         /\ proc'[n] = r /\ (\A o \in Procs \ {n} : proc'[o] = proc[o])
         /\ proc[n].todo = <<>> /\ proc[n].agents = <<>> /\ picked[n] = {}
<1>1. /\ started \in Nat /\ n = started + 1 /\ n \in Procs /\ n > started /\ started' = n
      /\ proc \in [Procs -> ProcRec] /\ proc' = [proc EXCEPT ![n] = r]
  BY MeetRoomAssumption DEF IInv, TypeOK, ProcRec, Born, Replaces
<1>2. proc'[n] = r /\ \A o \in Procs \ {n} : proc'[o] = proc[o]
  BY <1>1
<1>3. proc[n].pc = "none" /\ picked[n] = {} /\ RecFits(n, proc[n], picked[n], ColaboLines, started)
  BY <1>1 DEF Fitting, Unborn
<1>4. proc[n].todo = <<>> /\ proc[n].agents = <<>>
  BY <1>3 DEF RecFits, AtWorkPcs
<1>5. ColaboLines' \ {n} = ColaboLines \ {n}
  BY <1>2 DEF ColaboLines
<1>6. Fitting'
  <2>1. Apart'
    BY <1>2 DEF Born, Fitting, Apart, AtWork
  <2>2. Unborn'
    <3> SUFFICES ASSUME NEW o \in Procs, o > n PROVE proc'[o].pc = "none" /\ picked[o] = {}
      BY <1>1 DEF Unborn, Born
    <3>1. o # n /\ o > started
      BY <1>1 DEF Procs
    <3> QED
      BY <1>2, <3>1 DEF Fitting, Unborn
  <2>3. SpeakerRound'
    BY <1>2 DEF Born, Fitting, SpeakerRound, LineOf
  <2>4. ASSUME NEW o \in Procs PROVE RecFits(o, proc'[o], picked'[o], ColaboLines', started')
    <3>1. CASE o = n
      BY <1>1, <1>2, <1>3, <3>1 DEF Born, RecFits, AtWorkPcs, Procs
    <3>2. CASE o # n
      <4>1. proc[o].line <= started /\ proc[o].line \in Nat
        BY MeetRoomAssumption DEF Fitting, RecFits, IInv, TypeOK, Lines
      <4>2. proc[o].line # n /\ proc[o].line <= started'
        BY <1>1, <4>1
      <4>3. proc[o].line \in ColaboLines' <=> proc[o].line \in ColaboLines
        BY <1>5, <4>2
      <4>4. RecFits(o, proc[o], picked[o], ColaboLines, started)
        BY DEF Fitting
      <4> QED
        BY <1>2, <3>2, <4>2, <4>3, <4>4 DEF RecFits, Born
    <3> QED
      BY <3>1, <3>2
  <2>5. RoundFits(round', ColaboLines', started') /\ StackFits(stack', ColaboLines', started')
    <3>1. round.line \in Nat /\ stack.line \in Nat
      BY MeetRoomAssumption DEF IInv, TypeOK, Lines
    <3>2. RoundFits(round, ColaboLines, started) /\ StackFits(stack, ColaboLines, started)
      BY DEF Fitting
    <3>3. round.line < n /\ stack.line < n
      BY <1>1, <3>1, <3>2 DEF RoundFits, StackFits
    <3>4. round.line # n /\ stack.line # n /\ round.line <= n /\ stack.line <= n
      BY <1>1, <3>1, <3>3
    <3> QED
      BY <1>1, <1>5, <3>2, <3>4 DEF RoundFits, StackFits, Born
  <2> QED
    BY <2>1, <2>2, <2>3, <2>4, <2>5 DEF Fitting
<1> QED
  BY <1>2, <1>3, <1>4, <1>5, <1>6

LEMMA BornKeepsWaiting ==
  ASSUME IInv, Fitting, Waiting, NEW n, NEW r, Born(n, r)
  PROVE  Waiting'
<1>1. /\ ColaboLines' \ {n} = ColaboLines \ {n}
      /\ proc'[n] = r /\ (\A o \in Procs \ {n} : proc'[o] = proc[o])
      /\ proc[n].todo = <<>> /\ picked[n] = {}
      /\ r.pc = "start" /\ r.colabo = FALSE
      /\ UNCHANGED <<picked, spoke, dropped, stack>>
  BY BornFits DEF Born
<1>2. ASSUME NEW l \in (Procs \ dropped') \ ColaboLines', NEW g \in picked'[l]
      PROVE  l \in (Procs \ dropped) \ ColaboLines
  BY <1>1
<1>3. NobodyWaitsInVain'
  <2> SUFFICES ASSUME NEW l \in (Procs \ dropped') \ ColaboLines', NEW g \in picked[l] \ spoke[l]
               PROVE  HeldFor(l, g)' \/ ParkedFor(l, g)
    BY <1>1 DEF NobodyWaitsInVain, ParkedFor
  <2>1. HeldFor(l, g) \/ ParkedFor(l, g)
    BY <1>1, <1>2 DEF Waiting, NobodyWaitsInVain
  <2> QED
    BY <1>1, <2>1, NothingInEmpty DEF HeldFor
<1>4. Continues'
  BY <1>1 DEF Waiting, Continues, AtWork
<1>5. ColaboClears'
  <2> SUFFICES ASSUME NEW o \in Procs, proc'[o].colabo, NEW l \in (Procs \ dropped') \ ColaboLines'
               PROVE  picked[l] \subseteq spoke[l]
    BY <1>1 DEF ColaboClears
  <2>1. proc[o].colabo
    BY <1>1
  <2> QED
    BY <1>1, <1>2, <2>1 DEF Waiting, ColaboClears
<1> QED
  BY <1>3, <1>4, <1>5 DEF Waiting

LEMMA BornKeepsOwn ==
  ASSUME IInv, Fitting, Own, NEW n, NEW r, Born(n, r), active' = n
  PROVE  Own'
<1>1. /\ ColaboLines' \ {n} = ColaboLines \ {n}
      /\ proc'[n] = r /\ (\A o \in Procs \ {n} : proc'[o] = proc[o])
      /\ r.pc = "start"
      /\ UNCHANGED <<picked, spoke, stack, round>>
  BY BornFits DEF Born
<1>2. RoundFits(round, ColaboLines, started) /\ StackFits(stack, ColaboLines, started)
      /\ round.line \in Nat /\ stack.line \in Nat /\ started \in Nat /\ n = started + 1
  BY MeetRoomAssumption DEF Fitting, IInv, TypeOK, Lines, Born
<1>3. round.line # n /\ stack.line # n
  <2>1. round.line <= started /\ stack.line <= started
    BY <1>2 DEF RoundFits, StackFits
  <2> QED
    BY <1>2, <2>1
<1>4. Begun'
  BY <1>1, <1>3 DEF Own, Begun
<1>5. ASSUME NEW o \in Procs, proc'[o].pc = "speak"
      PROVE  ParkedIsLeft(o, proc'[o], stack', spoke', active')
  BY <1>1, <1>5 DEF Own, ParkedIsLeft
<1> QED
  BY <1>4, <1>5 DEF Own, ParkedIsLeft, OwnIsParked

LEMMA BornKeepsOnce ==
  ASSUME IInv, Fitting, Once, NEW n, NEW r, Born(n, r)
  PROVE  Once'
<1>1. /\ proc'[n] = r /\ (\A o \in Procs \ {n} : proc'[o] = proc[o])
      /\ r.pc = "start" /\ r.todo = <<>> /\ r.agents = <<>>
      /\ UNCHANGED <<picked, spoke, twice, stack, round>>
  BY BornFits DEF Born
<1>2. ASSUME NEW o \in Procs
      PROVE  /\ Waits(LineOf(proc'[o]), proc'[o].todo, picked, spoke)
             /\ Waits(proc'[o].line, proc'[o].agents, picked, spoke)
             /\ AtWork(o)' => OwnIsNotParked(proc'[o], stack)
  BY <1>1, NobodyWaits DEF Once, AtWork
<1> QED
  BY <1>1, <1>2 DEF Once, LineOf

-----------------------------------------------------------------------------
(* The actions *)

\* What every step keeps while the processes keep apart.
Kept ==
  ~crossed => Fitting /\ Own /\ Waiting /\ (~misparked => Once)

\* A step that crosses nobody, and that may have misparked.
KeptBy ==
  Fitting' /\ (Own => Own') /\ (Own /\ Waiting => Waiting') /\ (~misparked' /\ Once => Once')

LEMMA BearsKept ==
  ASSUME IInv, Fitting, NEW kind, Spawn(kind, proc), UNCHANGED <<stack, round, history>>
  PROVE  KeptBy
<1>1. active' = started + 1
  BY DEF Spawn
<1> QED
  BY <1>1, SpawnBears, BornFits, BornKeepsOwn, BornKeepsWaiting, BornKeepsOnce DEF KeptBy

LEMMA QuietKept ==
  ASSUME IInv, Fitting, QuietStep,
         ~misparked' => stack' = stack \/ \A p \in Procs : AtWork(p) => proc'[p].sig,
         \A p \in Procs : proc[p].pc = "speak" =>
           /\ proc'[p].sig => proc[p].sig \/ active = p
           /\ ~proc'[p].sig /\ (stack' # stack \/ active # p) => active' # p
  PROVE  KeptBy
  BY QuietFits, QuietKeepsOwn, QuietKeepsWaiting, QuietKeepsOnce DEF KeptBy

LEMMA SameIsQuiet ==
  ASSUME UNCHANGED <<proc, stack, round, started, picked, spoke, twice, dropped>>
  PROVE  QuietStep
  BY DEF QuietStep, SameProc

LEMMA SignalIsQuiet ==
  ASSUME IInv, proc' = Kill(active), UNCHANGED <<started, round, picked, spoke, twice, dropped>>,
         stack' = stack \/ (~Parked /\ stack' = ParkRound)
  PROVE  /\ QuietStep
         /\ \A p \in Procs : /\ p = active /\ AtWork(p) => proc'[p].sig
                             /\ p # active => proc'[p] = proc[p]
<1>1. proc \in [Procs -> ProcRec] /\ (active = 0 \/ active \in Procs)
  BY MeetRoomAssumption DEF IInv, TypeOK, ProcRec, Procs
<1>2. CASE active # 0 /\ Live(active)
  <2> DEFINE r == [proc[active] EXCEPT !.sig = TRUE]
  <2>1. active \in Procs /\ proc' = [proc EXCEPT ![active] = r]
    BY <1>1, <1>2 DEF Kill
  <2>2. SameProc(proc[active], r) /\ r.sig
    BY <1>1, <2>1 DEF ProcRec, SameProc
  <2>3. \A p \in Procs \ {active} : SameProc(proc[p], proc[p])
    BY DEF SameProc
  <2> HIDE DEF r
  <2> QED
    BY <1>1, <2>1, <2>2, <2>3 DEF QuietStep
<1>3. CASE ~(active # 0 /\ Live(active))
  <2>1. proc' = proc
    BY <1>3 DEF Kill
  <2>2. \A p \in Procs : p = active /\ AtWork(p) => FALSE
    BY <1>3 DEF Live, AtWork, Procs
  <2> QED
    BY <2>1, <2>2 DEF QuietStep, SameProc
<1> QED
  BY <1>2, <1>3

LEMMA UserKept == ASSUME IInv, Fitting, UserStep PROVE KeptBy
<1>1. ASSUME NEW k, Submit(k) PROVE KeptBy
  BY <1>1, BearsKept DEF Submit, files
<1>2. ASSUME SubmitPardon PROVE KeptBy
  BY <1>2, BearsKept DEF SubmitPardon, files
<1>3. ASSUME AskForPause PROVE KeptBy
  BY <1>3, SameIsQuiet, QuietKept DEF AskForPause, history
<1>4. ASSUME CtrlC PROVE KeptBy
  <2>1. active' = 0 /\ 0 \notin Procs
    BY <1>4 DEF CtrlC, Procs
  <2> QED
    BY <1>4, <2>1, SignalIsQuiet, QuietKept DEF CtrlC, files
<1> QED
  BY <1>1, <1>2, <1>3, <1>4 DEF UserStep, SubmitContinue

LEMMA PrompterKept == ASSUME IInv, Fitting, PrompterStep PROVE KeptBy
<1>1. ASSUME PauseSeen PROVE KeptBy
  BY <1>1, BearsKept DEF PauseSeen
<1>2. ASSUME PardonAfterKill PROVE KeptBy
  BY <1>2, BearsKept DEF PardonAfterKill
<1>3. ASSUME GraceOver PROVE KeptBy
  <2>1. /\ QuietStep /\ active' = active
        /\ \A p \in Procs : /\ p = active /\ AtWork(p) => proc'[p].sig
                            /\ p # active => proc'[p] = proc[p]
    BY <1>3, SignalIsQuiet DEF GraceOver
  <2>2. ASSUME ~misparked', stack' # stack, NEW p \in Procs, AtWork(p) PROVE proc'[p].sig
    <3>1. CASE p = active
      BY <2>1, <2>2, <3>1
    <3>2. CASE p # active
      <4>1. proc[p].sig
        BY <1>3, <2>2, <3>2 DEF GraceOver
      <4>2. SameProc(proc[p], proc'[p]) /\ proc[p].pc # "gone"
        BY <2>1, <2>2 DEF QuietStep, AtWork
      <4> QED
        BY <4>1, <4>2 DEF SameProc
    <3> QED
      BY <3>1, <3>2
  <2>3. ASSUME NEW p \in Procs, proc[p].pc = "speak"
        PROVE  /\ proc'[p].sig => proc[p].sig \/ active = p
               /\ ~proc'[p].sig => active' # p
    BY <2>1, <2>3 DEF AtWork
  <2> QED
    BY <2>1, <2>2, <2>3, QuietKept
<1>4. ASSUME NEW p \in Procs, Close(p) PROVE KeptBy
  <2> DEFINE r == Over(p, "closed")
  <2>1. proc \in [Procs -> ProcRec] /\ proc[p].pc = "gone" /\ proc' = [proc EXCEPT ![p] = r]
    BY <1>4 DEF IInv, TypeOK, ProcRec, Close
  <2>2. /\ r.pc = "closed" /\ r.todo = <<>> /\ r.agents = <<>> /\ r.line = 0
        /\ r.kind = proc[p].kind /\ r.colabo = FALSE
    BY OverLeaves
  <2>3. proc[p].todo = <<>> /\ proc[p].agents = <<>> /\ ~proc[p].colabo
    BY <2>1 DEF Fitting, RecFits, AtWorkPcs
  <2>4. proc[p].colabo = FALSE
    BY <2>1, <2>3 DEF ProcRec
  <2> HIDE DEF r
  <2>5. SameProc(proc[p], r)
    BY <2>1, <2>2, <2>3, <2>4 DEF SameProc
  <2>6. \A o \in Procs \ {p} : SameProc(proc[o], proc[o])
    BY DEF SameProc
  <2>7. QuietStep
    BY <1>4, <2>1, <2>5, <2>6 DEF QuietStep, Close, files, history
  <2>8. stack' = stack /\ \A o \in Procs : active # o => active' # o
    BY <1>4 DEF Close, files, Procs
  <2>9. \A o \in Procs : proc[o].pc = "speak" => proc'[o] = proc[o]
    BY <2>1
  <2> QED
    BY <2>7, <2>8, <2>9, QuietKept
<1> QED
  BY <1>1, <1>2, <1>3, <1>4 DEF PrompterStep

\* A process at its start, which finds nobody at work unless the step crosses.
LEMMA AtStart ==
  ASSUME IInv, Fitting, NEW p \in Procs, proc[p].pc = "start"
  PROVE  /\ proc[p] \in ProcRec /\ Live(p)
         /\ proc[p].todo = <<>> /\ proc[p].agents = <<>> /\ proc[p].colabo = FALSE
         /\ proc[p].line = p /\ picked[p] = {} /\ p <= started
<1>1. RecFits(p, proc[p], picked[p], ColaboLines, started) /\ proc[p] \in ProcRec
  BY DEF Fitting, IInv, Shape, OKProc
<1>2. proc[p].colabo \in BOOLEAN
  BY <1>1 DEF ProcRec
<1> QED
  BY <1>1, <1>2 DEF RecFits, AtWorkPcs, Live

LEMMA NothingToDoKept == ASSUME IInv, Fitting, NEW p \in Procs, NothingToDo(p) PROVE KeptBy
<1>1. PICK r : Replaces(p, r) /\ Leaves(r, proc[p])
  BY ExitLeaves DEF NothingToDo
<1>2. LeavesFiles(p, r)
  BY <1>1, AtStart DEF NothingToDo, LeavesFiles, files, history
<1>3. active' = active
  BY DEF NothingToDo, prompter
<1> QED
  BY <1>2, <1>3, LeaverFits, LeaverKeepsOwn, LeaverKeepsWaiting, LeaverKeepsOnce DEF KeptBy

LEMMA EndStartsKept == ASSUME IInv, Fitting, NEW p \in Procs, EndStarts(p) PROVE KeptBy
<1>1. PICK r : Replaces(p, r) /\ Leaves(r, proc[p])
  BY ExitLeaves DEF EndStarts
<1>2. LeavesFiles(p, r)
  BY <1>1, AtStart DEF EndStarts, Starts, LeavesFiles, files
<1>3. active' = active
  BY DEF EndStarts, Starts, prompter
<1> QED
  BY <1>2, <1>3, LeaverFits, LeaverKeepsOwn, LeaverKeepsWaiting, LeaverKeepsOnce DEF KeptBy

\* A process that stops leaves its line parked, if it does not forget it for another one.
LEMMA StopsKept == ASSUME IInv, Fitting, ~crossed', NEW p \in Procs, Stops(p) PROVE KeptBy
<1>1. PICK r : Replaces(p, r) /\ Leaves(r, proc[p])
  BY ExitLeaves DEF Stops
<1>2. ~crossed /\ Live(p) /\ proc[p].sig /\ active' = active
  BY DEF Stops, prompter
<1>3. CASE proc[p].pc = "start" \/ ~current \/ Parked \/ round.rest = <<>>
  <2>1. UNCHANGED stack /\ dropped' = dropped \cup (IF Parked THEN {proc[p].line} \ {0, stack.line} ELSE {})
    BY <1>3 DEF Stops
  <2>2. ASSUME proc[p].todo # <<>>, proc[p].line # 0, ~proc[p].colabo
        PROVE  proc[p].line \in dropped' \/ OwnIsParked(proc[p], stack)
    <3>1. proc[p].pc = "speak" /\ AtWork(p)
      BY <2>2 DEF Fitting, RecFits, AtWork
    <3>2. current /\ round.rest # <<>>
      BY <1>2, <2>2, <3>1 DEF IInv, WorkIsInOpenMeeting, Fitting, SpeakerRound
    <3>3. Parked
      BY <1>3, <3>1, <3>2
    <3> QED
      BY <2>1, <2>2, <3>1, <3>3 DEF OwnIsParked, Parked
  <2>3. LeavesFiles(p, r)
    BY <1>1, <1>2, <2>1, <2>2 DEF Stops, LeavesFiles
  <2> QED
    BY <1>2, <2>3, LeaverFits, LeaverKeepsOwn, LeaverKeepsWaiting, LeaverKeepsOnce DEF KeptBy
<1>4. CASE ~(proc[p].pc = "start" \/ ~current \/ Parked \/ round.rest = <<>>)
  <2>1. stack' = ParkRound /\ UNCHANGED dropped
    BY <1>4 DEF Stops
  <2>2. LeavesParked(p, r)
    BY <1>1, <1>4, <2>1 DEF Stops, LeavesParked, Live, AtWork
  <2> QED
    BY <1>2, <2>2, LeaverFits, LeaverKeepsOwn, LeaverKeepsWaiting, LeaverKeepsOnce DEF KeptBy
<1> QED
  BY <1>3, <1>4

LEMMA StartsApart ==
  ASSUME IInv, ~crossed', NEW p \in Procs, NEW kind, Starts(p, kind)
  PROVE  ~OtherAtWork(p)
  BY DEF Starts

LEMMA SayStartsKept == ASSUME IInv, Fitting, ~crossed', NEW p \in Procs, SayStarts(p) PROVE KeptBy
<1>1. proc[p] \in ProcRec /\ Starts(p, "say") /\ proc[p].pc = "start" /\ proc[p].kind = "say"
  BY AtStart DEF SayStarts, Starts
<1>2. PICK r : Replaces(p, r) /\ Becomes(r, proc[p], "pick", proc[p].todo)
  BY <1>1, GoBecomes DEF SayStarts
<1>3. picked' = [picked EXCEPT ![p] = Range(r.agents)]
  <2>1. picked \in [Procs -> SUBSET Gotchi] /\ picked' = picked
    BY KnownTypes DEF SayStarts
  <2>2. Range(r.agents) = picked[p]
    BY <1>1, <1>2, AtStart, NothingInEmpty DEF Becomes
  <2> QED
    BY <2>1, <2>2
<1>4. BeginsAnew(p, r)
  BY <1>1, <1>2, <1>3, AtStart, StartsApart, NothingInEmpty
  DEF SayStarts, Starts, BeginsAnew, Becomes, ForgetsFor, Files
<1> QED
  BY <1>4, BeginnerFits, BeginnerKeepsOwn, BeginnerKeepsWaiting, BeginnerKeepsOnce
  DEF KeptBy, SayStarts, Files

LEMMA ColaboStartsKept ==
  ASSUME IInv, Fitting, ~crossed', NEW p \in Procs, ColaboStarts(p) PROVE KeptBy
<1>1. proc[p] \in ProcRec /\ Starts(p, "colabo") /\ proc[p].pc = "start" /\ proc[p].kind = "colabo"
  BY AtStart DEF ColaboStarts, Starts
<1>2. PICK list \in AgentLists :
        /\ Go(p, [proc[p] EXCEPT !.colabo = TRUE, !.agents = list], "pick")
        /\ picked' = [picked EXCEPT ![p] = Range(list)]
  BY DEF ColaboStarts
<1>3. list \in Seq(Agents) /\ IsInjective(list)
  <2>1. list \in Seq(Gotchi) /\ Range(list) \subseteq Agents /\ IsInjective(list)
    BY MeetRoomAssumption DEF AgentLists
  <2>2. \A i \in 1..Len(list) : list[i] \in Agents
    BY <2>1 DEF Range
  <2> QED
    BY <2>1, <2>2
<1> DEFINE q0 == [proc[p] EXCEPT !.colabo = TRUE]
           q == [q0 EXCEPT !.agents = list]
<1>4. q0 \in ProcRec /\ q0.colabo = TRUE /\ q0.kind = proc[p].kind /\ q0.line = proc[p].line
      /\ q0.todo = proc[p].todo
  BY <1>1 DEF ProcRec
<1>5. q \in ProcRec /\ q.colabo = TRUE /\ q.kind = proc[p].kind /\ q.line = proc[p].line
      /\ q.todo = proc[p].todo /\ q.agents = list
  BY <1>3, <1>4 DEF ProcRec
<1>6. q = [proc[p] EXCEPT !.colabo = TRUE, !.agents = list]
  OBVIOUS
<1> HIDE DEF q0, q
<1>7. PICK r : Replaces(p, r) /\ Becomes(r, q, "pick", q.todo)
  BY <1>2, <1>5, <1>6, GoBecomes
<1>8. BeginsAnew(p, r)
  BY <1>1, <1>2, <1>3, <1>5, <1>7, AtStart, StartsApart
  DEF ColaboStarts, Starts, BeginsAnew, Becomes, ForgetsFor, Files
<1> QED
  BY <1>8, BeginnerFits, BeginnerKeepsOwn, BeginnerKeepsWaiting, BeginnerKeepsOnce
  DEF KeptBy, ColaboStarts, Files

LEMMA ContinueStartsKept ==
  ASSUME IInv, Fitting, ~crossed', NEW p \in Procs, ContinueStarts(p) PROVE KeptBy
<1> DEFINE q == [proc[p] EXCEPT !.line = stack.line]
<1>1. proc[p] \in ProcRec /\ Starts(p, "continue") /\ proc[p].pc = "start"
      /\ proc[p].kind = "continue" /\ Parked
  BY AtStart DEF ContinueStarts, Starts
<1>2. stack.line \in Lines /\ stack.rest \in Seq(Gotchi) /\ OKStack(stack)
  BY KnownTypes DEF OKStack
<1>3. /\ q \in ProcRec /\ q.line = stack.line /\ q.kind = "continue" /\ q.colabo = FALSE
      /\ q.todo = <<>> /\ q.agents = <<>>
  BY <1>1, <1>2, AtStart DEF ProcRec
<1>4. CASE stack.colabo
  <2> DEFINE q0 == [q EXCEPT !.colabo = TRUE]
             q1 == [q0 EXCEPT !.agents = stack.rest]
  <2>1. q0 \in ProcRec /\ q0.colabo = TRUE /\ q0.line = stack.line /\ q0.kind = "continue"
        /\ q0.todo = <<>>
    BY <1>3 DEF ProcRec
  <2>2. q1 \in ProcRec /\ q1.colabo = TRUE /\ q1.line = stack.line /\ q1.kind = "continue"
        /\ q1.todo = <<>> /\ q1.agents = stack.rest
    BY <1>2, <1>4, <2>1 DEF ProcRec, OKStack
  <2>3. Go(p, q1, "agent") /\ Files(round, NoStack, FALSE)
    BY <1>4 DEF ContinueStarts
  <2> HIDE DEF q0, q1
  <2>4. PICK r : Replaces(p, r) /\ Becomes(r, q1, "agent", q1.todo)
    BY <2>2, <2>3, GoBecomes
  <2>5. TakesUp(p, r)
    BY <1>1, <1>4, <2>2, <2>3, <2>4, StartsApart
    DEF TakesUp, Becomes, Files, ContinueStarts, Starts
  <2> QED
    BY <2>5, TakerFits, TakerKeepsOwn, TakerKeepsWaiting, TakerKeepsOnce DEF KeptBy
<1>5. CASE ~stack.colabo
  <2> DEFINE q1 == [q EXCEPT !.todo = stack.rest]
  <2>1. q1 \in ProcRec /\ q1.colabo = FALSE /\ q1.line = stack.line /\ q1.kind = "continue"
        /\ q1.todo = stack.rest /\ q1.agents = <<>>
    BY <1>2, <1>3 DEF ProcRec
  <2>2. Go(p, q1, "speak") /\ Files([line |-> stack.line, rest |-> stack.rest], NoStack, FALSE)
    BY <1>5 DEF ContinueStarts
  <2> HIDE DEF q1
  <2>3. PICK r : Replaces(p, r) /\ Becomes(r, q1, "speak", q1.todo)
    BY <2>1, <2>2, GoBecomes
  <2>4. TakesUp(p, r)
    BY <1>1, <1>5, <2>1, <2>2, <2>3, StartsApart
    DEF TakesUp, Becomes, Files, ContinueStarts, Starts
  <2> QED
    BY <2>4, TakerFits, TakerKeepsOwn, TakerKeepsWaiting, TakerKeepsOnce DEF KeptBy
<1> QED
  BY <1>4, <1>5

LEMMA AgentDoneKept ==
  ASSUME IInv, Fitting, ~crossed', NEW p \in Procs, AgentDone(p) PROVE KeptBy
<1> DEFINE q == proc[p]
           q1 == [q EXCEPT !.agents = Tail(@)]
<1>1. q \in ProcRec /\ q.agents # <<>> /\ q.pc = "agent"
  BY DEF IInv, Shape, OKProc, AgentDone
<1>2. q.sig = FALSE
  BY <1>1 DEF AgentDone, ProcRec
<1>3. Tail(q.agents) \in Seq(Agents)
  BY <1>1 DEF ProcRec
<1>4. q1 \in ProcRec /\ q1.agents = Tail(q.agents) /\ q1.kind = q.kind /\ q1.line = q.line
      /\ q1.colabo = q.colabo /\ q1.todo = q.todo /\ q1.sig = q.sig
  BY <1>1, <1>3 DEF ProcRec
<1> HIDE DEF q1
<1>5. PICK r : Answers(p, r)
  <2>1. CASE current
    <3>1. Go(p, q1, "pick")
      BY <2>1 DEF AgentDone, q1
    <3>2. PICK r : Replaces(p, r) /\ Becomes(r, q1, "pick", q1.todo)
      BY <1>4, <3>1, GoBecomes
    <3>3. Answers(p, r)
      BY <1>1, <1>2, <1>4, <3>2 DEF Answers, Becomes, AgentDone
    <3> QED
      BY <3>3
  <2>2. CASE ~current
    <3>1. PICK r : Replaces(p, r) /\ Leaves(r, q)
      BY <2>2, ExitLeaves DEF AgentDone
    <3>2. Answers(p, r)
      BY <1>1, <1>2, <3>1 DEF Answers, AgentDone
    <3> QED
      BY <3>2
  <2> QED
    BY <2>1, <2>2
<1> QED
  BY <1>5, AnswererFits, AnswererKeepsOwn, AnswererKeepsWaiting, AnswererKeepsOnce DEF KeptBy

\* A round begins: the line it asks has nobody picked yet.
LEMMA RoundKept ==
  ASSUME IInv, Fitting, NEW p \in Procs, Live(p), ~OtherAtWork(p),
         proc[p].pc = "pick" \/ (proc[p].pc = "start" /\ proc[p].kind = "pardon"),
         NEW speakers \in Seq(Gotchi), IsInjective(speakers),
         BeginRound(p, proc[p], speakers, request), UNCHANGED <<started, active, spoke, twice>>
  PROVE  KeptBy
<1> DEFINE q == [proc[p] EXCEPT !.todo = speakers]
<1>1. /\ proc[p] \in ProcRec /\ RecFits(p, proc[p], picked[p], ColaboLines, started)
      /\ request \in BOOLEAN
  BY DEF IInv, Shape, OKProc, Fitting, TypeOK
<1>2. /\ q \in ProcRec /\ q.todo = speakers /\ q.kind = proc[p].kind /\ q.colabo = proc[p].colabo
      /\ q.line = proc[p].line /\ q.agents = proc[p].agents /\ q.sig = proc[p].sig
  BY <1>1 DEF ProcRec
<1>3. LineOf(proc[p]) = LineOf(q)
  BY <1>2 DEF LineOf
<1>4. NextSpeaker(p, q, [line |-> LineOf(q), rest |-> q.todo], request)
  BY <1>2, <1>3 DEF BeginRound
<1> HIDE DEF q
<1>5. PICK r : Replaces(p, r) /\ TurnOf(p, q, r, [line |-> LineOf(q), rest |-> q.todo])
  BY <1>1, <1>2, <1>4, Turns
<1>6. proc[p].todo = <<>>
  BY <1>1 DEF RecFits
<1>7. ~q.colabo => q.line = p /\ LineOf(q) = p /\ picked[p] = {} /\ q.kind # "continue"
                   /\ q.line \notin ColaboLines
  BY <1>1, <1>2 DEF RecFits, AtWorkPcs, LineOf, ColaboLines
<1>8. q.colabo => LineOf(q) = 0 /\ proc[p].pc = "pick" /\ q.line \in ColaboLines
  BY <1>1, <1>2 DEF RecFits, AtWorkPcs, LineOf
<1>9. /\ \A l \in Procs \ {LineOf(q)} : picked'[l] = picked[l]
      /\ ~q.colabo => picked'[p] = Range(speakers)
      /\ q.colabo => picked' = picked
  <2>1. picked \in [Procs -> SUBSET Gotchi]
    BY KnownTypes
  <2> QED
    BY <1>2, <1>3, <1>7, <1>8, <2>1, ZeroIsNoColabo DEF BeginRound
<1>10. TurnTaken(p, q, r)
  <2>1. q.agents # <<>> => q.colabo
    BY <1>1, <1>2 DEF RecFits
  <2>2. \A l \in Procs : l # p => picked'[l] = picked[l]
    BY <1>7, <1>9
  <2>3. \A l \in Procs : picked[l] \subseteq picked'[l]
    BY <1>7, <1>9
  <2>4. q.line <= started
    BY <1>1, <1>2 DEF RecFits
  <2> QED
    BY <1>2, <1>5, <1>7, <1>8, <1>9, <2>1, <2>2, <2>3, <2>4 DEF TurnTaken
<1>11. Fitting'
  BY <1>10, TurnFits
\* Nobody is parked for a line that nobody was picked for.
<1>14. Own => ~(~q.colabo /\ stack.rest # <<>> /\ stack.line = q.line)
  BY <1>7 DEF Own, Begun
<1>15. ASSUME Own PROVE Own'
  <2>1. LineOf(q) # 0 /\ q.todo # <<>> => picked'[LineOf(q)] # {}
    <3>1. speakers # <<>> => Range(speakers) # {}
      <4> SUFFICES ASSUME speakers # <<>> PROVE speakers[1] \in Range(speakers)
        OBVIOUS
      <4>1. 1 \in DOMAIN speakers
        OBVIOUS
      <4> QED
        BY <4>1 DEF Range
    <3> QED
      BY <1>2, <1>7, <1>8, <1>9, <3>1
  <2> QED
    BY <1>10, <1>14, <1>15, <2>1, TurnKeepsOwn
<1>12. ASSUME Own, Waiting PROVE Waiting'
  <2>1. \A l \in (Procs \ dropped) \ ColaboLines : l = LineOf(q) =>
          \A g \in picked'[l] \ spoke'[l] : g \in Range(q.todo) \/ ParkedFor(l, g)
    BY <1>2, <1>7, <1>8, <1>9, ZeroIsNoColabo
  <2>2. TakesAlong(q, stack, spoke')
    BY <1>7 DEF TakesAlong
  <2> QED
    BY <1>6, <1>10, <1>12, <1>14, <2>1, <2>2, TurnKeepsWaiting
<1>13. ASSUME Once PROVE Once'
  <2>1. \A l \in Procs : twice[l] = {} /\ spoke[l] \subseteq picked[l] /\ picked[l] \subseteq picked'[l]
    BY <1>10, <1>13 DEF Once, TurnTaken
  <2>2. Waits(LineOf(q), q.todo, picked', spoke')
    BY <1>2, <1>7, <1>8, <1>9, <2>1 DEF Waits
  <2>3. OwnIsNotParked(q, stack)
    <3>1. CASE q.colabo
      BY <1>2, <1>8, <1>13, <3>1 DEF Once, OwnIsNotParked, AtWork
    <3>2. CASE ~q.colabo
      <4>1. Waits(stack.line, stack.rest, picked, spoke) /\ stack.rest \in Seq(Gotchi)
        BY <1>13 DEF Once, IInv, TypeOK
      <4>2. stack.line = p => stack.rest = <<>>
        BY <1>7, <3>2, <4>1, HeadTail, ZeroIsNoColabo DEF Waits
      <4> QED
        BY <1>7, <3>2, <4>2 DEF OwnIsNotParked
    <3> QED
      BY <3>1, <3>2
  <2> QED
    BY <1>10, <1>13, <2>1, <2>2, <2>3, TurnKeepsOnce
<1> QED
  BY <1>11, <1>12, <1>13, <1>15 DEF KeptBy

LEMMA PardonStartsKept ==
  ASSUME IInv, Fitting, ~crossed', NEW p \in Procs, PardonStarts(p) PROVE KeptBy
<1>1. Starts(p, "pardon") /\ proc[p].pc = "start" /\ proc[p].kind = "pardon" /\ Live(p)
      /\ UNCHANGED <<started, active, spoke, twice>>
  BY DEF PardonStarts, Starts, Live, prompter
<1>2. PICK speakers \in Picks : BeginRound(p, proc[p], speakers, request)
  BY DEF PardonStarts
<1> QED
  BY <1>1, <1>2, StartsApart, MeetRoomAssumption, RoundKept

LEMMA ChairPicksKept == ASSUME IInv, Fitting, NEW p \in Procs, ChairPicks(p) PROVE KeptBy
<1>1. proc[p].pc = "pick" /\ Live(p) /\ ~OtherAtWork(p) /\ UNCHANGED <<started, active, spoke, twice>>
  BY DEF ChairPicks, Live, Fitting, Apart, OtherAtWork, AtWork, prompter
<1>2. PICK speakers \in Picks \cup {<<>>, <<Chair>>} : BeginRound(p, proc[p], speakers, request)
  BY DEF ChairPicks
<1>3. speakers \in Seq(Gotchi) /\ IsInjective(speakers)
  <2>1. <<Chair>> \in Seq(Gotchi) /\ <<>> \in Seq(Gotchi) /\ IsInjective(<<Chair>>)
    BY MeetRoomAssumption DEF IsInjective
  <2> QED
    BY <2>1, NothingInEmpty, MeetRoomAssumption
<1> QED
  BY <1>1, <1>2, <1>3, RoundKept

\* The answer to a line that is asked of whoever was to answer it: nobody else's.
LEMMA ReplyKept == ASSUME IInv, Fitting, ~crossed', NEW p \in Procs, Reply(p) PROVE KeptBy
<1> DEFINE q0 == proc[p]
           line == LineOf(q0)
           g == Head(q0.todo)
<1>1. /\ q0 \in ProcRec /\ q0.pc = "speak" /\ q0.todo # <<>> /\ Live(p) /\ ~OtherAtWork(p)
      /\ AtWork(p) /\ request \in BOOLEAN /\ RecFits(p, q0, picked[p], ColaboLines, started)
      /\ UNCHANGED <<started>> /\ q0.sig = FALSE
  <2>1. q0 \in ProcRec /\ q0.pc = "speak" /\ q0.todo # <<>> /\ request \in BOOLEAN
    BY DEF IInv, Shape, OKProc, TypeOK, Reply
  <2>2. q0.sig = FALSE
    BY <2>1 DEF Reply, ProcRec
  <2> QED
    BY <2>1, <2>2 DEF Reply, Live, AtWork, Fitting, Apart, OtherAtWork
<1>2. round = [line |-> line, rest |-> q0.todo]
  BY <1>1 DEF Fitting, SpeakerRound
<1>3. (IF round = NoRound THEN LineOf(q0) ELSE round.line) = line
  BY <1>2
<1>4. Says(line, g)
  BY DEF Reply
<1>5. PICK cued \in Cued(q0) :
        /\ NextSpeaker(p, [q0 EXCEPT !.todo = Tail(q0.todo) \o cued],
                       [line |-> line, rest |-> Tail(q0.todo) \o cued], request)
        /\ picked' = IF line = 0 THEN picked ELSE [picked EXCEPT ![q0.line] = @ \cup Range(cued)]
  BY <1>3 DEF Reply, Unspoken
<1> DEFINE left == Tail(q0.todo) \o cued
           q == [q0 EXCEPT !.todo = left]
<1>6. /\ q0.todo \in Seq(Gotchi) /\ Tail(q0.todo) \in Seq(Gotchi) /\ g \in Gotchi
      /\ line \in Lines /\ (line # 0 => line \in Procs /\ line = q0.line /\ ~q0.colabo)
  BY <1>1, MeetRoomAssumption DEF ProcRec, LineOf, Lines, Procs
\* Either nobody is cued, or the chair answers alone and cues an agent.
<1>7. \/ cued = <<>> /\ left = Tail(q0.todo)
      \/ /\ q0.colabo \/ q0.kind # "continue"
         /\ q0.todo = <<Chair>>
         /\ line = 0 \/ picked[q0.line] = {Chair}
         /\ \E h \in Agents : cued = <<h>> /\ left = <<h>>
  <2>1. CASE cued = <<>>
    BY <1>6, <2>1
  <2>2. CASE cued # <<>>
    <3>1. PICK h \in Agents : cued = <<h>> /\ (q0.colabo \/ q0.kind # "continue")
                              /\ q0.todo = <<Chair>> /\ (line = 0 \/ picked[q0.line] = {Chair})
      BY <1>5, <2>2 DEF Cued, LineOf
    <3>2. left = <<h>>
      BY <3>1
    <3> QED
      BY <3>1, <3>2
  <2> QED
    BY <2>1, <2>2
<1>8. left \in Seq(Gotchi)
  <2>1. CASE left = Tail(q0.todo)
    BY <1>6, <2>1
  <2>2. \A h \in Agents : <<h>> \in Seq(Gotchi)
    BY DEF Agents
  <2> HIDE DEF left
  <2> QED
    BY <1>7, <2>1, <2>2
<1>9. /\ q \in ProcRec /\ q.todo = left /\ q.kind = q0.kind /\ q.colabo = q0.colabo
      /\ q.line = q0.line /\ q.agents = q0.agents /\ q.sig = q0.sig
  BY <1>1, <1>8 DEF ProcRec
<1>10. LineOf(q) = line
  BY <1>9 DEF LineOf
<1>11. NextSpeaker(p, q, [line |-> LineOf(q), rest |-> q.todo], request)
  BY <1>5, <1>9, <1>10
<1>12. Range(q0.todo) \subseteq {g} \cup Range(left) /\ Range(cued) \subseteq Range(left)
  <2>1. CASE left = Tail(q0.todo) /\ cued = <<>>
    BY <1>1, <1>6, <2>1, HeadTail, NothingInEmpty
  <2>2. CASE q0.todo = <<Chair>> /\ cued = left
    <3>1. Range(q0.todo) = {Chair} /\ g = Chair
      BY <2>2 DEF Range
    <3> QED
      BY <2>2, <3>1
  <2> QED
    BY <1>7, <2>1, <2>2
<1>13. /\ \A l \in Procs : picked[l] \subseteq picked'[l] /\ (l # line => picked'[l] = picked[l])
       /\ line # 0 => picked'[line] = picked[line] \cup Range(cued)
  BY <1>5, <1>6, KnownTypes
<1>14. /\ \A l \in Procs : l # line => spoke'[l] = spoke[l]
       /\ line # 0 => spoke'[line] = spoke[line] \cup {g}
  BY <1>4, <1>6, KnownTypes DEF Says
<1> HIDE DEF q0, line, g, left, q
<1>15. PICK r : Replaces(p, r) /\ TurnOf(p, q, r, [line |-> LineOf(q), rest |-> q.todo])
  BY <1>1, <1>9, <1>11, Turns DEF q0
<1>16. TurnTaken(p, q, r)
  <2>1. /\ q.agents # <<>> => q.colabo
        /\ IF q.colabo THEN q.line \in ColaboLines
           ELSE q.line \notin ColaboLines /\ (q.kind # "continue" => q.line = p)
        /\ q.line <= started
    BY <1>1, <1>9 DEF RecFits, AtWorkPcs
  <2>2. \A l \in Procs : l # p => picked'[l] = picked[l]
    <3> SUFFICES ASSUME NEW l \in Procs, l # p, l = line PROVE picked'[l] = picked[l]
      BY <1>13
    <3>1. l # 0 /\ ~q.colabo /\ l = q.line
      BY <1>6, <1>9, ZeroIsNoColabo
    <3>2. q0.kind = "continue"
      BY <1>9, <2>1, <3>1
    <3>3. cued = <<>>
      BY <1>7, <1>9, <3>1, <3>2
    <3> QED
      BY <1>13, <3>1, <3>3, NothingInEmpty
  <2> QED
    BY <1>1, <1>9, <1>10, <1>13, <1>14, <1>15, <2>1, <2>2 DEF TurnTaken, q0
<1>17. Fitting'
  BY <1>16, TurnFits
<1>20. ASSUME Own, ~q.colabo, stack.rest # <<>>, stack.line = q.line
       PROVE  RestIsOpen(q, stack, spoke') /\ ~q.sig /\ active # p
  <2>1. OwnIsParked(q0, stack)
    BY <1>1, <1>9, <1>20 DEF OwnIsParked
  <2>2. RestIsOpen(q0, stack, spoke) /\ active # p
    BY <1>1, <1>20, <2>1 DEF Own, ParkedIsLeft, q0
  <2>3. line = q.line
    BY <1>10, <1>20 DEF LineOf
  <2>4. q.line # 0 => Range(stack.rest) \subseteq spoke'[q.line] \cup Range(q.todo)
    BY <1>9, <1>12, <1>14, <2>2, <2>3 DEF RestIsOpen
  <2> QED
    BY <1>1, <1>9, <2>2, <2>4 DEF RestIsOpen
<1>21. ASSUME Own PROVE Own'
  <2>1. active' = active
    BY DEF Reply, prompter
  <2>2. LineOf(q) # 0 => picked'[LineOf(q)] # {}
    <3> SUFFICES ASSUME line # 0 PROVE picked[line] # {}
      BY <1>6, <1>10, <1>13
    <3>1. line \in Procs \ ColaboLines
      BY <1>1, <1>6 DEF RecFits, AtWorkPcs
    <3>2. round.rest # <<>> /\ round.line = line
      BY <1>1, <1>2 DEF q0, line
    <3> QED
      BY <1>21, <3>1, <3>2 DEF Own, Begun
  <2> QED
    BY <1>16, <1>20, <1>21, <2>1, <2>2, TurnKeepsOwn
<1>18. ASSUME Own, Waiting PROVE Waiting'
  <2>1. ASSUME NEW l \in (Procs \ dropped) \ ColaboLines, l = line, NEW x \in picked'[l] \ spoke'[l]
        PROVE  x \in Range(q.todo) \/ ParkedFor(l, x)
    <3>1. line # 0 /\ x # g /\ x \notin spoke[l]
      BY <1>14, <2>1, ZeroIsNoColabo
    <3>2. CASE x \in Range(cued)
      BY <1>9, <1>12, <3>2
    <3>3. CASE x \in picked[l]
      <4>1. HeldFor(l, x) \/ ParkedFor(l, x)
        BY <1>18, <3>1, <3>3 DEF Waiting, NobodyWaitsInVain
      <4>2. ASSUME NEW o \in Procs, proc[o].line = l, x \in Range(proc[o].todo)
            PROVE  x \in Range(q.todo)
        <5>1. o = p
          BY <1>1, <4>2, OthersHoldNothing, NothingInEmpty
        <5> QED
          BY <1>9, <1>12, <3>1, <4>2, <5>1 DEF q0
      <4> QED
        BY <4>1, <4>2 DEF HeldFor
    <3> QED
      BY <1>13, <2>1, <3>1, <3>2, <3>3
  <2>2. TakesAlong(q, stack, spoke')
    <3>1. TakesAlong(q0, stack, spoke)
      BY <1>1, <1>18 DEF Waiting, Continues, q0
    <3> SUFFICES ASSUME q.kind = "continue", ~q.colabo, stack.rest # <<>>
                 PROVE  /\ stack.line = q.line
                        /\ q.line # 0 => Range(stack.rest) \subseteq spoke'[q.line] \cup Range(q.todo)
      BY DEF TakesAlong
    <3>2. /\ stack.line = q0.line
          /\ q0.line # 0 => Range(stack.rest) \subseteq spoke[q0.line] \cup Range(q0.todo)
      BY <1>9, <3>1 DEF TakesAlong
    <3>3. line = q.line
      BY <1>10 DEF LineOf
    <3> QED
      BY <1>9, <1>12, <1>14, <3>2, <3>3
  <2> QED
    BY <1>10, <1>16, <1>18, <1>20, <2>1, <2>2, TurnKeepsWaiting
<1>19. ASSUME Once PROVE Once'
  <2>1. Waits(line, q0.todo, picked, spoke) /\ OwnIsNotParked(q0, stack)
    BY <1>1, <1>19 DEF Once, q0, line
  <2>2. \A l \in Procs : twice[l] = {} /\ spoke[l] \subseteq picked[l]
    BY <1>19 DEF Once
  <2>3. line # 0 => g \in picked[line] \ spoke[line]
    <3>1. g \in Range(q0.todo)
      BY <1>1, <1>6, HeadTail DEF g
    <3> QED
      BY <2>1, <3>1 DEF Waits
  <2>4. twice' = twice
    BY <1>4, <2>3 DEF Says
  <2>5. \A l \in Procs : twice'[l] = {} /\ spoke'[l] \subseteq picked'[l]
    BY <1>13, <1>14, <2>2, <2>3, <2>4, ZeroIsNoColabo
  <2>6. Waits(LineOf(q), q.todo, picked', spoke')
    <3>1. CASE cued = <<>> /\ left = Tail(q0.todo)
      <4>1. IsInjective(left) /\ g \notin Range(left) /\ Range(left) \subseteq Range(q0.todo)
        BY <1>1, <1>6, <2>1, <3>1, HeadTail DEF Waits, g
      <4>2. line # 0 => Range(left) \subseteq picked'[line] \ spoke'[line]
        BY <1>13, <1>14, <2>1, <4>1 DEF Waits
      <4> QED
        BY <1>9, <1>10, <4>1, <4>2 DEF Waits
    <3>2. ASSUME NEW h \in Agents, cued = <<h>>, left = <<h>>, line = 0 \/ picked[q0.line] = {Chair},
                 q0.todo = <<Chair>>
          PROVE  Waits(LineOf(q), q.todo, picked', spoke')
      <4>1. IsInjective(left) /\ Range(left) = {h} /\ Range(cued) = {h} /\ h # Chair
        BY <3>2 DEF IsInjective, Range, Agents
      <4>2. line # 0 => h \in picked'[line] /\ h \notin spoke'[line]
        <5> SUFFICES ASSUME line # 0 PROVE h \in picked'[line] /\ h \notin spoke'[line]
          OBVIOUS
        <5>1. picked[line] = {Chair} /\ line \in Procs
          BY <1>6, <3>2
        <5>2. spoke'[line] \subseteq {Chair}
          BY <1>14, <2>2, <2>3, <5>1
        <5> QED
          BY <1>13, <4>1, <5>2
      <4> QED
        BY <1>9, <1>10, <3>2, <4>1, <4>2 DEF Waits
    <3> QED
      BY <1>7, <3>1, <3>2
  <2>7. OwnIsNotParked(q, stack)
    BY <1>9, <2>1 DEF OwnIsNotParked
  <2>8. ~q.sig
    BY <1>1, <1>9
  <2> QED
    BY <1>16, <1>19, <2>5, <2>6, <2>7, <2>8, TurnKeepsOnce
<1> QED
  BY <1>17, <1>18, <1>19, <1>21 DEF KeptBy

-----------------------------------------------------------------------------
(* The theorems about those who are asked *)

LEMMA StepKept == ASSUME IInv, Fitting, Next, ~crossed' PROVE KeptBy
<1>1. ASSUME NEW p \in Procs, ProcStep(p) PROVE KeptBy
  BY <1>1, NothingToDoKept, SayStartsKept, PardonStartsKept, ColaboStartsKept, ContinueStartsKept,
     EndStartsKept, ChairPicksKept, ReplyKept, AgentDoneKept DEF ProcStep
<1> QED
  BY <1>1, UserKept, PrompterKept, StopsKept DEF Next

\* Who has crossed, or parked a round that goes on, has done so for good.
LEMMA HistoryStays == ASSUME Next PROVE (crossed => crossed') /\ (misparked => misparked')
<1>1. ASSUME UserStep PROVE (crossed => crossed') /\ (misparked => misparked')
  BY <1>1 DEF UserStep, Submit, SubmitContinue, SubmitPardon, AskForPause, CtrlC, history
<1>2. ASSUME PrompterStep PROVE (crossed => crossed') /\ (misparked => misparked')
  <2>1. CASE PauseSeen \/ PardonAfterKill
    BY <2>1 DEF PauseSeen, PardonAfterKill, history
  <2>2. CASE GraceOver
    <3>1. crossed' = crossed
      BY <2>2 DEF GraceOver
    <3>2. misparked => misparked'
      BY <2>2, Zenon DEF GraceOver
    <3> QED
      BY <3>1, <3>2
  <2>3. CASE \E p \in Procs : Close(p)
    BY <2>3 DEF Close, history
  <2> QED
    BY <1>2, <2>1, <2>2, <2>3 DEF PrompterStep
<1>3. ASSUME NEW p \in Procs, ProcStep(p) PROVE (crossed => crossed') /\ (misparked => misparked')
  <2>1. ASSUME NEW kind, Starts(p, kind) PROVE (crossed => crossed') /\ misparked' = misparked
    BY <2>1, Zenon DEF Starts
  <2>2. CASE NothingToDo(p) \/ ChairPicks(p)
    BY <2>2 DEF NothingToDo, ChairPicks, history
  <2>3. CASE Reply(p)
    BY <2>3, Zenon DEF Reply
  <2>4. CASE AgentDone(p)
    BY <2>4, Zenon DEF AgentDone
  <2>5. CASE SayStarts(p) \/ PardonStarts(p) \/ ColaboStarts(p) \/ ContinueStarts(p) \/ EndStarts(p)
    BY <2>1, <2>5 DEF SayStarts, PardonStarts, ColaboStarts, ContinueStarts, EndStarts
  <2> QED
    BY <1>3, <2>1, <2>2, <2>3, <2>4, <2>5 DEF ProcStep
<1>4. ASSUME NEW p \in Procs, Stops(p) PROVE (crossed => crossed') /\ (misparked => misparked')
  BY <1>4 DEF Stops
<1> QED
  BY <1>1, <1>2, <1>3, <1>4 DEF Next

LEMMA KeptInit == Init => Kept
<1> SUFFICES ASSUME Init PROVE Fitting /\ Own /\ Waiting /\ Once
  BY DEF Kept
<1>1. /\ \A p \in Procs : /\ proc[p].pc = "none" /\ proc[p].todo = <<>> /\ proc[p].agents = <<>>
                          /\ proc[p].colabo = FALSE /\ proc[p].line = 0 /\ proc[p].kind = "say"
                          /\ picked[p] = {} /\ spoke[p] = {} /\ twice[p] = {}
      /\ stack.line = 0 /\ stack.rest = <<>> /\ stack.colabo = FALSE
      /\ round.line = 0 /\ round.rest = <<>> /\ started = 0
  BY DEF Init, NoProc, NoStack, NoRound
<1>2. ColaboLines = {}
  BY <1>1 DEF ColaboLines
<1>3. Fitting
  BY <1>1, <1>2 DEF Fitting, Apart, AtWork, Unborn, SpeakerRound, RecFits, AtWorkPcs, RoundFits,
     StackFits
<1>4. Waiting
  BY <1>1 DEF Waiting, NobodyWaitsInVain, Continues, TakesAlong, AtWork, ColaboClears
<1>5. Once
  BY <1>1, NobodyWaits DEF Once, AtWork
<1>6. Own
  BY <1>1 DEF Own, Begun, ParkedIsLeft, OwnIsParked
<1> QED
  BY <1>3, <1>4, <1>5, <1>6

\* While the processes keep apart, what they hold, what is parked and who has answered fit
\* together.
THEOREM KeptInductive == Spec => []Kept
<1>1. IInv /\ Kept /\ [Next]_vars => Kept'
  <2> SUFFICES ASSUME IInv, Kept, [Next]_vars, ~crossed'
               PROVE  Fitting' /\ Own' /\ Waiting' /\ (~misparked' => Once')
    BY DEF Kept
  <2>1. CASE Next
    BY <2>1, HistoryStays, StepKept DEF Kept, KeptBy
  <2>2. CASE UNCHANGED vars
    <3>1. /\ UNCHANGED <<proc, stack, round, started, picked, spoke, twice, dropped>>
          /\ UNCHANGED <<crossed, misparked>>
      BY <2>2 DEF vars, files, history
    <3>2. active' = active
      BY <2>2 DEF vars, prompter
    <3> QED
      BY <3>1, <3>2, SameIsQuiet, QuietKept DEF Kept, KeptBy
  <2> QED
    BY <2>1, <2>2
<1> QED
  BY Inductive, KeptInit, <1>1, PTL DEF Spec

\* Whoever was to answer a line or a pardon has, or still will, or is parked for /continue,
\* unless the line was forgotten or two processes worked at once.
THEOREM NobodyIsEverLost == Spec => []NobodyIsLost
<1>1. IInv /\ Kept => NobodyIsLost
  <2> SUFFICES ASSUME IInv, Kept, ~crossed, NEW line \in Procs \ dropped, proc[line].kind # "colabo",
                      NEW g \in picked[line] \ spoke[line]
               PROVE  g \in Awaited(line)
    BY DEF NobodyIsLost
  <2>1. line \in (Procs \ dropped) \ ColaboLines
    BY DEF ColaboLines
  <2>2. HeldFor(line, g) \/ ParkedFor(line, g)
    BY <2>1 DEF Kept, Waiting, NobodyWaitsInVain
  <2>3. ASSUME NEW p \in Procs, proc[p].line = line, g \in Range(proc[p].todo)
        PROVE  g \in Awaited(line)
    <3>1. RecFits(p, proc[p], picked[p], ColaboLines, started)
      BY DEF Kept, Fitting
    <3>2. Live(p)
      BY <2>3, <3>1, NothingInEmpty DEF RecFits, Live
    <3> QED
      BY <2>3, <3>2 DEF Awaited
  <2>4. CASE ParkedFor(line, g)
    BY <2>4 DEF ParkedFor, Awaited
  <2> QED
    BY <2>2, <2>3, <2>4 DEF HeldFor
<1> QED
  BY Inductive, KeptInductive, <1>1, PTL

\* Nobody answers a line twice, unless two processes worked at once or the prompter parked
\* the round of one that it did not stop.
THEOREM NobodyAnswersTwice == Spec => []NobodyIsAskedTwice
<1>1. Kept => NobodyIsAskedTwice
  BY DEF Kept, Once, NobodyIsAskedTwice
<1> QED
  BY KeptInductive, <1>1, PTL

=============================================================================

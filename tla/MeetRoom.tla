------------------------------ MODULE MeetRoom ------------------------------
(***************************************************************************)
(* A round of a meeting, and what interrupts it.                           *)
(*                                                                         *)
(* The room's prompter (meet-room-prompter.mjs) starts one process of      *)
(* gotchi-meet.mjs for each thing the user does: a line to the room, a     *)
(* pardon, /continue, /colabo, /end.  Such a process asks one gotchi after *)
(* another, minutes each.  The user may pardon a round (the rest of it is  *)
(* parked and a side turn asked), interrupt it, continue what is parked.   *)
(*                                                                         *)
(* The processes and the prompter know of each other only through files of *)
(* the meeting: pardon.request, pardon-round.json and pardon-stack.json    *)
(* (lib/meet-pardon.mjs), meeting.json and .current.  What a process does  *)
(* between two awaits is one step.                                         *)
(***************************************************************************)
EXTENDS Naturals, Sequences, FiniteSets, Functions

CONSTANTS
  Gotchi,     \* those seated in the meeting
  Chair,      \* its chair
  Picks,      \* the speakers a line may get, in order: none is picked twice
  MaxProcs,   \* bound: processes the prompter starts
  None

ASSUME MeetRoomAssumption ==
  /\ Chair \in Gotchi /\ None \notin Gotchi
  /\ Picks \subseteq {s \in Seq(Gotchi) : IsInjective(s)}
  /\ MaxProcs \in Nat

VARIABLES
  inProject, \* a project is selected: its meetings have a directory of their own
  stack,     \* pardon-stack.json: the parked round
  round,     \* pardon-round.json: the round under way
  request,   \* whether there is a pardon.request
  current,   \* whether .current names the meeting
  saved,     \* the status in meeting.json
  proc,      \* the processes, by number
  started,   \* how many there are
  busy,      \* the prompter's sendBusy
  active,    \* its activeChild, 0 for none
  pardon,    \* its calls of runPardonInterrupt: how many wait for the round, how many for a kill
  picked,    \* the allSpeakers of a line, or the agents of a colabo
  spoke,     \* history: who has answered
  twice,     \* history: who has answered more than once
  dropped,   \* history: lines that were forgotten for another one
  stopped,   \* history: a process was told to stop
  crossed,   \* history: two processes were at work at once, or one after it was told to stop
  misparked  \* history: the prompter parked the round of a process that it did not stop

files    == <<stack, round, request>>
meeting  == <<current, saved>>
prompter == <<busy, active, pardon>>
history  == <<picked, spoke, twice, dropped, stopped, crossed, misparked>>
vars     == <<inProject, files, meeting, proc, started, prompter, history>>

Procs  == 1..MaxProcs
Agents == Gotchi \ {Chair}
Kinds  == {"say", "pardon", "continue", "colabo", "end"}

\* A line is named by the process that asked it.  The lines in which a colabo reports
\* to the room are no one's to answer: they are 0.
Lines == 0..MaxProcs

NoRound == [line |-> 0, rest |-> <<>>]
NoStack == [colabo |-> FALSE, line |-> 0, rest |-> <<>>]
NoProc  == [kind |-> "say", pc |-> "none", line |-> 0, todo |-> <<>>, agents |-> <<>>,
            colabo |-> FALSE, last |-> FALSE, sig |-> FALSE]

TypeOK ==
  /\ inProject \in BOOLEAN
  /\ stack \in [colabo : BOOLEAN, line : Lines, rest : Seq(Gotchi)]
  /\ round \in [line : Lines, rest : Seq(Gotchi)]
  /\ request \in BOOLEAN /\ current \in BOOLEAN /\ saved \in {"open", "ended"}
  /\ proc \in [Procs -> [kind : Kinds, pc : {"none", "start", "pick", "speak", "agent", "gone", "closed"},
                         line : Lines, todo : Seq(Gotchi), agents : Seq(Agents),
                         colabo : BOOLEAN, last : BOOLEAN, sig : BOOLEAN]]
  /\ started \in 0..MaxProcs
  /\ busy \in BOOLEAN /\ active \in 0..started /\ pardon \in [{"waiting", "killed"} -> 0..MaxProcs]
  /\ picked \in [Procs -> SUBSET Gotchi] /\ spoke \in [Procs -> SUBSET Gotchi]
  /\ twice \in [Procs -> SUBSET Gotchi] /\ dropped \subseteq Procs
  /\ stopped \in BOOLEAN /\ crossed \in BOOLEAN /\ misparked \in BOOLEAN

Init ==
  /\ inProject \in BOOLEAN
  /\ stack = NoStack /\ round = NoRound /\ request = FALSE
  /\ current = TRUE /\ saved = "open"
  /\ proc = [p \in Procs |-> NoProc] /\ started = 0
  /\ busy = FALSE /\ active = 0 /\ pardon = [waiting |-> 0, killed |-> 0]
  /\ picked = [p \in Procs |-> {}] /\ spoke = [p \in Procs |-> {}]
  /\ twice = [p \in Procs |-> {}] /\ dropped = {}
  /\ stopped = FALSE /\ crossed = FALSE /\ misparked = FALSE

-----------------------------------------------------------------------------
(* The prompter *)

Live(p)   == proc[p].pc \in {"start", "pick", "speak", "agent"}
AtWork(p) == proc[p].pc \in {"pick", "speak", "agent"}

\* What is left of a process that has exited.
Over(p, pc) == [NoProc EXCEPT !.kind = proc[p].kind, !.pc = pc]

\* kill("SIGTERM"), which a process that has exited does not feel.
Kill(p) == IF p # 0 /\ Live(p) THEN [proc EXCEPT ![p].sig = TRUE] ELSE proc

Parked == stack.rest # <<>>

\* Mistake: whoever is speaking when the round is parked counts as having spoken.
ParkRoundAfterSpeaker ==
  IF Len(round.rest) < 2 THEN stack
  ELSE [colabo |-> FALSE, line |-> round.line, rest |-> Tail(round.rest)]

\* stackFromRound and writePardonStack, unless nobody is left to speak.
ParkRound ==
  IF round.rest = <<>> THEN stack ELSE [colabo |-> FALSE, line |-> round.line, rest |-> round.rest]

\* A child of the prompter, of processes pr.
Spawn(kind, pr) ==
  /\ started < MaxProcs
  /\ started' = started + 1
  /\ proc' = [pr EXCEPT ![started + 1] = [NoProc EXCEPT !.kind = kind, !.pc = "start",
                                                        !.line = started + 1]]
  /\ busy' = TRUE
  /\ active' = started + 1

\* Mistake: the prompter does not care whether it is busy.
SubmitAnyway(kind) ==
  /\ Spawn(kind, proc)
  /\ UNCHANGED <<inProject, files, meeting, pardon, history>>

\* sayToRoom and runMeetHelper.
Submit(kind) ==
  /\ ~busy
  /\ Spawn(kind, proc)
  /\ UNCHANGED <<inProject, files, meeting, pardon, history>>

\* currentMeetId reads the pointer of the meetings outside projects, whichever is used.
FindsMeeting == current /\ ~inProject

\* runContinueParked.
SubmitContinue ==
  /\ FindsMeeting /\ Parked
  /\ Submit("continue")

\* runPardonInterrupt of a room that does nothing.
SubmitPardon ==
  /\ ~busy /\ active = 0
  /\ Spawn("pardon", proc)
  /\ UNCHANGED <<inProject, files, meeting, pardon, history>>

\* runPardonInterrupt, in an open meeting, asks the round to pause and waits.  Nothing
\* keeps the user from another pardon while one waits.
AskForPause ==
  /\ (busy \/ active # 0) /\ current /\ started + pardon.waiting + pardon.killed < MaxProcs
  /\ request' = (request \/ ~inProject)
  /\ pardon' = [pardon EXCEPT !.waiting = @ + 1]
  /\ UNCHANGED <<inProject, stack, round, meeting, proc, started, busy, active, history>>

ClearRequest == request' = (request /\ inProject)

\* The round is over, paused or not.
PauseSeen ==
  /\ pardon.waiting > 0
  /\ active = 0 /\ (~busy \/ (~inProject /\ Parked))
  /\ pardon' = [pardon EXCEPT !.waiting = @ - 1]
  /\ ClearRequest
  /\ Spawn("pardon", proc)
  /\ UNCHANGED <<inProject, stack, round, meeting, history>>

\* The 12 seconds are up: the process is told to stop, and the round in the file is
\* parked, whosever it is.
GraceOver ==
  /\ pardon.waiting > 0 /\ pardon.killed < MaxProcs /\ active # 0
  /\ pardon' = [waiting |-> pardon.waiting - 1, killed |-> pardon.killed + 1]
  /\ proc' = Kill(active)
  /\ stopped' = TRUE
  /\ stack' = IF ~inProject /\ ~Parked THEN ParkRound ELSE stack
  /\ misparked' = \/ misparked
                  \/ stack' # stack /\ \E o \in Procs \ {active} : AtWork(o) /\ ~proc[o].sig
  /\ UNCHANGED <<inProject, round, request, meeting, started, busy, active, picked, spoke, twice,
                 dropped, crossed>>

\* 400 ms later.
PardonAfterKill ==
  /\ pardon.killed > 0
  /\ pardon' = [pardon EXCEPT !.killed = @ - 1]
  /\ ClearRequest
  /\ Spawn("pardon", proc)
  /\ UNCHANGED <<inProject, stack, round, meeting, history>>

\* handleCtrlC of a busy room.  The user gives the line up.
CtrlC ==
  /\ busy \/ active # 0
  /\ proc' = Kill(active)
  /\ active' = 0
  /\ busy' = FALSE
  /\ stopped' = TRUE
  /\ UNCHANGED <<inProject, files, meeting, started, pardon, picked, spoke, twice, dropped, crossed,
                 misparked>>

\* A child's close event, whichever child it is.
Close(p) ==
  /\ proc[p].pc = "gone"
  /\ proc' = [proc EXCEPT ![p] = Over(p, "closed")]
  /\ active' = IF active = p THEN 0 ELSE active
  /\ busy' = FALSE
  /\ UNCHANGED <<inProject, files, meeting, started, pardon, history>>

-----------------------------------------------------------------------------
(* A process at its round.  Operators with a q finish the step of process p, which has *)
(* become q, and of the files, which have become rd, st and rq.                         *)

Files(rd, st, rq) == round' = rd /\ stack' = st /\ request' = rq

Go(p, q, pc) == proc' = [proc EXCEPT ![p] = [q EXCEPT !.pc = pc]]
Exit(p)      == proc' = [proc EXCEPT ![p] = Over(p, "gone")]

\* colabo's loop between two agents.  After the last one it reports once more.
NextAgent(p, q, rd, st, rq) ==
  IF q.agents = <<>>
  THEN Go(p, [q EXCEPT !.last = TRUE], "pick") /\ Files(rd, NoStack, FALSE)
  ELSE IF rq
  THEN /\ Exit(p)
       /\ Files(rd, [colabo |-> TRUE, line |-> q.line, rest |-> q.agents], FALSE)
  ELSE Go(p, q, "agent") /\ Files(rd, st, rq)

\* The end of sayTurn: the copy of the meeting that was read at its start is saved.
EndRound(p, q, rd, st, rq) ==
  /\ saved' = "open"
  /\ IF q.colabo /\ ~q.last THEN NextAgent(p, q, rd, st, rq)
     ELSE Exit(p) /\ Files(rd, st, rq)

\* sayTurn's loop between two speakers: it ends, it pauses, or the next one speaks.
NextSpeaker(p, q, rd, rq) ==
  LET st == IF q.kind = "continue" /\ ~q.colabo THEN NoStack ELSE stack IN
  IF q.todo = <<>>
  THEN EndRound(p, q, NoRound, st, rq) /\ UNCHANGED dropped
  ELSE IF rq
  THEN /\ EndRound(p, [q EXCEPT !.todo = <<>>], rd,
                   [colabo |-> FALSE, line |-> rd.line, rest |-> rd.rest], FALSE)
       /\ dropped' = dropped \cup ({stack.line} \ {0, rd.line})
  ELSE Go(p, q, "speak") /\ Files(rd, stack, rq) /\ UNCHANGED <<saved, dropped>>

\* Whoever answers in a colabo's own rounds answers no line.
LineOf(q) == IF q.colabo THEN 0 ELSE q.line

OtherAtWork(p) ==
  \E o \in Procs : o # p /\ AtWork(o)

\* writePardonRound and the first turn of the loop.
BeginRound(p, q, speakers, rq) ==
  /\ NextSpeaker(p, [q EXCEPT !.todo = speakers], [line |-> LineOf(q), rest |-> speakers], rq)
  /\ picked' = IF LineOf(q) = 0 THEN picked
               ELSE [picked EXCEPT ![q.line] = @ \cup Range(speakers)]

-----------------------------------------------------------------------------
(* The processes *)

\* requireOpenMeeting throws, or there is nothing to continue.
NothingToDo(p) ==
  /\ proc[p].pc = "start"
  /\ ~current \/ (proc[p].kind = "continue" /\ ~Parked)
  /\ Exit(p)
  /\ UNCHANGED <<inProject, files, meeting, started, prompter, history>>

\* Mistake: nobody asks whether the meeting is open.
StartsAnyway(p, kind) ==
  /\ proc[p].pc = "start" /\ proc[p].kind = kind
  /\ UNCHANGED <<inProject, started, prompter, spoke, twice, stopped, misparked>>
  /\ crossed' = (crossed \/ OtherAtWork(p))

Starts(p, kind) ==
  /\ proc[p].pc = "start" /\ proc[p].kind = kind /\ current
  /\ UNCHANGED <<inProject, started, prompter, spoke, twice, stopped, misparked>>
  /\ crossed' = (crossed \/ OtherAtWork(p))

\* A new line: whatever is parked is forgotten, and the chair picks.
SayStarts(p) ==
  /\ Starts(p, "say")
  /\ Files(round, NoStack, FALSE)
  /\ dropped' = dropped \cup ({stack.line} \ {0})
  /\ Go(p, proc[p], "pick")
  /\ UNCHANGED <<meeting, picked>>

\* A side turn: it leaves what is parked, and has its speakers at once.
PardonStarts(p) ==
  /\ Starts(p, "pardon")
  /\ \E speakers \in Picks \ {<<>>} : BeginRound(p, proc[p], speakers, request)
  /\ UNCHANGED current

\* Mistake: the chair takes part in a colabo.
AgentListsWithChair == Picks \ {<<>>}

AgentLists == {list \in Picks : list # <<>> /\ Range(list) \subseteq Agents}

\* A fresh colabo posts its question first.
ColaboStarts(p) ==
  /\ Starts(p, "colabo")
  /\ Files(round, NoStack, FALSE)
  /\ dropped' = dropped \cup ({stack.line} \ {0})
  /\ \E list \in AgentLists :
       /\ Go(p, [proc[p] EXCEPT !.colabo = TRUE, !.agents = list], "pick")
       /\ picked' = [picked EXCEPT ![p] = Range(list)]
  /\ UNCHANGED meeting

\* continueParkedRound: the stack is taken off before the round goes on.
ContinueStarts(p) ==
  LET q == [proc[p] EXCEPT !.line = stack.line] IN
  /\ Starts(p, "continue") /\ Parked
  /\ IF stack.colabo
     THEN /\ Go(p, [q EXCEPT !.colabo = TRUE, !.agents = stack.rest], "agent")
          /\ Files(round, NoStack, FALSE)
     ELSE /\ Go(p, [q EXCEPT !.todo = stack.rest], "speak")
          /\ Files([line |-> stack.line, rest |-> stack.rest], NoStack, FALSE)
  /\ UNCHANGED <<meeting, picked, dropped>>

\* endMeeting, up to its report to the orchestrator.
EndStarts(p) ==
  /\ Starts(p, "end")
  /\ saved' = "ended" /\ current' = FALSE
  /\ Exit(p)
  /\ UNCHANGED <<files, picked, dropped>>

\* chairPickSpeakers returns: for a colabo's report the chair, if anyone.
ChairPicks(p) ==
  /\ proc[p].pc = "pick"
  /\ \E speakers \in IF proc[p].colabo THEN {<<>>, <<Chair>>} ELSE Picks :
       BeginRound(p, proc[p], speakers, request)
  /\ UNCHANGED <<inProject, current, started, prompter, spoke, twice, stopped, crossed,
                 misparked>>

Says(line, g) ==
  IF line = 0 THEN UNCHANGED <<spoke, twice>>
  ELSE /\ spoke' = [spoke EXCEPT ![line] = @ \cup {g}]
       /\ twice' = IF g \in spoke[line] THEN [twice EXCEPT ![line] = @ \cup {g}] ELSE twice

\* A chair that answers alone may cue an agent, who speaks next; but not in a line that
\* /continue took up.
Cued(q) ==
  {<<>>} \cup
  {<<g>> : g \in IF q.todo = <<Chair>>
                    /\ (q.colabo \/ (q.kind # "continue" /\ picked[q.line] = {Chair}))
                 THEN Agents ELSE {}}

\* Mistake: the round file keeps who has just spoken.
UnspokenAll(q, cued) == q.todo \o cued

Unspoken(q, cued) == Tail(q.todo) \o cued

\* agentReply returns, and the round file says who is left.  The line in it is the file's.
Reply(p) ==
  LET q == proc[p]
      line == IF round = NoRound THEN LineOf(q) ELSE round.line
  IN
  /\ q.pc = "speak"
  /\ Says(LineOf(q), Head(q.todo))
  /\ \E cued \in Cued(q) :
       LET left == Tail(q.todo) \o cued IN
       /\ NextSpeaker(p, [q EXCEPT !.todo = left], [line |-> line, rest |-> Unspoken(q, cued)], request)
       /\ picked' = IF LineOf(q) = 0 THEN picked
                    ELSE [picked EXCEPT ![q.line] = @ \cup Range(cued)]
  /\ crossed' = (crossed \/ q.sig)
  /\ UNCHANGED <<inProject, current, started, prompter, stopped, misparked>>

\* runAgent returns, and colabo posts the answer: to a meeting that is open.
AgentDone(p) ==
  LET q == proc[p] IN
  /\ q.pc = "agent"
  /\ Says(q.line, Head(q.agents))
  /\ IF current THEN Go(p, [q EXCEPT !.agents = Tail(@)], "pick") ELSE Exit(p)
  /\ crossed' = (crossed \/ q.sig)
  /\ UNCHANGED <<inProject, files, meeting, started, prompter, picked, dropped, stopped,
                 misparked>>

\* SIGTERM.  Before the handler is installed it just ends the process.  The handler
\* parks the round in the file unless one is parked: its own, by the prompter, or that
\* of another line.  It never runs in the process of a /colabo, which waits for another
\* one in spawnSync and exits after it.
Stops(p) ==
  LET q == proc[p] IN
  /\ Live(p) /\ q.sig
  /\ q.pc # "start" => q.kind # "colabo"
  /\ IF q.pc = "start" \/ ~current \/ Parked \/ round.rest = <<>>
     THEN /\ UNCHANGED <<stack, request>>
          /\ dropped' = dropped \cup (IF Parked THEN {q.line} \ {0, stack.line} ELSE {})
     ELSE stack' = ParkRound /\ request' = FALSE /\ UNCHANGED dropped
  /\ Exit(p)
  /\ UNCHANGED <<inProject, round, meeting, started, prompter, picked, spoke, twice, stopped, crossed,
                 misparked>>

-----------------------------------------------------------------------------

ProcStep(p) ==
  \/ NothingToDo(p) \/ SayStarts(p) \/ PardonStarts(p) \/ ColaboStarts(p)
  \/ ContinueStarts(p) \/ EndStarts(p)
  \/ ChairPicks(p) \/ Reply(p) \/ AgentDone(p)

PrompterStep ==
  \/ PauseSeen \/ GraceOver \/ PardonAfterKill
  \/ \E p \in Procs : Close(p)

UserStep ==
  \/ \E k \in {"say", "colabo", "end"} : Submit(k)
  \/ SubmitContinue \/ SubmitPardon \/ AskForPause \/ CtrlC

Next ==
  \/ UserStep \/ PrompterStep
  \/ \E p \in Procs : ProcStep(p) \/ Stops(p)

Spec == Init /\ [][Next]_vars

-----------------------------------------------------------------------------
(* Properties *)

\* Those a line still waits for: of a process, or parked.
Awaited(line) ==
  (UNION {Range(proc[p].todo) \cup Range(proc[p].agents) :
            p \in {o \in Procs : Live(o) /\ proc[o].line = line}})
  \cup (IF stack.line = line THEN Range(stack.rest) ELSE {})

\* Whoever was to answer a line or a pardon has, or still will, or is parked for
\* /continue, unless the line was forgotten for another one; as long as the processes
\* keep out of each other's way.
NobodyIsLost ==
  ~crossed =>
    \A line \in Procs \ dropped :
      proc[line].kind # "colabo" => picked[line] \ spoke[line] \subseteq Awaited(line)

\* Nobody answers a line twice, however often its round was paused, stopped and
\* continued; as long as the processes keep out of each other's way, and the prompter
\* parks no round that goes on.
NobodyIsAskedTwice ==
  ~crossed /\ ~misparked => \A line \in Procs : twice[line] = {}

\* The prompter keeps its processes apart until it tells one of them to stop.
OneAtATime == crossed => stopped

\* The meeting's file and the pointer agree on whether the meeting is over, though each
\* round saves the copy it read when it began.
SavedAsLeft ==
  ~crossed => (current <=> saved = "open")

\* What a test of the room would expect of /continue: when the room is at rest after a
\* pardon was answered, whatever line still waits for someone is what it takes up.
ContinueResumes ==
  /\ ~crossed /\ ~busy /\ active = 0 /\ pardon.waiting + pardon.killed = 0 /\ (\A p \in Procs : ~Live(p)) /\ current
  /\ \E p \in Procs : proc[p].kind = "pardon" /\ picked[p] # {} /\ picked[p] = spoke[p]
  =>
  \A line \in Procs \ dropped : picked[line] # spoke[line] => FindsMeeting /\ stack.line = line

=============================================================================

------------------------------ MODULE DeskTurn ------------------------------
(***************************************************************************)
(* A project's chat and its agent session: how the desk runner carries     *)
(* phone messages into the session and finished turns back into the chat.  *)
(*                                                                         *)
(* The session belongs to the Hub's OpenCode server.  Three parties write  *)
(* to it: the desk runner (desk-runner.mjs), which asks for one phone      *)
(* message at a time and tries one model after another, the terminals      *)
(* attached to the session, and OpenCode, which answers one prompt at a    *)
(* time.  The runner copies what is finished into the chat and keeps a     *)
(* cursor.  Each call to Mongo or OpenCode is a step; the runner may stop  *)
(* between two of them, and any call may throw.                            *)
(*                                                                         *)
(* A row of the session is named by its position, which is what the order  *)
(* of OpenCode's ids says.  The text of a prompt is the message it comes   *)
(* from.  Which session a chat has is DeskSession's subject; here it has   *)
(* one.                                                                    *)
(***************************************************************************)
EXTENDS Naturals, Sequences, FiniteSets, Functions

CONSTANTS
  Phone,        \* messages phones send in the chat
  Slash,        \* those that name an OpenCode command
  Typed,        \* what may be typed at a terminal: texts of its own or a phone's
  MaxModels,    \* models hubModelChain may list, at most
  ContextRows,  \* how far back a mirror looks for phone texts (50)
  MaxRows,      \* bound: rows of the session
  MaxFaults,    \* bound: crashes of the runner or of OpenCode, and calls that fail
  None

ASSUME DeskTurnAssumption ==
  /\ Slash \subseteq Phone
  /\ ContextRows \in Nat \ {0} /\ MaxRows \in Nat /\ MaxFaults \in Nat
  /\ MaxModels \in Nat \ {0}
  /\ None \notin Phone

VARIABLES
  status,    \* the reply to each phone message
  replyTo,   \* the row of the session its replyMessageId names, 0 for none
  thread,    \* the rows of the chat, in the order of their seq
  session,   \* the rows of the session
  queue,     \* prompts OpenCode has yet to answer
  open,      \* the answer it is writing, 0 for none
  cursor,    \* lastMirroredId
  pc,        \* where the runner is in tick
  phase,     \* why it mirrors: before a turn, after it, or on its own
  job,       \* the message it has claimed
  slash,     \* whether that runs as a command
  todo,      \* rows the mirror has yet to push
  last,      \* the last row it went past
  got,       \* the last assistant row it pushed
  left,      \* models left to try, this one included
  fellBack,  \* whether a model has been given up in this turn
  prompt,    \* the row the runner's attempt wrote
  faults,
  orphaned,  \* history: OpenCode died while it wrote an answer
  mixed,     \* history: messages whose turn shared the session with other prompts
  botched,   \* history: messages whose turn broke off after it was sent
  hidden     \* history: prompts a command's mirror has dropped

chat     == <<status, replyTo, thread>>
opencode == <<session, queue, open>>
mirror   == <<phase, todo, last, got>>
turn     == <<job, slash, left, fellBack, prompt>>
history  == <<orphaned, mixed, botched, hidden>>
vars     == <<chat, opencode, cursor, pc, mirror, turn, faults, history>>

Rows == 1..Len(session)

\* The text a prompt has once OpenCode has it: a command is expanded.
Template(m) == <<"template", m>>

Texts == Phone \cup Typed \cup {Template(m) : m \in Slash} \cup {None}

SessionRow == [role : {"user", "assistant"}, by : {"runner", "terminal"}, text : Texts,
               state : {"text", "open", "empty", "error"}, to : 0..MaxRows]

ChatRow == [kind : {"phone", "command", "note"}, id : Phone]
             \cup [kind : {"turn"}, id : 1..MaxRows]

Steps == {"idle", "read", "push", "begin", "attempt", "ask", "reply", "complete", "failing"}

TypeOK ==
  /\ status \in [Phone -> {"none", "pending", "claimed", "replied", "error"}]
  /\ replyTo \in [Phone -> 0..MaxRows]
  /\ thread \in Seq(ChatRow)
  /\ session \in Seq(SessionRow) /\ Len(session) <= MaxRows
  /\ queue \subseteq Rows /\ open \in Rows \cup {0} /\ cursor \in Rows \cup {0}
  /\ pc \in Steps /\ phase \in {"before", "after", "idle"}
  /\ job \in Phone \cup {None} /\ slash \in BOOLEAN
  /\ todo \subseteq Rows /\ last \in 0..Len(session) /\ got \in 0..Len(session)
  /\ left \in 0..MaxModels /\ fellBack \in BOOLEAN
  /\ prompt \in 0..MaxRows
  /\ faults \in 0..MaxFaults
  /\ orphaned \in BOOLEAN /\ mixed \subseteq Phone /\ botched \subseteq Phone
  /\ hidden \subseteq Rows

Init ==
  /\ status = [m \in Phone |-> "none"] /\ replyTo = [m \in Phone |-> 0]
  /\ thread = <<>> /\ session = <<>>
  /\ queue = {} /\ open = 0 /\ cursor = 0
  /\ pc = "idle" /\ phase = "idle" /\ job = None /\ slash = FALSE
  /\ todo = {} /\ last = 0 /\ got = 0
  /\ left = 0 /\ fellBack = FALSE /\ prompt = 0
  /\ faults = 0
  /\ orphaned = FALSE /\ mixed = {} /\ botched = {} /\ hidden = {}

-----------------------------------------------------------------------------
(* The chat and the session *)

ChatHas(kind, x) == [kind |-> kind, id |-> x] \in Range(thread)

\* pushMessages: a row the chat has already is not stored again.
Store(kind, x) ==
  thread' = IF ChatHas(kind, x) THEN thread ELSE Append(thread, [kind |-> kind, id |-> x])

\* The texts of the phone rows among the chat's latest.
PhoneTexts ==
  {thread[i].id : i \in {j \in DOMAIN thread :
                           thread[j].kind = "phone" /\ j > Len(thread) - ContextRows}}

Prompt(text, by) == [role |-> "user", by |-> by, text |-> text, state |-> "text", to |-> 0]

\* A prompt and its answer fit into the session.
HasRoom == Len(session) + Cardinality(queue) + 2 <= MaxRows

Ask(text, by) ==
  /\ session' = Append(session, Prompt(text, by))
  /\ queue' = queue \cup {Len(session) + 1}

Fault == faults < MaxFaults /\ faults' = faults + 1

\* OpenCode ends the answer it is writing and forgets its queue.
Abort ==
  /\ session' = IF open = 0 THEN session ELSE [session EXCEPT ![open].state = "error"]
  /\ open' = 0
  /\ queue' = {}

Answered(i) ==
  \E a \in Rows : session[a].to = i /\ session[a].state # "open"

-----------------------------------------------------------------------------
(* Phones, terminals and OpenCode *)

SendMessage(m) ==
  /\ status[m] = "none"
  /\ status' = [status EXCEPT ![m] = "pending"]
  /\ Store("phone", m)
  /\ UNCHANGED <<replyTo, opencode, cursor, pc, mirror, turn, faults, history>>

TypePrompt(text) ==
  /\ HasRoom
  /\ Ask(text, "terminal")
  /\ mixed' = mixed \cup ({job} \ {None})
  /\ UNCHANGED <<chat, open, cursor, pc, mirror, turn, faults, orphaned, botched, hidden>>

StartAnswer ==
  /\ open = 0 /\ queue # {}
  /\ \E i \in queue :
       /\ \A j \in queue : i <= j
       /\ session' = Append(session, [role |-> "assistant", by |-> session[i].by, text |-> None,
                                      state |-> "open", to |-> i])
       /\ queue' = queue \ {i}
  /\ open' = Len(session) + 1
  /\ UNCHANGED <<chat, cursor, pc, mirror, turn, faults, history>>

\* With text, with tool output only, or with the provider's error.
FinishAnswer(outcome) ==
  /\ open # 0
  /\ session' = [session EXCEPT ![open].state = outcome]
  /\ open' = 0
  /\ UNCHANGED <<chat, queue, cursor, pc, mirror, turn, faults, history>>

\* Escape, pressed at a terminal.
TerminalAborts ==
  /\ open # 0
  /\ Abort
  /\ UNCHANGED <<chat, cursor, pc, mirror, turn, faults, history>>

\* The server restarts: an answer it was writing stays unfinished for good.
OpenCodeDies ==
  /\ open # 0 \/ queue # {}
  /\ Fault
  /\ queue' = {} /\ open' = 0
  /\ orphaned' = (orphaned \/ open # 0)
  /\ UNCHANGED <<chat, session, cursor, pc, mirror, turn, mixed, botched, hidden>>

-----------------------------------------------------------------------------
(* The mirror *)

\* The mirror's variables start afresh for phase p.
Mirror(p) ==
  /\ pc' = "read"
  /\ phase' = p
  /\ todo' = {} /\ last' = 0 /\ got' = 0

\* Mistake: an unfinished answer is passed over.
FinishedAnywhere ==
  {i \in Rows : i > cursor /\ session[i].state # "open"}

\* Mistake: an answer is finished when it has text or an error.
FinishedWithText ==
  {i \in Rows : i > cursor
                /\ \A j \in Rows : cursor < j /\ j <= i => session[j].state \notin {"open", "empty"}}

\* isFinished: the rows past the cursor up to the first unfinished answer.
Finished ==
  {i \in Rows : i > cursor /\ \A j \in Rows : cursor < j /\ j <= i => session[j].state # "open"}

\* Mistake: only a command's mirror drops prompts.
DropsForCommands(i) == session[i].role = "user" /\ phase = "after" /\ slash

\* A prompt that is not copied: the phone's own, or any in a command's mirror.
Drops(i) ==
  /\ session[i].role = "user"
  /\ (phase = "after" /\ slash) \/ session[i].text \in PhoneTexts

\* One reading of the cursor, the session and the chat decides what is pushed.
MirrorRead ==
  /\ pc = "read"
  /\ todo' = {i \in Finished : session[i].state = "text" /\ ~Drops(i)}
  /\ \E i \in Finished \cup {cursor} :
       /\ \A j \in Finished : j <= i
       /\ last' = i
  /\ hidden' = hidden \cup {i \in Finished : phase = "after" /\ slash /\ session[i].role = "user"}
  /\ pc' = "push"
  /\ UNCHANGED <<chat, opencode, cursor, phase, got, turn, faults, orphaned, mixed, botched>>

\* The rows are pushed one after another, in their order.
MirrorPush ==
  /\ pc = "push"
  /\ \E i \in todo :
       /\ \A j \in todo : i <= j
       /\ Store("turn", i)
       /\ got' = IF session[i].role = "assistant" THEN i ELSE got
       /\ todo' = todo \ {i}
  /\ UNCHANGED <<status, replyTo, opencode, cursor, pc, phase, last, turn, faults, history>>

AfterMirror ==
  CASE phase = "before" -> "begin" [] phase = "after" -> "reply" [] OTHER -> "idle"

\* Mistake: the mirror before a turn leaves the cursor where it was.
MirrorSaveLater ==
  /\ pc = "push" /\ todo = {}
  /\ cursor' = IF phase = "before" THEN cursor ELSE last
  /\ pc' = AfterMirror
  /\ UNCHANGED <<chat, opencode, mirror, turn, faults, history>>

\* setDeskMirrored, unless nothing was gone past.
MirrorSave ==
  /\ pc = "push" /\ todo = {}
  /\ cursor' = last
  /\ pc' = AfterMirror
  /\ UNCHANGED <<chat, opencode, mirror, turn, faults, history>>

-----------------------------------------------------------------------------
(* The turn *)

Claimable(m) == status[m] \in {"pending", "claimed"}

\* claimNextPendingReply; a claim the only runner does not know about is one it lost, and
\* is stale in time.  The session is there, and the chat is brought up to date with it.
Claim(m) ==
  /\ pc = "idle" /\ Claimable(m)
  /\ status' = [status EXCEPT ![m] = "claimed"]
  /\ job' = m
  /\ mixed' = IF open # 0 \/ queue # {} THEN mixed \cup {m} ELSE mixed
  /\ Mirror("before")
  /\ UNCHANGED <<replyTo, thread, opencode, cursor, slash, left, fellBack, prompt, faults,
                 orphaned, botched, hidden>>

\* With nothing to claim, the runner mirrors every mirrorMs.
MirrorAll ==
  /\ pc = "idle" /\ \A m \in Phone : ~Claimable(m)
  /\ Finished # {}
  /\ Mirror("idle")
  /\ UNCHANGED <<chat, opencode, cursor, turn, faults, history>>

\* resolveSlashCommand, and for a prompt the models hubModelChain finds usable.  A
\* listing that fails makes a command a prompt, and leaves OpenCode's own choice.
BeginTurn ==
  /\ pc = "begin"
  /\ \/ slash' = TRUE /\ job \in Slash /\ left' = 1
     \/ slash' = FALSE /\ left' \in 1..MaxModels
  /\ pc' = "attempt"
  /\ UNCHANGED <<chat, opencode, cursor, mirror, job, fellBack, prompt, faults, history>>

\* sendMessage or runCommand, with its watch.
Attempt ==
  /\ pc = "attempt" /\ HasRoom
  /\ Ask(IF slash THEN Template(job) ELSE job, "runner")
  /\ prompt' = Len(session) + 1
  /\ pc' = "ask"
  /\ UNCHANGED <<chat, open, cursor, mirror, job, slash, left, fellBack, faults, history>>

\* The call returns when the prompt has been answered, be it with an error.
TurnReturns ==
  /\ pc = "ask" /\ Answered(prompt)
  /\ Mirror("after")
  /\ UNCHANGED <<chat, opencode, cursor, turn, faults, history>>

Fail(m) ==
  /\ pc' = "failing"
  /\ botched' = botched \cup {m}

\* Mistake: the chain has no end.
NextModelForEver ==
  /\ left' = left - 1
  /\ fellBack' = TRUE
  /\ pc' = "attempt"
  /\ UNCHANGED botched

\* The failure is put down to the model, and the next one is asked.
NextModel ==
  /\ left > 1
  /\ left' = left - 1
  /\ fellBack' = TRUE
  /\ pc' = "attempt"
  /\ UNCHANGED botched

\* turnWithModelWatch has seen an answer with an error, whosever it is.  It goes back two
\* seconds, to the row before the prompt at most.
WatchSeesError ==
  \E a \in Rows : a >= prompt - 1 /\ session[a].role = "assistant" /\ session[a].state = "error"

\* The watch ends the turn, or the call to OpenCode does: an error of the model or its
\* provider, of OpenCode itself, the time limit, no connection.  What the prompt has
\* become by then is OpenCode's affair, and the abort may not get through.
TurnThrows ==
  /\ pc = "ask" /\ (WatchSeesError \/ ~Answered(prompt))
  /\ \/ Abort /\ UNCHANGED faults
     \/ Fault /\ UNCHANGED opencode
  /\ \/ NextModel
     \/ Fail(job) /\ UNCHANGED <<left, fellBack>>
  /\ UNCHANGED <<chat, cursor, mirror, job, slash, prompt, orphaned, mixed, hidden>>

\* The reply is the last assistant row of the mirror.  A command may have none: a note
\* stands for it.  A reply of another model than the first is followed by a note.
PushNotes ==
  /\ pc = "reply"
  /\ IF got = 0 /\ ~slash
     THEN Fail(job) /\ UNCHANGED thread
     ELSE /\ pc' = "complete"
          /\ IF got = 0 THEN Store("command", job)
             ELSE IF fellBack THEN Store("note", job) ELSE UNCHANGED thread
          /\ UNCHANGED botched
  /\ UNCHANGED <<status, replyTo, opencode, cursor, mirror, turn, faults, orphaned, mixed, hidden>>

Rest ==
  /\ pc' = "idle" /\ phase' = "idle" /\ job' = None /\ slash' = FALSE
  /\ todo' = {} /\ last' = 0 /\ got' = 0
  /\ left' = 0 /\ fellBack' = FALSE /\ prompt' = 0

CompleteReply ==
  /\ pc = "complete"
  /\ status' = [status EXCEPT ![job] = "replied"]
  /\ replyTo' = [replyTo EXCEPT ![job] = got]
  /\ Rest
  /\ UNCHANGED <<thread, opencode, cursor, faults, history>>

\* failReply may throw too, which leaves the message claimed.
FailReply ==
  /\ pc = "failing"
  /\ \/ status' = [status EXCEPT ![job] = "error"] /\ UNCHANGED faults
     \/ Fault /\ UNCHANGED status
  /\ Rest
  /\ UNCHANGED <<replyTo, thread, opencode, cursor, history>>

\* A call to Mongo or to OpenCode throws; a prompt beyond the bound does, too.
CallFails ==
  /\ pc \in {"read", "push", "begin", "attempt", "reply", "complete"}
  /\ IF phase = "idle" THEN Rest /\ UNCHANGED botched
     ELSE Fail(job) /\ UNCHANGED <<mirror, turn>>
  /\ IF pc = "attempt" /\ ~HasRoom THEN UNCHANGED faults ELSE Fault
  /\ UNCHANGED <<chat, opencode, cursor, orphaned, mixed, hidden>>

\* The Hub's runner process stops and starts again.
RunnerDies ==
  /\ pc # "idle"
  /\ Fault
  /\ botched' = botched \cup ({job} \ {None})
  /\ Rest
  /\ UNCHANGED <<chat, opencode, cursor, orphaned, mixed, hidden>>

-----------------------------------------------------------------------------

RunnerStep ==
  \/ MirrorRead \/ MirrorPush \/ MirrorSave
  \/ (\E m \in Phone : Claim(m)) \/ MirrorAll
  \/ BeginTurn \/ Attempt \/ TurnReturns \/ TurnThrows
  \/ PushNotes \/ CompleteReply \/ FailReply \/ CallFails

OpenCodeStep ==
  StartAnswer \/ \E o \in {"text", "empty", "error"} : FinishAnswer(o)

Next ==
  \/ \E m \in Phone : SendMessage(m)
  \/ \E x \in Typed : TypePrompt(x)
  \/ OpenCodeStep \/ TerminalAborts \/ OpenCodeDies
  \/ RunnerStep \/ RunnerDies

Spec == Init /\ [][Next]_vars

\* OpenCode answers its prompts, and the runner keeps ticking.  Nobody has to send, to
\* type, to abort or to crash.
Fairness == WF_vars(OpenCodeStep) /\ WF_vars(RunnerStep)

FairSpec == Spec /\ Fairness

-----------------------------------------------------------------------------
(* Properties *)

Mirrored(i) == ChatHas("turn", i)

\* What lies at or below the cursor is finished, and is in the chat unless it has no
\* text or is a prompt the runner may leave out: one with the text of a phone's
\* message, or one that was there when a command's turn was mirrored.
NothingSkipped ==
  \A i \in 1..cursor :
    /\ session[i].state # "open"
    /\ session[i].state = "text" =>
         \/ Mirrored(i)
         \/ /\ session[i].role = "user"
            /\ i \in hidden \/ ChatHas("phone", session[i].text)

\* A phone's own prompt does not come back to it, except a command's template after
\* its turn broke off, and a text so far back in the chat that the mirror forgot it.
NoPhoneEcho ==
  \A q \in DOMAIN thread :
    LET i == thread[q].id IN
    thread[q].kind = "turn" /\ session[i].role = "user" /\ session[i].by = "runner" =>
      \/ \E m \in botched : session[i].text = Template(m)
      \/ \E p \in DOMAIN thread :
           thread[p] = [kind |-> "phone", id |-> session[i].text] /\ q - p > ContextRows

\* The reply a message is completed with is in the chat, is the answer to one of its
\* own prompts unless others prompted the session during its turn, and is no other
\* message's reply.
ReplyIsItsOwn ==
  /\ \A m \in Phone : status[m] = "replied" =>
       \/ replyTo[m] = 0 /\ ChatHas("command", m)
       \/ /\ Mirrored(replyTo[m]) /\ session[replyTo[m]].state = "text"
          /\ m \in mixed \/ session[session[replyTo[m]].to].text \in {m, Template(m)}
  /\ \A m, n \in Phone : replyTo[m] = replyTo[n] /\ replyTo[m] # 0 => m = n

\* Every row of the session is gone past in the end, unless OpenCode died and left an
\* answer unfinished for good.
EventuallyMirrored == <>[](cursor = Len(session) \/ orphaned)

=============================================================================

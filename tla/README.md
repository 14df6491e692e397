# GotchiBot in TLA+

GotchiBot lets a person talk from a phone to software agents that run on desks (a
MacBook, a sandbox, a Hub server).  A **Hub**, an HTTP API over MongoDB
(`services/gotchibot-api/`), stores the chats and hands phone messages to **runners**
that ask a model for an answer.  **Desks** push and pull chat rows with
`scripts/chat-sync.mjs`, and keep their own state in JSON files under `sessions/`.  The
**phone app** (`services/gotchibot-api/app/js/`) polls the Hub.  At a desk, gotchis meet
in a **meeting room**, where the user talks to several of them at once
(`scripts/gotchi-meet.mjs`, `scripts/meet-room-prompter.mjs`).

This directory holds TLA+ modules for the parts of that system in which several
processes, requests or callbacks interleave, TLC configurations that check them on small
instances, and TLAPS proofs for instances of any size.  All paths below are relative to
the repository's root; `PROJECT.json` maps every definition to the lines it stands for.

To check: `tlc -config X.cfg MCModule` for each run listed below, `tlapm XProofs.tla` for
each proof module.

## 1. Inventory

### Components that are modelled

**Reply queue** (`store.mjs` pushMessages, retryReply, claimNextPendingReply,
completeReply, failReply; `runner.mjs` tick; `desk-runner.mjs` tick).
*State:* the `reply` field of a user row: status, requestedAt, claimedAt, attempts,
runnerId, replyMessageId; the process of each runner has one message in hand.
*Operations:* a phone's message asks for a reply; a runner claims the oldest message of
its lane (`threadKind: "desk"` or not), calls the model, pushes the answer, completes the
reply; failures are reported; a claim older than its lease is up for grabs; the phone may
retry.  *Hard:* every step is a database call of another process, leases run out under
runners that are still at work, completeReply and failReply check nothing, any call can
fail or be applied without saying so.  *Correct when:* nobody is told "replied" without an
answer, a message is not answered twice while its lease holds, each lane is answered by
its own runners, every message is settled.

**Chat log** (`store.mjs` pushMessages, nextSeq, upsertThreadMeta, pullMessages;
`chat-sync.mjs` cmdPull).  *State:* rows with a `seq` from one counter, unique
`(threadId, messageId)`, the thread's `lastSeq`; a desk's cursor file and its pull file of
the thread.  *Operations:* push a batch, page through the rows after a cursor, overwrite the
pull file with them, save the cursor.  *Hard:* draw and insert are two calls; batches are
repeated after a lost answer, possibly while the first is still running; pulls are capped,
broken off, run twice at once, and each overwrites what the one before has written.
*Correct when:* seqs are unique, senders are told the truth, rows never change, cursors skip
no row that was not written to the pull file, success means that everything came back.

**Project desk sessions** (`desk-runner.mjs` ensureDeskSession, startNewDeskSession,
adoptDeskSessionFromTerminal; `store.mjs` claim/start/adopt/resetDeskSession).  *State:*
per project the list of OpenCode sessions and the current one; the sessions OpenCode has.
*Hard:* runners and API requests race; OpenCode may lose a session at any time.
*Correct when:* callers that race agree, the current session is on the list (the mirror
finds its cursor there), losers leave nothing behind, a live session is never forgotten.

**Phone poller** (`app/js/poller.js`, startPoller in `chat.js`, clearPoller in
`state.js`).  *State:* running, generation, timer, tick in flight; the page's visibility.
*Hard:* stop, start and setIntervalMs arrive while a tick waits for its request.
*Correct when:* one loop, never two; none when hidden; and it keeps going.

**Agent graph edge log** (`scripts/agent-graph.mjs` recordEdge, flushOutbox, loadEdges,
watchEdges; sendMessage of `bot-inbox.mjs`, as far as it records an edge; graphWatch of
`desk-runner.mjs`; `store.mjs` putEdges, listEdges).  *State:* `sessions/graph/outbox.jsonl`
and its `.tmp`, the Hub's edges.  *Hard:* every process of a desk drains the same file with
no lock; an alert's own message is recorded too, and its drain, which nobody awaits, runs
beside the watch in the same process; requests time out after they were applied, processes
die between read, request, write and rename; two watches alert; every way to send an alert
may throw.  *Correct when:* an outage loses no row, rows reach the Hub, a failed handoff
reaches somebody, once.

**Phone chat view** (`app/js/chat.js`, `thread-model.js`, `compose-model.js`, `api.js`).
*State:* the message model with lastSeq, pending sends, the current thread, requests under
way.  *Hard:* load, poll, send, pull-after-send and retry overlap and answer out of order;
a send may be lost after the Hub has stored it.  *Correct when:* what was typed does not
vanish, nothing shows twice, nothing is missing for good, the reply's state shows.

**Desk turn** (`desk-runner.mjs` tick, answer, turnWithModelWatch, mirrorDeskSession;
`hub-model-chain.mjs`).  *State:* the rows of a project's OpenCode session, the chat, the
mirror's cursor, the message the runner has in hand, the models it has left to try.
*Operations:* claim a phone message, mirror what terminals did meanwhile, prompt the session
or run a command in it, watch for a model's error, try the next model, mirror the answer,
complete or fail the reply; with nothing to claim, mirror every few seconds.  *Hard:* phones,
terminals and the runner write to one session, OpenCode answers one prompt at a time, the
runner may stop and any call may fail between two of a dozen steps, and the only thing that
tells the phone's own prompt from a terminal's is its text.  *Correct when:* nothing said in
the session is missing from the chat, nothing comes back to the phone that typed it, a message
is completed with the answer to its own prompt, the mirror never gets stuck.

**Meeting room** (`gotchi-meet.mjs` sayTurn, askPardon, continueParkedRound, endMeeting and
its signal handlers; `meet-room-prompter.mjs`; `lib/meet-pardon.mjs`; `colabo.mjs`).
*State:* files of the meeting (`pardon.request`, `pardon-round.json`, `pardon-stack.json`,
`meeting.json`, `.current`), the prompter's sendBusy and activeChild, its child processes.
*Operations:* a line to the room, a pardon (a side turn while the round is parked), /continue,
/colabo, /end, Ctrl-C.  *Hard:* every one of them is a process of its own that takes minutes;
they know of each other by files with no lock, by SIGTERM, and by close events.  *Correct
when:* whoever was to answer does, once, or is parked for /continue; the room runs one thing
at a time; a meeting that is over stays over.

### Components that are not modelled

| component | state | what is hard about it |
|---|---|---|
| Thread access, titles, sharing (`store.mjs` ensurePhoneCanWriteThread, shareThread, upsertThreadMeta) | thread owner, sharing, title with titleUpdatedAt | check-then-write of owner and title |
| Pairing, tokens, wallet sign-in (`auth.mjs`, `wallet.mjs`, `store.mjs`) | codes, nonces, desks | one-time use, then a second write |
| Bot inbox (`bot-inbox.mjs`) | inbox and archive files | files written one after the other by several processes |
| Tickets and jobs (`project-tickets.mjs`), background jobs (`claude-jobs.mjs`, `claude-job-wake.mjs`, `desk-wake.mjs`) | ticket states, job files | limbo takeover, job files written by two processes |
| Snapshots and file sync (`projects.mjs`, `cockpit.mjs`, `tree.mjs`, `hub-project-sync.mjs`) | snapshots, synced files | read-modify-write; the Hub wins |
| Desk recovery supervisor (`hub-desk-recovery.mjs`, `infra-watch.mjs`), sandbox images (`sandbox.mjs`) | attempts, cooldown, pid locks | takeover of a dead owner's lock |
| Desk events (SSE in `server.mjs`), shared JSON files (`json-store.mjs`) | watchers; one JSON file | an event missed before registration; merges that race |
| Static files, PDF, speech, wallet RPC | none | input and output only |
| tmux and terminal scripts, onboarding, minting, templates, assets, patches, docs | – | shell glue, one-user dialogues, generated or vendored code |

*Why not.*  The modules follow a user's message from the phone to the model and back, then
what the desks coordinate by, then the room in which several processes answer one user: these
are the parts in which a wrong order loses what a person said.  What the table lists is either
a pair of calls whose window is described here and would be restated by a model of it (pairing,
sharing, snapshots, shared JSON files), or has no second actor (onboarding, minting), or
keeps state that a person repairs by running the command again (inbox, tickets, jobs,
recovery, images).  `PROJECT.json` lists the hazards of these parts that were met, at their
lines, with the remark that no property covers them.  Most of the repository's
hundred thousand lines are scripts that format, draw, spawn and ask; only a small share of its
lines decides anything the properties here are about.

### How they interact

```
 phone app --HTTP--> Hub API --Mongo--> chat log, reply queue, desk sessions, edges
   PhoneView           |                  ChatLog   ReplyQueue   DeskSession  GraphOutbox
   Poller              |                     ^          ^            ^
                       |                     |          |            |
 desk: chat-sync  -----+ push/pull           +-- runner.mjs / desk-runner.mjs (poll)
       agent-graph ----+ edges                     |  DeskTurn
                                              OpenCode server (sessions, external)

 room: prompter --spawn, SIGTERM--> gotchi-meet processes --files--> each other   MeetRoom
```

The components share MongoDB collections, on which one call is atomic and two are not,
files of a desk, on which one rename is atomic, and the event loop of the browser, in which
the code between two awaits is.  These three define the grain of the actions; in the meeting
room it is what a process does between two awaits.
`PhoneView` uses the results of the others in place of their detail: rows appear in the
order of their numbers (the exception is in `ChatLog`), a reply moves from waiting to
replied or error (`ReplyQueue`), ticks come again and again (`Poller`, KeepsPolling).
`DeskTurn` has one runner and one session where `ReplyQueue` has many runners and
`DeskSession` many sessions: it looks into the step from a claim to its answer, which
`ReplyQueue` has as one.

## 2. Plan

Order: first what a user's message passes through, then what desks coordinate by, then the
room.

| # | module | models | status |
|---|---|---|---|
| 1 | `ReplyQueue` | claims, leases, answers, retries | checked, proved |
| 1a | `ReplyPromise` | what the phone is promised of a reply; `ReplyQueue` implements it | checked, refinement proved |
| 2 | `ChatLog` | push, seq, pull, cursor | checked, proved |
| 2a | `ThreadLog` | a thread as a log to which rows are added one at a time; `ChatLog` implements it | checked, refinement proved |
| 3 | `DeskSession` | the current session of a project | checked, proved |
| 4 | `Poller` | the phone's poll loop | checked, proved |
| 5 | `GraphOutbox` | the edge log and its watches | checked, proved |
| 6 | `PhoneView` | one chat view against the Hub | checked, proved |
| 7 | `DeskTurn` | a turn of a session and the mirror | checked, proved |
| 8 | `MeetRoom` | a meeting's rounds, pardons and processes | checked, proved |

"Proved" means every safety invariant and action property of its run; liveness stays with
TLC.  What would come next: a promise of what a turn shows the phone that `DeskTurn` and
`ReplyQueue` implement together; a room in which a child's close event may clear another's
sendBusy, with what still holds there; one module for the files of the bot inbox and the
ticket jobs.

## 3. The modules

Every module begins with a comment that says which code it stands for and what its grain
is.  Definitions keep the code's names where they can (`ClaimNextPendingReply`,
`NextSeq`, `RunTick`).  A definition that a comment introduces as a *mistake* is not part of
a specification: it is the form another definition would have with a bug, and is there to
show that the properties notice.  Variables marked *history* are read by no guard; they
remember what properties speak about.

**ReplyQueue.**  `status`, `lane`, `requestedAt`, `age`, `attempts`, `replyTo` are the
fields of a row's `reply` (age is now minus claimedAt, which is all the code compares it
for); `answers` are the rows the runners push; `pc`, `job`, `ticket` are the local
variables of a runner's tick.  One action per database call: SendMessage,
RetryReplyCheck and RetryReplyWrite (two calls in the code), ClaimNextPendingReply (one
findOneAndUpdate), PushReply, CompleteReply, Heartbeat, FailReply.  Each call may fail
before or after it was applied.  The model call is ModelFails or the step to PushReply; Tick
may pass any time in between, so it may outlast any lease.

**ReplyPromise.**  The same seen from the phone: a message waits, is answered or fails, and may
be reopened.  Its variables are what a phone can see, the answers in the chat, and two
excuses: the message was reopened (a retry, or a claim older than its lease), or a call has
failed.  `ReplyQueue` maps pending and claimed to waiting and keeps the promise
(`KeepsPromise`, `Promise == INSTANCE ReplyPromise WITH ...`): one answer while there is
no excuse, never "answered" without an answer, and nothing is revised without one.

**ChatLog.**  A request goes through find, draw, insert for each of its messages, then meta
and answer, each one database call.  A pull is paging, writing, saving.  A row is its
message id, `log` its seq.  `file` is the desk's pull file of the thread: WritePull replaces
all of it with what this pull has read (`held`), as writeFileSync does.  What was in it at
some time is only history (`filed`).  Two more histories say what a pull was due: `owed`, the
rows past its cursor that were stored when it began, and `alone`, whether another pull has been
at work since.  `overtaken` collects rows that were inserted below a row that was there already:
the only ones a cursor can skip.  `PageCap` is per pull process, for `--max-pages` is per call.

**ThreadLog.**  The same seen by those who share the thread: rows that have a place for good,
what senders were told of it, the desk's marker, and the page it has before it.  A row is added in
one step, at the end or, as the exception, before another row; then it is late.  A page is
replaced as a whole (Show), and the marker passes only rows that were on one, or late.  `ChatLog`
maps seq, acks, cursor, pull file and overtaken rows to these and is shown to implement it
(`KeepsLog`).

**DeskSession.**  A caller runs ensure (read, probe, reset, create, claim, winner, delete),
start (create, record, divider) or adopt (probe, owner, current, known, switch); each step
is one call to Mongo or OpenCode.  OpenCode is external: it creates ids, a terminal creates
sessions too, and somebody may delete one.

**Poller.**  One action per callback: Hide and Show (visibilitychange), ClearPoller,
SetIntervalMs, Fire (a timeout), TickEnds (the request's answer).  `RunTick` and `Schedule`
keep the code's guards on the generation.

**GraphOutbox.**  What runs in a process is a *flow*: its own (`Own(p)`), which records, syncs
or watches, and, for each alert it has sent, the drain that sendMessage starts with `void
recordEdge(...)` and nobody awaits (`bot-inbox.mjs:218`).  `pc`, `rows` and `sent` are per flow.
A drain is read, post (per batch), write, rename; a watch is list, merge, fire, mark, and drains
again after each mark.  Flows of one process interleave where the code awaits: `Turn` keeps
apart what stands between two awaits (append and the read after it, write and rename), so a
process sees no half of its own replacement, and other processes do.  A command that is done
calls process.exit and cuts off the drains it has left running (`Return`, `Stop`).  `Fire` sends
the message, whose row ("told") it appends, or fails to (both inbox targets throw), with or without
a card on the board; the mark follows either way, as in the code, and `unheard` remembers an alert
that reached nobody (`AlertFails`).  The Hub's own watch reads and writes the store; its messages
go to the outbox of the Hub's host, which is left out.  The Hub's edges are the set of rows it
got, because rows of one edge carry different fields and putEdges upserts them.

**PhoneView.**  `hub` is a sequence of rows of all threads; `shown` the message model;
`pend` the sends; `req`, `retry`, `fetch` the requests under way, each answered by a step of
the Hub (HubSend, HubRetry, HubPage) and applied by a step of the page, so that answers
arrive late and out of order.

**DeskTurn.**  `session` is the sequence of rows of an OpenCode session: prompts by the runner or
a terminal, and answers, which are open, have text, are empty (tool output only) or end in
an error.  `pc` walks through tick: read, push and save of a mirror (`phase` says whether it
is before, after or between turns), begin, attempt, ask, reply, complete, failing.  One action
per call to Mongo or OpenCode; `CallFails` and `RunnerDies` may come between any two.
OpenCode is external: it answers the first prompt queued, aborts, or dies with an answer open.
A prompt's text is the message it is from, which is all the mirror's comparison can see; a
command's text is another one once OpenCode has expanded it.

**MeetRoom.**  `proc` are the children of the prompter with the local variables of their rounds,
`stack`, `round` and `request` the three pardon files, `saved` and `current` the meeting's file
and pointer, `busy` and `active` the prompter's.  An action is what a process does between
two awaits: it starts, its chair has picked, a gotchi has replied, an agent of a colabo is done;
its end writes the files and decides who is next.  SIGTERM is a flag that `Stops` acts on at
any time, as the handlers do: it parks the round in the file unless one is parked, be it the
process's own, which the prompter has parked after the twelve seconds, or that of another line.
Only in the second case is its line forgotten for another (`dropped`).  `pardon` counts the calls
of runPardonInterrupt that wait for the round, and those that wait for a kill: nothing
keeps the user from a second pardon while one waits (`meet-room-prompter.mjs:1649`).  Lines are named by the process that asked them, so that
`picked` and `spoke` can say who owes an answer to which.  `Picks` holds no list that names
somebody twice, as none of the code's ways to a list does (normalizeSpeakers,
resolveMentionedSpeakers, everyoneSpeakers, the fallbacks, agentIds).

## 4. The runs

| run | module, cfg | bounds | shows |
|---|---|---|---|
| reply_queue | MCReplyQueue, ReplyQueueRun | 1 message for either lane, 2 hub and 2 desk runners, leases of 1 and 2 ticks, 2 faults, 1 retry | one claim, one answer; two answers only after an expired lease or a retry; each lane answers its own; a claim has a worker unless something failed; the message is settled; the phone is told what it is promised |
| chat_log | MCChatLog, ChatLogRun | 2 messages, 2 requests at a time of one message each, 2 in all, 2 pull processes of one desk, pages of 1 row, one capped at 1 page and one at 2, 1 fault (388,113 states, 2 minutes) | unique seqs, true answers to senders and a lastSeq that covers them (AcksHold); rows stay; the cursor passes no row that was never in the pull file but a late one; success returns all that was due; every row is in the pull file at some time; the thread is a log as `ThreadLog` says |
| desk_session_safety | MCDeskSession, DeskSessionSafety | 2 projects, 2 sessions, 2 callers, 1 failure, 1 deleted session | the current session is listed; racing callers agree; no stray session; a live one is neither taken off the list nor, by a caller that found another one dead, out of its place as the current one |
| poller | MCPoller, PollerRun | 3 timers, 2 calls, 2 intervals, 3 returns of the page | one loop, quiet when stopped, alive when running |
| poller_stalls | MCPoller, PollerStalls | 1 return of the page | **violation:** see 6.1 |
| graph_outbox | MCGraphOutbox, GraphOutboxRun | 1 edge with its 5 rows, 2 processes, one of which watches, the drain its alert leaves running, the Hub's watch, batches of 2, 1 fault (492,815 states, 2½ minutes) | only rows appended into a drain are lost; a watch no other process works beside alerts once, though its own drains overlap; rows reach the Hub; a failed handoff is brought to somebody unless nobody would take the alert |
| graph_outbox_lost | MCGraphOutbox, GraphOutboxLost | 1 fault | **violation:** see 6.3 |
| phone_view | MCPhoneView, PhoneViewRun | 3 rows, pages of 2, 1 send, from a thread or a draft, 1 fault | gaps lie below own rows; once per thread; typed text stays; the view catches up; the reply shows |
| phone_view_behind | MCPhoneView, PhoneViewBehind | 2 rows, 1 send | **violation:** see 6.2 |
| desk_turn | MCDeskTurn, DeskTurnRun | a phone's prompt and a phone's command, a terminal's text, 2 models, sessions of 4 rows, a mirror that looks 2 rows back, 1 fault | the mirror skips nothing; no phone hears itself; each message gets its own reply; the mirror catches up |
| meet_room | MCMeetRoom, MeetRoomRun | a chair and 2 agents, who answer as the chair alone or as the two agents, 3 processes, 2 if in a project (1,249,089 states, 1 minute) | nobody picked is lost, or asked twice unless the prompter parked a round that goes on; the room runs one thing at a time; an ended meeting stays ended |
| meet_room_parked | MCMeetRoom, MeetRoomParked | the same, 3 processes | **violation:** see 6.4 |

*Why these bounds.*  A race here is between two actors, seldom a third that changes what
they race for: two runners of a lane, two requests, two pulls, two callers, two processes.
A fault and a second one, or a retry, cover a failure during the handling of another.  The
leases differ per lane (1 and 2) so that a mix-up shows, and an age of 3 is beyond both.
Pages of one or two rows make "the page is full" and "there is more" happen with two or three
rows (the code's 500).  A batch limit of 2 (200 in the code) splits the rows of one edge.
One message shows nothing of the order in which a lane claims several; no property is about
it, and the proofs hold for any number.  A mirror that looks back 2 rows (50 in the code)
forgets a phone's text while a session of 4 rows is mirrored.  Three processes in a meeting are a
round, the pardon that interrupts it and the /continue after it, or any other three things.  With a
project selected the prompter finds no parked round to continue (6.4), and InReach stops at two.
It also stops where two processes have been at work at once (NotCrossed): every property there
is open from then on; and where more pardons wait than there are processes left for their side
turns, but for one that waits for the last process alone.  What the bound on processes cuts off,
the theorems say.
In graph_outbox, InReach lets one of the two processes watch, or, where the Hub watches, only
one process work on the desk, with handoffs that fail rather than run late; an alert that nobody
takes (`unheard`) matters to EventuallyAlerted only, which is about runs in which the Hub watches.
The two page caps of chat_log are the ones that differ: after one page (the retry of
`hub-desk-recovery.mjs:226`), a pull is always cut short while there may be more; after two, it may
have everything.
`MaxShows` gives the poller a stale tick, a stale timer and one more generation.
The bounds that cut a behaviour are the `Max...` constants; each stands in a guard and says
"bound" where it is declared.  The remaining counters (attempts, generation, seq) are
bounded by these.  The cfgs that say CHECK_DEADLOCK FALSE are of systems that may stop: all messages settled,
all bounds used up, nothing to send.

*Symmetry* is used only in desk_session_safety and graph_outbox_lost, which have no liveness, over
callers, processes, edges, projects and sessions, none of which the specifications order or name.
chat_log has liveness, so it breaks the symmetry of its messages and requests by hand instead:
NamedInOrder keeps the runs whose first request is p1's, for m1, and every other run is one of
these with the names exchanged.

*Fairness.*  ReplyQueue: runners poll on a timer for ever and every model call is killed at
its timeout (`runner.mjs` runOpencodeOnce, `desk-runner.mjs` turnTimeoutMs), so each runner's
claim and work are weakly fair; so is the second half of a retry the API has begun, and time.
Crash is not, but a crashed runner is replaced by the service manager, so it is idle rather
than gone.  ChatLog: a desk that keeps pulling; nothing is assumed of pushers, which may
hang; of the two pull processes one may.  Poller: the browser fires due timers and ends every
request.  GraphOutbox: what is under way on the desk does not stand still altogether, though one
process or drain may hang for good; the Hub watches on its timer, and somebody on the desk drains
again and again (every record does).  PhoneView: requests are answered or fail, and ticks
come while there is a poller, which is what `Poller` shows under the exception of 6.1.
DeskTurn: OpenCode answers what it is asked, and the runner goes on; terminals, phones and
crashes come or do not.  MeetRoom: none, for nothing is claimed to happen in the end.
No run assumes strong fairness, or that anybody sends, retries, hides or shows anything.

## 5. What is proved

TLAPS proves these for any set of messages, runners, requests, pulls, timers, edges, gotchis
and for any bound, from the named assumption on the constants alone (`ReplyQueueAssumption`,
`ChatLogAssumption`, and so on, which TLC evaluates in each run).  Hardly a property is
inductive as it stands; each proof module strengthens them to an invariant `IInv` in layers, each
preserved given the ones below it.

**ReplyQueueProofs** – `TypeCorrect`, `RepliedRowsHaveAnswers`, `ClaimsAnswerOnce`,
`LanesAreSeparate`, `AnswersAreSingleInLease`, `ClaimsHaveWorkers`.  Nothing in "one answer
per claim" says that two runners cannot hold one claim.  Six layers: types; *tickets* (a
runner holds a number between 1 and the row's attempts, and no two hold the same); *authors*
(the answer of a claim is its holder's, who is past the model call); *stored* (a pushed
answer stays, replied rows point to one); *leases* (without an expired claim or a retry a
message is claimed at most once); *workers* (the holder of the latest claim settles it before
it lets go).  One lemma per layer, one step per action.

There too, `QueueKeepsPromise`: every initial state of `ReplyQueue` is one of
`ReplyPromise`, and every step is a step of it or a stutter.  The case that needs the invariant
is a runner that answers or settles a message: unless the message was reopened or some call
failed, its claim still holds (`Settling`), which rests on *tickets* and *leases*.

**ChatLogProofs** – `TypeCorrect`, `SeqsAreUnique`, `AcksAreTrue`, `LastSeqCovers` and the three
together (`AcksHoldAlways`), `RowsStay`, `CursorsSkipLateRowsOnly`, `SuccessMeansCaughtUp`.
Layers: *drawn* (a number is at most the counter and is one request's or one row's), *reported*
(results agree with the log and stay true because rows stay), *covered* (below a pull's own
cursor lies nothing but what it holds, what was in the pull file before it began and what came late;
below the saved one nothing but the last two), *caught up* (a pull holds all it owes below where it
is, and stops above what it owes unless `more` says so), *solitude* (nobody else is at work
while a pull is alone, so the file it has written is still as it wrote it).  And `ThreadIsALog`:
`ChatLog` implements `ThreadLog`.  Four of its actions are steps of the log, each
for a reason of its own: an insert takes a free place (*drawn*), an answer tells the truth
(*reported*), a written page shows stored rows only (`HeldIsStored`, a small invariant beside the
layers), a saved cursor passes nothing (*covered*); the others are not seen.

**DeskSessionProofs** – `TypeCorrect`, `CurrentStaysListed`, `RacingCallersAgree`,
`LosersCleanUp`, `LiveSessionsStay`.  Layers: *ids are known* (what callers and projects name
was created), *resets are due* (who is about to forget a session has found it dead), *quiet
projects* (where nobody started, adopted or lost a session, every caller that holds one holds
the current one), *nothing strays* (a session the Hub made is listed, or some caller that has
yet to claim or delete it holds it).

**PollerProofs** – `TypeCorrect`, `TicksDoNotOverlap`, `TimersAreKnown`, `StoppedIsQuiet`, the
three together with life (`PollerIsOneLoop`), `LoopStaysAlive`.  `IInv` adds that a running
poller belongs to a visible, mounted view, and that a tick of an older generation is in flight
only after a restart that met it.

**GraphOutboxProofs** – `TypeCorrect`, `OnlyExposedRowsGetLost`, `LoneWatchesFireOnce`.  That a row
is in the outbox is not inductive, for a drain may be about to replace it.  `Kept` says what
lasts: the row is in the outbox, among what every drain under way has yet to see off, and, while
somebody is about to rename the temporary file, in that file too, whoever wrote it.  For alerts the
outbox cannot be relied on: the drain that the alert's own message has left running may replace
it under the mark.  So there are two layers, for a watch that no second process works beside
while nothing fails.  `FiresOnce`: an alert that was sent has been marked or is about to be, and
a watch that merges got the mark with the Hub's list.  `MarksArrive` is why: a mark that is
not on the Hub yet is among what its own process's drain has read and has yet to post, or is
in an outbox which that process reads before anybody replaces it (`Carries`), for mark and read
stand between two awaits.  Only after that drain does the process list again.

**DeskTurnProofs** – `TypeCorrect`, `TheMirrorSkipsNothing`, `RepliesAreTheirOwn`,
`NoPhoneHearsItself`.  The layers: types; the *shape* of a session (an open answer is the one
being written, rows fit the bound); what a mirror has *passed* is finished and stored, about to
be pushed, or excused; what it *carries* is what its reading found; *own turns* (while a message
whose turn was not disturbed is in work, every row past the cursor is its own); *replies are
answers*, and no two messages name one.  The echo theorem needs the most: for every prompt of
the runner, either its turn broke off, or the cursor is past it, or its message is still in
hand with the mirror yet to come, and at that mirror its text is in the chat's latest rows or
has been pushed out of them.

**PhoneViewProofs** – `TypeCorrect`, `NoTextLost` (SentTextStays), `NoMessageTwice`
(OncePerThread), `NoOtherGap` (GapsLieBelowOwnRows).  A settled send is in the view because its
request carried the row's number (`Known`), a retry finds the row there (`OneRow`, which the
cardinality in OncePerThread is derived from).  Gaps need more than the view: a page is computed
by the Hub, on its way while others are applied, and applied late.  So `PullsCovered` says of
every pull, from the moment it is asked, that nothing but what lies below an own row is lacking
up to the number it asks from, and of its page that it leaves out nothing between that number
and its own last row; `NoGaps` then survives any order of answers.  The lemma the rest leans on is
`PullAfterCovers`: what a pull asks from, the newest row or the one before a watched reply,
is such a number.

**MeetRoomProofs** – `TypeCorrect`, `ProcessesStayApart`, `MeetingStaysEnded`, from `IInv`: `Tidy`
ties the prompter to its processes (until one is told to stop, whatever runs, or has exited
unnoticed, is the active one); from that a /end works alone, and no round saves its copy of the
meeting after it (`WorkIsInOpenMeeting`).  `NobodyIsEverLost` and `NobodyAnswersTwice` need the
contents of three files and of every process followed through each kind of round: a second
invariant, `Kept`, on top of `IInv`, speaks of rooms whose processes keep apart.  *Fitting*: what a
process holds fits what it does, and the round file is the round of whoever is speaking.
*Waiting*: whoever was picked and has not answered is held or parked; what is parked while a
round is continued belongs to that round; a colabo starts with a clean slate.  *Once*: who is
listed anywhere for a line, in a process, the round file or the stack, was picked for it, has not
answered and is listed there once, and a line that is being asked by a process nobody stopped is
not parked as well.  *Own*: when the prompter has parked the round of the process it stops, the
stack holds everybody that process was still to ask, so the handler that finds it parked forgets
nobody; that is why `dropped` need not except the twelve seconds.  Every action is brought to one of seven effects (a turn of the loop, a start,
an answer, an exit, ...), and each effect has a lemma for *waiting* and one for *once*.

What this proof found.  *Once* was not inductive, and not for want of strengthening: its first
form, without `misparked`, is false.  With four processes TLC shows how ("the wrong round is
parked" in section 6); three, the run's bound, are one too few.  `NobodyIsAskedTwice` now names
the exception, and the theorem says that there is no other at any number of processes.

**Only model-checked:** liveness (EventuallySettled, EventuallyPulled, KeepsPolling,
EventuallyOnHub, EventuallyAlerted, CatchesUp, LatestReplyShown, EventuallyMirrored), for TLAPS
proves nothing under fairness.  Every other property of a passing run is a theorem.

## 6. What the code does other than it says

Each of these came up while a property was stated from a comment, a test or the docs.  The
first four have a run that shows them; the passing runs check what holds in spite of them.

1. *The poller stalls* (`poller.js:51`, run poller_stalls).  A page that is hidden and shown
   while a tick is in flight: the new generation's first tick gives up because of inFlight,
   the old tick schedules nothing because its generation is over.  Nothing polls until the
   page is hidden and shown again or the interval changes.  `LoopIsAlive` and `KeepsPolling`
   except exactly this restart.
2. *The poller does not catch up* (`chat.js:784`, run phone_view_behind).  The answer of a
   send puts the message into the model under its own seq; lastSeq starts there, so a row
   pushed between the last poll and the send is fetched by no later pull of this view.
   `GapsLieBelowOwnRows` says that there are no other gaps.
3. *An outage can lose rows* (`agent-graph.mjs:268`, run graph_outbox_lost).  A drain reads
   the outbox, awaits its requests, and replaces the file by what was left of its reading; what
   another process appends meanwhile is gone.  `OnlyExposedRowsAreLost` says that nothing else
   is.
4. *A parked round cannot be continued in a project* (`meet-room-prompter.mjs:923`, run
   meet_room_parked).  After a pardon the room is told "/continue — resume remaining speakers"
   (`lib/meet-pardon.mjs:168`).  The prompter looks for the meeting under
   `sessions/meetings/.current`; with a project selected `gotchi-meet.mjs` keeps it in the
   project's directory, so the prompter finds no parked round, nor does it write the
   request that would pause one.  `gotchi-meet.mjs continue` itself would find it.

Others are in the models and are excepted by name in a property, or are out of a property's
reach:

- *A late row is never pulled* (`store.mjs:684`).  pushMessages draws a seq before it inserts
  the row; a cursor saved in between at a higher seq passes it for good (`overtaken` in
  ChatLog), although `chat-sync.mjs:148` takes care not to "skip other desks' messages".
- *The pull file keeps the last pull only* (`chat-sync.mjs:210`).  A pull that stops at its page
  cap writes its rows, saves its cursor past them and fails; the retry goes on above them and
  overwrites the file.  `hub-desk-recovery.mjs:226` pulls one page at a time, so a desk that is two
  pages behind is told that it has recovered when the first page is in no file any more.  Two pulls
  at once overwrite each other's rows too.  NoSkippedRow and EventuallyPulled therefore say "has been
  in the pull file", not that it is there, and RecoveredMeansCaughtUp speaks of the rows that one
  pull returns: in `ChatLog` a caller that wants every row must read the file after each pull,
  the failed ones too.
- *replied is not final* (`store.mjs:1002`, `1036`).  A runner that outlives its lease turns
  replied into error, or puts its answer in place of the one given
  (`docs/GOTCHIBOT-API.md:227` lists replied as an end); a retry that was checked before the
  reply was completed resets it to pending (`store.mjs:882`).  `SingleAnswerInLease` is the
  bound on the damage.
- *A claim's loser may return a session nobody recorded* (`store.mjs:1418`): the winner's was
  forgotten before the loser reads it.  And *two projects can adopt one session*
  (`desk-runner.mjs:433`): the owner is looked up in a step of its own.
- *An alert can be sent twice* (`agent-graph.mjs:428`): it is sent, then marked.  A second watch
  reads in between; a watch dies in between; or an outage keeps the mark from the Hub until another
  drain has replaced the outbox under it.  `AloneFiresOnce` says when it is sent once.
- *An alert that reached nobody is marked all the same* (`agent-graph.mjs:444-466`): when the
  messages to the project manager and to orch both throw (an invalid address, an inbox that cannot
  be written) and there is no board, watchEdges goes on to the mark, and the edge never
  fires again.  The command prints "(no alert target)"; the Hub's runner logs a count.
  EventuallyAlerted excepts these edges (`unheard`).
- *A retried first message makes a second thread* (`store.mjs:791`): the client id is unique
  per thread, and the first answer, which named the thread, was lost.  *Two messages sent from
  one draft* make two threads as well (`chat.js:771`), and the view polls only the first.
- *A watch that fills a page is stuck* (`compose-model.js:107`): while the latest message waits
  or has failed, each pull starts below it, and with a page (500) of rows above it the view never
  gets further (`WatchFillsPage` in CatchesUp).
- *A view whose load failed* has a composer and no poller (`chat.js:904`): mode "dead" in
  PhoneView, excepted in LatestReplyShown.
- *An unfinished answer blocks the mirror* (`desk-runner.mjs:330`): OpenCode dies while it writes,
  the row never gets an end, and the cursor stays below it (`orphaned` in EventuallyMirrored).
- *A command's text can come back* although "the expanded template is not mirrored back"
  (`docs/GOTCHIBOT-API.md:255`): when its turn fails, times out or the runner stops, a later mirror
  takes the template for a terminal's prompt (`botched` in NoPhoneEcho).  And the other way round:
  what a terminal types during a command's turn is dropped with it (`desk-runner.mjs:334`,
  `hidden` in NothingSkipped).
- *The watch can blame the wrong model* (`desk-runner.mjs:195`): it looks two seconds back, at any
  answer of the session, and ends the turn for the error of an earlier attempt or of a terminal.
  An error OpenCode returns with status 200 counts as an answer.
- *"stuck" cools no model down*, although `hub-model-chain.mjs:13` lists it: that error is made
  after the chain has given up (`desk-runner.mjs:618`).  A provider that is cooled down during a
  turn stays on the chain that was computed before.
- *A colabo that is stopped parks nobody*, although `colabo.mjs:262` says "park whoever is left
  (best-effort)": the handler of gotchi-meet, installed first, exits, and the process of a
  /colabo waits in spawnSync besides.  A pardon.request that meets a colabo in its report round
  parks the chair of that round and not the colabo.
- *Two rounds at once* (`meet-room-prompter.mjs:1034`): after Ctrl-C the close event of the old child
  clears sendBusy for the next one.  Everything the meeting's properties say is open from there on
  (`crossed`); a round that overlaps /end saves the meeting open again.  A pardon that
  interrupts a pardon replaces what the first one parked (`dropped`): a line is forgotten when
  the round of another line takes, or keeps, its place in the one stack.
- *The wrong round is parked* (`meet-room-prompter.mjs:957`).  When a pardon has waited twelve
  seconds, the prompter stops its active child and parks the round in the file.  After Ctrl-C the
  close event of the old child may have cleared sendBusy while a pardon's round was going on and
  another one was started: the child it stops is then not the one whose round is in the file.
  That round goes on, and /continue asks its speakers a second time (`misparked` in
  NobodyIsAskedTwice; it takes four processes).

## 7. What the models leave out

- **ReplyQueue:** what happens between a claim and its answer (in the desk lane that is DeskTurn);
  the claim's runnerId, which nothing reads.
- **ChatLog:** one thread; titles, kinds and sharing; edit and delete rows, which are ordinary
  rows of the log; the phone's access rules; what reads the pull file; a
  write of it that is cut off half way.
- **DeskSession:** what is said in a session and its mirror (DeskTurn); a session listed twice.
- **Poller:** how long an interval is, and what a tick does with its answer (PhoneView).
- **GraphOutbox:** the outbox of the Hub's own host, which its desk runner drains into the
  store by the same flushOutbox; a file write that is cut off half way; what an inbox does with an
  alert; declared edges, reports, token budgets (as a reason to fire they act as the
  time budget does), the seven-day window, and a batch the Hub rejects as invalid.
- **PhoneView:** slash commands, sessions, edit and delete, attachments, rendering and
  scrolling, a second view opened while a send is under way.
- **DeskTurn:** a session that is replaced while a turn runs; which models a chain holds and how
  long one cools down (any number may be left to try); the limit of 200 rows a listing has; a
  chat without a project.
- **MeetRoom:** inviting and switching meetings, the meeting's plan of commands, minutes,
  statuses and drawing; how the chair's choice is parsed (any list of the bound).
- Time is an order and an age, never a duration; MongoDB is a single node whose calls are
  atomic per document; the operating system's rename is atomic; disk loss is not modelled.

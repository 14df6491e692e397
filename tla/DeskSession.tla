----------------------------- MODULE DeskSession -----------------------------
(***************************************************************************)
(* Which agent session a project's chat is talking to.                     *)
(*                                                                         *)
(* The Hub keeps, per project, the sessions of its chat and the current    *)
(* one (desk_sessions in services/gotchibot-api/store.mjs); the sessions   *)
(* themselves live in the Hub's OpenCode server.  Desk runners and API     *)
(* requests (desk-runner.mjs, server.mjs) look the current session up,     *)
(* create one on first use, start a fresh one or adopt one a terminal      *)
(* opened.  Each operation is several calls to Mongo and to OpenCode, and  *)
(* the operations of different callers interleave at each of them.         *)
(*                                                                         *)
(* sessions[] is kept as a set: $push may list a session twice, $pull      *)
(* takes all its entries out.                                              *)
(***************************************************************************)
EXTENDS Naturals, FiniteSets

CONSTANTS
  Slugs,       \* projects
  Sessions,    \* OpenCode session ids
  Callers,     \* runners and API requests that are served at the same time
  MaxFaults,   \* bound: callers that crash or meet an unreachable server
  MaxDrops,    \* bound: sessions somebody deletes in OpenCode
  None

ASSUME DeskSessionAssumption ==
  /\ MaxFaults \in Nat /\ MaxDrops \in Nat
  /\ None \notin Sessions /\ None \notin Slugs

VARIABLES
  alive,      \* sessions OpenCode has
  used,       \* ids it has given out
  current,    \* desk_sessions.sessionId per project
  listed,     \* desk_sessions.sessions per project
  dividers,   \* session-<id> rows in the project's thread
  pc,         \* the step each caller is at
  slug,       \* the project it works for
  mine,       \* the session it found, created or was asked to adopt
  faults, drops,
  made,       \* history: sessions the Hub has created
  returned,   \* history: sessions ensureDeskSession returned per project
  moved,      \* history: projects whose session was started, adopted or dropped
  forgot      \* history: a recorded session was found dead and forgotten

opencode == <<alive, used>>
desk     == <<current, listed>>
callers  == <<pc, slug, mine>>
bounds   == <<faults, drops>>
history  == <<made, returned, moved, forgot>>
vars     == <<opencode, desk, dividers, callers, bounds, history>>

Steps == {"idle", "read", "probe", "reset", "create", "claim", "winner", "delete",
          "startCreate", "startRecord", "divider",
          "adoptProbe", "adoptOwner", "adoptCurrent", "adoptKnown", "adoptSwitch"}

TypeOK ==
  /\ alive \in SUBSET Sessions
  /\ used \in SUBSET Sessions
  /\ current \in [Slugs -> Sessions \cup {None}]
  /\ listed \in [Slugs -> SUBSET Sessions]
  /\ dividers \in SUBSET (Slugs \X Sessions)
  /\ pc \in [Callers -> Steps]
  /\ slug \in [Callers -> Slugs \cup {None}]
  /\ \A c \in Callers : pc[c] # "idle" => slug[c] # None
  /\ mine \in [Callers -> Sessions \cup {None}]
  /\ \A c \in Callers :
       pc[c] \notin {"idle", "read", "create", "startCreate"} => mine[c] # None
  /\ faults \in 0..MaxFaults
  /\ drops \in 0..MaxDrops
  /\ made \in SUBSET Sessions
  /\ returned \in [Slugs -> SUBSET Sessions]
  /\ moved \in SUBSET Slugs
  /\ forgot \in BOOLEAN

Init ==
  /\ alive = {}
  /\ used = {}
  /\ current = [s \in Slugs |-> None]
  /\ listed = [s \in Slugs |-> {}]
  /\ dividers = {}
  /\ pc = [c \in Callers |-> "idle"]
  /\ slug = [c \in Callers |-> None]
  /\ mine = [c \in Callers |-> None]
  /\ faults = 0
  /\ drops = 0
  /\ made = {}
  /\ returned = [s \in Slugs |-> {}]
  /\ moved = {}
  /\ forgot = FALSE

-----------------------------------------------------------------------------
(* Helpers *)

Begin(c, s, x, step) ==
  /\ pc[c] = "idle"
  /\ pc' = [pc EXCEPT ![c] = step]
  /\ slug' = [slug EXCEPT ![c] = s]
  /\ mine' = [mine EXCEPT ![c] = x]

Goto(c, step) ==
  /\ pc' = [pc EXCEPT ![c] = step]
  /\ UNCHANGED <<slug, mine>>

Done(c) ==
  /\ pc' = [pc EXCEPT ![c] = "idle"]
  /\ slug' = [slug EXCEPT ![c] = None]
  /\ mine' = [mine EXCEPT ![c] = None]

\* ensureDeskSession returns x to its caller.
Return(c, x) ==
  /\ Done(c)
  /\ returned' = [returned EXCEPT ![slug[c]] = @ \cup {x}]

\* OpenCode creates a session for c.
Create(c, next) ==
  \E x \in Sessions \ used :
    /\ alive' = alive \cup {x}
    /\ used' = used \cup {x}
    /\ made' = made \cup {x}
    /\ mine' = [mine EXCEPT ![c] = x]
    /\ pc' = [pc EXCEPT ![c] = next]
    /\ UNCHANGED slug

\* $set sessionId and $push sessions, as one update of the project's document.
Record(s, x) ==
  /\ current' = [current EXCEPT ![s] = x]
  /\ listed' = [listed EXCEPT ![s] = @ \cup {x}]

-----------------------------------------------------------------------------
(* ensureDeskSession *)

EnsureStart(c, s) ==
  /\ Begin(c, s, None, "read")
  /\ UNCHANGED <<opencode, desk, dividers, bounds, history>>

EnsureRead(c) ==
  /\ pc[c] = "read"
  /\ IF current[slug[c]] = None
     THEN Goto(c, "create")
     ELSE /\ pc' = [pc EXCEPT ![c] = "probe"]
          /\ mine' = [mine EXCEPT ![c] = current[slug[c]]]
          /\ UNCHANGED slug
  /\ UNCHANGED <<opencode, desk, dividers, bounds, history>>

\* getSession: only a 404 means that the session is gone.
Probe(c) ==
  /\ pc[c] = "probe"
  /\ \/ mine[c] \in alive /\ Return(c, mine[c])
     \/ mine[c] \notin alive /\ Goto(c, "reset") /\ UNCHANGED returned
  /\ UNCHANGED <<opencode, desk, dividers, bounds, made, moved, forgot>>

\* Mistake: the reset does not ask whether the dead session is still the recorded one.
ResetAnyCurrent(c) ==
  LET s == slug[c] IN
  /\ pc[c] = "reset"
  /\ current' = [current EXCEPT ![s] = None]
  /\ listed' = [listed EXCEPT ![s] = @ \ {mine[c]}]
  /\ forgot' = TRUE
  /\ pc' = [pc EXCEPT ![c] = "create"]
  /\ mine' = [mine EXCEPT ![c] = None]
  /\ UNCHANGED <<opencode, dividers, slug, bounds, made, returned, moved>>

\* resetDeskSession: only if that session is still the recorded one.
Reset(c) ==
  LET s == slug[c] IN
  /\ pc[c] = "reset"
  /\ IF current[s] = mine[c]
     THEN /\ current' = [current EXCEPT ![s] = None]
          /\ listed' = [listed EXCEPT ![s] = @ \ {mine[c]}]
          /\ forgot' = TRUE
     ELSE UNCHANGED <<desk, forgot>>
  /\ pc' = [pc EXCEPT ![c] = "create"]
  /\ mine' = [mine EXCEPT ![c] = None]
  /\ UNCHANGED <<opencode, dividers, slug, bounds, made, returned, moved>>

EnsureCreate(c) ==
  /\ pc[c] = "create"
  /\ Create(c, "claim")
  /\ UNCHANGED <<desk, dividers, bounds, returned, moved, forgot>>

\* Mistake: the claim does not ask for an empty sessionId.
ClaimAnyway(c) ==
  /\ pc[c] = "claim"
  /\ Record(slug[c], mine[c])
  /\ Return(c, mine[c])
  /\ UNCHANGED <<opencode, dividers, bounds, made, moved, forgot>>

\* claimDeskSession: one findOneAndUpdate that matches an empty sessionId only;
\* a project that has one makes its upsert fail with error 11000 ...
Claim(c) ==
  /\ pc[c] = "claim"
  /\ IF current[slug[c]] = None
     THEN Record(slug[c], mine[c]) /\ Return(c, mine[c])
     ELSE Goto(c, "winner") /\ UNCHANGED <<desk, returned>>
  /\ UNCHANGED <<opencode, dividers, bounds, made, moved, forgot>>

\* ... and then the winner is read; if there is none by now, the caller's own
\* session is returned although it is not recorded.
ReadWinner(c) ==
  LET w == current[slug[c]] IN
  /\ pc[c] = "winner"
  /\ IF w = None \/ w = mine[c]
     THEN Return(c, mine[c])
     ELSE /\ returned' = [returned EXCEPT ![slug[c]] = @ \cup {w}]
          /\ Goto(c, "delete")
  /\ UNCHANGED <<opencode, desk, dividers, bounds, made, moved, forgot>>

\* Mistake: the loser keeps its session.
LoserKeeps(c) ==
  /\ pc[c] = "delete"
  /\ Done(c)
  /\ UNCHANGED <<opencode, desk, dividers, bounds, history>>

\* The loser deletes the session it made.
DeleteLoser(c) ==
  /\ pc[c] = "delete"
  /\ alive' = alive \ {mine[c]}
  /\ Done(c)
  /\ UNCHANGED <<used, desk, dividers, bounds, history>>

-----------------------------------------------------------------------------
(* startNewDeskSession *)

StartNew(c, s) ==
  /\ Begin(c, s, None, "startCreate")
  /\ UNCHANGED <<opencode, desk, dividers, bounds, history>>

StartCreate(c) ==
  /\ pc[c] = "startCreate"
  /\ Create(c, "startRecord")
  /\ UNCHANGED <<desk, dividers, bounds, returned, moved, forgot>>

\* startDeskSession: whatever is current now, the new session becomes it.
StartRecord(c) ==
  /\ pc[c] = "startRecord"
  /\ Record(slug[c], mine[c])
  /\ moved' = moved \cup {slug[c]}
  /\ Goto(c, "divider")
  /\ UNCHANGED <<opencode, dividers, bounds, made, returned, forgot>>

PostDivider(c) ==
  /\ pc[c] = "divider"
  /\ dividers' = dividers \cup {<<slug[c], mine[c]>>}
  /\ Done(c)
  /\ UNCHANGED <<opencode, desk, bounds, history>>

-----------------------------------------------------------------------------
(* adoptDeskSessionFromTerminal *)

Adopt(c, s, x) ==
  /\ Begin(c, s, x, "adoptProbe")
  /\ UNCHANGED <<opencode, desk, dividers, bounds, history>>

\* getSession: a session OpenCode does not have is refused.
AdoptProbe(c) ==
  /\ pc[c] = "adoptProbe"
  /\ IF mine[c] \in alive THEN Goto(c, "adoptOwner") ELSE Done(c)
  /\ UNCHANGED <<opencode, desk, dividers, bounds, history>>

\* deskSessionOwner: so is a session of another project.
AdoptOwner(c) ==
  /\ pc[c] = "adoptOwner"
  /\ \/ \E s \in Slugs : s # slug[c] /\ mine[c] \in listed[s] /\ Done(c)
     \/ mine[c] \in listed[slug[c]] /\ Goto(c, "adoptCurrent")
     \/ (\A s \in Slugs : mine[c] \notin listed[s]) /\ Goto(c, "adoptCurrent")
  /\ UNCHANGED <<opencode, desk, dividers, bounds, history>>

AdoptCurrent(c) ==
  /\ pc[c] = "adoptCurrent"
  /\ IF current[slug[c]] = mine[c] THEN Done(c) ELSE Goto(c, "adoptKnown")
  /\ UNCHANGED <<opencode, desk, dividers, bounds, history>>

\* adoptDeskSession: a session that is not on the list is started like a new one.
AdoptKnown(c) ==
  /\ pc[c] = "adoptKnown"
  /\ Goto(c, IF mine[c] \in listed[slug[c]] THEN "adoptSwitch" ELSE "startRecord")
  /\ UNCHANGED <<opencode, desk, dividers, bounds, history>>

\* Mistake: the update matches the project only, not the listed session.
SwitchUnlisted(c) ==
  /\ pc[c] = "adoptSwitch"
  /\ current' = [current EXCEPT ![slug[c]] = mine[c]]
  /\ moved' = moved \cup {slug[c]}
  /\ Done(c)
  /\ UNCHANGED <<opencode, listed, dividers, bounds, made, returned, forgot>>

\* A session on the list becomes current, if it is still on the list.  The note
\* that the session was switched goes to the thread under an id of its own.
AdoptSwitch(c) ==
  /\ pc[c] = "adoptSwitch"
  /\ IF mine[c] \in listed[slug[c]]
     THEN current' = [current EXCEPT ![slug[c]] = mine[c]]
     ELSE UNCHANGED current
  /\ moved' = moved \cup {slug[c]}
  /\ Done(c)
  /\ UNCHANGED <<opencode, listed, dividers, bounds, made, returned, forgot>>

-----------------------------------------------------------------------------
(* The environment *)

\* A terminal opens a session of its own.
TerminalOpens(x) ==
  /\ x \notin used
  /\ alive' = alive \cup {x}
  /\ used' = used \cup {x}
  /\ UNCHANGED <<desk, dividers, callers, bounds, history>>

\* Somebody deletes a session in OpenCode.
SessionDropped(x) ==
  /\ x \in alive
  /\ drops < MaxDrops
  /\ drops' = drops + 1
  /\ alive' = alive \ {x}
  /\ moved' = moved \cup Slugs
  /\ UNCHANGED <<used, desk, dividers, callers, faults, made, returned, forgot>>

\* The caller's process ends, or one of its calls fails for another reason than a 404.
CallerFails(c) ==
  /\ pc[c] # "idle"
  /\ faults < MaxFaults
  /\ faults' = faults + 1
  /\ Done(c)
  /\ UNCHANGED <<opencode, desk, dividers, drops, history>>

Ensure(c) ==
  \/ EnsureRead(c) \/ Probe(c) \/ Reset(c) \/ EnsureCreate(c)
  \/ Claim(c) \/ ReadWinner(c) \/ DeleteLoser(c)

StartOrAdopt(c) ==
  \/ StartCreate(c) \/ StartRecord(c) \/ PostDivider(c)
  \/ AdoptProbe(c) \/ AdoptOwner(c) \/ AdoptCurrent(c) \/ AdoptKnown(c) \/ AdoptSwitch(c)

Next ==
  \/ \E c \in Callers :
       \/ \E s \in Slugs : \/ EnsureStart(c, s)
                           \/ StartNew(c, s)
                           \/ \E x \in Sessions : Adopt(c, s, x)
       \/ Ensure(c)
       \/ StartOrAdopt(c)
       \/ CallerFails(c)
  \/ \E x \in Sessions : TerminalOpens(x) \/ SessionDropped(x)

Spec == Init /\ [][Next]_vars

-----------------------------------------------------------------------------
(* Properties *)

\* The current session is on the project's list, which is where the mirror finds it
\* and its cursor: no interleaving of claim, start, adopt and reset separates them.
CurrentIsListed ==
  \A s \in Slugs : current[s] # None => current[s] \in listed[s]

\* "Two callers racing get the same session": as long as nobody starts, adopts or
\* deletes one, every ensureDeskSession of a project returns the same session.
EnsureAgrees ==
  \A s \in Slugs \ moved : \A x, y \in returned[s] : x = y

\* A session that OpenCode still has is never forgotten: it stays on its project's list,
\* and a project whose current session is alive has one after the step too.  A caller that
\* has found a session dead does not forget the live one another caller has put in its place.
ForgetsOnlyDeadSessions ==
  [][\A s \in Slugs :
       /\ current[s] \in alive => current'[s] # None
       /\ \A x \in listed[s] : x \in alive => x \in listed'[s]]_vars

\* "the loser deletes the one it made": unless a caller failed or a session was found
\* dead, a session the Hub created is on a list, or a caller is still busy with it.
NoStraySession ==
  faults = 0 /\ ~forgot =>
    \A x \in made \cap alive :
      \/ \E s \in Slugs : x \in listed[s]
      \/ \E c \in Callers : pc[c] # "idle" /\ mine[c] = x

=============================================================================

------------------------------- MODULE Poller -------------------------------
(***************************************************************************)
(* The poll loop of the phone app (app/js/poller.js) under the page that   *)
(* drives it (startPoller of app/js/chat.js, clearPoller of app/js/        *)
(* state.js): the page hides and returns, the interval changes with what   *)
(* is waited for, a tick is a request to the Hub that takes any time.      *)
(*                                                                         *)
(* Everything between two awaits is one step, as in the browser.           *)
(***************************************************************************)
EXTENDS Naturals, FiniteSets

CONSTANTS
  TimerIds,    \* ids the browser hands out for pending timeouts
  Calls,       \* names for the calls of tick()
  Intervals,   \* the intervals asked for
  MaxShows,    \* bound: how often the page comes back
  None

ASSUME PollerAssumption ==
  /\ None \notin TimerIds
  /\ MaxShows \in Nat

VARIABLES
  visible,      \* document.visibilityState
  mounted,      \* the chat view still owns the poller
  running,      \* _running
  generation,
  interval,     \* _intervalMs
  timerId,
  timers,       \* the timeouts pending in the browser, with their generation
  inFlight,
  ticks,        \* the calls of tick() that have not returned, with their generation
  shows,
  restarted     \* history: the last start() came while a tick was in flight

page  == <<visible, mounted, shows>>
loop  == <<timerId, timers, inFlight, ticks>>
vars  == <<page, running, generation, interval, loop, restarted>>

TypeOK ==
  /\ visible \in BOOLEAN /\ mounted \in BOOLEAN
  /\ running \in BOOLEAN /\ inFlight \in BOOLEAN /\ restarted \in BOOLEAN
  /\ generation \in Nat
  /\ interval \in Intervals
  /\ timerId \in TimerIds \cup {None}
  /\ timers \subseteq [id : TimerIds, gen : 1..generation]
  /\ ticks \subseteq [call : Calls, gen : 1..generation]
  /\ shows \in 0..MaxShows

-----------------------------------------------------------------------------
(* Helpers.  start() and a timer run several of the poller's functions in one *)
(* step; RunTick takes the values of that moment.                             *)

\* clearTimer
Cleared == {t \in timers : t.id # timerId}

\* setTimeoutFn in a browser where the timers T are pending.
SetTimer(T, gen) ==
  \E n \in {i \in TimerIds : \A t \in T : t.id # i} :
    /\ timerId' = n
    /\ timers' = T \cup {[id |-> n, gen |-> gen]}

\* Mistake: schedule does not clear the pending timer.
ScheduleWithoutClear(gen) ==
  IF running /\ gen = generation /\ visible
  THEN SetTimer(timers, gen)
  ELSE UNCHANGED <<timerId, timers>>

\* schedule
Schedule(gen) ==
  IF running /\ gen = generation /\ visible
  THEN SetTimer(Cleared, gen)
  ELSE timers' = Cleared /\ timerId' = None

\* The guards of runTick.
TickMayStart(gen, on, now) == on /\ gen = now /\ visible' /\ ~inFlight

\* runTick of generation gen up to its await, when _running is on and generation is now.
RunTick(gen, on, now) ==
  \/ /\ TickMayStart(gen, on, now)
     /\ inFlight' = TRUE
     /\ \E n \in {c \in Calls : \A k \in ticks : k.call # c} :
          ticks' = ticks \cup {[call |-> n, gen |-> gen]}
  \/ ~TickMayStart(gen, on, now) /\ UNCHANGED <<inFlight, ticks>>

\* start(), which the page calls when it is visible and the poller does not run.
Start ==
  /\ running' = TRUE
  /\ generation' = generation + 1
  /\ timers' = Cleared
  /\ timerId' = None
  /\ RunTick(generation + 1, TRUE, generation + 1)
  /\ restarted' = inFlight

\* Mistake: stop() resets the generation.
StopResetsGeneration ==
  /\ running' = FALSE
  /\ generation' = 0
  /\ timers' = Cleared
  /\ timerId' = None
  /\ restarted' = FALSE
  /\ UNCHANGED <<inFlight, ticks>>

\* stop()
Stop ==
  /\ running' = FALSE
  /\ generation' = generation + 1
  /\ timers' = Cleared
  /\ timerId' = None
  /\ restarted' = FALSE
  /\ UNCHANGED <<inFlight, ticks>>

-----------------------------------------------------------------------------

\* startPoller, on a page that is visible or not.
Init ==
  /\ visible \in BOOLEAN
  /\ mounted = TRUE
  /\ running = visible
  /\ generation = IF visible THEN 1 ELSE 0
  /\ interval \in Intervals
  /\ timerId = None
  /\ timers = {}
  /\ inFlight = visible
  /\ \/ visible /\ \E n \in Calls : ticks = {[call |-> n, gen |-> 1]}
     \/ ~visible /\ ticks = {}
  /\ shows = 0
  /\ restarted = FALSE

\* visibilitychange; a view that has gone no longer listens.
Hide ==
  /\ visible
  /\ visible' = FALSE
  /\ IF mounted /\ running THEN Stop
     ELSE UNCHANGED <<running, generation, loop, restarted>>
  /\ UNCHANGED <<mounted, shows, interval>>

Show ==
  /\ ~visible
  /\ shows < MaxShows
  /\ shows' = shows + 1
  /\ visible' = TRUE
  /\ IF mounted /\ ~running THEN Start
     ELSE UNCHANGED <<running, generation, loop, restarted>>
  /\ UNCHANGED <<mounted, interval>>

\* clearPoller: the user navigates, the phone is unpaired, or the thread is gone.
ClearPoller ==
  /\ mounted
  /\ mounted' = FALSE
  /\ Stop
  /\ UNCHANGED <<visible, shows, interval>>

\* Mistake: the pending tick is dropped, for the next one to use the new interval.
SetIntervalDropsTick(ms) ==
  /\ mounted
  /\ ms # interval
  /\ interval' = ms
  /\ timers' = Cleared
  /\ timerId' = None
  /\ UNCHANGED <<page, running, generation, inFlight, ticks, restarted>>

\* setIntervalMs, from a render in a tick or after a send of the user.
SetIntervalMs(ms) ==
  /\ mounted
  /\ ms # interval
  /\ interval' = ms
  /\ IF running /\ visible THEN Schedule(generation) ELSE UNCHANGED <<timerId, timers>>
  /\ UNCHANGED <<page, running, generation, inFlight, ticks, restarted>>

\* A timeout is due: the callback forgets it and runs its generation's tick.
Fire(t) ==
  /\ timers' = timers \ {t}
  /\ timerId' = None
  /\ UNCHANGED page
  /\ RunTick(t.gen, running, generation)
  /\ UNCHANGED <<running, generation, interval, restarted>>

\* tick() returns or throws: the finally block.
TickEnds(k) ==
  /\ ticks' = ticks \ {k}
  /\ inFlight' = FALSE
  /\ IF running /\ k.gen = generation /\ visible
     THEN Schedule(k.gen)
     ELSE UNCHANGED <<timerId, timers>>
  /\ UNCHANGED <<page, running, generation, interval, restarted>>

Next ==
  \/ Hide \/ Show \/ ClearPoller
  \/ \E ms \in Intervals : SetIntervalMs(ms)
  \/ \E t \in timers : Fire(t)
  \/ \E k \in ticks : TickEnds(k)

Spec == Init /\ [][Next]_vars

\* The browser fires due timers and ends every request.
Fairness ==
  /\ WF_vars(\E t \in timers : Fire(t))
  /\ WF_vars(\E k \in ticks : TickEnds(k))

FairSpec == Spec /\ Fairness

-----------------------------------------------------------------------------
(* Properties *)

\* "no overlap": two ticks never wait for the Hub at the same time, whatever is
\* stopped, restarted and rescheduled while one does.
NoOverlap ==
  /\ \A j, k \in ticks : j = k
  /\ inFlight <=> ticks # {}

\* A timeout that is pending is the one the poller can still clear, and it belongs to
\* the current generation: no forgotten timer doubles the loop.
OneTimer ==
  \A t \in timers : t.id = timerId /\ t.gen = generation

\* "pauses ... stop cancels": nothing is scheduled while the poller is stopped or the
\* page is hidden.
QuietWhenStopped ==
  ~running \/ ~visible => timers = {}

\* A poller that runs has its next tick in flight or scheduled, unless the page hid
\* and came back while a tick was in flight.
LoopIsAlive ==
  running /\ ~restarted =>
    \/ timers # {}
    \/ \E k \in ticks : k.gen = generation

\* The poller is one loop: never two ticks or a timer nobody can clear, none when it is
\* stopped, and one while it runs.
OneLoop == NoOverlap /\ OneTimer /\ QuietWhenStopped /\ LoopIsAlive

\* Unless the page does that, it polls again and again while it is shown.
KeepsPolling ==
  []<>(ticks # {}) \/ []<>(~running \/ restarted)

-----------------------------------------------------------------------------
(* A claim of the tests that the code does not keep *)

\* "poller: ticks while visible": a poller that stays visible polls again and again.
TicksWhileVisible ==
  []<>(ticks # {}) \/ []<>(~visible \/ ~mounted)

=============================================================================

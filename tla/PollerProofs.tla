---------------------------- MODULE PollerProofs ----------------------------
(***************************************************************************)
(* The safety properties of Poller hold for every number of timers, calls, *)
(* intervals and page visits.                                              *)
(***************************************************************************)
EXTENDS Poller, TLAPS

\* onVis and clearPoller keep the poller stopped while nobody looks at the view.
Shown == running => visible /\ mounted /\ generation # 0

\* A tick of an earlier generation is in flight only after a restart that met it.
TicksAreFresh == running /\ ~restarted => \A k \in ticks : k.gen = generation

IInv ==
  /\ TypeOK
  /\ NoOverlap
  /\ OneTimer
  /\ QuietWhenStopped
  /\ LoopIsAlive
  /\ Shown
  /\ TicksAreFresh

-----------------------------------------------------------------------------

\* A page that opens the chat view satisfies the invariant.
LEMMA InvInit == Init => IInv
<1> SUFFICES ASSUME Init PROVE IInv
  OBVIOUS
<1>1. CASE visible
  <2>1. PICK n \in Calls : ticks = {[call |-> n, gen |-> 1]}
    BY <1>1 DEF Init
  <2>2. generation = 1 /\ 1 \in 1..generation /\ running /\ mounted /\ ~restarted /\ inFlight
    BY <1>1 DEF Init
  <2>3. TypeOK
    <3>1. visible \in BOOLEAN /\ mounted \in BOOLEAN /\ running \in BOOLEAN
          /\ inFlight \in BOOLEAN /\ restarted \in BOOLEAN
      BY Zenon DEF Init
    <3>2. generation \in Nat /\ interval \in Intervals /\ timerId = None /\ timers = {}
          /\ shows = 0 /\ MaxShows \in Nat
      BY <2>2, PollerAssumption DEF Init
    <3> QED
      BY <2>1, <2>2, <3>1, <3>2 DEF TypeOK
  <2> QED
    BY <1>1, <2>1, <2>2, <2>3 DEF Init, IInv, NoOverlap, OneTimer, QuietWhenStopped,
       LoopIsAlive, Shown, TicksAreFresh
<1>2. CASE ~visible
  <2>1. generation = 0 /\ ticks = {} /\ ~running /\ ~inFlight /\ timers = {}
    BY <1>2 DEF Init
  <2>2. TypeOK
    <3>1. visible \in BOOLEAN /\ mounted \in BOOLEAN /\ running \in BOOLEAN
          /\ inFlight \in BOOLEAN /\ restarted \in BOOLEAN
      BY Zenon DEF Init
    <3>2. interval \in Intervals /\ timerId = None /\ shows = 0 /\ MaxShows \in Nat
      BY PollerAssumption DEF Init
    <3> QED
      BY <2>1, <3>1, <3>2 DEF TypeOK
  <2> QED
    BY <1>2, <2>1, <2>2 DEF Init, IInv, NoOverlap, OneTimer, QuietWhenStopped,
       LoopIsAlive, Shown, TicksAreFresh
<1> QED
  BY <1>1, <1>2

\* clearTimer leaves no timer behind, because the poller knows the only one.
LEMMA ClearedIsEmpty ==
  ASSUME OneTimer PROVE Cleared = {}
  BY DEF OneTimer, Cleared

\* What setTimeoutFn does when nothing is pending.
LEMMA SetTimerEffect ==
  ASSUME NEW gen \in 1..generation, SetTimer({}, gen)
  PROVE  \E n \in TimerIds : timerId' = n /\ timers' = {[id |-> n, gen |-> gen]}
  BY DEF SetTimer

\* runTick starts the only tick, or changes nothing.
LEMMA RunTickEffect ==
  ASSUME NoOverlap, NEW gen, NEW on \in BOOLEAN, NEW now, RunTick(gen, on, now)
  PROVE  \/ /\ TickMayStart(gen, on, now) /\ ticks = {} /\ inFlight' = TRUE
            /\ \E n \in Calls : ticks' = {[call |-> n, gen |-> gen]}
         \/ /\ ~TickMayStart(gen, on, now)
            /\ inFlight' = inFlight /\ ticks' = ticks
  BY DEF NoOverlap, RunTick, TickMayStart

\* stop() keeps the invariant, provided that the view is hidden or gone.
LEMMA StopStep ==
  ASSUME IInv, Stop, visible' \in BOOLEAN, mounted' \in BOOLEAN,
         interval' = interval, shows' = shows
  PROVE  IInv'
<1>1. Cleared = {}
  BY ClearedIsEmpty DEF IInv
<1>2. generation \in Nat /\ generation + 1 \in Nat /\ 1..generation \subseteq 1..(generation + 1)
  BY DEF IInv, TypeOK
<1>3. TypeOK'
  BY <1>1, <1>2 DEF IInv, TypeOK, Stop
<1>4. NoOverlap' /\ OneTimer' /\ QuietWhenStopped' /\ LoopIsAlive' /\ Shown' /\ TicksAreFresh'
  BY <1>1 DEF IInv, Stop, NoOverlap, OneTimer, QuietWhenStopped, LoopIsAlive, Shown, TicksAreFresh
<1> QED
  BY <1>3, <1>4 DEF IInv

\* start() keeps the invariant when the page has just become visible.
LEMMA StartStep ==
  ASSUME IInv, Start, visible' = TRUE, mounted' = TRUE,
         interval' = interval, shows' \in 0..MaxShows
  PROVE  IInv'
<1>1. Cleared = {}
  BY ClearedIsEmpty DEF IInv
<1>2. generation \in Nat /\ generation + 1 \in Nat /\ 1..generation \subseteq 1..(generation + 1)
      /\ generation + 1 \in 1..(generation + 1)
  BY DEF IInv, TypeOK
<1>3. \/ /\ inFlight = FALSE /\ inFlight' = TRUE
         /\ \E n \in Calls : ticks' = {[call |-> n, gen |-> generation + 1]}
      \/ inFlight = TRUE /\ inFlight' = inFlight /\ ticks' = ticks
  <2>1. RunTick(generation + 1, TRUE, generation + 1) /\ NoOverlap
    BY DEF Start, IInv
  <2>2. TickMayStart(generation + 1, TRUE, generation + 1) <=> ~inFlight
    BY DEF TickMayStart
  <2> QED
    BY <2>1, <2>2, RunTickEffect DEF IInv, TypeOK
<1>4. TypeOK'
  <2>1. visible' \in BOOLEAN /\ mounted' \in BOOLEAN /\ running' \in BOOLEAN
        /\ inFlight' \in BOOLEAN /\ restarted' \in BOOLEAN
    BY <1>3 DEF IInv, TypeOK, Start
  <2>2. generation' = generation + 1 /\ timerId' = None /\ timers' = {}
        /\ interval' \in Intervals
    BY <1>1 DEF IInv, TypeOK, Start
  <2>3. ticks' \subseteq [call : Calls, gen : 1..generation']
    <3>1. ticks \subseteq [call : Calls, gen : 1..(generation + 1)]
      BY <1>2 DEF IInv, TypeOK
    <3> QED
      BY <1>2, <1>3, <2>2, <3>1
  <2> QED
    BY <1>2, <2>1, <2>2, <2>3 DEF TypeOK
<1>5. NoOverlap'
  BY <1>3 DEF IInv, NoOverlap
<1>6. OneTimer' /\ QuietWhenStopped' /\ Shown'
  BY <1>1, <1>2 DEF Start, OneTimer, QuietWhenStopped, Shown
<1>7. LoopIsAlive' /\ TicksAreFresh'
  <2>1. generation' = generation + 1 /\ restarted' = inFlight
    BY DEF Start
  <2>2. CASE inFlight = TRUE
    BY <2>1, <2>2 DEF LoopIsAlive, TicksAreFresh
  <2>3. CASE inFlight = FALSE
    <3>1. PICK n \in Calls : ticks' = {[call |-> n, gen |-> generation + 1]}
      BY <1>3, <2>3
    <3> QED
      BY <2>1, <3>1 DEF LoopIsAlive, TicksAreFresh
  <2> QED
    BY <1>3, <2>2, <2>3
<1> QED
  BY <1>4, <1>5, <1>6, <1>7 DEF IInv

\* A step that sets the current generation's timer, the only one, keeps the invariant.
LEMMA ScheduleStep ==
  ASSUME IInv, running, visible, Schedule(generation),
         UNCHANGED <<page, running, generation, restarted>>, interval' \in Intervals,
         ticks' \subseteq ticks, inFlight' <=> ticks' # {}, inFlight' \in BOOLEAN
  PROVE  IInv'
<1>1. Cleared = {}
  BY ClearedIsEmpty DEF IInv
<1>2. SetTimer({}, generation)
  BY <1>1 DEF Schedule
<1>3. generation \in 1..generation
  BY DEF IInv, TypeOK, Shown
<1>4. PICK n \in TimerIds : timerId' = n /\ timers' = {[id |-> n, gen |-> generation]}
  BY <1>2, <1>3, SetTimerEffect
<1>5. TypeOK'
  BY <1>3, <1>4 DEF IInv, TypeOK, page
<1>6. NoOverlap'
  BY DEF IInv, NoOverlap
<1>7. OneTimer' /\ QuietWhenStopped' /\ LoopIsAlive' /\ Shown' /\ TicksAreFresh'
  BY <1>4 DEF IInv, OneTimer, QuietWhenStopped, LoopIsAlive, Shown, TicksAreFresh, page
<1> QED
  BY <1>5, <1>6, <1>7 DEF IInv

\* Every step keeps the invariant.
LEMMA InvStep == IInv /\ [Next]_vars => IInv'
<1> SUFFICES ASSUME IInv, [Next]_vars PROVE IInv'
  OBVIOUS
<1>0. /\ visible \in BOOLEAN /\ mounted \in BOOLEAN /\ running \in BOOLEAN
      /\ inFlight \in BOOLEAN /\ shows \in 0..MaxShows /\ MaxShows \in Nat
  BY PollerAssumption DEF IInv, TypeOK
<1>1. CASE Hide
  <2>1. CASE mounted /\ running
    BY <1>0, <1>1, <2>1, StopStep DEF Hide
  <2>2. CASE ~(mounted /\ running)
    <3>1. ~running
      BY <2>2 DEF IInv, Shown
    <3>2. visible' = FALSE /\ running' = running /\ restarted' = restarted
          /\ UNCHANGED <<mounted, shows, interval, generation, timerId, timers, inFlight, ticks>>
      BY <1>1, <2>2 DEF Hide, loop
    <3> QED
      BY <3>1, <3>2 DEF IInv, TypeOK, NoOverlap, OneTimer, QuietWhenStopped, LoopIsAlive,
         Shown, TicksAreFresh
  <2> QED
    BY <2>1, <2>2
<1>2. CASE Show
  <2>1. shows' \in 0..MaxShows /\ visible' = TRUE /\ mounted' = mounted /\ interval' = interval
    BY <1>0, <1>2 DEF Show
  <2>2. CASE mounted /\ ~running
    BY <1>0, <1>2, <2>1, <2>2, StartStep DEF Show
  <2>3. CASE ~(mounted /\ ~running)
    <3>1. ~running
      BY <1>2 DEF IInv, Shown, Show
    <3>2. UNCHANGED <<running, restarted, generation, timerId, timers, inFlight, ticks>>
      BY <1>2, <2>3 DEF Show, loop
    <3> QED
      BY <2>1, <3>1, <3>2 DEF IInv, TypeOK, NoOverlap, OneTimer, QuietWhenStopped,
         LoopIsAlive, Shown, TicksAreFresh
  <2> QED
    BY <2>2, <2>3
<1>3. CASE ClearPoller
  BY <1>0, <1>3, StopStep DEF ClearPoller
<1>4. ASSUME NEW ms \in Intervals, SetIntervalMs(ms) PROVE IInv'
  <2>1. interval' \in Intervals /\ UNCHANGED <<page, running, generation, inFlight, ticks, restarted>>
    BY <1>4 DEF SetIntervalMs
  <2>2. CASE running /\ visible
    <3>1. Schedule(generation)
      BY <1>4, <2>2 DEF SetIntervalMs
    <3>2. ticks' \subseteq ticks /\ (inFlight' <=> ticks' # {}) /\ inFlight' \in BOOLEAN
      BY <1>0, <2>1 DEF IInv, NoOverlap
    <3> QED
      BY <2>1, <2>2, <3>1, <3>2, ScheduleStep
  <2>3. CASE ~(running /\ visible)
    <3>1. UNCHANGED <<timerId, timers>>
      BY <1>4, <2>3 DEF SetIntervalMs
    <3> QED
      BY <2>1, <3>1 DEF IInv, TypeOK, NoOverlap, OneTimer, QuietWhenStopped,
         LoopIsAlive, Shown, TicksAreFresh, page
  <2> QED
    BY <2>2, <2>3
<1>5. ASSUME NEW t \in timers, Fire(t) PROVE IInv'
  <2>1. running /\ visible /\ mounted /\ generation # 0 /\ t.gen = generation
        /\ \A u \in timers : u.id = t.id /\ u.gen = t.gen
    BY <1>5 DEF IInv, QuietWhenStopped, Shown, OneTimer
  <2>2. timers' = {}
    <3>1. \A u \in timers : u = t
      BY <2>1, <1>5 DEF IInv, TypeOK
    <3> QED
      BY <1>5, <3>1 DEF Fire
  <2>3. timerId' = None
        /\ UNCHANGED <<visible, mounted, shows, running, generation, interval, restarted>>
    BY <1>5 DEF Fire, page
  <2>4. \/ /\ inFlight = FALSE /\ inFlight' = TRUE
           /\ \E n \in Calls : ticks' = {[call |-> n, gen |-> generation]}
        \/ inFlight = TRUE /\ inFlight' = inFlight /\ ticks' = ticks
    <3>1. RunTick(generation, running, generation) /\ NoOverlap
      BY <1>5, <2>1 DEF Fire, IInv
    <3>2. TickMayStart(generation, running, generation) <=> ~inFlight
      BY <2>1, <2>3 DEF TickMayStart
    <3> QED
      BY <1>0, <3>1, <3>2, RunTickEffect
  <2>5. TypeOK'
    <3>1. generation \in 1..generation
      BY <2>1 DEF IInv, TypeOK
    <3>2. inFlight' \in BOOLEAN
      BY <1>0, <2>4
    <3>3. ticks' \subseteq [call : Calls, gen : 1..generation]
      <4>1. ticks \subseteq [call : Calls, gen : 1..generation]
        BY DEF IInv, TypeOK
      <4> QED
        BY <2>4, <3>1, <4>1
    <3> QED
      BY <2>2, <2>3, <3>2, <3>3 DEF IInv, TypeOK
  <2>6. NoOverlap'
    BY <2>4 DEF IInv, NoOverlap
  <2>7. OneTimer' /\ QuietWhenStopped' /\ Shown'
    BY <2>1, <2>2, <2>3 DEF OneTimer, QuietWhenStopped, Shown
  <2>8. LoopIsAlive' /\ TicksAreFresh'
    <3>1. CASE inFlight = FALSE
      <4>1. PICK n \in Calls : ticks' = {[call |-> n, gen |-> generation]}
        BY <2>4, <3>1
      <4> QED
        BY <2>3, <4>1 DEF LoopIsAlive, TicksAreFresh
    <3>2. CASE inFlight = TRUE
      <4>1. ticks' = ticks /\ ticks # {}
        BY <2>4, <3>2 DEF IInv, NoOverlap
      <4> QED
        BY <2>3, <4>1 DEF IInv, LoopIsAlive, TicksAreFresh
    <3> QED
      BY <1>0, <3>1, <3>2
  <2> QED
    BY <2>5, <2>6, <2>7, <2>8 DEF IInv
<1>6. ASSUME NEW k \in ticks, TickEnds(k) PROVE IInv'
  <2>1. ticks' = {} /\ inFlight' = FALSE
    BY <1>6 DEF IInv, NoOverlap, TickEnds
  <2>2. UNCHANGED <<page, running, generation, interval, restarted>>
    BY <1>6 DEF TickEnds
  <2>3. CASE running /\ k.gen = generation /\ visible
    <3>1. Schedule(generation)
      BY <1>6, <2>3 DEF TickEnds
    <3>2. interval' \in Intervals
      BY <2>2 DEF IInv, TypeOK
    <3>3. running /\ visible
      BY <2>3
    <3> QED
      BY <2>1, <2>2, <3>1, <3>2, <3>3, ScheduleStep
  <2>4. CASE ~(running /\ k.gen = generation /\ visible)
    <3>1. UNCHANGED <<timerId, timers>>
      BY <1>6, <2>4 DEF TickEnds
    <3>2. ~running \/ restarted
      BY <2>4 DEF IInv, Shown, TicksAreFresh
    <3> QED
      BY <2>1, <2>2, <3>1, <3>2 DEF IInv, TypeOK, NoOverlap, OneTimer, QuietWhenStopped,
         LoopIsAlive, Shown, TicksAreFresh, page
  <2> QED
    BY <2>3, <2>4
<1>7. CASE UNCHANGED vars
  BY <1>7 DEF vars, page, loop, IInv, TypeOK, NoOverlap, OneTimer, QuietWhenStopped,
     LoopIsAlive, Shown, TicksAreFresh
<1> QED
  BY <1>1, <1>2, <1>3, <1>4, <1>5, <1>6, <1>7 DEF Next

-----------------------------------------------------------------------------

\* The invariant holds in every state of the poller.
THEOREM IInvHolds == Spec => []IInv
  BY InvInit, InvStep, PTL DEF Spec

\* Every variable of the poller keeps its type.
THEOREM TypeCorrect == Spec => []TypeOK
<1>1. IInv => TypeOK
  BY DEF IInv
<1> QED
  BY <1>1, IInvHolds, PTL

\* No two polls of one view wait for the Hub at the same time.
THEOREM TicksDoNotOverlap == Spec => []NoOverlap
<1>1. IInv => NoOverlap
  BY DEF IInv
<1> QED
  BY <1>1, IInvHolds, PTL

\* The poller never loses track of a timeout it has set.
THEOREM TimersAreKnown == Spec => []OneTimer
<1>1. IInv => OneTimer
  BY DEF IInv
<1> QED
  BY <1>1, IInvHolds, PTL

\* A stopped poller, or one of a hidden page, has nothing scheduled.
THEOREM StoppedIsQuiet == Spec => []QuietWhenStopped
<1>1. IInv => QuietWhenStopped
  BY DEF IInv
<1> QED
  BY <1>1, IInvHolds, PTL

\* A running poller that was not restarted into a tick has its next tick.
THEOREM LoopStaysAlive == Spec => []LoopIsAlive
<1>1. IInv => LoopIsAlive
  BY DEF IInv
<1> QED
  BY <1>1, IInvHolds, PTL

\* Together: the poller is one loop that neither doubles nor dies.
THEOREM PollerIsOneLoop == Spec => []OneLoop
  BY TicksDoNotOverlap, TimersAreKnown, StoppedIsQuiet, LoopStaysAlive, PTL DEF OneLoop

=============================================================================

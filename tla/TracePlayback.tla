---------------------------- MODULE TracePlayback ----------------------------
(***************************************************************************)
(* Playback of a receipt in the city (createTraceFlows in                  *)
(* engine/trace-flows.ts): a clock that animation frames advance, a pool   *)
(* of particles that fly while their event is on, and the controls of the  *)
(* dock (ui/trace-playback.ts, main.ts), which may be used at any moment.  *)
(*                                                                         *)
(* An event is its index in the receipt; 0 is none.  What the playback     *)
(* state publishes (event shown, phase) is recomputed at the end of every  *)
(* operation and is therefore defined here, not stored.                    *)
(***************************************************************************)
EXTENDS TraceSchedule

CONSTANTS
  Receipts,       \* the receipts that may be played
  Handled,        \* bound: those of them that the controls are used on
  PoolSize,       \* MAX_PARTICLES
  FrameMs,        \* lengths of a frame, at most 50 ms (engine/shell.ts)
  Rates,          \* playback speeds the controls offer
  MaxDockInputs,  \* bound: user inputs of a behaviour
  MaxIterations   \* bound: the iteration shown stops counting here

ConstantsOK ==
  /\ \A r \in Receipts : IsReceipt(r)
  /\ Handled \subseteq Receipts
  /\ PoolSize \in Nat \ {0}
  /\ FrameMs \subseteq 1..50
  /\ Rates \subseteq 1..16
  /\ MaxDockInputs \in Nat
  /\ MaxIterations \in Nat \ {0}

ASSUME PlaybackAssumption == ConstantsOK

\* The schedules of the receipts, computed once.
Schedules == [r \in Receipts \cup {<<>>} |-> Schedule(r)]

VARIABLES
  trace,      \* events, the receipt on the screen
  schedule,   \* eventStarts, eventLife, durationMs
  clockMs,    \* the clock of the presentation
  hold,       \* loopHoldMs, time spent at the end before the next iteration
  rate,       \* playbackRate
  paused,     \* presentationPaused
  looping,
  iteration,
  selected,   \* selectedEventIndex
  pool,       \* [scheduled, flying, free, dropped]
  dockInputs  \* user inputs so far

playVars == <<trace, schedule, clockMs, hold, rate, paused, looping, iteration,
          selected, pool, dockInputs>>

TRACE_LOOP_HOLD_MS == 1800
FAILED_TRACE_LOOP_HOLD_MS == 2600

Events == DOMAIN trace
End(i) == schedule.starts[i] + schedule.lives[i]
Started == {i \in Events : schedule.starts[i] <= clockMs}
Active == {i \in Started : clockMs < End(i)}
AtEnd == trace # <<>> /\ clockMs >= schedule.duration

\* The last of some events in eventOrder.
LastOf(S) == CHOOSE i \in S : \A j \in S \ {i} : Precedes(schedule.starts, j, i)

\* currentIndex: the last event, in presentation order, that has started.
Current == IF Started = {} THEN 0 ELSE LastOf(Started)

\* The event on the dock: a sought event while it lasts, or the current one.
Shown == IF selected \in Active THEN selected ELSE Current

Phase ==
  CASE trace = <<>>          -> "idle"
    [] trace # <<>> /\ (paused \/ rate = 0) -> "paused"
    [] OTHER -> IF ~AtEnd THEN "playing" ELSE IF looping THEN "holding" ELSE "complete"

\* The last event of the receipt to end; it decides the length of the hold.
Terminal == LastOf({i \in Events : End(i) = schedule.duration})

HoldDuration ==
  IF trace[Terminal].status = "failed"
  THEN FAILED_TRACE_LOOP_HOLD_MS ELSE TRACE_LOOP_HOLD_MS

(***************************************************************************)
(* The dock: a tick for each event on the rail, the headline of the event  *)
(* shown, and the buttons that can be used.                                *)
(***************************************************************************)
RailState(i) ==
  IF AtEnd \/ Phase \in {"complete", "holding"} \/ i < Shown THEN "complete"
  ELSE IF i = Shown THEN "current" ELSE "future"

\* railSymbol: a tick that is complete tells how its event went.
RailMark(i) ==
  CASE RailState(i) = "current" -> "now"
    [] RailState(i) = "future" -> "none"
    [] OTHER -> IF trace[i].status \in {"failed", "warning"} THEN trace[i].status ELSE "success"

\* The first iteration is only worth a word when others may follow.
Headline ==
  [item |-> Shown, total |-> Len(trace),
   iteration |-> IF iteration > 0 /\ (looping \/ iteration > 1) THEN iteration ELSE 0,
   status |-> IF Shown = 0 THEN Phase ELSE trace[Shown].status]

\* The Toggle button reads Pause, and is pressed.
OffersPause == Phase \in {"playing", "holding"}

\* The buttons of the dock that are not disabled.
Enabled ==
  IF trace = <<>> THEN {}
  ELSE {"replay", "loop"}
         \cup (IF Shown > 1 THEN {"previous"} ELSE {})
         \cup (IF Shown > 0 /\ Shown < Len(trace) THEN {"next"} ELSE {})
         \cup (IF Phase # "complete" THEN {"toggle"} ELSE {})

(***************************************************************************)
(* The particle pool                                                       *)
(***************************************************************************)
\* resetPool and a cleared eventScheduled.
EmptyPool(dropped) ==
  [scheduled |-> {}, flying |-> {}, free |-> PoolSize, dropped |-> dropped]

\* spawn, for every event that has started by t, in presentation order: one
\* that is over already gets no particle, one that finds the pool empty is
\* dropped.
Spawned(p, t) ==
  LET due   == {i \in Events \ p.scheduled : schedule.starts[i] <= t}
      alive == {i \in due : t < End(i)}
      Ahead(i) == {j \in alive : Precedes(schedule.starts, j, i)}
      flown == {i \in alive : Cardinality(Ahead(i)) < p.free}
  IN  [scheduled |-> p.scheduled \cup due,
       flying    |-> p.flying \cup flown,
       free      |-> p.free - Cardinality(flown),
       dropped   |-> p.dropped \/ Cardinality(alive) > p.free]

\* The particles whose event is over go back to the pool.
Retired(p, t) ==
  LET over == {i \in p.flying : t >= End(i)}
  IN  [p EXCEPT !.flying = @ \ over, !.free = @ + Cardinality(over)]

Settled(p, t) == Retired(Spawned(p, t), t)

(***************************************************************************)
(* Initial state: nothing to play; reduced motion starts without looping.  *)
(***************************************************************************)
PlaybackInit ==
  /\ trace = <<>> /\ schedule = Schedules[<<>>]
  /\ clockMs = 0 /\ hold = 0
  /\ rate = 1 /\ paused = FALSE /\ looping \in BOOLEAN
  /\ iteration = 0 /\ selected = 0
  /\ pool = EmptyPool(FALSE)
  /\ dockInputs = 0

(***************************************************************************)
(* An animation frame of d ms: update(d).                                  *)
(***************************************************************************)
EffectiveRate == IF paused THEN 0 ELSE rate

Advance(d) ==
  /\ clockMs < schedule.duration
  /\ clockMs' = Min({schedule.duration, clockMs + d * EffectiveRate})
  /\ pool' = Settled(pool, clockMs')
  /\ UNCHANGED <<hold, iteration, selected>>

\* Mutant: a clock that stands exactly at the end is not at the end.
HoldingPastEnd ==
  trace # <<>> /\ clockMs > schedule.duration /\ looping /\ EffectiveRate > 0

Holding == trace # <<>> /\ AtEnd /\ looping /\ EffectiveRate > 0

Wait(d) ==
  /\ Holding
  /\ hold + d < HoldDuration
  /\ hold' = hold + d
  /\ pool' = Settled(pool, clockMs)
  /\ UNCHANGED <<clockMs, iteration, selected>>

\* restartIteration(true), then the events at 0 fly in the same frame.
LoopAgain(d) ==
  /\ Holding
  /\ hold + d >= HoldDuration
  /\ clockMs' = 0 /\ hold' = 0 /\ selected' = 0
  /\ iteration' = Min({iteration + 1, MaxIterations})
  /\ pool' = Settled(EmptyPool(pool.dropped), 0)

Rest ==
  /\ clockMs >= schedule.duration /\ ~Holding
  /\ pool' = Settled(pool, clockMs)
  /\ UNCHANGED <<clockMs, hold, iteration, selected>>

AnimationFrame(d) ==
  /\ Advance(d) \/ Wait(d) \/ LoopAgain(d) \/ Rest
  /\ UNCHANGED <<trace, schedule, rate, paused, looping, dockInputs>>

(***************************************************************************)
(* The controls                                                            *)
(***************************************************************************)
\* play, when the engine has a new receipt.
Play(r) ==
  /\ trace' = r /\ schedule' = Schedules[r]
  /\ clockMs' = 0 /\ hold' = 0
  /\ paused' = FALSE /\ selected' = 0
  /\ iteration' = IF r = <<>> THEN 0 ELSE 1
  /\ pool' = EmptyPool(FALSE)
  /\ UNCHANGED <<rate, looping>>

SetPlaybackRate(x) ==
  /\ rate' = x
  /\ UNCHANGED <<trace, schedule, clockMs, hold, paused, looping, iteration,
                 selected, pool>>

SetPresentationPaused(p) ==
  /\ paused' = p
  /\ selected' = IF p THEN selected ELSE 0
  /\ UNCHANGED <<trace, schedule, clockMs, hold, rate, looping, iteration, pool>>

SetLooping(enabled) ==
  /\ trace # <<>>
  /\ looping' = enabled
  /\ hold' = IF enabled THEN hold ELSE 0
  /\ UNCHANGED <<trace, schedule, clockMs, rate, paused, iteration, selected, pool>>

\* Mutant: the clock is moved without emptying the pool.
JumpWithParticles(t) ==
  /\ paused' = TRUE
  /\ clockMs' = t /\ hold' = 0 /\ iteration' = 1
  /\ pool' = Settled([pool EXCEPT !.scheduled = {}], t)
  /\ UNCHANGED <<trace, schedule, rate, looping>>

\* restartIteration(false) and then update(0) at time t.
JumpTo(t) ==
  /\ paused' = TRUE
  /\ clockMs' = t /\ hold' = 0 /\ iteration' = 1
  /\ pool' = Settled(EmptyPool(pool.dropped), t)
  /\ UNCHANGED <<trace, schedule, rate, looping>>

\* The starts that lie before (-1) or after (1) the event on the dock.
Beyond(direction) ==
  {s \in {schedule.starts[i] : i \in Events} :
     IF direction = 1 THEN s > schedule.starts[Shown] ELSE s < schedule.starts[Shown]}

\* The start that a step selects: the nearest one, or that of the event shown.
TargetStart(direction) ==
  IF Beyond(direction) = {} THEN schedule.starts[Shown]
  ELSE IF direction = 1 THEN Min(Beyond(1)) ELSE Max(Beyond(-1))

\* step, from a button of the dock.
Step(direction) ==
  /\ (IF direction = 1 THEN "next" ELSE "previous") \in Enabled
  /\ LET s == TargetStart(direction)
         life == Min({schedule.lives[i] : i \in {j \in Events : schedule.starts[j] = s}})
     IN  JumpTo(s + (life * 55) \div 100)
  /\ selected' = 0

\* seek: an exact event, chosen in the inspector or by a link.
Seek(i) ==
  /\ i \in Events
  /\ JumpTo(schedule.starts[i] + (schedule.lives[i] * 55) \div 100)
  /\ selected' = i

Replay ==
  /\ trace # <<>>
  /\ clockMs' = 0 /\ hold' = 0 /\ iteration' = 1
  /\ paused' = FALSE /\ selected' = 0
  /\ pool' = EmptyPool(pool.dropped)
  /\ UNCHANGED <<trace, schedule, rate, looping>>

\* stop, when the engine no longer has a receipt.
Stop ==
  /\ trace # <<>>
  /\ trace' = <<>> /\ schedule' = Schedules[<<>>]
  /\ clockMs' = 0 /\ hold' = 0 /\ iteration' = 0
  /\ paused' = FALSE /\ selected' = 0
  /\ pool' = [EmptyPool(pool.dropped) EXCEPT !.scheduled = pool.scheduled]
  /\ UNCHANGED <<rate, looping>>

DockInput ==
  /\ dockInputs < MaxDockInputs
  /\ trace \in Handled \cup {<<>>}
  /\ dockInputs' = dockInputs + 1
  /\ \/ \E r \in IF dockInputs = 0 THEN Receipts ELSE Handled : Play(r)
     \/ \E x \in Rates : SetPlaybackRate(x)
     \/ \E p \in BOOLEAN : SetPresentationPaused(p)
     \/ \E enabled \in BOOLEAN : SetLooping(enabled)
     \/ \E direction \in {-1, 1} : Step(direction)
     \/ \E i \in Events : Seek(i)
     \/ Replay
     \/ Stop

PlaybackNext == DockInput \/ \E d \in FrameMs : AnimationFrame(d)

\* requestAnimationFrame re-arms itself at the end of every frame.
PlaybackSpec ==
  /\ PlaybackInit /\ [][PlaybackNext]_playVars
  /\ WF_playVars(\E d \in FrameMs : AnimationFrame(d))

(***************************************************************************)
(* Properties                                                              *)
(***************************************************************************)
PlaybackTypeOK ==
  /\ trace \in Receipts \cup {<<>>}
  /\ schedule = Schedules[trace]
  /\ clockMs \in 0..schedule.duration
  /\ hold \in 0..FAILED_TRACE_LOOP_HOLD_MS
  /\ rate \in Rates \cup {1}
  /\ paused \in BOOLEAN /\ looping \in BOOLEAN
  /\ iteration \in 0..MaxIterations
  /\ selected \in Events \cup {0}
  /\ pool.free \in 0..PoolSize
  /\ dockInputs \in 0..MaxDockInputs

\* The particles in the air are those of the active events, except between a
\* fresh start and its first frame, and none is lost: a receipt that fits the
\* pool is never dropped from, however often it loops or is stepped through.
FlightsFollowClock ==
  /\ pool.flying \subseteq Active
  /\ pool.free + Cardinality(pool.flying) = PoolSize
  /\ Len(trace) \in 1..PoolSize => ~pool.dropped
  /\ pool.dropped \/ pool.flying = Active \/ (clockMs = 0 /\ pool.flying = {})

\* A sought event stays on the dock, and is the current tick of its rail, until
\* playback goes on.
SoughtStaysShown == selected # 0 => paused /\ Shown = selected /\ RailState(selected) = "current"

\* While there is a receipt the dock shows one of its events, that has started;
\* a replay does not pass for the first run; and what the dock calls complete,
\* button and rail, has come down everywhere.
DockFollowsPlayback ==
  /\ trace # <<>> => Headline.item \in Started
  /\ Headline.iteration = 0 => iteration <= 1
  /\ trace # <<>> /\ "toggle" \notin Enabled =>
       /\ pool.flying = {} /\ ~OffersPause
       /\ \A i \in Events : clockMs >= End(i) /\ RailMark(i) # "none"

\* Time is only held at the end of a looping receipt.
HoldsAtEnd == hold > 0 => AtEnd /\ looping

\* What the interleavings of frames and controls must leave alone
\* (trace-flows.ts: spawn, update, seek, setPaused, setLooping).
PlaybackValid ==
  PlaybackTypeOK /\ FlightsFollowClock /\ SoughtStaysShown /\ HoldsAtEnd /\ DockFollowsPlayback

\* "A declared dependency ... starts only after all known parents finish."
DependenciesFirst ==
  \A i \in Active : \A d \in trace[i].deps : clockMs >= End(d)

\* A dependency puts the event off: it begins when that one's dwell is over.
PutOff(i) == \E d \in trace[i].deps : schedule.starts[i] = End(d) + EVENT_DWELL_MS

\* "Overlapping model intervals remain overlapping presentation intervals.  ...
\* A declared dependency is stronger than timestamps": of two events that
\* overlap, one passes the other or begins after its end only if one of its
\* own dependencies puts it off.  So branches with the same dependencies, or
\* with none, overlap on the screen.
OverlapsStay ==
  \A i, j \in Events :
    trace[i].at <= trace[j].at /\ trace[j].at < ModelEnd(trace[i]) =>
      /\ schedule.starts[i] > schedule.starts[j] => PutOff(i)
      /\ schedule.starts[j] >= End(i) => PutOff(j)

\* What the comment above buildTracePresentationSchedule promises.
ScheduleIsFaithful == DependenciesFirst /\ OverlapsStay

Running == trace # <<>> /\ ~paused /\ rate > 0

\* Once the controls are left alone, a running trace that loops shows every
\* event again and again, and one that does not loop plays to its end and
\* stays there, whatever was stepped, sought or held before.
LeftAloneItPlaysOn ==
  /\ \A i \in 1..Max({Len(r) : r \in Receipts}) :
       <>[](Running /\ looping) => []<>(i \in Events => i \in pool.flying)
  /\ <>[](Running /\ ~looping) => <>[](Phase = "complete")

\* 'steps by parallel start group in both directions' (trace-flows.test.ts:290):
\* where groups lie in the direction of a step, the step moves the event on the
\* dock that way.
StepMovesByGroup ==
  [][\A direction \in {-1, 1} :
       Step(direction) /\ Beyond(direction) # {} =>
         schedule.starts[Shown'] \in Beyond(direction)]_playVars
=============================================================================

------------------------------- MODULE CityPage -------------------------------
(***************************************************************************)
(* The city page over the live engine: update and its accumulator, the     *)
(* background load, setControl, setPlayback and reset of                   *)
(* src/tidb/model/simulation.ts, the frame loop and the callbacks of       *)
(* src/tidb/main.ts that call them, and the counters of the dashboard in   *)
(* src/tidb/ui/dashboard-metrics.ts that watch from outside.               *)
(*                                                                         *)
(* Simulation models what a fixed step does to Regions and transactions;   *)
(* here a step is a tick and its background statements, and one counter    *)
(* stands for the three the dashboard derives rates from.  Model time is   *)
(* counted in ticks.  Real time is a whole number of fine units, far below *)
(* the resolution of a frame, and a frame's floating-point sums may be     *)
(* Rounding units off.  Browsers quantise the time of a frame: frames and  *)
(* steps are whole multiples of a quantum that the epsilon is far below.   *)
(***************************************************************************)
EXTENDS Integers, Sequences, SequencesExt, FiniteSetsExt

CONSTANTS FixedStep,     \* fixedStepSeconds, in fine units
          StepsPerSecond,
          Epsilon,       \* 1e-12 seconds
          Rounding,      \* the error one frame may add
          Durations,     \* of a frame, in fine units at speed 0.1
          Speeds, Loads, \* what the panel may set: tenths, statements per second
          DefaultLoad,   \* qps of DEFAULT_TIDB_CONTROLS, 24 in the code
          WindowSeconds, HistorySeconds,   \* DASHBOARD_RATE_WINDOW_SECONDS, ...
          MaxTicks, MaxFrames, MaxInputs,
          None           \* JavaScript's null

ASSUME PageAssumption ==
  /\ {FixedStep, StepsPerSecond, WindowSeconds, HistorySeconds} \subseteq Nat \ {0}
  /\ {Epsilon, Rounding, MaxTicks, MaxFrames, MaxInputs} \subseteq Nat
  /\ Durations \subseteq Nat \ {0} /\ Speeds \cup Loads \subseteq Nat
  /\ DefaultLoad \in 0..5000
  /\ Rounding <= Epsilon
  /\ None \notin [tick : Nat, statements : Nat]
  /\ \E quantum \in 1..FixedStep :
       /\ 2 * Epsilon < quantum
       /\ \A time \in Durations \cup {FixedStep} : time % quantum = 0

VARIABLES clock,    \* accumulator, tick, workloadCredit
          controls, \* paused, playbackSpeed, qps, and the playback mode
          metrics,  \* statements, background and traced
          traces,   \* the engine's lastTrace, the page's currentTrace, the city's
          dash,     \* createDashboardMetrics
          inputs,   \* how many inputs were taken: a bound
          ghost     \* elapsed, offered, frames, manual, work, since

vars == <<clock, controls, metrics, traces, dash, inputs, ghost>>

Clamp(value, minimum, maximum) == Max({minimum, Min({maximum, value})})

Defaults == [paused |-> FALSE, speed |-> 10, qps |-> DefaultLoad, playback |-> "slow"]
Zero == [accumulator |-> 0, tick |-> 0, credit |-> 0]
Fresh == [previous |-> None, observed |-> 0, anchors |-> <<>>, history |-> <<>>]

\* Since the engine's reset: the real time played, the statements the load
\* asked for, the frames and single steps, the background statements up to each
\* tick; and the tick at which the dashboard began.
NoGhost == [elapsed |-> 0, offered |-> 0, frames |-> 0, manual |-> 0, work |-> <<>>, since |-> 0]

UpTo(work, tick) == IF tick = 0 THEN 0 ELSE work[tick]

-----------------------------------------------------------------------------
(* runBackgroundWork: the credit is a floating-point sum of qps/30, so a   *)
(* whole statement may be seen as just less than one and wait for the next *)
(* step.                                                                   *)
BackgroundWork(s) ==
  LET credit == s.clock.credit + controls.qps
      Ran(statements) ==
        [clock |-> [s.clock EXCEPT !.tick = s.clock.tick + 1,
                                   !.credit = credit - statements * StepsPerSecond],
         statements |-> s.statements + statements,
         work |-> Append(s.work, UpTo(s.work, Len(s.work)) + statements)]
      whole == credit \div StepsPerSecond
  IN  {Ran(n) : n \in {whole} \cup IF whole > 0 /\ credit % StepsPerSecond = 0
                                   THEN {whole - 1} ELSE {}}

\* n times fixedStep: every way the background load may run.
FixedSteps(n) ==
  LET after[k \in 0..n] ==
        IF k = 0 THEN {[clock |-> clock, statements |-> metrics.statements, work |-> ghost.work]}
        ELSE UNION {BackgroundWork(s) : s \in after[k - 1]}
  IN  after[n]

\* Mutant: the boundary is compared without tolerance.
StepsWithin(accumulator) == accumulator \div FixedStep

StepsDue(accumulator) == (accumulator + Epsilon) \div FixedStep

\* update: the engine after a frame of this duration, off by this error.
Updates(duration, error) ==
  LET sum  == clock.accumulator + duration * controls.speed + error
      n    == StepsDue(sum)
      rest == Max({0, sum - n * FixedStep})
  IN  IF controls.paused THEN {[clock |-> clock, metrics |-> metrics, ghost |-> ghost]}
      ELSE {[clock |-> [s.clock EXCEPT !.accumulator = rest],
             metrics |-> [statements |-> s.statements],
             ghost |-> [ghost EXCEPT !.elapsed = ghost.elapsed + duration * controls.speed,
                                     !.offered = ghost.offered + n * controls.qps,
                                     !.frames = ghost.frames + 1, !.work = s.work]] :
              s \in FixedSteps(n)}

\* setPlayback("step"): one step, whatever the accumulator holds.
SingleStep ==
  {[clock |-> s.clock, metrics |-> [statements |-> s.statements],
    ghost |-> [ghost EXCEPT !.offered = ghost.offered + controls.qps,
                            !.manual = ghost.manual + 1, !.work = s.work]] : s \in FixedSteps(1)}

-----------------------------------------------------------------------------
(* createDashboardMetrics: sample(state), given the dashboard and engine.  *)
Second(tick) == tick \div StepsPerSecond

HasRollback(previous, e) ==
  e.clock.tick < previous.tick \/ e.metrics.statements < previous.statements

\* Statements counted while model time stood still are a trace's, not the load's.
Counted(d, e) ==
  IF d.previous # None /\ e.clock.tick > d.previous.tick
  THEN d.observed + e.metrics.statements - d.previous.statements
  ELSE d.observed

\* Array.filter: the entries at some places of a list, in their order.
Filtered(list, places) ==
  LET kept[n \in 0..Len(list)] ==
        IF n = 0 THEN <<>>
        ELSE IF n \in places THEN Append(kept[n - 1], list[n]) ELSE kept[n - 1]
  IN  kept[Len(list)]

\* The places of the anchors and of the points that are recent enough.
RecentAnchors(anchors, tick) ==
  {i \in DOMAIN anchors : anchors[i].tick >= tick - WindowSeconds * StepsPerSecond}

RecentPoints(history, tick) ==
  {i \in DOMAIN history : Second(history[i].tick) > Second(tick) - HistorySeconds}

\* A list of observations with a new one, unless its second is there already.
WithFirst(list, entry) ==
  IF list # <<>> /\ Second(Last(list).tick) = Second(entry.tick) THEN list ELSE Append(list, entry)

Rate(observed, tick, anchor) ==
  IF tick = anchor.tick THEN None ELSE <<observed - anchor.observed, tick - anchor.tick>>

Sample(dashboard, e) ==
  LET d == IF dashboard.previous # None /\ HasRollback(dashboard.previous, e) THEN Fresh
           ELSE dashboard
      tick == e.clock.tick
      observed == Counted(d, e)
      anchors == WithFirst(Filtered(d.anchors, RecentAnchors(d.anchors, tick)),
                           [tick |-> tick, observed |-> observed])
      point == [tick |-> tick, rate |-> Rate(observed, tick, Head(anchors))]
  IN  [previous |-> [tick |-> tick, statements |-> e.metrics.statements],
       observed |-> observed, anchors |-> anchors,
       history |-> WithFirst(Filtered(d.history, RecentPoints(d.history, tick)), point)]

-----------------------------------------------------------------------------
\* The state the engine is in now, and the state e it comes to.
Now == [clock |-> clock, metrics |-> metrics, ghost |-> ghost]

Engine(e) == clock' = e.clock /\ metrics' = e.metrics

\* updateDashboard, from the dashboard d.
UpdateDashboard(d, e) ==
  /\ dash' = Sample(d, e)
  /\ ghost' = IF d.previous = None \/ HasRollback(d.previous, e)
              THEN [e.ghost EXCEPT !.since = e.clock.tick] ELSE e.ghost

\* A frame samples the dashboard when 250 ms have passed since it last did.
Frame(duration, error, sampling) ==
  /\ ~controls.paused => ghost.frames < MaxFrames
  /\ \E e \in Updates(duration, error) :
       /\ e.clock.tick <= MaxTicks
       /\ Engine(e)
       /\ IF sampling THEN UpdateDashboard(dash, e) ELSE dash' = dash /\ ghost' = e.ghost
  /\ UNCHANGED <<controls, traces, inputs>>

Input == inputs < MaxInputs /\ inputs' = inputs + 1

\* window.TICITY.model.update.
ModelUpdate(duration, error) ==
  /\ Input
  /\ ghost.frames < MaxFrames
  /\ \E e \in Updates(duration, error) :
       e.clock.tick <= MaxTicks /\ Engine(e) /\ UpdateDashboard(dash, e)
  /\ UNCHANGED <<controls, traces>>

\* setControl of the page, between two samples.
SetControl(next) ==
  /\ Input
  /\ controls' = next
  /\ UpdateDashboard(Sample(dash, Now), Now)
  /\ UNCHANGED <<clock, metrics, traces>>

SetPaused(paused) == SetControl([controls EXCEPT !.paused = paused])
SetSpeed(speed) == SetControl([controls EXCEPT !.speed = Clamp(speed, 1, 200)])
SetLoad(qps) == SetControl([controls EXCEPT !.qps = Clamp(qps, 0, 5000)])

\* setPlayback of the page, between two samples.
SetPlayback(mode) ==
  /\ Input
  /\ \E e \in IF mode = "step" THEN SingleStep ELSE {Now} :
       /\ e.clock.tick <= MaxTicks
       /\ Engine(e)
       /\ UpdateDashboard(Sample(dash, Now), e)
  /\ controls' = [controls EXCEPT !.paused = (mode = "step"), !.playback = mode,
                                  !.speed = CASE mode = "slow" -> 10
                                              [] mode = "live" -> 40
                                              [] OTHER -> controls.speed]
  /\ UNCHANGED traces

\* Mutant: elapsed background work is not sampled before the trace.
Unflushed == dash

Flushed == Sample(dash, Now)

\* submitSql and requestTrace: a supported statement is executed at once.
Trace(receipt) ==
  /\ Input
  /\ metrics' = [statements |-> metrics.statements + IF receipt = None THEN 0 ELSE 1]
  /\ traces' = IF receipt = None THEN traces
               ELSE [last |-> receipt, current |-> receipt, city |-> receipt]
  /\ UpdateDashboard(Flushed, [Now EXCEPT !.metrics = metrics'])
  /\ UNCHANGED <<clock, controls>>

\* runScenario: a fresh engine, whose first statement is the scenario's own.
RunScenario(receipt) ==
  /\ Input
  /\ Engine([clock |-> Zero, metrics |-> [statements |-> 1]])
  /\ controls' = Defaults
  /\ traces' = [last |-> receipt, current |-> receipt, city |-> receipt]
  /\ UpdateDashboard(Fresh, [clock |-> Zero, metrics |-> metrics', ghost |-> NoGhost])

Reset ==
  /\ Input
  /\ Engine([clock |-> Zero, metrics |-> [statements |-> 0]])
  /\ controls' = Defaults
  /\ traces' = [last |-> None, current |-> None, city |-> None]
  /\ UpdateDashboard(Fresh, [clock |-> Zero, metrics |-> metrics', ghost |-> NoGhost])

\* boot runs a scenario and samples once.
Init ==
  /\ clock = Zero /\ metrics = [statements |-> 1] /\ controls = Defaults
  /\ traces = [last |-> 0, current |-> 0, city |-> 0]
  /\ dash = Sample(Fresh, [clock |-> Zero, metrics |-> [statements |-> 1]])
  /\ inputs = 0 /\ ghost = NoGhost

Next ==
  \/ \E duration \in Durations, error \in -Rounding..Rounding :
       \/ \E sampling \in BOOLEAN : Frame(duration, error, sampling)
       \/ ModelUpdate(duration, error)
  \/ \E paused \in BOOLEAN : SetPaused(paused)
  \/ \E speed \in Speeds : SetSpeed(speed)
  \/ \E qps \in Loads : SetLoad(qps)
  \/ \E mode \in {"step", "slow", "live"} : SetPlayback(mode)
  \/ \E receipt \in {None, inputs + 1} : Trace(receipt)
  \/ RunScenario(inputs + 1)
  \/ Reset

Spec == Init /\ [][Next]_vars
-----------------------------------------------------------------------------
TypeOK ==
  /\ clock \in [accumulator : 0..(FixedStep - 1), tick : 0..MaxTicks, credit : Nat]
  /\ controls \in [paused : BOOLEAN, speed : 1..200, qps : 0..5000,
                   playback : {"step", "slow", "live"}]
  /\ metrics \in [statements : Nat]
  /\ LET receipt == 0..MaxInputs \cup {None}
     IN  traces \in [last : receipt, current : receipt, city : receipt]

Drift == clock.accumulator + (clock.tick - ghost.manual) * FixedStep - ghost.elapsed

Error == Rounding * ghost.frames

(* The number of model steps depends on the time that was played and not   *)
(* on how frames, pauses, speeds and single steps divide it: as long as    *)
(* rounding adds up to no more than the epsilon, a step runs exactly when  *)
(* its time is complete.  Later a step may come before its time, and the   *)
(* accumulator forgets how early it was; still the clock is never ahead by *)
(* more than twice what rounding has added, nor behind by more than that.  *)
(* The load is served the same way: what was asked for has run, but for a  *)
(* credit of at most one statement.                                        *)
ClockKeepsTime ==
  /\ TypeOK
  /\ Drift \in -Error..(2 * Error)
  /\ Error <= Epsilon => /\ Drift <= Error
                         /\ clock.tick - ghost.manual = ghost.elapsed \div FixedStep
  /\ clock.credit \in 0..StepsPerSecond
  /\ UpTo(ghost.work, clock.tick) * StepsPerSecond + clock.credit = ghost.offered

\* The background statements of the ticks from one tick to another.
Background(from, to) == UpTo(ghost.work, to) - UpTo(ghost.work, from)

(* docs/DASHBOARD.md: the rates count background work only, over actual    *)
(* observations of the last seconds - whatever traces, pauses, single      *)
(* steps and scenarios come in between - and the history keeps the first   *)
(* observation of each of its seconds, with nothing filled in.             *)
DashboardIsHonest ==
  /\ traces.current = traces.last /\ traces.city = traces.last
  /\ dash.previous.tick <= clock.tick /\ ghost.since <= dash.previous.tick
  /\ dash.observed = Background(ghost.since, dash.previous.tick)
  /\ \A i \in DOMAIN dash.anchors :
       LET a == dash.anchors[i]
       IN  /\ a.observed = Background(ghost.since, a.tick)
           /\ a.tick \in (dash.previous.tick - WindowSeconds * StepsPerSecond)..dash.previous.tick
           /\ i > 1 => Second(dash.anchors[i - 1].tick) < Second(a.tick)
  /\ Len(dash.history) \in 1..HistorySeconds
  /\ \A i \in DOMAIN dash.history :
       LET p == dash.history[i]
       IN  /\ p.tick <= dash.previous.tick
           /\ i > 1 => Second(dash.history[i - 1].tick) < Second(p.tick)
           /\ p.rate # None =>
                /\ p.rate[1] = Background(p.tick - p.rate[2], p.tick)
                /\ p.rate[2] <= WindowSeconds * StepsPerSecond
=============================================================================

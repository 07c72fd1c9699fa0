# TiCity verification project

TiCity is a deterministic teaching model of TiDB v8.5: a browser application
whose engine (`src/tidb/model/`) executes SQL requests against a small cluster of
Regions, Raft groups, a timestamp oracle, transactions, MVCC garbage collection
and TiFlash, and records every step as a trace that the user interface replays.
This directory specifies that engine, its SQL front end, its scenarios and the
views of them in TLA+, checks them with TLC, and proves the core with TLAPS. The paths below are relative to the repository.

- [The system](#the-system): components, state, operations, what is hard
- [The modules](#the-modules): how they correspond to the code
- [What the runs show](#what-the-runs-show): properties, bounds, fairness
- [What is proved](#what-is-proved): theorems, assumptions, arguments
- [What is not covered](#what-is-not-covered), [Plan](#plan)
- [Running it](#running-it)

## The system

Everything runs on one JavaScript thread. A call into the engine (`update`,
`submitSql`, `requestTrace`, `runScenario`, `setControl`, `setPlayback`, `reset`)
runs to completion, so two calls never interleave; inside one call there is no
await or callback. What makes the program hard is the **order of calls** (the
user may request any statement, move any control or fail any Store at any time,
and the clock runs in between), the **many exits of one call** that must each
leave the shared state whole, and, in the labs, reducers that accept
**deltas of several actors in any order** that their checks allow, fed by
scenarios whose events are then shown in **yet other orders**.

| Component | State it keeps | Operations | Interacts with | What is hard, and what makes it correct |
|---|---|---|---|---|
| Regions and their Raft groups (`simulation.ts` 283-888, `topology.ts`) | per Region: key range, epoch, leader, role, term, commit/applied, match/applied per voter, health | `ensureLeader`, `replicateRaft` and its untraced twin, follower read, two-voter append, `markStoreDown`, `splitRegion` | called by every statement, traced or background | A failed Store is noticed only when something needs a leader; voters are left behind by partial appends and by failures; a split copies a group. Committed entries stay on a quorum; the leader holds them; the Regions partition the key space. |
| Live engine (`simulation.ts`) | oracle, bounded transaction list, GC state, TiFlash queue, metrics, clock, last trace | `traceWrite` (1PC, Async Commit, 2PC and six failing exits), `traceRead`, EXPLAIN, `fixedStep`, `advanceGc`, `reset`, scenarios | drives the Regions; feeds traces to the UI | Early returns leave no residue; commit timestamps that PD never allocated stay in order; controls that move while versions are queued; the safe point never moves back. |
| Clock, playback, controls, dashboard (`simulation.ts` 8426-8518, `main.ts`, `ui/dashboard-metrics.ts`) | accumulator, workload credit, `paused`, speed, controls; the dashboard's anchors and history | `update`, `setPlayback`, `setControl`, `reset`; sampling | calls `fixedStep`; the page samples around each call | A floating accumulator with an epsilon, single steps, pauses: a model step runs when its time is complete. Rates that count background work only, whatever traces and resets come in between. |
| Lock-wait lab and deadlock detector (`lock-lab.ts`) | transactions, lock holders, wait queues, wait-for edges, deadlock, retry | the deltas of `reduceLockLabState`; `detectWaitForCycle` | fed by the lock-deadlock scenario; snapshots go to the UI | Ownership, queues and edges are two copies of one fact each, changed by separate deltas. |
| Raft failover lab (`raft-lab.ts`) | peers with terms, votes and logs, election, no-op progress, the client's request, PD's view | the deltas of `reduceRaftLabState` | fed by the failover scenario | Votes of several rounds, logs of different terms, a request that retries on a route PD may not know yet. |
| Commit protocol lab (`protocol-lab.ts`) | three lanes: stage, timestamps, Raft and MVCC state of each Region, client response | the deltas of `reduceProtocolLabState` | fed by the comparison scenario | The answer, TiDB's stage and the Regions' Raft entries move separately. |
| GC and storage lab (`gc-lab.ts`) | safe points, reader, locks, ranges, stores, versions, marker cleanup | the deltas of `reduceGcLabState`; `planGcCompaction` | fed by the GC scenario | Five safe points that must stay ordered; removal of versions and Delete markers over two rounds. |
| TiFlash and MPP lab (`tiflash-mpp-lab.ts`) | learners with their indexes, read gates, tasks, tunnels, the result stream | the deltas of `reduceTiFlashMppLabState` | fed by the MPP scenario | Replication goes on while a query plans, gates, reads and streams: no read behind the snapshot, no answer before its parts. |
| Scenario generators, trace builder (`simulation.ts` 251-329, 1186-7789) | events, `dependsOn`, `presentationAfter`, snapshots | build a trace, apply each delta | feed the labs and the UI | A receipt is reduced in the order it is built and read in others: each must be a history the reducer accepts, and a fence must hold on the screen. |
| Views of an event (`world/*-lab-projection.ts`, `machine/index.ts`, `diagnose/index.ts`) | none | project the snapshot of the selected event | read the labs | Three pages derive shapes, edge and stage states, readiness and coordinator rows with code of their own: they must not contradict each other, nor show what has not happened. |
| Presentation (`engine/trace-flows.ts`, `ui/trace-playback.ts`, `diagnose/cursor.ts`) | schedule, teaching clock, particle pool, selection, loop hold, cursor | schedule, frame, play, step, seek, pause, rate, loop, replay, stop | animation frames drive it, the dock and the inspector control it; reads traces | Frames and user controls interleave; every jump, loop or new receipt rebuilds the particle pool; parents are shown before children; what is left running plays on. |
| SQL classifier, scenario catalogue (`sql.ts`, `scenarios.ts`) | none | `analyzeSql`; static data | input of the engine | Keyword scans that slice a statement: what is supported must be exactly the subset, and be routed by what it means. |
| Region lookup (`topology.ts`) | none | `regionForKey` | called by background work | A bisection with a fallback that would hide a miss. |
| Rendering (meshes of `world/`, panels of `ui/`, styles, `engine/shell.ts`) | WebGL and DOM | draw | reads only | Output. |

`PROJECT.json` lists every component with its status, and the hazards, each at
the line where it bites, with the properties that would catch it.

## The modules

### Regions: `RaftGroup`, `RegionRaft`, `RegionLog`

`RaftGroup` holds the operations of one Region as pure operators on a record,
because the code mutates one Region object synchronously. A voter's log is the
prefix `1..match[s]`; entries have no content. `EnsureLeader`, `Elect`,
`AppendEntry`, `TwoVoterAppend`, `CatchUp`, `PeerDown` and the two halves of a
split are the functions of the code of that name or purpose, health label
included. `RegionRaft` puts them into the array `regions`: `RequireLeader`,
`Mutate`, `ReadRegion`, `MarkStoreDown`, `SplitRegion`, from every state that
`reset` or a guided scenario leaves behind (fresh, after the cross-Region
transaction, after the failover).

`RegionLog` is what a Region promises with no replica in sight: a committed
prefix per Region that only grows, reads that observe all of it, splits that
start from the parent's prefix. `ImplementsRegionLog` reads that prefix off the
voters' logs - the longest one two voters hold - and not off the Region's own
`commit` field, so the refinement fails if a commit is claimed without a quorum.

### The live engine: `Simulation`

One action per call. `traceWrite` is one action per way it ends (`LockFails`,
`Conflicts`, `OnePhase`, `PrewriteFails`, `AsyncCommit`, `TwoPhase`), all of
which go through `End`, the model of `failTransaction`, `advanceGc` and the
success path. The operators on Regions are those of `RaftGroup`, so Raft
elections happen inside statements exactly as in the code, and `metrics` counts
them. `FixedStep` is one clock quantum: the TiFlash queue, at most one background
statement, GC. `Init` starts from a reset or from what each guided scenario
leaves. Controls can be set between any two calls, so each action takes the
values it reads as parameters. Trace events and receipts are reduced to
outcome, timestamps and Region ids; sizes, scores, QPS and wording are left out.

Three things the model makes visible. All Regions see the same Stores, so
quorum is lost everywhere at once: the exits of `traceWrite` that need one
Region with and another without a quorum are in the model but no state enables
their partial form. No transaction is open between two calls, so the live GC
never fences on one; the fence is exercised by the GC lab. And the commit
timestamp of 1PC and Async Commit is one past PD's latest without being
allocated, so a later `start_ts` may *equal* it: `CommitOrder` orders starts and
commits each among themselves, and `SnapshotsOutliveGc` says that a new start is
"not below" an earlier commit, not "above" it.

### The page around it: `CityPage`

`update` with its accumulator, the fractional workload credit, `setControl`,
`setPlayback`, `reset`, the frame loop and callbacks of `main.ts`, and the
counters of `ui/dashboard-metrics.ts`, which sample the engine from outside.
What a step does to Regions and transactions is `Simulation`; here a step is a
tick with its background statements, and one counter stands for the three that
the dashboard derives rates from. Time is a whole number of fine units; a frame's
floating-point sums may be off by `Rounding` of them, in either direction and
differently in each frame. A ghost counts what was played and offered.

How far the clock may be off is subtler than it looks. While rounding adds up to no
more than the epsilon of `update`, a step runs exactly when its time is complete.
After that a step may come early, and the accumulator, set from just below 0 to 0,
forgets how early it was: the clock can then be ahead by more than rounding has added,
but by no more than twice that. TLC shows such a state after five frames; that it gets no worse is proved.

### Region lookup: `RegionLookup`

`regionForKey` probe by probe (`LookUp`, `GoLeft`, `GoRight`, `Return`, with the
fallback of its last line), on the start keys of the array, with splits of the
hot Region between two lookups.

### The SQL classifier: `SqlClassifier`, `SqlStatements`

`SqlClassifier` is `analyzeSql` on tokens: the scans for clause keywords at
nesting depth 0, the parsers of targets, sources, predicates, assignments and rows, and the
choice of route and plan, in the order of the code, since the order decides
what is rejected as what. A token is a word, a sign, a kind of literal or a
quoted name. `SqlStatements` is what it is compared with and shares none of its
scans: a grammar that a whole statement must derive from (`Meanings`), and a
judgement of predicates by the rows they admit for every value of their
literals (`AtMostOneKey`, `Confined`, `RangesSuffice`). `Edit` inserts a phrase
anywhere or drops a token, so most states hold almost-statements.

### The labs: `LockLab`, `WaitForCycle`, `RaftLab`, `ProtocolLab`, `GcLab`, `TiFlashMppLab`

Each lab is a pure reducer that applies one delta, checks it, and throws
otherwise. A delta kind (and action) is a TLA+ action; its checks are the guards;
a refused delta changes nothing, so it is a disabled action. Deltas come in any
order the reducer accepts, which is more than the guided scenarios produce: the
properties hold for every feeder.

After each delta the code validates the whole state. Where that validation can
really fail it is a guard too (`AddEdge` in `LockLab`, `LookUpRoute` in
`RaftLab`, `Bound` in `GcLab`, `Valid'` in `ProtocolLab`, whose own checks are
too weak to stand alone, `Complete` in `TiFlashMppLab`); everywhere else that it
never fails is part of the invariant `LabValid`.

- `LockLab`: locks in leader memory, wait queues (sets: the reducer is told whom
  to wake), wait-for edges, one deadlock, one application retry.
- `WaitForCycle`: `detectWaitForCycle`, a recursive depth-first search whose
  visited set is shared between branches, on graphs built edge by edge. Compared
  with a definition of acyclicity that knows nothing of the search. The search is a
  recursive function of its calls: `visit` and the loop in it (`Visit`, `VisitAny`)
  take from it what the calls they make come to, so that it can be proved about.
- `RaftLab`: failure, Pre-Vote, Vote, election, no-op, PD, request. The starting
  logs are any that a Raft group can be in (`Possible`, Raft's own order of
  logs, stated apart from the reducer's comparison).
- `ProtocolLab` and `Commitment`: 1PC, Async Commit and 2PC. `Commitment` says
  what committing over several Regions promises whatever the protocol: no Region
  commits and the client hears nothing before every Region has prepared, and
  nothing is taken back. Each lane implements it.
- `GcLab`: two GC rounds of the coordinator and three stores; the version chains,
  locks and ranges come from `Fixtures`. `ReadsPreserved` compares what a reader
  sees among the versions left with what it would have seen among all.
- `TiFlashMppLab`: learners follow the Raft log (`Receive`, `ApplyCommand`, `Flush`,
  `AdvanceApplied`) while a query is planned, gated per Region by safe timestamp
  or ReadIndex, executed by scan and final tasks over tunnels, and streamed.
  `atSnapshot`, a ghost, remembers what each leader had committed when PD
  handed out the snapshot.

### The scenarios: `TraceBuilder`, `Scenarios`

`TraceBuilder` is the class of that name: `add` derives the model time of an
event from its dependencies and its fence (`presentationAfter`). A module per
guided scenario holds its events with their deltas (`FailoverScenario`,
`MppScenario`, `ProtocolScenario`, `GcScenario`, and `TransactionScenarios` for the
deadlock and the cross-Region one). `CrossRegionTxn` is what the events of the last one project
of its transaction; there is no reducer in the code for it, hence no checks of
deltas either.

`Scenarios` instantiates all six and composes the generators, the builder, the
schedule (`TraceSchedule`) and the labs (`INSTANCE` of each, with the fixture of its scenario): a
behaviour reads a receipt event by event and applies its deltas to the lab, in
one of these orders:

- *built*: the order the code reduces them in, one state per event's snapshot;
- *model clock*: any order in which an event follows those that ended by its start;
- *teaching clock*: the order of the presentation schedule;
- *causal*: any order that respects `dependsOn`; *fenced*: that and the fences.

A delta its lab refuses stops the reading for good, so that no lab refuses one is
the liveness property `ScenarioCompletes`. `MCScenarios` lists which order is
read of which scenario, and the list is sharp; TLC finds a refused delta in
every other combination tried:

| Scenario | model clock | fenced | causal |
|---|---|---|---|
| failover, MPP | accepted | refused | refused |
| lock-deadlock | refused | refused | refused |
| commit-protocols, gc-safe-point | accepted | accepted | refused |
| cross-region | accepted | accepted | accepted |

`dependsOn` alone is therefore not the history of a lab: the rest of it is in the
fences (which `docs/MODEL_BOUNDARY.md:26-29` says), for failover and MPP in the
model times as well, and for lock-deadlock in the order of building. Built and teaching order are accepted everywhere. In failover
and MPP the teaching order is not the built one (the client's backoff is shown after
the election timeout it was built before), which `CHANGELOG.md:311-312` intends;
so "the snapshots replay as one history" is checked of the other four.

### The views: `CityLabs`, `MachineLabs`, `DiagnoseLabs`, `LabViews`

A view keeps nothing between two events, so it is a set of operators over the
state of a lab: the city's projections, the cards and graphs of the Machine
page, the rows and tones of the Diagnose page. `LabViews` says where they must
agree, and that a mark "done" has something done behind it
(`docs/MODEL_BOUNDARY.md:201-205`, `:241-247`, `:455-459`). Not stated, since it is
not so and nothing claims it: that a lane has at most one "current" edge (it may
have two), that a lane just requested has one, and that the city's gate says
"published" when the safe point is (while the blocker is active it says
"blocked").

### Presentation: `TraceSchedule`, `TracePlayback`

`TraceSchedule` is the pure part of `engine/trace-flows.ts`:
`buildTracePresentationSchedule`, from the model times and dependencies of a
receipt to the start, life and order of its events on the teaching clock.
Overlap groups are defined by the events that open them (`Heads`) instead of by
the code's scan, and the recursive dependency shift is a recursive function over
the receipt, since the builder of traces refuses a dependency on a later event.

`TracePlayback` is `createTraceFlows`: an animation frame (`AnimationFrame`: advance,
wait at the end, loop again, or rest) between any two of which the user may
`Play` another receipt, `Step`, `Seek`, pause, change the rate, toggle the loop,
`Replay` or stop. Guards on inputs are those of the dock that offers them
(`ui/trace-playback.ts`). A particle is identified with the event it flies for;
the free list is a count. What `playbackState` publishes is derived from clock,
schedule and selection, because every operation recomputes it last. The life of
an event contains a square root of its route's length: a receipt carries that
term as a number (`hop`). Times are whole milliseconds, quotients rounded down,
and the code's epsilon is 0. `presentationAfter` changes only the model time at
which the builder places an event, which a receipt already contains; that the
fences hold on the screen nevertheless is part of `ReadingsAreHistories` in `Scenarios`.

`MC*.tla` give the constants for TLC. Definitions whose comment says *Mutant* are
wrong variants of the definition beside them, at least one per checked property; replacing
the definition by its mutant makes TLC report the property violated, which shows
that the property depends on that line of the code.

## What the runs show

Eleven runs pass; `trace_step` shows a disagreement between the code and its
test (see [A finding](#a-finding)). State counts are distinct states.

| Run | Module | Properties | States |
|---|---|---|---|
| `region_raft` | `RegionRaft` | `CommittedOnQuorum`, `LeadersAreFit`, `RegionsValid`, `TermFencesLeader`, `ImplementsRegionLog` | 8 142 |
| `simulation` | `MCSimulation` | `EngineValid`, `CommitOrder`, `ReplicaWatermark`, `SnapshotsOutliveGc`, `AtomicAcrossRegions`, `RaftMetricsMatchLogs` | 252 397 |
| `city_page` | `CityPage` | `ClockKeepsTime`, `DashboardIsHonest` | 160 158 |
| `lock_lab` | `MCLockLab` | `LabValid`, `NothingLeftBehind`, `HandOffIsFinal` | 779 784 |
| `raft_lab` | `MCRaftLab` | `LabValid`, `LeaderIsComplete`, `ServedByConfirmedLeader`, `PeersKeepTheirWord` | 438 252 |
| `protocol_lab` | `MCProtocolLab` | `LabValid`, `CommitTsCoversPrewrites`, `ResponseIsDurable`, `ImplementsCommitment` | 108 468 |
| `gc_lab` | `MCGcLab` | `LabValid`, `ReadsPreserved`, `NothingNeededIsLost`, `RemovalIsFinal` | 133 043 |
| `mpp_lab` | `MCTiFlashMppLab` | `LabValid`, `NeverStale`, `AnswerIsComplete` | 590 700 |
| `scenarios` | `MCScenarios` | `ReadingsAreHistories`, `ViewsAgree`, `ScenarioCompletes` (liveness) | 7 797 |
| `algorithms` | `MCAlgorithms` | `DetectorIsExact`, `LookupIsExact`, `ClassifierIsExact` | 134 153 |
| `trace_playback` | `MCTracePlayback` | `PlaybackValid`, `ScheduleIsFaithful`, `LeftAloneItPlaysOn` (liveness) | 233 666 |
| `trace_step` | `MCTracePlayback` | `StepMovesByGroup` (violated) | - |

What they say of the code, run by run:

- `region_raft`: committed entries stay on a quorum, the recorded leader holds them
  all, two living voters always elect, no Region changes leader inside a term, the
  Regions partition the key space and know which Stores live, and each Region is
  one append-only log.
- `simulation`: no exit of `traceWrite` leaves a transaction open; timestamps give
  one serial order; TiFlash's watermark never passes a queued version; a
  statement's snapshot is above the safe point; a write reaches all of its
  Regions or none; the Raft metrics count what the logs did.
- `city_page`: a model step runs exactly when its time is complete, as long as
  rounding adds up to less than the epsilon, and never drifts further than the
  rounding; the load is served to within one statement; the dashboard's rates
  and history count background work only.
- `lock_lab`: queues, holders and edges agree; nobody waits for a free lock; ended
  transactions hold nothing; after the hand-off to the commit a transaction takes
  no lock and never waits.
- `raft_lab`: from any possible logs, the elected peer holds every committed entry,
  and the request is served only by a leader that confirmed itself and PD named.
- `protocol_lab`: the client is answered only on durable outcomes, in all three
  protocols, and no Region commits below what a prewrite returned.
- `gc_lab`: no reader that may still read sees a different value after removal.
- `mpp_lab`: no Region is read behind the snapshot; the end of the stream is seen
  only after every partition arrived.
- `scenarios`: each order of reading named above is a history of its lab and ends
  with the lab complete; fences hold on the screen; four receipts replay as one
  history; the three views agree on each event.
- `algorithms`: `detectWaitForCycle` reports a cycle iff there is one, and a real one;
  `regionForKey` never rules the right Region out; `analyzeSql` supports exactly
  the subset and routes a point read iff at most one key can match.
- `trace_playback`: the schedule shows parents first, and of two events that overlap
  one passes the other or starts after its end only where a dependency of its own
  puts it off; the pool, the cursor and the clock agree after any sequence of inputs;
  a running receipt left alone plays on.

### A finding

`step(-1)` selects the nearest earlier start group but puts the clock at 55 % of
that group's life (`trace-flows.ts:1042`), and the dock then shows the last event
that has started by then. When start groups overlap, that is again the event the
step started from, and Previous never leaves it: with the two events of the
test fixture at `trace-flows.test.ts:121`, which start at 0 and 133 ms and last 665 ms each,
the clock goes to 365 ms. The test at `trace-flows.test.ts:290` ("steps by
parallel start group in both directions") and the comment at
`trace-flows.ts:1006` say otherwise; the test's own groups do not overlap. Nor
do those of the shipped scenarios at their default latency, where parallel
branches start together; any receipt with branches of different start shows it.
`TraceStep.cfg` checks the sentence on the two receipts of these tests.

### Bounds

- **Regions.** Two initial Regions of three keys, the hot one of which splits once,
  into a Region that could and one that could not be split again
  (`MaxRegions = 3`). `MaxIndex = 4`: enough for an election, a command and a split
  with an election inside it. All three Stores may fail in
  any order. `Baseline`, the index the failover fixture starts from (42 in the
  code), is 1: only differences of indexes matter. The proofs hold without these
  bounds.
- **Simulation.** Two scopes. `Moving`: two calls and three clock steps, for timestamps, lag and GC:
  a version can be queued under one lag, a second under another, and both become
  ready in the wrong order; the clock (`TickTs = 3`) can pass the oracle and fall
  behind it; the GC target can move back when the lifetime is raised. `Degraded`: three calls
  without lag, from the failover and the cross-Region scenario: a second failure
  that costs the quorum, and a write after it; or a split between.
  `MaxTransactions = 2` (64 in the code) is exceeded by the third write, and by
  the fixtures with three transactions.
- **CityPage.** A step is 88 units, two steps a second, frames of 8 units at speed
  0.1 (so 80 at speed 1), at speed 1 or the clamped minimum: a frame of each makes a step
  exactly due. `Epsilon = 3` with `Rounding = 1` and five frames: rounding can stay
  below the epsilon and also exceed it, and a step then comes early.
  Six ticks are more than the history (two seconds) and the rate window (one)
  hold. Three inputs: a control, a trace or scenario, and one after it.
- **LockLab.** Three transactions over two resources and one client: two for a
  cycle and a third as the victim's retry, or as another waiter. Three timestamps
  are enough for two starts and a commit, or two commits. Transactions and
  resources are interchangeable names.
- **Algorithms.** Every wait-for graph on four transactions: cycles of length
  two to four, branches that miss, and shared visited sets. Three Regions of four
  keys that split up to six, every key. Eleven statements, of every kind, with and
  without aliases, signs, groups and EXPLAIN, with one of 25 phrases inserted anywhere and then one token dropped, or
  two tokens dropped; `MaxNesting = 1` (64 in the code) so that the limit is met;
  columns and literals range over 0..3 where a predicate is judged.
- **RaftLab.** Three stores, six log shapes each (caught up, empty, behind, longer
  with uncommitted entries, newer term, later term), four terms: more than one
  round of an election.
- **ProtocolLab.** All three lanes with their real number of Regions, one lane per
  initial state: lanes share only `phase` and `focus`. Five timestamps: start,
  latest, floor, and room for two different returned values and a ceiling.
- **GcLab.** A chain of four versions in every combination of put, delete and
  lock, beside the chain that the scenario deletes and writes again; a lock
  exactly at and one above the first safe point, a range dropped below the
  reader; six timestamps, two rounds as in the code, the reader in the middle.
  Stores are interchangeable.
- **TiFlashMppLab.** The stores and Regions of the fixture: two Regions on one store,
  one on the other; one entry to replicate, in Region 26; snapshots below
  and above the learners' safe timestamps, so that both gates are taken and a
  wait is needed; two chunks of the result.
- **Scenarios.** Every event of the six receipts. Latency, the only control that moves
  their model times, is the panel's minimum, its default and its maximum
  (0, 12, 500 ms; `runScenario` itself starts at the default); the routes' share of an event's life is even, or alternates between
  the extremes.
- **TracePlayback, TraceSchedule.** The schedule of every receipt of three events that the builder can make from
  explicit dependencies and one fence, with short and long events and routes, left
  to play. Besides, four shapes of receipt that the user handles: one failed event (the longer hold),
  the partial overlap of the tests, two branches of unequal routes with their
  join, and the start of the failover scenario, where a timeout runs beside the
  client's backoff. Five user inputs: play, then any three, then one during what
  they led to, for instance hold, step, resume. Frames of 50 ms, the longest the
  shell passes on (`engine/shell.ts`), at rates 1 and 4; the frame length only
  decides how finely inputs interleave. The loop counter stops at 2, the
  first value of an automatic restart; nothing else depends on it. The pool has 3
  slots where the code has 256: two receipts fit, and from the third one a
  particle is dropped when a frame at rate 4 ends two branches and starts the
  next two.

`CHECK_DEADLOCK FALSE` is set where the system really may stop: a lab that is
complete or whose remaining deltas would all be refused, a receipt read to its
end, a text with its edits used up, and an engine or a page that has used up
the bound on calls and clock steps. `RegionRaft` and `TracePlayback` are checked for deadlock.

### Fairness

`TracePlayback` assumes weak fairness of `AnimationFrame`: the render loop of
`engine/shell.ts` asks for the next animation frame at the end of every frame.
User inputs have no fairness and are bounded by `MaxDockInputs`, so a behaviour ends
in "the controls are left alone", which is what `LeftAloneItPlaysOn` is about.

`Scenarios` assumes weak fairness of `Next`: a receipt is built in one synchronous
call, and playback of one goes on while it runs (which is what
`LeftAloneItPlaysOn` shows). Two hazards about progress rest on it. The reducers
themselves accept orders in which a lab gets stuck - a request sent after the
election can never meet the transport error that its retry needs, and a
protocol lane whose Regions commit before its stage says `prewritten` can no
longer be completed - and `ScenarioCompletes` shows that no reading of the shipped
receipts takes them.

Everywhere else none is assumed. The engine and the labs do not schedule
themselves: calls come from the user, deltas from whoever feeds a reducer, so
their `Spec` is safety only and no liveness is claimed.

## What is proved

Each row is a module of proofs; its theorems hold for every value of the
constants named in the last column, without the bounds of the runs.

| Module | Theorems (the run's property in parentheses) | For every |
|---|---|---|
| `RegionRaftProofs` | `Inductive`, `TypeCorrect`, `CommitIsDurable` (`CommittedOnQuorum`), `LeaderIsCurrent`, `QuorumElects`, `LeadersStayFit` (`LeadersAreFit`), `HealthAgrees`, `SplitsPartition`, `RegionsAreValid` (`RegionsValid`), `TermsFence` (`TermFencesLeader`), `RegionsImplementLog` (`ImplementsRegionLog`) | number of Regions, key width, hot Region, log and split bound |
| `SimulationProofs` | `OrderOfCommits` (`CommitOrder`), `CallsCloseTransactions`, `SnapshotsAreKept` (`SnapshotsOutliveGc`), `WritesAreAtomic` (`AtomicAcrossRegions`), `WatermarkHolds` (`ReplicaWatermark`), `MetricsCountLogs` (`RaftMetricsMatchLogs`), `EngineStaysValid` (`EngineValid`) | Regions, clock step, GC divisor, length of the list, number of calls |
| `LockLabProofs` | `Inductive`, `TypeCorrect`, `GraphIsValid`, `LabIsValid` (`LabValid`), `WaitersAreServed`, `VictimsAreGone`, `ReleasesAreWhole` (`NothingLeftBehind`), `RetriesAreFresh`, `HandOffHolds` (`HandOffIsFinal`) | set of transactions, resources and clients, timestamp bound |
| `RaftLabProofs` | `LabIsValid` (`LabValid`), `LeaderHoldsCommitted` (`LeaderIsComplete`), `ServedByConfirmed` (`ServedByConfirmedLeader`), `WordIsKept` (`PeersKeepTheirWord`) | three stores, starting logs, term bound |
| `ProtocolLabProofs` | `LabIsValid` (`LabValid`), `CommitTsIsCovering` (`CommitTsCoversPrewrites`), `AnsweredIsDurable` (`ResponseIsDurable`), `LanesImplementCommitment` (`ImplementsCommitment`) | comparison of lanes, three voters, timestamp bound |
| `GcLabProofs` | `LabIsValid` (`LabValid`), `NeededIsKept` (`NothingNeededIsLost`), `GcIsInvisible` (`ReadsPreserved`), `NothingComesBack` (`RemovalIsFinal`) | version chains, locks, ranges, stores, safe points |
| `TiFlashMppLabProofs` | `LabIsValid` (`LabValid`), `NoStaleRead` (`NeverStale`), `AnswerIsWhole` (`AnswerIsComplete`) | stores, Regions, leaders' indexes, snapshots, chunks |
| `BackgroundProofs` | `ClockKeepsTimeHolds` (`ClockKeepsTime`), `DashboardIsHonestHolds` (`DashboardIsHonest`); `LookupInductive`, `LookupFindsTheRegion` (`LookupIsExact`); `DetectorIsExactHolds` (`DetectorIsExact`); `PlaybackValidHolds` (`PlaybackValid`), `DependenciesComeFirst`, `ScheduleStaysFaithful` (`ScheduleIsFaithful`) | step length, steps a second, window and history, frame durations, speeds, loads, epsilon and rounding, number of frames, ticks and inputs; number of Regions, key width, hot Region, number of splits, finite set of transactions; receipts the builder can make, frame lengths, rates, pool size, number of inputs and loops |

**Assumptions.** Only those on the constants, one named `ASSUME` per module
(`RegionRaftAssumption` and so on), which TLC evaluates in every run of the
module: at least one Region of at least one key, a hot Region that exists, three
voters (a literal of the code), fixtures the scenarios' definitions have the shape of
(version chains in timestamp order, learners behind their leaders, an initial safe
point below the reader), and a null that is none of the values it stands beside.
`PlaybackAssumption` says that receipts are such as `TraceBuilder.add` makes (`IsReceipt`):
an event depends on earlier ones only and begins when they have ended, which `add` computes and
otherwise throws.
`PageAssumption` says besides that one frame adds no more than an epsilon of rounding,
and that frames and steps are multiples of a quantum of more than two epsilons: browsers
round time to 5 microseconds or more, a step is a thirtieth of a second, and a sixth of a
microsecond divides both at every speed in tenths; the epsilon is 1e-12 seconds.
That the starting logs of `RaftLab` are ones a Raft group can be in is part of its
`Init` (`Possible`), not an assumption.

**Regions.** No invariant of the Regions is inductive alone. An election is safe
(the winner holds every committed entry) only because a quorum holds the
committed prefix *and* no voter holds more than it: the no-op goes to
`match + 1` of the winner and becomes the commit index. It is available only
because the flags of each Region match the Store status. The copy a split makes
is sound only if the parent was, and its id is new only because ids are exactly
`0..n-1`. `IInv` is the conjunction of these. `RegionRaftProofs` first shows of each
operator of `RaftGroup` that a sound group stays sound (`GroupOK`) and only moves
forward, and then lifts that to the array: `ReplaceOne` for actions that
change one Region, `SpliceOK` for the one that inserts one, one lemma per action,
and `StepOK` puts them together. `TermsFence` follows from the same lemmas: every
operator moves a group forward in the sense of `Forward`.

**The Regions implement the log.** The refinement mapping reads the durable prefix
off the voters' logs. `DurablePrefixIsCommit` is the bridge: by `IInv` two voters hold
exactly the committed prefix and no more, so the mapped log of a Region has the length
of its `commit` field. Each action then grows one Region's log, or two at a
split (`GrowsOrIdles`, `SplitRegionLog`), or stutters: a failed Store, a read of
a follower that has to catch up first, a Store marked down.

**Live engine.** `CommitOrder` is not inductive: a commit timestamp of 1PC or Async
Commit is one past PD's latest, so what bounds the next start is that no recorded
timestamp is more than *one* above the oracle (`Recorded`), and that the oracle
returns at least `last + 1`. `Behind` does the same for the safe point: it is below the
next timestamp whichever of the clock and the oracle is ahead. Each exit of
`traceWrite` is one case of `WriteExits`, and all of them go through `EndOK`, where
the list is trimmed and GC advances. The Regions play no part in it.

`WritesAreAtomic` is about the Regions alone. Its invariant is `RegionsSound`: each
group is sound in the sense of `RegionRaftProofs` (instantiated as `Group`, whose
lemmas about the operators of `RaftGroup` are used here again), all groups see the
same Stores, and the array is a partition of the key space. The property compares logs at the
end of a call with logs at its beginning, across elections, a split and up to six
proposals, so the proof follows a call operation by operation: `Adds` says what
one operation adds to the log of one Region beyond its elections, `Reaches` what a
sequence of them added since the call began. Quorum is lost in every Region at once,
since all of them live on the same Stores (`LeaderlessTogether`): that is why no exit of
`traceWrite` leaves one Region written and another not. The command of a split is the one
entry that is added to one log only (`SplitAdds`). `TraceWriteReaches` has one
case per exit.

The watermark needs to know the queue (`Queued`): its timestamps increase strictly, because
each commit is above all queued ones even when it is one past the oracle; the
target is the newest of them, or what is resolved when nothing waits; and pending is the
sum of their versions. Then consuming the ready entries, a prefix however the lag was
moved (`ConsumedIsPrefix`), cannot pass one that stays. The sums are folds of the
community modules, which take an operator, so no lemma can be about them for all
operators. `Totals(f)` is the one function on the subsets of the domain of `f` that adds
up; that it exists, is unique, splits and renames is proved by induction on *sets of
subsets* (`SetByElements`), where no operator is a parameter, and each fold of the
model is shown equal to a total once (`SumOfVersions`, `SumOfElections`, `SumOfEntries`,
`SumOfGains`).

The counters go the same way as the logs, one operation at a time: `Tallied` says that what
a call has counted so far is the total, over the Regions of its beginning, of what
their logs and terms have gained; `TalliedFurther` composes it, with one lemma per
operation and one case of `WriteTallies` per exit. The sibling a split creates starts at
its parent's log, which is why only the Regions of the beginning count.

`EngineStaysValid` collects the types: those of the Regions, the queue and the
counters follow from the invariants above, and `Typed` is the rest.

**LockLab.** `IInv` is the run's invariants, that retries are fresh, and two facts
they leave open: a transaction that began has a client, and a recorded victim is
the head of its cycle. One lemma per delta has one step per conjunct that the
delta can disturb. `NoStrandedWaiter` needs `LockGraph` (who waits is queued where
they say) and `RolledBackIsGone` needs the queue part of it when a victim
leaves.

**RaftLab.** Only one store fails, so all rounds of the election are one contest:
the timeout always names the first of the eligible survivors (`Ballots`), nobody
appends until somebody leads, and then the logs are still those of `Possible`
(`LogsKept`). A quorum of votes is a quorum of `UpToDate` comparisons, hence the
winner holds everything committed. `NoopShape` carries that through the no-op, whose
index and term are the leader's last, and `RequestShape` says what the client
must have seen at each attempt.

**ProtocolLab.** A delta changes one lane, so the invariant is a predicate of a lane
(`LaneInv`, lifted by `OneLaneChanges`). What the reducer's own validation leaves
open, and the theorems need, is how far a Region's log has come when its MVCC
state shows a lock or a commit record (`RegionShape`): the index, stage and
operation of its Raft entry determine both. For the refinement a Region has
prepared when it holds a lock or a commit record, so only the deltas that apply an
entry, and the response, are steps of `Commitment`; every other one is a stutter
(`QuietDelta`). `DecisionBacked` is why a commit is not decided before every
Region has prepared.

**GcLab.** `VersionInv` says why each removed version can be spared: another Put or
Delete at or below the safe point hides it, or it is a Delete marker with nothing left
below. `GcIsInvisible` needs one more argument than the invariant, since what hides a
version may be removed too: the *newest* Put or Delete at or below a timestamp that may still
be read is never removed unless it is a marker (`NewestSurvives`), and that there is
a newest is well-foundedness of the natural numbers (`NewestData`). `RoundShape` is
what lets the second round start from the first one's safe points, and `Fenced` keeps
all of them below the active reader.

**TiFlashMppLab.** The reducer checks each delta against little of the rest of the
state; the invariant collects what the predecessors' checks still guarantee. The
index a ReadIndex gate waits for lies between what the leader had committed at
the snapshot and what it has committed now (`GateShape`), which is all that makes a read
not stale. An answer is whole because stages run backwards through the plan: a tunnel has
sent only if its sender had all its inputs (`TunnelShape`, `TaskShape`). Counting
the root streams (`RootCount`, `ReceivedCount`) needs the finiteness of `Stores`.

**CityPage.** That the clock is ahead by at most twice the error is not inductive: a frame
can add an epsilon at once, when a step comes early and the accumulator is set to 0. The
invariant `PageInv` counts such steps (`Early`). The time still due is a multiple of the
quantum, so a clock that is ahead with an empty accumulator is ahead by whole quanta, and
the k-th of them could only come once rounding had added k quanta less k epsilons. With less
than half a quantum to an epsilon that bounds what was forgotten by what was added
(`EarlyBounded`), and while that is within one epsilon no step can have come early
(`StepsAreExact`). What `FixedSteps` computes is a recursive function of the number of
steps: that it exists, and that each step keeps the load's account (`OneMore`), is
induction over a set of numbers (`CountsUp`). TLC checked the invariant first, with the
count bounded.

**The dashboard.** What it shows is not inductive, since the next sample subtracts a
counter it kept from one it reads. `Watching` adds both to the invariant: what the panel
keeps agrees with the record of background work up to its last sample (`Seen`), and the
statement counter has since gained exactly what the load ran (`Matches`). Frames may skip the sample,
so several steps lie between two; a traced statement, a scenario or a reset, which change
the counter for another reason, are sampled before and after, and that is why they
do not count. Both only speak of work up to a tick, so later work leaves them true
(`SeenLater`, by `GainKept`). The anchors and the history are pruned by `Filtered`, a recursive function over the
sequence: what is kept are some of its entries in their order (`FilteredPicks`).

**Playback.** First about the schedule, which is a recursive function over the receipt: lives are
between 520 and 1050 ms, no event starts before what it waits for has ended, some event starts
at 0, and none ends after the duration (`Plays`, proved in `SchedulePlays`). Then `PlaybackInv`:
the events flown are those started by the clock, the particles in the air those still
on, as long as none was dropped, or none at all between a fresh start and its first frame (`PoolAt`); a sought
event is on and the clock stands still; time is held at the end only. One lemma,
`PoolSettles`, serves frames and controls alike: from a pool that is right at one time, or
empty, spawning and retiring leave one that is right at any later time. That at most as many particles
fly as were free, and the first ones, is the pigeonhole principle (`EachItsOwn`). That a seek
lands inside the event it selects needs the lower bound on lives.

Overlaps need the shape of the groups besides. Events that overlap on the model's clock
have one opener (`OverlapsInOneGroup`), and the scale of a group is the least of its events'
(`OffsetIs`), so that what starts before an event ends is placed within its life
(`OverlapPlaced`). An event leaves its place only for a dependency of its own, and then starts
exactly a dwell behind it (`StartsAre`). So two events that overlap can part or change order, as the
comment at `trace-flows.ts:163-165` has it ("A declared dependency is stronger than timestamps"): in
the failover receipt the client's backoff waits until the transport error was shown, and starts when the
election timeout has left the screen. But nothing else parts them, and branches with the same
dependencies stay together. Times are whole milliseconds in the model and quotients rounded down: for an
event that lasts longer than it is shown, rounding can let the two touch, so
`ScheduleStaysFaithful` assumes that none does which another one begins during (`ShownInFull`). Lives are at
least 520 ms, and branches of a receipt last one network hop, which the panel limits to 500 ms,
or a timeout of 130; the one longer event, the gate of a lagging TiFlash replica, stands alone.

**RegionLookup.** The loop invariant names no Region: the positions in question
begin at or below the key and end above it (`Bound(low) <= key < Bound(high + 1)`).
With sorted start keys they cannot run out, so the fallback is never taken.
No induction over the array is needed, since a split keeps it sorted.
`LookupIsExact` checks the same operators on a small instance.

**WaitForCycle.** A recursive function is a `CHOOSE`: what it computes is open until one
solves its equation. Each call has fewer transactions that nobody visited than
the one that made it, or fewer neighbours left, so `Size` decreases (`SizeFewer`,
`SizeDeeper`), a call depends on smaller ones only (`CallAgrees`), and a solution is built
for one size after another (`SearchExists`). The same induction shows that every call
answers rightly (`Answers`, `SearchRight`): a path it returns leads to the target through
transactions nobody had visited before, without repeating one; without a path, what it has visited is
closed under the edges but for what was visited before. For the outermost call nothing was, so a search that
fails leaves a closed set with the holder in it and the waiter not (`DetectRight`). The new
edge comes from outside that set: no cycle goes through it, and a graph that had none before has none now
(`StaysAcyclic`). That is why it is enough to look through the newest edge, and why one
`visited` set may serve all branches. TLC checked both halves first, on four transactions.

**Only model-checked**, and why:

- `ScenarioCompletes`, `LeftAloneItPlaysOn`: liveness, out of the prover's reach.
- `ClassifierIsExact`: a recursive descent over token sequences, written with recursive
  operators, which take the provers their SMT backend.
- `ReadingsAreHistories`, `ViewsAgree`: about six fixed receipts,
  of which TLC visits every state; there is nothing to generalise over but the latency.

## What is not covered

- **Views.** The HUD panels (`ui/*-lab.ts`), the Machine page's own player
  (`mountMachine`), the summary charts of the Diagnose page beyond their tones, the
  sections about a receipt's final state, and its live sections:
  they repeat the projections above as markup, or depend on the DOM.
- **The cursor** (`diagnose/cursor.ts`): which snapshot it shows. The comment at
  `cursor.ts:28-30` wants the state at the scenario's start, while
  `diagnose/main.ts:81` passes the live state object; no run covers that.
- **Playback**: theme, disposal, guide markers and geometry of the routes; dependencies with
  cycles or on later events, which the schedule tolerates and the builder
  refuses.
- **SQL**: the lexer and the byte limit, comments, wording of explanations; the
  scenario catalogue, which is static data.
- **Receipts of plain statements**: their outcome is `Simulation`'s, their event
  lists are not modelled.
- Value placement (default CF), storage counters, hot scores, sizes, QPS of single
  Regions: derived numbers for display.
- Rendering: meshes, panels, styles, WebGL and DOM; the service worker and packaging.
- Randomness: background statements choose their key by a seeded generator; the
  model lets them choose any.

## Plan

Modelled and checked, in the order of importance: Regions (refined, proved), the live
engine (proved), the lock lab and its detector (both proved), the
Raft lab (proved), the protocol lab (refined, proved), the GC lab (proved),
presentation schedule and playback (proved but for liveness), the TiFlash lab (proved), the
scenario receipts composed with the labs they drive, the clock and the dashboard (proved), the
SQL classifier, the Region lookup (proved), the views.

Next, models: the
final-state sections of the Diagnose page, the event lists of plain statements.

## Running it

    tlc -workers 2 -config RegionRaft.cfg RegionRaft
    tlapm RegionRaftProofs.tla

The configuration of a module `<Name>` or `MC<Name>` is `<Name>.cfg`; `TraceStep.cfg` is a second
one of `MCTracePlayback`. A run takes up to about two minutes, the proofs of a
module up to about ten.

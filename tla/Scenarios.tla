------------------------------- MODULE Scenarios -------------------------------
(***************************************************************************)
(* The guided scenarios of src/tidb/model/simulation.ts and the labs their *)
(* deltas drive.  A scenario builds a receipt: events with model times,    *)
(* dependencies and fences, each with the deltas that its lab's reducer    *)
(* must accept.  The code reduces them in the order the events are built;  *)
(* the same receipt is then read in other orders - on the model's clock,   *)
(* on the teaching clock, and as the causal graph that docs and Inspector  *)
(* speak of - and each lab should be able to follow those as well.         *)
(*                                                                         *)
(* A state is a receipt read up to some point in one of these orders, and  *)
(* the lab after the deltas read so far.  Deltas of one event are applied  *)
(* one at a time, in their order.                                          *)
(***************************************************************************)
EXTENDS FailoverScenario, MppScenario, ProtocolScenario, GcScenario,
        TransactionScenarios

CONSTANTS Latencies,   \* ms; the network control of the page
          Hops,        \* shares of an event's life that its route adds, by turns
          Readings     \* scenario -> the orders its receipt is read in

VARIABLES scenario,
          trace,  \* the receipt, in the order it is read
          done,   \* the events read completely
          todo    \* the deltas of the event being read that are still to come

VARIABLES raftPhase, oldLeader, leader, failed, peers, election, log, request, pd
raft == <<raftPhase, oldLeader, leader, failed, peers, election, log, request, pd>>

VARIABLES mppPhase, snapshotTs, plan, learners, tasks, tunnels, result, atSnapshot
mpp == <<mppPhase, snapshotTs, plan, learners, tasks, tunnels, result, atSnapshot>>

VARIABLES status, client, attempt, retryOf, startTs, commitTs, held, holder, waiting,
          waiters, edges, deadlock, retry
lock == <<status, client, attempt, retryOf, startTs, commitTs, held, holder, waiting,
          waiters, edges, deadlock, retry>>

VARIABLES protocolPhase, lanes, focus
protocol == <<protocolPhase, lanes, focus>>

VARIABLES gcPhase, fixture, round, safePoint, blocker, scanned, locks, ranges, stores, versions,
          filterApplied, cleanup
gc == <<gcPhase, fixture, round, safePoint, blocker, scanned, locks, ranges, stores, versions,
        filterApplied, cleanup>>

VARIABLES stage, txnStartTs, txnCommitTs, responded, entry, pessimistic, prewritten, committed
txn == <<stage, txnStartTs, txnCommitTs, responded, entry, pessimistic, prewritten, committed>>

reader == <<scenario, trace, done, todo>>

-----------------------------------------------------------------------------
(* The labs, each with the fixture of its scenario.                        *)
BaselineLog == [lastIndex |-> 1, lastTerm |-> 1, commit |-> 1, applied |-> 1, term |-> 1]

Raft == INSTANCE RaftLab WITH phase <- raftPhase, Stores <- VoterStores,
                              Definitions <- {BaselineLog}, MaxTerm <- 2

Mpp == INSTANCE TiFlashMppLab WITH
         phase <- mppPhase, Stores <- DOMAIN MppRegionsOf, RegionsOf <- MppRegionsOf,
         Leaders <- MppLeaders, Snapshots <- {MppSnapshot},
         Commits <- [r \in DOMAIN MppLeaders |-> 1], MaxChunks <- 2

Lock == INSTANCE LockLab WITH Transactions <- DeadlockTransactions,
                              Resources <- DeadlockResources, Clients <- DeadlockClients,
                              MaxTs <- 5

Protocol == INSTANCE ProtocolLab WITH
              phase <- protocolPhase, Voters <- ProtocolVoters, MaxTs <- ProtocolTs(8),
              Comparisons <- {{"one_pc", "async_commit", "two_pc"}}

Gc == INSTANCE GcLab WITH
        phase <- gcPhase, Fixtures <- {GcFixture}, Keys <- DOMAIN GcFixture.chains,
        Locks <- DOMAIN GcFixture.lock, Ranges <- DOMAIN GcFixture.dropTs,
        Stores <- GcStores, MaxTs <- ReleasedCandidate

Txn == INSTANCE CrossRegionTxn WITH startTs <- txnStartTs, commitTs <- txnCommitTs

labs == <<raft, mpp, lock, protocol, gc, txn>>

-----------------------------------------------------------------------------
(* reduceRaftLabState, reduceTiFlashMppLabState, ...: a delta names the    *)
(* step of its lab.                                                        *)
RaftElection(d) ==
  \/ d[1] = "Fail" /\ Raft!Fail(d[2])
  \/ d[1] = "Timeout" /\ Raft!Timeout(d[2])
  \/ d[1] = "StartPreVote" /\ Raft!StartPreVote(d[2])
  \/ d[1] = "GrantPreVote" /\ Raft!GrantPreVote(d[2], d[3])
  \/ d[1] = "BecomeCandidate" /\ Raft!BecomeCandidate(d[2])
  \/ d[1] = "GrantVote" /\ Raft!GrantVote(d[2], d[3])
  \/ d[1] = "ElectLeader" /\ Raft!ElectLeader(d[2], d[3])
  \/ d[1] = "Propose" /\ Raft!Propose
  \/ d[1] = "Persist" /\ Raft!Persist(d[2])
  \/ d[1] = "Commit" /\ Raft!Commit
  \/ d[1] = "Apply" /\ Raft!Apply(d[2])

RaftRequest(d) ==
  \/ d[1] = "ObserveLeader" /\ Raft!ObserveLeader
  \/ d[1] = "LookUpRoute" /\ Raft!LookUpRoute
  \/ d[1] = "Send" /\ Raft!Send
  \/ d[1] = "TransportError" /\ Raft!TransportError
  \/ d[1] = "BackOff" /\ Raft!BackOff
  \/ d[1] = "Refresh" /\ Raft!Refresh
  \/ d[1] = "Retry" /\ Raft!Retry
  \/ d[1] = "Serve" /\ Raft!Serve
  \/ d[1] = "Complete" /\ Raft!Complete

RaftDelta(d) ==
  /\ RaftElection(d) \/ RaftRequest(d)
  /\ UNCHANGED <<mpp, lock, protocol, gc, txn>>

MppReplica(d) ==
  \/ d[1] = "RaftCommit" /\ Mpp!RaftCommit(d[2])
  \/ d[1] = "Receive" /\ Mpp!Receive(d[2], d[3])
  \/ d[1] = "ApplyCommand" /\ Mpp!ApplyCommand(d[2], d[3])
  \/ d[1] = "Flush" /\ Mpp!Flush(d[2], d[3])
  \/ d[1] = "AdvanceApplied" /\ Mpp!AdvanceApplied(d[2], d[3])

MppPlan(d) ==
  \/ d[1] = "ReceiveQuery" /\ Mpp!ReceiveQuery
  \/ d[1] = "AllocateSnapshot" /\ Mpp!AllocateSnapshot(d[2])
  \/ d[1] = "ObserveProvisioning" /\ Mpp!ObserveProvisioning
  \/ d[1] = "SelectAccessPath" /\ Mpp!SelectAccessPath
  \/ d[1] = "BuildFragments" /\ Mpp!BuildFragments
  \/ d[1] = "ScheduleRegions" /\ Mpp!ScheduleRegions
  \/ d[1] = "BuildTasks" /\ Mpp!BuildTasks
  \/ d[1] = "BuildTunnels" /\ Mpp!BuildTunnels
  \/ d[1] = "RegisterTunnels" /\ Mpp!RegisterTunnels
  \/ d[1] = "MoveTask" /\ Mpp!MoveTask(d[2], d[3])

MppGate(d) ==
  \/ d[1] = "CheckSafeTs" /\ Mpp!CheckSafeTs(d[2])
  \/ d[1] = "ReadySafeTs" /\ Mpp!ReadySafeTs(d[2])
  \/ d[1] = "RequestReadIndex" /\ Mpp!RequestReadIndex(d[2])
  \/ d[1] = "ReturnReadIndex" /\ Mpp!ReturnReadIndex(d[2])
  \/ d[1] = "WaitApplied" /\ Mpp!WaitApplied(d[2])
  \/ d[1] = "ReadyReadIndex" /\ Mpp!ReadyReadIndex(d[2])
  \/ d[1] = "CheckLocks" /\ Mpp!CheckLocks(d[2])
  \/ d[1] = "Validate" /\ Mpp!Validate(d[2])

MppStream(d) ==
  \/ d[1] = "Send" /\ Mpp!Send(d[2])
  \/ d[1] = "Deliver" /\ Mpp!Deliver(d[2])
  \/ d[1] = "DecodeChunks" /\ Mpp!DecodeChunks(d[2])
  \/ d[1] = "SendColumns" /\ Mpp!SendColumns(d[2])
  \/ d[1] = "StreamRows" /\ Mpp!StreamRows(d[2])
  \/ d[1] = "StreamMoreRows" /\ Mpp!StreamMoreRows(d[2])
  \/ d[1] = "EndStreams" /\ Mpp!EndStreams(d[2])
  \/ d[1] = "Complete" /\ Mpp!Complete(d[2])

MppDelta(d) ==
  /\ MppReplica(d) \/ MppPlan(d) \/ MppGate(d) \/ MppStream(d)
  /\ UNCHANGED <<raft, lock, protocol, gc, txn>>

LockDelta(d) ==
  /\ \/ d[1] = "Begin" /\ Lock!Begin(d[2], d[3], d[4])
     \/ d[1] = "BeginRetry" /\ Lock!BeginRetry(d[2], d[3], d[4])
     \/ d[1] = "Victimize" /\ Lock!Victimize(d[2])
     \/ d[1] = "RollBack" /\ Lock!RollBack(d[2])
     \/ d[1] = "HandOff" /\ Lock!HandOff(d[2])
     \/ d[1] = "Complete" /\ Lock!Complete(d[2], d[3])
     \/ d[1] = "Acquire" /\ Lock!Acquire(d[2], d[3])
     \/ d[1] = "Release" /\ Lock!Release(d[2], d[3])
     \/ d[1] = "Enqueue" /\ Lock!Enqueue(d[2], d[3])
     \/ d[1] = "Dequeue" /\ Lock!Dequeue(d[2], d[3])
     \/ d[1] = "AddEdge" /\ Lock!AddEdge(d[2], d[3], d[4])
     \/ d[1] = "RemoveEdge" /\ Lock!RemoveEdge(d[2])
     \/ d[1] = "Detect" /\ Lock!Detect(d[2])
     \/ d[1] = "SelectVictim" /\ Lock!SelectVictim(d[2])
     \/ d[1] = "Resolve" /\ Lock!Resolve
     \/ d[1] = "ClientError" /\ Lock!ClientError(d[2])
     \/ d[1] = "Schedule" /\ Lock!Schedule(d[2])
     \/ d[1] = "StartRetry" /\ Lock!StartRetry(d[2])
     \/ d[1] = "FinishRetry" /\ Lock!FinishRetry
  /\ UNCHANGED <<raft, mpp, protocol, gc, txn>>

ProtocolDelta(d) ==
  /\ \/ d[1] = "Focus" /\ Protocol!Focus(d[2], d[3])
     \/ d[1] = "Advance" /\ Protocol!Advance(d[2], d[3])
     \/ d[1] = "StartTs" /\ Protocol!StartTs(d[2], d[3])
     \/ d[1] = "LatestTs" /\ Protocol!LatestTs(d[2], d[3])
     \/ d[1] = "RequestMinCommitTs" /\ Protocol!RequestMinCommitTs(d[2], d[3])
     \/ d[1] = "MaxCommitTs" /\ Protocol!MaxCommitTs(d[2], d[3])
     \/ d[1] = "Decide" /\ Protocol!Decide(d[2], d[3])
     \/ d[1] = "ReturnedMinCommitTs" /\ Protocol!ReturnedMinCommitTs(d[2], d[3], d[4])
     \/ d[1] = "Propose" /\ Protocol!Propose(d[2], d[3], d[4])
     \/ d[1] = "PersistQuorum" /\ Protocol!PersistQuorum(d[2], d[3], d[4])
     \/ d[1] = "CommitEntry" /\ Protocol!CommitEntry(d[2], d[3])
     \/ d[1] = "ApplyEntry" /\ Protocol!ApplyEntry(d[2], d[3])
     \/ d[1] = "Respond" /\ Protocol!Respond(d[2])
     \/ d[1] = "FinishBackground" /\ Protocol!FinishBackground(d[2])
  /\ Protocol!Valid'
  /\ UNCHANGED <<raft, mpp, lock, gc, txn>>

GcDelta(d) ==
  /\ \/ d[1] = "Advance" /\ Gc!Advance(d[2])
     \/ d[1] = "StartRound2" /\ Gc!StartRound2
     \/ d[1] = "Candidate" /\ Gc!Candidate(d[2])
     \/ d[1] = "Bound" /\ Gc!Bound(d[2], d[3])
     \/ d[1] = "CompleteBlocker" /\ Gc!CompleteBlocker
     \/ d[1] = "Stage" /\ Gc!Stage
     \/ d[1] = "SaveVisibility" /\ Gc!SaveVisibility
     \/ d[1] = "Publish" /\ Gc!Publish
     \/ d[1] = "ScanRegion" /\ Gc!ScanRegion(d[2])
     \/ d[1] = "ResolveLock" /\ Gc!ResolveLock(d[2])
     \/ d[1] = "MarkRange" /\ Gc!MarkRange(d[2])
     \/ d[1] = "DeleteRange" /\ Gc!DeleteRange(d[2])
     \/ d[1] = "Observe" /\ Gc!Observe(d[2])
     \/ d[1] = "StartCompaction" /\ Gc!StartCompaction(d[2])
     \/ d[1] = "FilterVersions" /\ Gc!FilterVersions
     \/ d[1] = "FinishCompaction" /\ Gc!FinishCompaction(d[2])
     \/ d[1] = "ScheduleCleanup" /\ Gc!ScheduleCleanup(d[2])
     \/ d[1] = "DeleteMarkers" /\ Gc!DeleteMarkers(d[2])
  /\ UNCHANGED <<raft, mpp, lock, protocol, txn>>

TxnDelta(d) ==
  /\ \/ d[1] = "Stage" /\ Txn!Stage(d[2], d[3])
     \/ d[1] = "Start" /\ Txn!Start(d[2])
     \/ d[1] = "PessimisticLock" /\ Txn!PessimisticLock(d[2])
     \/ d[1] = "RaftPropose" /\ Txn!RaftPropose(d[2], d[3])
     \/ d[1] = "RaftPersist" /\ Txn!RaftPersist(d[2])
     \/ d[1] = "RaftCommit" /\ Txn!RaftCommit(d[2], d[3])
     \/ d[1] = "RaftApply" /\ Txn!RaftApply(d[2], d[3])
     \/ d[1] = "MvccPrewrite" /\ Txn!MvccPrewrite(d[2])
     \/ d[1] = "CommitTimestamp" /\ Txn!CommitTimestamp(d[2])
     \/ d[1] = "MvccCommit" /\ Txn!MvccCommit(d[2])
     \/ d[1] = "Respond" /\ Txn!Respond
  /\ UNCHANGED <<raft, mpp, lock, protocol, gc>>

ApplyDelta(d) ==
  \/ scenario = "tikv-failover" /\ RaftDelta(d)
  \/ scenario = "tiflash-mpp" /\ MppDelta(d)
  \/ scenario = "lock-deadlock" /\ LockDelta(d)
  \/ scenario = "commit-protocols" /\ ProtocolDelta(d)
  \/ scenario = "gc-safe-point" /\ GcDelta(d)
  \/ scenario = "cross-region-transaction" /\ TxnDelta(d)

-----------------------------------------------------------------------------
(* The receipts.  Only the failover depends on a state: where the Region's *)
(* leader is.  The first store stands for any.                             *)
EventsOf(s) ==
  CASE s = "tikv-failover" -> FailoverEvents(1)
    [] s = "tiflash-mpp" -> MppEvents
    [] s = "lock-deadlock" -> DeadlockEvents
    [] s = "commit-protocols" -> ProtocolEvents
    [] s = "gc-safe-point" -> GcEvents
    [] s = "cross-region-transaction" -> TransactionEvents

\* A receipt as it is read: each event with its deltas, the events that are
\* read before it, and when it is on the screen.
Trace(s, how, latency, hop) ==
  LET r == Receipt(EventsOf(s), latency, hop)
      shown == Schedule(r)
      Earlier(i) ==
        CASE how = "built" -> 1..(i - 1)
          [] how = "causal" -> r[i].deps
          [] how = "fenced" -> r[i].deps \cup r[i].after
          [] how = "model clock" -> {j \in DOMAIN r : ModelEnd(r[j]) <= r[i].at}
          [] how = "teaching clock" ->
               {j \in DOMAIN r : Precedes(shown.starts, j, i)}
  IN  Evaluated([i \in DOMAIN r |->
        [id |-> r[i].id, deltas |-> r[i].deltas, earlier |-> Earlier(i), deps |-> r[i].deps,
         after |-> r[i].after, status |-> r[i].status, from |-> shown.starts[i],
         until |-> shown.starts[i] + shown.lives[i]]])

-----------------------------------------------------------------------------
Init ==
  /\ scenario \in DOMAIN Readings
  /\ \E how \in Readings[scenario], latency \in Latencies, hop \in Hops :
       trace = Trace(scenario, how, latency, hop)
  /\ done = {} /\ todo = <<>>
  /\ Raft!Init /\ oldLeader = 1
  /\ Mpp!Init /\ Lock!Init /\ Protocol!Init /\ Gc!Init /\ Txn!Init

\* An event is read; only its deltas change the lab.
ReadEvent ==
  /\ todo = <<>>
  /\ \E i \in DOMAIN trace \ done :
       /\ trace[i].earlier \subseteq done
       /\ done' = done \cup {i}
       /\ todo' = trace[i].deltas
  /\ UNCHANGED <<scenario, trace, labs>>

ReadDelta ==
  /\ todo # <<>>
  /\ ApplyDelta(Head(todo))
  /\ todo' = Tail(todo)
  /\ UNCHANGED <<scenario, trace, done>>

Next == ReadEvent \/ ReadDelta

(* A receipt is built in one go, and playback goes on while it runs.       *)
Spec == Init /\ [][Next]_<<reader, labs>> /\ WF_<<reader, labs>>(Next)
-----------------------------------------------------------------------------
Finished == done = DOMAIN trace /\ todo = <<>>

(* Where a lab is once its protocol has run: complete, nothing pending.    *)
EndState ==
  CASE scenario = "tikv-failover" ->
         raftPhase = "complete" /\ \A s \in DOMAIN peers : peers[s].healthy => s \in log.applied
    [] scenario = "tiflash-mpp" -> mppPhase = "complete"
    [] scenario = "lock-deadlock" -> edges = {} /\ \A t \in DOMAIN held : held[t] = {}
    [] scenario = "commit-protocols" ->
         protocolPhase = "complete" /\ \A l \in DOMAIN lanes : lanes[l].stage = "complete"
    [] scenario = "gc-safe-point" -> gcPhase = "complete"
    [] scenario = "cross-region-transaction" -> stage = "complete"

(* Every reading of a receipt comes to its end and leaves its lab there.   *)
(* The reducers throw on a delta whose precondition does not hold, which   *)
(* here would stop the reading for good: so no lab refuses a delta of its  *)
(* scenario, and each order of reading is a history of the lab.            *)
ScenarioCompletes == <>[](Finished /\ EndState)

(* An event fenced behind another is never on the screen first, although  *)
(* the schedule knows model times and dependencies only.                   *)
ShownBehindFences ==
  \A i \in DOMAIN trace : \A j \in trace[i].after : trace[j].from <= trace[i].from

(* The snapshots of the timestamped labs appear in the order they were     *)
(* taken: a replay never goes back to a state the lab has left.  Failover  *)
(* and MPP are no part of this; their branches run side by side.           *)
ReplayNeverRewinds ==
  scenario \in {"commit-protocols", "gc-safe-point", "lock-deadlock", "cross-region-transaction"}
    /\ (\A i \in DOMAIN trace : trace[i].earlier = 1..(i - 1))
  => \A i, j \in DOMAIN trace : i < j => trace[i].from <= trace[j].from

(* What a page shows of a receipt is a history: the screen respects the    *)
(* fences and, where the receipt is one history, that history, and in each *)
(* of its readings the two-Region transaction keeps what 2PC over Raft     *)
(* promises.                                                               *)
ReadingsAreHistories ==
  ShownBehindFences /\ ReplayNeverRewinds /\ Txn!CommitFollowsPrewrites
=============================================================================

------------------------------- MODULE LabViews -------------------------------
(***************************************************************************)
(* The same event in three views.  docs/MODEL_BOUNDARY.md promises that    *)
(* the city, the Machine page and the Diagnose page read one snapshot of   *)
(* an event, and that a label says what happened in the model.  Each view  *)
(* derives its own marks from the snapshot - shapes, edge and stage        *)
(* states, readiness, coordinator rows - with code of its own, so they can *)
(* contradict each other, or show what has not happened.                   *)
(***************************************************************************)
EXTENDS CityLabs, MachineLabs, DiagnoseLabs

\* An event has a snapshot: the lab after its deltas, in the built order.
Selecting ==
  /\ todo = <<>> /\ done # {}
  /\ \A i \in DOMAIN trace : trace[i].earlier = 1..(i - 1)

-----------------------------------------------------------------------------
(* Failover: one leader in all views, and a route that the PD has answered *)
(* leads to it.                                                            *)
RaftLeaderAgrees ==
  /\ \A s \in VoterStores :
       LET card == MachineRaft.peers[s]
           row == RaftPeerRow(s)
       IN  /\ (CityShape(s) = "crown") = (card.shape = "double")
           /\ (CityShape(s) = "crown") = row.currentLeader
           /\ (CityShape(s) = "offline") = (card.health = "down")
           /\ row.currentLeader => row.commitIndex <= row.lastLog[1] /\ row.peerHealth = "up"
  /\ (CityPd.status = "observed") = RaftElectionRow.pdRouteLookup
  /\ RaftElectionRow.pdRouteLookup =>
       RaftElectionRow.pdObservedLeader = RaftElectionRow.currentLeader
  /\ RegionRequestRetryRow.requestStatus \in {"served", "completed"} =>
       RegionRequestRetryRow.cachedLeader = RaftElectionRow.currentLeader
  /\ MachineRequest.result = "success" => CityClientRetry.status = "succeeded"

(* A leader that has followed another shows a quorum of votes, cast in its *)
(* own term; a grant on its way is one the graph counts; and what the city *)
(* calls an available quorum is a majority of the rows that are up.        *)
RaftElectionAgrees ==
  /\ MachineRaft.arrows = MachineRaft.grants
  /\ \A e \in CityElectionEdges :
       e.status = "granted" => \E g \in MachineArrows : g[2] = e.from
  /\ \A s \in RaftElectionRow.votesGranted :
       LET candidate == RaftElectionRow.candidate
       IN  /\ RaftPeerRow(s).votedFor = candidate
           /\ RaftPeerRow(s).currentTerm = RaftPeerRow(candidate).currentTerm
  /\ RaftElectionRow.currentLeader \notin {None, RaftElectionRow.oldLeader} =>
       /\ RaftElectionRow.electionQuorum[1] >= RaftElectionRow.electionQuorum[2]
       /\ CityRaft.quorum.available
  /\ RaftElectionRow.liveVoters =
       Cardinality({s \in VoterStores : RaftPeerRow(s).peerHealth = "up"})

(* A cell of the log is no further than the indexes of its peer, and what  *)
(* one peer shows as committed a quorum shows as persisted.                *)
RaftCellsAgree ==
  \A s \in VoterStores : \A i \in CityWindow :
    LET cell == CityCell(s, i)
        row == RaftPeerRow(s)
    IN  /\ cell = "applied" => row.appliedIndex >= i
        /\ cell = "committed" => row.commitIndex >= i
        /\ cell = "persisted" => row.lastLog[1] >= i

RaftCommitsOnQuorum ==
  /\ \A i \in CityWindow :
       LET At(cells) == {s \in VoterStores : CityCell(s, i) \in cells}
       IN  At({"committed", "applied"}) # {} =>
             Cardinality(At({"persisted", "committed", "applied"})) >= Raft!Quorum
  /\ MachineRaft.log.committed =>
       Cardinality({s \in VoterStores : RaftPeerRow(s).lastLog = MachineRaft.log.entry})
         >= Raft!Quorum

RaftViewsAgree ==
  /\ RaftLeaderAgrees /\ RaftElectionAgrees /\ RaftCellsAgree /\ RaftCommitsOnQuorum
  /\ PageTone # "critical"
  /\ CityClientRetry.status \in {"failed", "backoff"} => PageTone = "attention"

-----------------------------------------------------------------------------
(* Lock waits: each wait is in every view with the same holder, its waiter *)
(* heads the queue of the resource and counts as a conflict, and nothing   *)
(* falls out of a slot.                                                    *)
Pairs(waits) == {<<e.waiter, e.holder, e.resource>> : e \in waits}

WaitsAgree ==
  /\ CityOverflow = 0
  /\ Pairs(CityEdges) = Pairs(DOMAIN MachineLock.waits)
  /\ Pairs(CityEdges) = Pairs(LockWaitRows)
  /\ \A row \in LockWaitRows :
       /\ row.queuePosition = 1
       /\ LockTransactionRow(row.waiter).waitingFor = row.resource
       /\ row.resource \in LockTransactionRow(row.holder).heldResources
  /\ \A t \in DOMAIN MachineLock.nodes :
       MachineLock.nodes[t].status = "waiting" => \E row \in LockWaitRows : row.waiter = t
  /\ \A e \in CityEdges :
       /\ e.waiter \in LockConflicts
       /\ CityResources[e.resource].holder = e.holder
       /\ e.cycle => CityDetector.active
  /\ \A r \in DeadlockResources, t \in Lock!Begun :
       (CityResources[r].holder = t) = (r \in LockTransactionRow(t).heldResources)

(* A cycle that is drawn runs both ways between two transactions; the      *)
(* victim is the same in all views; only an attempt that began later than  *)
(* the victim may retry for it; and the alarm lasts until the rollback.    *)
DeadlockAgrees ==
  /\ CityLock.victim = MachineLock.deadlock.victim
  /\ CityLock.newTransaction = MachineLock.retry.new
  /\ \A e \in CityEdges : e.cycle =>
       \E f \in DOMAIN MachineLock.waits :
         f.waiter = e.waiter /\ f.holder = e.holder /\ MachineLock.waits[f]
  /\ \A row \in DeadlockRows :
       /\ row.resolution = MachineLock.deadlock.state
       /\ row.clientError # "not_returned_yet" =>
            LockTransactionRow(row.victim).heldResources = {}
  /\ \A row \in ApplicationRetryRows :
       /\ row.newTransaction = MachineLock.retry.new
       /\ row.newStartTs # None =>
            /\ LockTransactionRow(row.retryOf).startTs < row.newStartTs
            /\ MachineLock.legend[row.newTransaction].attempt =
                 MachineLock.legend[row.retryOf].attempt + 1
  /\ CityLockPhase \in {"cycle", "victim", "rollback"} => PageTone = "critical"
  /\ PageTone = "critical" => MachineLock.deadlock.state \in {"detected", "rolling_back"}
  /\ TransactionsMetric.conflicts > 0 => PageTone # "healthy" /\ TransactionsMetric.active > 0

LockViewsAgree == WaitsAgree /\ DeadlockAgrees

-----------------------------------------------------------------------------
(* Commit protocols: the flow of a lane is what is done, what is under way *)
(* and what is to come, in this order; a step is done only once it         *)
(* happened; and the views agree on the client's answer and the cleanup.   *)
FlowInOrder(flow) ==
  \A i \in 1..(Len(flow) - 1) :
    /\ flow[i + 1].state = "complete" => flow[i].state = "complete"
    /\ flow[i].state = "future" => flow[i + 1].state = "future"

StepHappened(l, action) ==
  LET Everywhere(column, state) ==
        \A r \in DOMAIN lanes[l].regions : ProtocolRegionRow(l, r)[column] = state
  IN  CASE action = "latest_ts_and_bound" ->
             None \notin {ClientPathRow(l).latestTs.value, ClientPathRow(l).maxCommitTs.value}
        [] action = "prewrite_all_regions" -> Everywhere("cfDefault", "value")
        [] action = "allocate_pd_commit_ts" -> ClientPathRow(l).commitTs.value # None
        [] action \in {"one_pc_prewrite_commit", "commit_primary"} ->
             ProtocolRegionRow(l, "primary").cfWrite = "commit"
        [] action \in Background -> Everywhere("cfWrite", "commit")
        [] OTHER -> TRUE

LaneViewsAgree(l, card, path, row) ==
  /\ FlowInOrder(card.flow)
  /\ \A i \in DOMAIN card.flow :
       card.flow[i].state = "complete" => StepHappened(l, card.flow[i].action)
  /\ (card.stage = "complete") = (\A i \in DOMAIN card.flow : card.flow[i].state = "complete")
  /\ card.flow[1].state = "complete" => card.node = "complete"
  /\ path = "critical" => ~row.clientResponded
  /\ path \in {"client-boundary", "background"} => row.clientResponded
  /\ (card.cleanup = "complete") = (row.backgroundState = "complete")
  /\ l # "one_pc" => (path = "complete") = (row.backgroundState = "complete")

(* A commit timestamp lies between the bounds of its lane, no Region may   *)
(* ask for a later one, and no Region shows a commit before it is known.   *)
TimestampsAgree(l, row) ==
  /\ (CityTimestampStage(l) = "commit") = (row.commitTs.value # None)
  /\ (CityTimestampStage(l) = "none") = (MachineTimestamps(l).start_ts.state = "pending")
  /\ row.latestTs.value # None => row.startTs.value < row.latestTs.value
  /\ row.commitTs.value # None =>
       /\ row.startTs.value < row.commitTs.value
       /\ l # "two_pc" => row.commitTs.value \in row.requestMinCommitTs.value..row.maxCommitTs.value
       /\ \A r \in DOMAIN lanes[l].regions :
            LET returned == ProtocolRegionRow(l, r).returnedMinCommitTs.value
            IN  returned # None => returned <= row.commitTs.value
  /\ \A r \in DOMAIN lanes[l].regions :
       ProtocolRegionRow(l, r).cfWrite = "commit" /\ row.clientResponded => row.commitTs.value # None

(* A Region: the bar of acknowledgements, the peers of the city and the    *)
(* table of the mirror show a quorum at the same time, and only a Region   *)
(* that has one shows a change of its column families.                     *)
RegionViewsAgree(l, r) ==
  LET row == ProtocolRegionRow(l, r)
      card == MachineProtocol.lanes[l].regions[r]
      box == CityLane(l).regions[r]
      lit == {s \in ProtocolVoters : box.peers[s] \in {"persisted", "committed"}}
  IN  /\ box.reached = (row.raftStage \in {"persisted_quorum", "committed", "applied"})
      /\ box.reached = (Cardinality(lit) >= row.raftAcks[2])
      /\ box.reached = (card.acknowledgements[1] >= card.acknowledgements[2])
      /\ MachineProtocol.mirror[l].regions[r].acknowledgements = Cardinality(row.persistedVoters)
      /\ row.raftIndex = None => row.cfDefault = "empty" /\ card.returned.state = "pending"
      /\ row.cfLock = "prewrite" => row.cfWrite = "empty" /\ row.cfDefault = "value"
      /\ row.asyncCommit => MachineFlow(l)[2].action = "select_async_commit"
      /\ row.secondaryCount > 0 => row.asyncCommit /\ r = "primary"

ProtocolViewsAgree ==
  \A l \in DOMAIN lanes :
    /\ LaneViewsAgree(l, MachineProtocol.lanes[l], CityLanePath(l), ClientPathRow(l))
    /\ TimestampsAgree(l, ClientPathRow(l))
    /\ \A r \in DOMAIN lanes[l].regions : RegionViewsAgree(l, r)
    /\ MachineProtocol.mirror[l].responseSent = (MachineProtocol.lanes[l].client = "committed")
    /\ CityProtocol[l].focused => CityLanePath(l) # "idle"

-----------------------------------------------------------------------------
(* GC: the stages of a round complete one after another, and what a stage  *)
(* says of itself when it is complete is that it is.                       *)
SaysDone(st, says) ==
  CASE st \in {"candidate", "bound"} -> says # None
    [] st \in {"resolve_locks", "tikv_detected", "compaction_filter", "gc_key_cleanup"} ->
         says[1] = says[2]
    [] st = "delete_range" -> says = "deleted"
    [] OTHER -> TRUE

RoundAgrees(n) ==
  LET card == MachineGc.rounds[n]
  IN  /\ \A i \in DOMAIN PipelineStages :
           /\ n = round /\ card.stages[i].state = "complete" =>
                SaysDone(PipelineStages[i], card.stages[i].value)
           /\ i > 1 /\ card.stages[i].state # "future" => card.stages[i - 1].state = "complete"
      /\ (card.state = "complete") = (\A i \in DOMAIN PipelineStages : card.stages[i].state = "complete")
      /\ card.state = "future" => \A i \in DOMAIN PipelineStages : card.stages[i].state = "future"

(* The coordinator's rows are neither ahead of the pipeline nor behind it, *)
(* and the three stores of a safe point follow one another and stay below  *)
(* the oldest reader.                                                      *)
CoordinatorAgrees ==
  /\ \A step \in DOMAIN GcCoordinatorRow :
       LET now == PipelineState(round, step)
       IN  /\ now = "complete" => GcCoordinatorRow[step] = "complete"
           /\ now = "future" => GcCoordinatorRow[step] = "pending"
  /\ GcSafePointRow.pdGlobal <= GcSafePointRow.visibility
  /\ GcSafePointRow.visibility <= GcSafePointRow.mysqlStaged
  /\ GcSafePointRow.service # None =>
       /\ GcSafePointRow.service <= GcSafePointRow.candidate
       /\ GcSafePointRow.transactionBound # None =>
            GcSafePointRow.service <= GcSafePointRow.transactionBound
  /\ MachineGc.blocked /\ CityGate = "blocked" =>
       /\ GcSafePointRow.maxWaitBoundary = "within_max_wait_reported_not_killed"
       /\ GcSafePointRow.mysqlStaged < GcSafePointRow.candidate
  /\ CityGate = "published" \/ Detected # {} => GcCoordinatorRow["pd_published"] = "complete"

(* Every lock is in one row, and an old lock is resolved in a Region that  *)
(* was scanned; a range is deleted at all stores or at none.               *)
LocksAndRangesAgree ==
  LET row == [region \in ResolveRegions |-> GcResolveLockRow(region)]
      Rows(column) == MapThenSumSet(LAMBDA region : row[region][column], ResolveRegions)
      lockCards == MachineGc.resolveLocks.locks
  IN  /\ Rows("pendingLocks") + Rows("resolvedCommit") + Rows("resolvedRollback")
           = Cardinality(DOMAIN CityGc.locks)
      /\ \A l \in DOMAIN lockCards :
           lockCards[l].state # "pending" /\ round = 1 =>
             row[lockCards[l].region].scanState = "scanned"
      /\ \A x \in DOMAIN GcDeleteRangeRows :
           (GcDeleteRangeRows[x] = "deleted") = (CityGc.ranges[x[1]].status = "deleted")
      /\ \A s \in GcStores :
           (MachineGc.deleteRange.acks[s] = "aggregate_complete")
             = (\A x \in DOMAIN GcDeleteRangeRows : x[2] = s => GcDeleteRangeRows[x] = "deleted")

(* All views agree on which stores see the safe point of this round, and a *)
(* store filters only then.                                                *)
StoresAgree ==
  /\ safePoint.published > safePoint.previous =>
       /\ Detected = {s \in GcStores : DetectorCurrent(s)}
       /\ Detected = {s \in GcStores : GcStoreRow(s).detectionState = "observed"}
  /\ \A s \in GcStores :
       /\ MachineGc.stores[s].filterActive => s \in Detected /\ CityGc.stores[s].current
       /\ GcStoreRow(s).detectedSafePoint <= MachineGc.safePoints.pd_global

(* The totals of the Machine page are the sums of Diagnose's rows; a chain *)
(* loses its Delete marker only when nothing of it is left; and the newest *)
(* version at the safe point is never filtered.                            *)
StorageAgrees ==
  LET row == [k \in DOMAIN versions |-> GcChainRow(k)]
      Rows(column) == MapThenSumSet(LAMBDA k : row[k][column], DOMAIN versions)
      card == MachineGc.storage
  IN  /\ card.initial = Rows("versions") /\ card.filtered = Rows("filtered")
      /\ card.gcKeyDeleted = Rows("gcKeyDeleted")
      /\ Cardinality(card.defaultDeletes) = Rows("defaultCfDeletes")
      /\ Cardinality(card.anchors) <= Rows("anchors")
      /\ \A k \in DOMAIN versions :
           /\ row[k].versions = row[k].filtered + row[k].gcKeyDeleted + row[k].present
           /\ (k \in card.deletedChains) = (row[k].gcKeyDeleted > 0)
           /\ k \in card.deletedChains => row[k].anchors = 0
      /\ Rows("filtered") > 0 => GcCoordinatorRow["pd_published"] = "complete" \/ round = 2

GcViewsAgree ==
  /\ \A n \in 1..2 : RoundAgrees(n)
  /\ CoordinatorAgrees /\ LocksAndRangesAgree /\ StoresAgree /\ StorageAgrees

-----------------------------------------------------------------------------
(* MPP: Diagnose calls TiFlash read-ready when every gate of the city is,  *)
(* a ready gate has its reason, no index of a learner is ahead of the one  *)
(* before it, and locks are checked before a read is validated.            *)
GatesAgree ==
  /\ TiFlashRow.readReady = (PageTone = "healthy")
  /\ TiFlashRow.readReady = (\A r \in DOMAIN learners : CityReadGate(r) = "ready")
  /\ TiFlashRow.readyRegions + TiFlashRow.waitingRegions = Cardinality(DOMAIN MachineMpp.learners)
  /\ \A r \in DOMAIN learners :
       LET row == TiFlashReplicationRow(r)
           gate == TiFlashReadGateRow(r)
       IN  /\ CityReadGate(r) = "ready" =>
                \/ CityGateReason(r) = "self_safe_ts" /\ gate.readIndexSkipped
                     /\ gate.selfSafeTs >= gate.snapshotTs
                \/ CityGateReason(r) = "read_index_applied"
                     /\ MachineMpp.learners[r].required <= gate.learnerAppliedIndex
           /\ row.learnerAppliedIndex <= row.deltaMergeCommittedIndex
           /\ row.deltaMergeCommittedIndex <= row.learnerRaftCommandIndex
           /\ row.learnerRaftCommandIndex <= row.learnerReceivedIndex
           /\ row.learnerReceivedIndex <= row.leaderCommitIndex
           /\ gate.postReadValidated => gate.lockCount = 0

(* Tasks and tunnels: a task that reads has its Regions ready; what a      *)
(* tunnel of one view has received, the others show as carried and sent by *)
(* a task at work; the answer is complete only when every tunnel has       *)
(* finished and the reads have been validated.                             *)
TasksAgree ==
  /\ \A t \in TaskIds :
       /\ MppTaskRow(t).stage \notin {"built", "dispatched", "prepared", "snapshot_gating"} =>
            \A r \in MppTaskRow(t).regions : CityReadGate(r) = "ready"
       /\ MachineMpp.fragments[t[1]][t].stage # "built" => t[2] \in CityMpp.active
  /\ TunnelIds = DOMAIN MachineMpp.tunnels
  /\ \A u \in TunnelIds :
       /\ (CityMpp.tunnels[u] \in {"streaming", "finished"}) = (MppTunnelRow(u).bytesBucket = "small")
       /\ MachineMpp.tunnels[u].packets > 0 => MppTunnelRow(u).sourceTask \in TaskIds
       /\ MppTunnelRow(u).locality = "local" =>
            MppTaskRow(u[1]).store = MppTaskRow(u[2]).store
  /\ MppRootRow.chunksDecoded > 0 =>
       \E u \in TunnelIds : MppTunnelRow(u).locality = "root" /\ CityMpp.tunnels[u] = "finished"
  /\ MppRootRow.rowsBucket = "small" => MppRootRow.columnsSent /\ MppRootRow.chunksDecoded > 0
  /\ MachineMpp.root.clientComplete =>
       /\ TiFlashRow.readReady /\ MppRootRow.rowsBucket = "small"
       /\ \A u \in DOMAIN tunnels : CityMpp.tunnels[u] = "finished"
       /\ \A r \in DOMAIN learners : TiFlashReadGateRow(r).postReadValidated

MppViewsAgree == GatesAgree /\ TasksAgree

(* Two Regions: a mutation of the city is committed when Diagnose finds it *)
(* in the write column family and no lock is left, at a known timestamp;   *)
(* what is applied was committed on a quorum; the secondary follows the    *)
(* primary.                                                                *)
TxnViewsAgree ==
  /\ \A r \in DOMAIN entry :
       LET row == RegionRow(r)
           box == CityTxn.regions[r]
       IN  /\ (box.mutation = "committed") = (row.cfWrite = "commit")
           /\ (box.mvcc.lock = "pending") = (row.cfLock = "prewrite")
           /\ row.cfWrite = "commit" =>
                /\ row.cfLock = "empty" /\ row.cfDefault = "value"
                /\ \E txnRow \in TransactionRows : txnRow.commitTs # None
                /\ \E primary \in DOMAIN entry :
                     RegionRow(primary).primary /\ RegionRow(primary).cfWrite = "commit"
           /\ row.pessimisticLock = "leader_memory" => row.cfLock = "empty"
           /\ box.apply = "applied" => row.raftAcks[1] >= row.raftAcks[2]
           /\ row.appliedIndex <= row.commitIndex
           /\ row.proposedIndex # None => row.commitIndex <= row.proposedIndex
           /\ CityTxnPhase = "complete" => row.cfWrite = "commit"
  /\ CityTxn.phase = "complete" => ~CityTxn.coordinatorActive

-----------------------------------------------------------------------------
(* A cell of Diagnose is not more alarming than the page it stands on, and *)
(* a page that is critical has a critical cell.                            *)
Calmer(tone, other) == Weight(tone) <= Weight(other)

LockCells ==
  {CellTone("phase", row.phase) : row \in LockTransactionRows}
    \cup UNION {{CellTone("resolution", row.resolution), CellTone("victim", row.victim)} :
                  row \in {d \in DeadlockRows : d.resolution # "resolved"}}
    \cup {CellTone("status", row.status) :
            row \in {x \in ApplicationRetryRows : x.status \in {"backoff", "started", "completed"}}}

CellsAgree ==
  /\ scenario = "lock-deadlock" =>
       /\ \A tone \in LockCells : Calmer(tone, PageTone)
       /\ PageTone = "critical" => "critical" \in LockCells
  /\ scenario = "tiflash-mpp" =>
       CellTone("readReady", TiFlashRow.readReady) = PageTone
         /\ Calmer(CellTone("waitingRegions", TiFlashRow.waitingRegions), PageTone)
  /\ scenario = "cross-region-transaction" =>
       \A row \in TransactionRows : Calmer(CellTone("phase", row.phase), PageTone)

-----------------------------------------------------------------------------
(* Whatever event is selected, the city, the Machine page and the Diagnose *)
(* page do not contradict each other, and what they mark as done has       *)
(* happened; the causes of an event on the timeline lie behind it.         *)
ViewsAgree ==
  Selecting =>
    /\ scenario = "tikv-failover" => RaftViewsAgree
    /\ scenario = "lock-deadlock" => LockViewsAgree
    /\ scenario = "commit-protocols" => ProtocolViewsAgree
    /\ scenario = "gc-safe-point" => GcViewsAgree
    /\ scenario = "tiflash-mpp" => MppViewsAgree
    /\ scenario = "cross-region-transaction" => TxnViewsAgree
    /\ CellsAgree
    /\ \A a \in MachineTimeline.arrows : a.state # "future" => TimelineState(a.from) = "complete"
=============================================================================

----------------------------- MODULE MachineLabs -----------------------------
(***************************************************************************)
(* What the Machine page shows of a scenario: the cards and graphs that    *)
(* src/tidb/machine/index.ts renders from the snapshot of the selected     *)
(* event, by the data attributes that carry a state.  Nothing is kept      *)
(* between two events.  Wording, geometry and what createXxxLabState fixes *)
(* for good (profiles, eligibility, configuration, policies) are left out. *)
(* An attribute that is not there yet holds None.                          *)
(***************************************************************************)
EXTENDS Scenarios

-----------------------------------------------------------------------------
(* renderRaftElectionGraph and renderRaftState                             *)
MachineGrants ==
  {<<"pre_vote", s>> : s \in election.preVotes} \cup {<<"vote", s>> : s \in election.votes}

\* An arrow needs both its ends; the list beside the graph has every grant.
MachineArrows ==
  {g \in MachineGrants : g[2] \in VoterStores /\ election.candidate # None}

MachineShape(s) ==
  [leader |-> "double", candidate |-> "notched", pre_candidate |-> "notched",
   offline |-> "crossed", follower |-> "rounded"][peers[s].role]

MachinePeer(s) ==
  [role |-> peers[s].role, health |-> IF peers[s].healthy THEN "healthy" ELSE "down",
   shape |-> MachineShape(s), term |-> peers[s].term, voted |-> peers[s].voted,
   lastLog |-> <<peers[s].lastIndex, peers[s].lastTerm>>, match |-> peers[s].match,
   commit |-> peers[s].commit, applied |-> peers[s].applied]

MachineLog ==
  [entry |-> IF None \in {log.index, log.term} THEN None ELSE <<log.index, log.term>>,
   committed |-> log.committed, persisted |-> log.persisted, applied |-> log.applied]

MachineRequest ==
  [status |-> request.status, attempt |-> request.attempt, cached |-> request.cached,
   cache |-> request.cache, clientVisibleError |-> FALSE,
   result |-> IF request.status = "completed" THEN "success" ELSE "pending"]

MachineRaft ==
  [phase |-> raftPhase, leaders |-> <<oldLeader, leader>>, failed |-> failed,
   election |-> [phase |-> election.phase, candidate |-> election.candidate],
   live |-> Cardinality(Raft!Live), grants |-> MachineGrants, arrows |-> MachineArrows,
   peers |-> [s \in VoterStores |-> MachinePeer(s)], log |-> MachineLog,
   pd |-> [route |-> pd.lookedUp, observed |-> pd.observed], request |-> MachineRequest]

-----------------------------------------------------------------------------
(* renderWaitForDiagram and renderLockState                                *)
MachineWaits == {e \in edges : {e.waiter, e.holder} \subseteq Lock!Begun}

\* Two edges between the same transactions are drawn on opposite sides.
MachineReverse(e) == \E f \in edges : f.waiter = e.holder /\ f.holder = e.waiter

MachineDeadlock ==
  IF deadlock = None
  THEN [state |-> "none", cycle |-> <<>>, victim |-> None, retryable |-> "not-applicable"]
  ELSE [state |-> deadlock.resolution, cycle |-> deadlock.cycle, victim |-> deadlock.victim,
        retryable |-> "false"]

MachineRetry ==
  IF retry = None THEN [status |-> "none", source |-> "none", retryOf |-> None, new |-> None]
  ELSE [status |-> retry.status, source |-> "application", retryOf |-> retry.retryOf,
        new |-> retry.new]

MachineLock ==
  [nodes |-> [t \in Lock!Begun |-> [client |-> client[t], status |-> status[t]]],
   waits |-> [e \in MachineWaits |-> MachineReverse(e)], list |-> edges,
   legend |-> [t \in Lock!Begun |-> [client |-> client[t], status |-> status[t],
                                      attempt |-> attempt[t]]],
   deadlock |-> MachineDeadlock, retry |-> MachineRetry]

-----------------------------------------------------------------------------
(* protocolFlowEdges: what a lane has done, does and will do, in order.    *)
StageOrder ==
  <<"idle", "requested", "started", "candidates_checked", "latest_ts", "selected", "prewriting",
    "prewritten", "commit_ts", "committing", "client_acknowledged", "background", "complete">>

Rank(st) == SelectInSeq(StageOrder, LAMBDA other : other = st)
AtLeast(l, st) == Rank(lanes[l].stage) >= Rank(st)
In(l, stages) == lanes[l].stage \in stages

Background == {"background_commit_cleanup", "background_secondary_cleanup"}

FlowEdge(action, past, now) ==
  [action |-> action, path |-> IF action \in Background THEN "background" ELSE "critical",
   state |-> IF past THEN "complete" ELSE IF now THEN "current" ELSE "future"]

LatestTsEdge(l) ==
  FlowEdge("latest_ts_and_bound", AtLeast(l, "selected"), In(l, {"candidates_checked", "latest_ts"}))
SelectEdge(l, action) == FlowEdge(action, AtLeast(l, "prewriting"), In(l, {"selected"}))
ResponseEdge(l) ==
  FlowEdge("client_commit_response", AtLeast(l, "background"), In(l, {"client_acknowledged"}))
BackgroundEdge(l, action) == FlowEdge(action, lanes[l].backgrounded, In(l, {"background"}))

\* Mutant: the primary counts as committed when its commit starts.
PrimaryEdgeAhead(l) == FlowEdge("commit_primary", AtLeast(l, "committing"), FALSE)
PrimaryEdge(l) == FlowEdge("commit_primary", lanes[l].responded, In(l, {"committing"}))

OnePcFlow(l) ==
  <<FlowEdge("select_1pc", AtLeast(l, "latest_ts"), In(l, {"requested", "started", "candidates_checked"})),
    FlowEdge("latest_ts_and_bound", AtLeast(l, "prewriting"), In(l, {"latest_ts"})),
    FlowEdge("one_pc_prewrite_commit", lanes[l].responded, In(l, {"prewriting", "committing"})),
    FlowEdge("client_commit_response", In(l, {"complete"}), In(l, {"client_acknowledged"}))>>

AsyncFlow(l) ==
  <<LatestTsEdge(l), SelectEdge(l, "select_async_commit"),
    FlowEdge("prewrite_all_regions", lanes[l].responded, In(l, {"prewriting", "prewritten"})),
    FlowEdge("establish_async_commit", lanes[l].responded, In(l, {"prewritten"})),
    ResponseEdge(l), BackgroundEdge(l, "background_commit_cleanup")>>

TwoPcFlow(l) ==
  <<LatestTsEdge(l), SelectEdge(l, "select_regular_2pc"),
    FlowEdge("prewrite_all_regions", AtLeast(l, "commit_ts"), In(l, {"prewriting", "prewritten"})),
    FlowEdge("allocate_pd_commit_ts", AtLeast(l, "committing"), In(l, {"commit_ts"})),
    PrimaryEdge(l),
    ResponseEdge(l), BackgroundEdge(l, "background_secondary_cleanup")>>

MachineFlow(l) ==
  CASE l = "one_pc" -> OnePcFlow(l)
    [] l = "async_commit" -> AsyncFlow(l)
    [] l = "two_pc" -> TwoPcFlow(l)

\* renderProtocolFlow: the node before the first edge.
FirstNode(l) ==
  IF AtLeast(l, "latest_ts") \/ (l = "two_pc" /\ AtLeast(l, "prewriting")) THEN "complete"
  ELSE IF In(l, {"idle"}) THEN "future" ELSE "current"

-----------------------------------------------------------------------------
(* renderProtocolTimestamps, renderProtocolRegion, renderProtocolLane and  *)
(* the accessible mirror, which repeats them row by row.                   *)
MachineTimestamp(value, source) ==
  [state |-> IF value = None THEN "pending" ELSE "allocated",
   value |-> value, source |-> IF value = None THEN "none" ELSE source]

MachineTimestamps(l) ==
  [start_ts |-> MachineTimestamp(lanes[l].startTs, "pd"),
   latest_ts |-> MachineTimestamp(lanes[l].latestTs, "pd"),
   request_min_commit_ts |-> MachineTimestamp(lanes[l].floor, "tidb_model_bound"),
   max_commit_ts |-> MachineTimestamp(lanes[l].maxTs, "tidb_model_bound"),
   commit_ts |-> MachineTimestamp(lanes[l].commitTs, CommitTsSource(l))]

MachineRegion(region) ==
  [operation |-> region.raft.operation, stage |-> region.raft.stage,
   acknowledgements |-> <<Cardinality(region.raft.persisted), Protocol!Quorum>>,
   persisted |-> region.raft.persisted, mvcc |-> region.mvcc, returned |-> MachineTimestamp(region.returned, "tikv")]

CleanupState(l) ==
  IF l = "one_pc" THEN "not_required" ELSE IF lanes[l].backgrounded THEN "complete" ELSE "pending"

MachineLane(l) ==
  [stage |-> lanes[l].stage, focused |-> focus = l, node |-> FirstNode(l), flow |-> MachineFlow(l),
   timestamps |-> MachineTimestamps(l),
   regions |-> [r \in DOMAIN lanes[l].regions |-> MachineRegion(lanes[l].regions[r])],
   responded |-> lanes[l].responded, backgroundComplete |-> lanes[l].backgrounded,
   client |-> IF lanes[l].responded THEN "committed" ELSE "pending", cleanup |-> CleanupState(l)]

\* renderProtocolAccessibleMirror: a table row per lane.
TimestampSummary(l) ==
  <<lanes[l].startTs, lanes[l].latestTs, lanes[l].floor, lanes[l].maxTs, lanes[l].commitTs>>
RegionSummary(region) ==
  [operation |-> region.raft.operation, stage |-> region.raft.stage,
   acknowledgements |-> Cardinality(region.raft.persisted), mvcc |-> region.mvcc]
ProtocolMirror(l) ==
  [stage |-> lanes[l].stage, timestamps |-> TimestampSummary(l),
   regions |-> [r \in DOMAIN lanes[l].regions |-> RegionSummary(lanes[l].regions[r])],
   responseSent |-> lanes[l].responded, cleanup |-> CleanupState(l)]

MachineProtocol ==
  [phase |-> protocolPhase, focus |-> focus,
   lanes |-> [l \in DOMAIN lanes |-> MachineLane(l)],
   mirror |-> [l \in DOMAIN lanes |-> ProtocolMirror(l)]]

-----------------------------------------------------------------------------
(* The GC pipeline: ten stages in each of two rounds.                      *)
PipelineStages ==
  <<"candidate", "bound", "mysql_staged", "resolve_locks", "visibility_saved", "delete_range",
    "pd_published", "tikv_detected", "compaction_filter", "gc_key_cleanup">>

Place(st) == SelectInSeq(PipelineStages, LAMBDA other : other = st)

CurrentPipelineStage ==
  CASE gcPhase = "preparing" -> IF safePoint.candidate = None THEN "candidate" ELSE "bound"
    [] gcPhase = "safe_point_bounded" -> "mysql_staged"
    [] gcPhase = "resolving_locks" -> "resolve_locks"
    [] gcPhase = "caching_safe_point" -> "visibility_saved"
    [] gcPhase = "deleting_ranges" -> "delete_range"
    [] gcPhase = "publishing_safe_point" -> "pd_published"
    [] gcPhase = "tikv_observing" -> "tikv_detected"
    [] gcPhase = "compacting" -> "compaction_filter"
    [] gcPhase = "cleaning_delete_markers" -> "gc_key_cleanup"
    [] OTHER -> None

RoundOver == gcPhase \in {"between_rounds", "complete"}

\* Mutant: the stage that runs counts as done.
BeforeCurrentToo(st) == Place(st) <= Place(CurrentPipelineStage)
BeforeCurrent(st) == Place(st) < Place(CurrentPipelineStage)

PipelineState(n, st) ==
  CASE n < round \/ (n = round /\ RoundOver) -> "complete"
    [] n = round /\ ~RoundOver /\ CurrentPipelineStage # None ->
         IF BeforeCurrent(st) THEN "complete"
         ELSE IF st = CurrentPipelineStage THEN "current" ELSE "future"
    [] OTHER -> "future"

RoundState(n) ==
  IF n < round \/ (n = round /\ RoundOver) THEN "complete" ELSE IF n = round THEN "current" ELSE "future"

MachineRangeState ==
  IF \A r \in DOMAIN ranges : ranges[r] = "deleted" THEN "deleted"
  ELSE IF \E r \in DOMAIN ranges : ranges[r] = "eligible" THEN "eligible" ELSE "pending"

\* A store counts once there is a safe point of this round to detect.
Detected ==
  {s \in GcStores : stores[s].detected = safePoint.published
                      /\ safePoint.published > safePoint.previous}
Compacted == {s \in GcStores : stores[s].compaction = "complete"}

\* What a stage of the current round says of itself.
PipelineValue(st) ==
  CASE st = "candidate" -> safePoint.candidate
    [] st = "bound" ->
         IF safePoint.service # None /\ safePoint.blocked
         THEN <<safePoint.minStartTs, Gc!ActiveTransactionBound>> ELSE safePoint.service
    [] st = "mysql_staged" -> safePoint.staged
    [] st = "resolve_locks" -> <<Cardinality(scanned), 2>>
    [] st = "visibility_saved" -> safePoint.visibility
    [] st = "delete_range" -> MachineRangeState
    [] st = "pd_published" -> safePoint.published
    [] st = "tikv_detected" -> <<Cardinality(Detected), Cardinality(GcStores)>>
    [] st = "compaction_filter" -> <<Cardinality(Compacted), Cardinality(GcStores)>>
    [] st = "gc_key_cleanup" -> <<Cardinality(cleanup.deleted), Cardinality(cleanup.scheduled)>>

StageValue(n, st) ==
  IF n < round THEN "prior round" ELSE IF n > round THEN "future round" ELSE PipelineValue(st)

MachineRound(n) ==
  [state |-> RoundState(n),
   stages |-> [i \in DOMAIN PipelineStages |->
                 [state |-> PipelineState(n, PipelineStages[i]),
                  value |-> StageValue(n, PipelineStages[i])]]]

\* renderGcStorage: versions are counted once, not per replica.
PutAnchors == {id \in Gc!Ids : Gc!StateOf(id) = "retained_anchor" /\ Gc!TypeOf(id) = "put"}
DeletedChains ==
  {id[1] : id \in {v \in Gc!Ids : Gc!TypeOf(v) = "delete" /\ Gc!StateOf(v) = "gc_deleted"}}
\* An inline Put leaves no value behind in default CF.
DefaultDeletes ==
  {id \in Gc!Ids \ GcInline : Gc!TypeOf(id) = "put" /\ Gc!StateOf(id) = "filtered"}

MachineSafePoints ==
  [mysql_staged |-> safePoint.staged, visibility_saved |-> safePoint.visibility,
   pd_global |-> safePoint.published]

MachineResolveLocks ==
  [scanned |-> scanned,
   locks |-> [l \in DOMAIN locks |->
                [state |-> locks[l], region |-> fixture.lock[l].region,
                 primary |-> fixture.lock[l].primary]]]

\* One acknowledgement stands for all stores of a range.
MachineDeleteRange ==
  [state |-> MachineRangeState,
   acks |-> [s \in GcStores |-> IF MachineRangeState = "deleted"
                                THEN "aggregate_complete" ELSE "not_projected"]]

MachineStores ==
  [s \in GcStores |->
     [detected |-> stores[s].detected, compaction |-> stores[s].compaction,
      filterActive |-> stores[s].compaction = "running"]]

MachineStorage ==
  [chains |-> [k \in DOMAIN versions |->
                 [region |-> fixture.region[k], versions |-> versions[k]]],
   initial |-> Cardinality(Gc!Ids),
   filtered |-> Cardinality({id \in Gc!Ids : Gc!StateOf(id) = "filtered"}),
   gcKeyDeleted |-> Cardinality({id \in Gc!Ids : Gc!StateOf(id) = "gc_deleted"}),
   anchors |-> PutAnchors, deletedChains |-> DeletedChains, defaultDeletes |-> DefaultDeletes]

MachineGc ==
  [phase |-> gcPhase, round |-> round, previous |-> safePoint.previous,
   candidate |-> safePoint.candidate, minStartTs |-> safePoint.minStartTs,
   activeBound |-> Gc!ActiveTransactionBound, service |-> safePoint.service,
   scanned |-> Cardinality(scanned), blocked |-> safePoint.blocked, blocker |-> blocker,
   detected |-> Cardinality(Detected), compacted |-> Cardinality(Compacted), rounds |-> <<MachineRound(1), MachineRound(2)>>,
   safePoints |-> MachineSafePoints, resolveLocks |-> MachineResolveLocks,
   deleteRange |-> MachineDeleteRange, stores |-> MachineStores, storage |-> MachineStorage]

-----------------------------------------------------------------------------
(* renderTiFlashMppState: fragments with their tasks, once they are built. *)
MachineLearner(r) ==
  [gate |-> learners[r].gate, reason |-> learners[r].reason, required |-> learners[r].required,
   commit |-> learners[r].commit, received |-> learners[r].received,
   flushed |-> learners[r].flushed, applied |-> learners[r].applied]

Built == {t \in DOMAIN tasks : tasks[t] # "absent"}
MachineTask(t) ==
  [stage |-> tasks[t], store |-> t[2], feedsRoot |-> t[1] = "final",
   regions |-> IF t[1] = "scan" THEN MppRegionsOf[t[2]] ELSE {}]
MachineFragments ==
  [kind \in {k \in {"scan", "final"} : "fragments" \in plan} |->
     [t \in {x \in Built : x[1] = kind} |-> MachineTask(t)]]

\* The reducer sets the packet count of a tunnel to 1 when it sends.
MachineTunnel(u) ==
  [source |-> u[1], target |-> u[2], state |-> tunnels[u],
   exchange |-> IF u \in Mpp!HashTunnels THEN "hash_partition" ELSE "pass_through",
   locality |-> IF u \in Mpp!RootTunnels THEN "root"
                ELSE IF u[1][2] = u[2][2] THEN "local" ELSE "remote",
   packets |-> IF tunnels[u] \in {"sent", "received"} THEN 1 ELSE 0]
MachineTunnels == [u \in {x \in DOMAIN tunnels : tunnels[x] # "absent"} |-> MachineTunnel(u)]

MachineMpp ==
  [phase |-> mppPhase,
   learners |-> [r \in DOMAIN learners |-> MachineLearner(r)],
   fragments |-> MachineFragments, tunnels |-> MachineTunnels,
   root |-> [stage |-> result.stage, streams |-> result.roots, chunks |-> result.chunks,
             clientComplete |-> result.stage = "client_complete"]]

-----------------------------------------------------------------------------
(* renderTimeline: the events of the receipt as marks on lanes, the arrows *)
(* of their dependencies, and how each stands to the selected one.         *)
TimelineState(i) ==
  IF i = Max(done) THEN "current" ELSE IF i < Max(done) THEN "complete" ELSE "future"
TimelineArrows(i) ==
  {[from |-> j, to |-> i, state |-> TimelineState(i)] : j \in trace[i].deps \ {i}}
MachineTimeline ==
  [marks |-> [i \in DOMAIN trace |-> [state |-> TimelineState(i), status |-> trace[i].status]],
   arrows |-> UNION {TimelineArrows(i) : i \in DOMAIN trace}]

=============================================================================

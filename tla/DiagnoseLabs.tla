----------------------------- MODULE DiagnoseLabs -----------------------------
(***************************************************************************)
(* What the Diagnose page (src/tidb/diagnose/index.ts) makes of the lab of *)
(* the selected event: the rows of projectDiagnostics, one operator per    *)
(* section, and how alarming createDiagnosticSummary finds them.  A page   *)
(* keeps nothing between two events.                                       *)
(*                                                                         *)
(* The page is given the lab of the event and nothing else, as             *)
(* index.test.ts mounts it.  main.ts lays the same lab over the state at   *)
(* the end of the scenario, and the sections the lab has no rows for       *)
(* (cluster, hot-regions, gc, Regions of others) then show that end.       *)
(*                                                                         *)
(* A row has the columns that a delta can change.  Names, the declared     *)
(* profile of a lane, policies, pins and boundary notes are the same in    *)
(* every event.  None stands for the dash of an empty cell.                *)
(***************************************************************************)
EXTENDS Scenarios

-----------------------------------------------------------------------------
(* raft-peers, raft-election, region-request-retry                         *)
RaftPeerRow(s) ==
  [raftRole |-> peers[s].role, peerHealth |-> IF peers[s].healthy THEN "up" ELSE "down",
   currentTerm |-> peers[s].term, votedFor |-> peers[s].voted,
   lastLog |-> <<peers[s].lastIndex, peers[s].lastTerm>>, matchIndex |-> peers[s].match,
   commitIndex |-> peers[s].commit, appliedIndex |-> peers[s].applied,
   oldLeader |-> s = oldLeader, currentLeader |-> s = leader]

RaftElectionRow ==
  [electionPhase |-> election.phase, candidate |-> election.candidate,
   preVotesGranted |-> election.preVotes, votesGranted |-> election.votes,
   electionQuorum |-> <<Cardinality(election.votes), Raft!Quorum>>,
   liveVoters |-> Cardinality(Raft!Live), oldLeader |-> oldLeader, currentLeader |-> leader,
   failedStore |-> failed, pdObservedLeader |-> pd.observed, pdRouteLookup |-> pd.lookedUp]

\* validateRaftLab refuses a lab whose request shows the client an error.
RegionRequestRetryRow ==
  [internalAttempt |-> request.attempt, cachedLeader |-> request.cached,
   cacheState |-> request.cache, requestStatus |-> request.status, clientVisibleError |-> FALSE]

-----------------------------------------------------------------------------
(* protocol-client-path, protocol-region-state                             *)
BackgroundState(l) ==
  CASE l = "one_pc" -> "not_required"
    [] l # "one_pc" /\ lanes[l].backgrounded -> "complete"
    [] l # "one_pc" /\ ~lanes[l].backgrounded /\ lanes[l].responded -> "in_progress_after_response"
    [] l # "one_pc" /\ ~lanes[l].backgrounded /\ ~lanes[l].responded -> "not_started"

\* A timestamp has a source once it is there.
Sourced(ts, source) == [value |-> ts, source |-> IF ts = None THEN None ELSE source]

ClientPathRow(l) ==
  [stage |-> lanes[l].stage,
   startTs |-> Sourced(lanes[l].startTs, "pd_tso"),
   latestTs |-> Sourced(lanes[l].latestTs, "pd_tso"),
   requestMinCommitTs |-> Sourced(lanes[l].floor, "latest_ts_plus_one"),
   maxCommitTs |-> Sourced(lanes[l].maxTs, "representative_safe_window_model_bound"),
   commitTs |-> Sourced(lanes[l].commitTs, CommitTsSource(l)),
   clientResponded |-> lanes[l].responded, backgroundState |-> BackgroundState(l)]

\* The lab counts entries from 1; 0 is a Region that has proposed nothing.
ProtocolRegionRow(l, r) ==
  LET group == lanes[l].regions[r].raft
      mvcc == lanes[l].regions[r].mvcc
  IN  [raftOperation |-> group.operation, raftStage |-> group.stage,
       raftIndex |-> IF group.index = 0 THEN None ELSE group.index,
       raftAcks |-> <<Cardinality(group.persisted), Protocol!Quorum>>,
       persistedVoters |-> group.persisted,
       cfDefault |-> mvcc.default, cfLock |-> mvcc.lock, cfWrite |-> mvcc.write,
       asyncCommit |-> mvcc.async, secondaryCount |-> mvcc.secondaries,
       returnedMinCommitTs |-> Sourced(lanes[l].regions[r].returned, "tikv_prewrite_result")]

-----------------------------------------------------------------------------
(* gc-safe-point-stores, gc-coordinator-path                               *)
GcPhaseOrder ==
  <<"idle", "preparing", "safe_point_bounded", "resolving_locks", "caching_safe_point",
    "deleting_ranges", "publishing_safe_point", "tikv_observing", "compacting",
    "cleaning_delete_markers", "between_rounds", "complete">>

PhaseRank(p) == SelectInSeq(GcPhaseOrder, LAMBDA other : other = p)
GcRank == PhaseRank(gcPhase)

GcSafePointRow ==
  [round |-> round, phase |-> gcPhase, candidate |-> safePoint.candidate,
   globalMinStartTs |-> safePoint.minStartTs, transactionBound |-> Gc!ActiveTransactionBound,
   service |-> safePoint.service, mysqlStaged |-> safePoint.staged,
   visibility |-> safePoint.visibility, pdGlobal |-> safePoint.published,
   blockerStatus |-> blocker,
   maxWaitBoundary |-> IF blocker = "completed" THEN "fixture_completed_not_max_wait_or_kill"
                       ELSE "within_max_wait_reported_not_killed"]

AtServicePoint(ts) == safePoint.service # None /\ ts = safePoint.service

LockRegions == {fixture.lock[l].region : l \in DOMAIN locks}

ResolveComplete ==
  /\ LockRegions # {} /\ LockRegions \subseteq scanned
  /\ \A l \in DOMAIN locks : locks[l] # "pending"

DeleteComplete ==
  \/ GcRank > PhaseRank("deleting_ranges")
  \/ gcPhase = "deleting_ranges" /\ \A r \in DOMAIN ranges : ranges[r] = "deleted"

PhaseState(active, complete) ==
  IF complete \/ GcRank > PhaseRank(active) THEN "complete"
  ELSE IF GcRank = PhaseRank(active) THEN "active" ELSE "pending"

\* A safe point counts as saved or published from the phase on that does it.
Reached(p, ts) == GcRank >= PhaseRank(p) /\ AtServicePoint(ts)

GcCoordinatorRow ==
  [mysql_staged |-> IF AtServicePoint(safePoint.staged) THEN "complete" ELSE "pending",
   resolve_locks |-> PhaseState("resolving_locks", ResolveComplete),
   visibility_saved |->
     PhaseState("caching_safe_point", Reached("caching_safe_point", safePoint.visibility)),
   delete_range |-> PhaseState("deleting_ranges", DeleteComplete),
   pd_published |->
     PhaseState("publishing_safe_point", Reached("publishing_safe_point", safePoint.published))]

-----------------------------------------------------------------------------
(* gc-resolve-locks, gc-delete-ranges, gc-store-compaction,                *)
(* gc-mvcc-chains                                                          *)
ResolveRegions == LockRegions \cup scanned

GcResolveLockRow(region) ==
  LET At(st) == {l \in DOMAIN locks : fixture.lock[l].region = region /\ locks[l] = st}
  IN  [scanState |-> IF region \in scanned THEN "scanned" ELSE "not_scanned",
       pendingLocks |-> Cardinality(At("pending")),
       resolvedCommit |-> Cardinality(At("resolved_commit")),
       resolvedRollback |-> Cardinality(At("resolved_rollback"))]

\* The status of a range stands at each store it is sent to.
GcDeleteRangeRows == [x \in (DOMAIN ranges) \X GcStores |-> ranges[x[1]]]

DetectionState(s) ==
  IF AtServicePoint(safePoint.published) /\ stores[s].detected = safePoint.published
  THEN "observed" ELSE "pending"

\* validateGcLab: the filter is active while the compaction runs.
GcStoreRow(s) ==
  [detectedSafePoint |-> stores[s].detected, publishedSafePoint |-> safePoint.published,
   detectionState |-> DetectionState(s), compaction |-> stores[s].compaction,
   filterActive |-> stores[s].compaction = "running"]

GcChainRow(k) ==
  LET At(states) == {i \in DOMAIN versions[k] : versions[k][i] \in states}
      InDefaultCf(i) == Gc!TypeOf(<<k, i>>) = "put" /\ <<k, i>> \notin GcInline
  IN  [region |-> fixture.region[k], versions |-> Len(versions[k]),
       filtered |-> Cardinality(At({"filtered"})),
       gcKeyDeleted |-> Cardinality(At({"gc_deleted"})),
       anchors |-> Cardinality(At({"retained_anchor"})),
       present |-> Cardinality(DOMAIN versions[k] \ At({"filtered", "gc_deleted"})),
       defaultCfDeletes |-> Cardinality({i \in At({"filtered"}) : InDefaultCf(i)})]

-----------------------------------------------------------------------------
(* tiflash-replication, tiflash-read-gates                                 *)
TiFlashReplicationRow(r) ==
  [leaderCommitIndex |-> learners[r].commit, learnerReceivedIndex |-> learners[r].received,
   learnerRaftCommandIndex |-> learners[r].command,
   deltaMergeCommittedIndex |-> learners[r].flushed, learnerAppliedIndex |-> learners[r].applied]

\* The lab counts locks when it checks for them, and accepts only zero.
LocksChecked(r) == learners[r].gate \in {"mvcc_checked", "validated"}

TiFlashReadGateRow(r) ==
  [snapshotTs |-> snapshotTs, leaderSafeTs |-> MppLeaders[r].leader,
   selfSafeTs |-> MppLeaders[r].self,
   safeTsLagBucket |-> IF MppLeaders[r].self = MppLeaders[r].leader THEN "none" ELSE "about_2s",
   gateState |-> learners[r].gate, gateReason |-> learners[r].reason,
   readIndexSkipped |-> learners[r].skipped, requiredReadIndex |-> learners[r].required,
   learnerAppliedIndex |-> learners[r].applied,
   lockCount |-> IF LocksChecked(r) THEN 0 ELSE None,
   postReadValidated |-> learners[r].gate = "validated"]

-----------------------------------------------------------------------------
(* tiflash-mpp-tasks, tiflash-mpp-tunnels, tiflash-mpp-root: the tables    *)
(* list what the lab has built.                                            *)
TaskIds == {t \in DOMAIN tasks : tasks[t] # "absent"}
MppTaskRow(t) ==
  [fragmentKind |-> t[1], store |-> t[2],
   regions |-> IF t[1] = "scan" THEN MppRegionsOf[t[2]] ELSE {},
   stage |-> tasks[t], feedsTiDBRoot |-> t[1] = "final"]

\* What a tunnel carries is counted from its first packet.
TunnelIds == {u \in DOMAIN tunnels : tunnels[u] # "absent"}
MppTunnelRow(u) ==
  [exchangeType |-> IF u \in Mpp!HashTunnels THEN "hash_partition" ELSE "pass_through",
   sourceTask |-> u[1], targetTask |-> u[2],
   locality |-> IF u \in Mpp!RootTunnels THEN "root"
                ELSE IF u[1][2] = u[2][2] THEN "local" ELSE "remote",
   state |-> tunnels[u],
   bytesBucket |-> IF tunnels[u] \in {"sent", "received"} THEN "small" ELSE "none"]

\* Rows follow the columns; the scenario returns a small number of them.
RowsSent == result.stage \in {"rows_streaming", "streams_eof", "client_complete"}

\* No failure is modelled: retryCount and fallbackToTiKV stay at none.
MppRootRow ==
  [phase |-> mppPhase, resultStage |-> result.stage, rootStreams |-> result.roots,
   chunksDecoded |-> result.chunks, columnsSent |-> RowsSent \/ result.stage = "columns_sent",
   rowsBucket |-> IF RowsSent THEN "small" ELSE "none",
   clientComplete |-> result.stage = "client_complete"]

-----------------------------------------------------------------------------
(* tiflash.  The fixture is AVAILABLE from the start: what is waited for   *)
(* is the gate of each Region.                                             *)
\* Mutant: a replica is ready once it is provisioned.
ReadyWhenProvisioned == {r \in DOMAIN learners : "provisioned" \in plan}
ReadyRegions == {r \in DOMAIN learners : learners[r].gate \in {"ready", "mvcc_checked", "validated"}}

TiFlashRow ==
  LET total == Cardinality(DOMAIN learners)
      ready == Cardinality(ReadyRegions)
  IN  [provisioningAvailable |-> TRUE, readReady |-> total > 0 /\ total - ready = 0,
       readyRegions |-> ready, totalRegions |-> total, waitingRegions |-> total - ready,
       progress |-> <<ready, total>>]

-----------------------------------------------------------------------------
(* transactions, lock-waits, deadlocks, application-retry                  *)
LockTransactionRow(t) ==
  [client |-> client[t], attempt |-> attempt[t], phase |-> status[t], startTs |-> startTs[t],
   commitTs |-> commitTs[t], retryOf |-> retryOf[t], heldResources |-> held[t],
   waitingFor |-> waiting[t]]

\* The lab keeps the queue of a resource as a set; whoever asked first is in
\* front, and a waiter that left the queue has no place.
QueuePosition(t, r) ==
  IF t \in waiters[r] THEN Cardinality({u \in waiters[r] : startTs[u] <= startTs[t]}) ELSE None

LockWaitRow(e) ==
  [waiter |-> e.waiter, holder |-> e.holder, resource |-> e.resource,
   queuePosition |-> QueuePosition(e.waiter, e.resource)]
LockWaitRows == {LockWaitRow(e) : e \in edges}

\* One row or none.  The lab offers no retry inside TiKV.
DeadlockRows ==
  {[cycle |-> d.cycle, victim |-> d.victim, internalRetryable |-> FALSE,
    clientError |-> IF d.error = None THEN "not_returned_yet" ELSE "Error 1213",
    resolution |-> d.resolution] : d \in {deadlock} \ {None}}

ApplicationRetryRows ==
  {[client |-> x.client, retryOf |-> x.retryOf, status |-> x.status, newTransaction |-> x.new,
    newStartTs |-> IF x.new \in Lock!Begun THEN startTs[x.new] ELSE None] :
     x \in {retry} \ {None}}

-----------------------------------------------------------------------------
(* The one transaction of a snapshot, as projectionAtEvent hands it over,  *)
(* and the Regions it spans.                                               *)
TransactionRows ==
  {[phase |-> st, startTs |-> txnStartTs, commitTs |-> txnCommitTs, conflict |-> FALSE] :
     st \in {stage} \ {"none"}}

RegionRow(r) ==
  [commitIndex |-> entry[r].commitIndex, appliedIndex |-> entry[r].appliedIndex,
   proposedIndex |-> IF entry[r].proposed = 0 THEN None ELSE entry[r].proposed,
   raftAcks |-> <<entry[r].acknowledgements, 2>>,
   pessimisticLock |-> IF r \in pessimistic THEN "leader_memory" ELSE "none",
   cfLock |-> IF r \in prewritten THEN "prewrite" ELSE "empty",
   cfDefault |-> IF r \in prewritten \cup committed THEN "value" ELSE "empty",
   cfWrite |-> IF r \in committed THEN "commit" ELSE "empty",
   primary |-> r = Txn!Primary]

-----------------------------------------------------------------------------
(* rowTone and strongerTone: how alarming a row is.  Rows of the protocol  *)
(* and GC sections are neutral, and so are Regions without a health.       *)
Tones == <<"neutral", "healthy", "attention", "critical">>
Weight(tone) == SelectInSeq(Tones, LAMBDA other : other = tone)
Strongest(tones) == Tones[Max({Weight(tone) : tone \in tones})]

RaftPeerTone(row) ==
  IF row.peerHealth = "down" THEN "attention"
  ELSE IF row.raftRole = "leader" THEN "healthy" ELSE "neutral"

RaftElectionTone(row) ==
  CASE row.electionPhase \in {"timeout", "pre_vote", "vote"} -> "attention"
    [] row.electionPhase \in {"elected", "idle"} -> "healthy"

RegionRequestTone(row) ==
  IF row.clientVisibleError THEN "critical"
  ELSE CASE row.requestStatus \in {"transport_error", "backoff", "retrying"} -> "attention"
         [] row.requestStatus \in {"served", "completed"} -> "healthy"
         [] row.requestStatus \in {"idle", "sent"} -> "neutral"

PhaseTone(p) ==
  CASE p = "victim" -> "critical"
    [] p \in {"rolled_back", "waiting"} -> "attention"
    [] p \in {"committed", "completed"} -> "healthy"
    [] OTHER -> "neutral"
TransactionTone(row) == IF "conflict" \in DOMAIN row /\ row.conflict THEN "attention" ELSE PhaseTone(row.phase)

DeadlockTone(row) == IF row.resolution = "resolved" THEN "attention" ELSE "critical"
RetryTone(row) == IF row.status = "completed" THEN "healthy" ELSE "attention"
TiFlashTone(row) ==
  IF ~row.readReady \/ row.waitingRegions > 0 THEN "attention" ELSE "healthy"

\* cellTone: a cell is coloured apart from its row.
CellTone(column, raw) ==
  CASE column = "status" /\ raw \in {"backoff", "started"} -> "attention"
    [] column = "status" /\ raw = "completed" -> "healthy"
    [] column = "phase" -> PhaseTone(raw)
    [] column = "readReady" -> IF raw THEN "healthy" ELSE "attention"
    [] column = "conflict" -> IF raw THEN "attention" ELSE "healthy"
    [] column = "waitingRegions" -> IF raw > 0 THEN "attention" ELSE "neutral"
    [] column = "resolution" -> IF raw = "resolved" THEN "attention" ELSE "critical"
    [] column = "internalRetryable" -> IF raw THEN "neutral" ELSE "attention"
    [] column = "clientError" -> IF raw = "not_returned_yet" THEN "neutral" ELSE "critical"
    [] column = "victim" -> IF raw = None THEN "neutral" ELSE "critical"

-----------------------------------------------------------------------------
(* createDiagnosticSummary: the card of the transactions and the tone of   *)
(* the page.  The cards of the sections that have no rows are healthy or   *)
(* neutral.                                                                *)
LockTransactionRows == {LockTransactionRow(t) : t \in Lock!Begun}

\* Who is in a conflict now: waiters and victims.
LockConflicts ==
  {row.waiter : row \in LockWaitRows} \cup {t \in Lock!Begun : LockTransactionRow(t).phase = "victim"}

ActivePhases == {"active", "waiting", "prewriting", "committing", "commit_handoff"}

TransactionsMetric ==
  [value |-> Cardinality(Lock!Begun),
   active |-> Cardinality({t \in Lock!Begun : LockTransactionRow(t).phase \in ActivePhases}),
   conflicts |-> Cardinality(LockConflicts),
   tone |-> Strongest({"healthy"} \cup {TransactionTone(row) : row \in LockTransactionRows}
                        \cup {"attention" : row \in LockWaitRows}
                        \cup {DeadlockTone(row) : row \in DeadlockRows}
                        \cup {RetryTone(row) : row \in ApplicationRetryRows})]

RaftTone ==
  Strongest({"healthy", RaftElectionTone(RaftElectionRow), RegionRequestTone(RegionRequestRetryRow)}
              \cup {RaftPeerTone(RaftPeerRow(s)) : s \in VoterStores})

TransactionsTone == Strongest({"healthy"} \cup {TransactionTone(row) : row \in TransactionRows})

\* The tone of the page, given the lab of the scenario.
PageTone ==
  CASE scenario = "tikv-failover" -> RaftTone
    [] scenario = "lock-deadlock" -> TransactionsMetric.tone
    [] scenario = "tiflash-mpp" -> Strongest({"healthy", TiFlashTone(TiFlashRow)})
    [] scenario = "cross-region-transaction" -> TransactionsTone
    [] scenario \in {"commit-protocols", "gc-safe-point"} -> "healthy"
=============================================================================

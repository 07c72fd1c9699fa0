------------------------------- MODULE CityLabs -------------------------------
(***************************************************************************)
(* What the city shows of a scenario: the projections of                   *)
(* src/tidb/world/*-lab-projection.ts from the snapshot of the selected    *)
(* event to the slots, shapes and states of a 3D lab.  A projection keeps  *)
(* nothing between two events, so it is an operator over the lab, and      *)
(* describes a picture whenever the deltas of an event have been read.     *)
(*                                                                         *)
(* A slot is named by what stands in it; slots no fixture leaves empty     *)
(* need no other form.                                                     *)
(***************************************************************************)
EXTENDS Scenarios

Selected == trace[Max(done)]
Kind == Selected.id[1]
HasDelta(names) == \E i \in DOMAIN Selected.deltas : Selected.deltas[i][1] \in names

-----------------------------------------------------------------------------
(* projectRaftLab                                                          *)
CityRaftPhaseOf ==
  [healthy |-> "baseline", requesting |-> "baseline", leader_lost |-> "store-failure",
   backoff |-> "client-retry", timeout |-> "heartbeat-timeout", pre_vote |-> "pre-vote",
   vote |-> "election", elected |-> "leader-elected", confirming |-> "log-replication",
   routing |-> "client-retry", serving |-> "client-retry", complete |-> "complete"]

CityRaftPhase ==
  IF HasDelta({"Apply"}) THEN "apply"
  ELSE IF HasDelta({"Commit"}) THEN "quorum-commit"
  ELSE IF HasDelta({"Propose", "Persist"}) THEN "log-replication"
  ELSE CityRaftPhaseOf[raftPhase]

CityShape(s) ==
  IF ~peers[s].healthy \/ peers[s].role = "offline" THEN "offline"
  ELSE [pre_candidate |-> "double-ring", candidate |-> "diamond", leader |-> "crown",
        follower |-> "ring"][peers[s].role]

\* The window of three log cells ends one above the target.
CityTarget ==
  IF log.index # None THEN log.index ELSE Max({peers[s].lastIndex : s \in VoterStores})
CityWindow == LET first == Max({0, CityTarget - 1}) IN first..(first + 2)
CityOldTerm == peers[oldLeader].term

CityCell(s, i) ==
  LET noop == log.index = i
  IN  IF ~peers[s].healthy THEN "unavailable"
      ELSE IF peers[s].applied >= i \/ (noop /\ s \in log.applied) THEN "applied"
      ELSE IF peers[s].commit >= i \/ (noop /\ log.committed /\ peers[s].lastIndex >= i)
        THEN "committed"
      ELSE IF peers[s].lastIndex >= i \/ (noop /\ s \in log.persisted) THEN "persisted"
      ELSE "absent"

CityCellTerm(s, i) ==
  IF log.index = i /\ log.term # None THEN log.term
  ELSE IF i = peers[s].lastIndex THEN peers[s].lastTerm
  ELSE IF i < CityTarget THEN CityOldTerm ELSE 0

CityPeer(s) ==
  [shape |-> CityShape(s), term |-> peers[s].term, voted |-> peers[s].voted,
   previousLeader |-> s = oldLeader,
   log |-> [i \in CityWindow |-> [state |-> CityCell(s, i), term |-> CityCellTerm(s, i)]]]

\* The one arrow between two peers: a request of the campaigner or an answer.
CityElectionEdges ==
  LET c == CandidateOf(1)
      v == VoterOf(1)
      Arrow(stg, answer, from, to) == {[stage |-> stg, status |-> answer, from |-> from, to |-> to]}
  IN  CASE Kind = "raft_pre_vote_request" -> Arrow("prevote", "request", c, v)
        [] Kind = "raft_pre_vote_granted" -> Arrow("prevote", "granted", v, c)
        [] Kind = "raft_vote_request" -> Arrow("vote", "request", c, v)
        [] Kind = "raft_vote_granted" -> Arrow("vote", "granted", v, c)
        [] OTHER -> {}

CityClientRetry ==
  LET retried == request.attempt >= 2 \/ request.status \in {"retrying", "served", "completed"}
  IN  [visible |-> request.status # "idle",
       status |-> [idle |-> "idle", sent |-> "idle", transport_error |-> "failed",
                   backoff |-> "backoff", retrying |-> "rerouted", served |-> "succeeded",
                   completed |-> "succeeded"][request.status],
       reason |-> IF retried \/ request.status \in {"transport_error", "backoff"}
                  THEN "transport_error" ELSE "none",
       target |-> IF ~retried THEN None
                  ELSE IF request.cached # None THEN request.cached ELSE leader]

CityPd ==
  [status |-> IF pd.lookedUp THEN "observed" ELSE IF pd.observed # None THEN "pending" ELSE "idle",
   leader |-> pd.observed]

CityAcknowledgements ==
  Cardinality(IF log.index # None THEN log.persisted
              ELSE IF election.phase \in {"vote", "elected"} THEN election.votes
              ELSE IF election.phase = "pre_vote" THEN election.preVotes
              ELSE Raft!Live)

CityRaft ==
  [phase |-> CityRaftPhase, leader |-> leader, candidate |-> election.candidate,
   peers |-> [s \in VoterStores |-> CityPeer(s)], electionEdges |-> CityElectionEdges,
   quorum |-> [acknowledgements |-> CityAcknowledgements,
               available |-> Cardinality(Raft!Live) >= Raft!Quorum, committed |-> log.committed],
   clientRetry |-> CityClientRetry, pd |-> CityPd]

-----------------------------------------------------------------------------
(* projectLockLab: two slots for the transactions that came first, one for *)
(* a retry, and what does not fit is counted.                              *)
CityLockCapacity == [waiters |-> 2, resources |-> 2, edges |-> 6]

CityRetries == {t \in Lock!Begun : retryOf[t] # None \/ attempt[t] > 1}
CityBefore(t, among) == Cardinality({u \in among : startTs[u] < startTs[t]})

\* Mutant: there is no third slot.
CitySlottedFirst == {t \in Lock!Begun : CityBefore(t, Lock!Begun) < 2}
CitySlotted ==
  {t \in CityRetries : CityBefore(t, CityRetries) < 1}
    \cup {t \in Lock!Begun \ CityRetries : CityBefore(t, Lock!Begun \ CityRetries) < 2}

CityCycleEdge(e) ==
  /\ deadlock # None
  /\ \E i \in 1..(Len(deadlock.cycle) - 1) :
       deadlock.cycle[i] = e.waiter /\ deadlock.cycle[i + 1] = e.holder

CityEdges ==
  {[waiter |-> e.waiter, holder |-> e.holder, resource |-> e.resource, cycle |-> CityCycleEdge(e)] :
     e \in {x \in edges : {x.waiter, x.holder} \subseteq CitySlotted /\ x.waiter # x.holder}}

CityResources ==
  [r \in DeadlockResources |->
     [holder |-> IF holder[r] \in CitySlotted THEN holder[r] ELSE None,
      waiters |-> waiters[r] \cap CitySlotted]]

CityOverflow ==
  LET Beyond(n, capacity) == Max({0, n - capacity})
  IN  Cardinality(Lock!Begun \ CitySlotted)
        + Beyond(Cardinality(DeadlockResources), CityLockCapacity.resources)
        + Beyond(Cardinality(edges), CityLockCapacity.edges)
        + MapThenSumSet(LAMBDA r : Beyond(Cardinality(waiters[r]), CityLockCapacity.waiters),
                        DeadlockResources)

Resolution == IF deadlock = None THEN "none" ELSE deadlock.resolution

CityLockPhase ==
  LET Some(st) == \E t \in Lock!Begun : status[t] = st
  IN  IF retry # None /\ retry.status \in {"backoff", "started"} THEN "retry"
      ELSE IF Some("victim") THEN "victim"
      ELSE IF Resolution = "detected" THEN "cycle"
      ELSE IF Resolution = "rolling_back" THEN "rollback"
      ELSE IF Some("waiting") THEN "waiting"
      ELSE IF Lock!Begun # {} /\ \A t \in Lock!Begun : status[t] = "completed" THEN "complete"
      ELSE IF Resolution = "resolved" THEN "resolved"
      ELSE IF \E r \in DeadlockResources : holder[r] # None THEN "acquiring" ELSE "idle"

CityDetector ==
  LET lookup == Kind \in {"deadlock_detector_lookup", "deadlock_detected"}
  IN  [active |-> lookup \/ Resolution \in {"detected", "rolling_back"},
       state |-> IF Resolution = "resolved" THEN "resolved"
                 ELSE IF Resolution = "rolling_back" THEN "victim-selected"
                 ELSE IF Resolution = "detected" \/ lookup THEN "detecting" ELSE "idle"]

CityLock ==
  [phase |-> CityLockPhase, transactions |-> [t \in CitySlotted |-> status[t]],
   resources |-> CityResources, edges |-> CityEdges, detector |-> CityDetector,
   victim |-> IF deadlock # None /\ deadlock.victim \in CitySlotted THEN deadlock.victim ELSE None,
   resolution |-> Resolution,
   retry |-> IF retry = None THEN "none" ELSE retry.status,
   newTransaction |-> IF retry # None /\ retry.new \in CitySlotted THEN retry.new ELSE None,
   overflow |-> CityOverflow]
-----------------------------------------------------------------------------
(* projectProtocolLab: three lanes of Regions with three peers each.       *)
CityLanePath(l) ==
  CASE lanes[l].stage = "idle" -> "idle"
    [] lanes[l].stage = "complete" \/ lanes[l].backgrounded -> "complete"
    [] lanes[l].stage = "client_acknowledged" /\ ~lanes[l].backgrounded -> "client-boundary"
    [] OTHER -> IF lanes[l].stage = "background" \/ lanes[l].responded
                THEN "background" ELSE "critical"

CityTimestampStage(l) ==
  IF lanes[l].commitTs # None THEN "commit"
  ELSE IF lanes[l].latestTs # None THEN "latest"
  ELSE IF lanes[l].startTs # None THEN "start" ELSE "none"

\* The first of the three voters leads the Region.
CityPeerLog(group, s) ==
  CASE group.stage = "proposed" /\ s = 1 -> "proposed"
    [] group.stage = "persisted_quorum" /\ s \in group.persisted -> "persisted"
    [] group.stage \in {"committed", "applied"} /\ s \in group.persisted -> "committed"
    [] OTHER -> "idle"

CityProtocolRegion(region) ==
  [operation |-> region.raft.operation, raftStage |-> region.raft.stage,
   peers |-> [s \in ProtocolVoters |-> CityPeerLog(region.raft, s)],
   acknowledgements |-> Cardinality(region.raft.persisted),
   reached |-> Cardinality(region.raft.persisted) >= Protocol!Quorum,
   applied |-> region.raft.stage = "applied", mvcc |-> region.mvcc,
   returnedMinCommitTs |-> region.returned # None]

CityLane(l) ==
  [focused |-> focus = l, stage |-> lanes[l].stage, path |-> CityLanePath(l),
   timestampStage |-> CityTimestampStage(l), clientResponded |-> lanes[l].responded,
   backgroundComplete |-> lanes[l].backgrounded,
   regions |-> [r \in DOMAIN lanes[l].regions |-> CityProtocolRegion(lanes[l].regions[r])]]

CityProtocol == [l \in DOMAIN lanes |-> CityLane(l)]

-----------------------------------------------------------------------------
(* projectGcStorageLab                                                     *)
CityGate ==
  IF safePoint.blocked /\ blocker = "active" THEN "blocked"
  ELSE IF safePoint.published > safePoint.previous THEN "published"
  ELSE IF safePoint.visibility > safePoint.previous THEN "visibility-saved"
  ELSE IF safePoint.staged > safePoint.previous THEN "staged"
  ELSE IF safePoint.candidate # None THEN "candidate" ELSE "idle"

CityFlowStep ==
  [idle |-> "none", preparing |-> "candidate", safe_point_bounded |-> "candidate",
   resolving_locks |-> "resolve-locks", deleting_ranges |-> "delete-ranges",
   caching_safe_point |-> "visibility-save", publishing_safe_point |-> "publish-pd",
   tikv_observing |-> "observe", compacting |-> "compact", cleaning_delete_markers |-> "compact",
   between_rounds |-> "complete", complete |-> "complete"][gcPhase]

\* Mutant: a store is current once it has detected some published safe point.
DetectorCurrentBefore(s) == stores[s].detected >= safePoint.previous
DetectorCurrent(s) == stores[s].detected = safePoint.published

CityGc ==
  [gate |-> CityGate, flow |-> CityFlowStep,
   locks |-> [l \in DOMAIN locks |-> [status |-> locks[l], primary |-> fixture.lock[l].primary]],
   ranges |-> [r \in DOMAIN ranges |-> [status |-> ranges[r], dropTs |-> fixture.dropTs[r]]],
   stores |-> [s \in GcStores |->
                 [detected |-> stores[s].detected, current |-> DetectorCurrent(s),
                  compaction |-> stores[s].compaction]],
   chains |-> versions]

-----------------------------------------------------------------------------
(* projectTiFlashMppLab.  Provisioning comes first in the receipt: the     *)
(* replica is available in every snapshot a gate has moved in.             *)
CityReadGate(r) ==
  CASE learners[r].gate = "read_index_requested" -> "requesting"
    [] learners[r].gate \in {"read_index_returned", "waiting_applied"} -> "waiting"
    [] learners[r].gate \in {"ready", "mvcc_checked", "validated"} -> "ready"
    [] OTHER -> "idle"

CityGateReason(r) ==
  IF learners[r].reason # None THEN learners[r].reason
  ELSE IF learners[r].required = None
  THEN IF learners[r].gate = "read_index_requested" THEN "read_index_pending" ELSE "not_requested"
  ELSE IF learners[r].applied < learners[r].required
  THEN "applied_index_behind" ELSE "applied_index_ready"

CityTunnel == [absent |-> "hidden", planned |-> "planned", registered |-> "registered",
               sent |-> "streaming", received |-> "finished"]

\* What a store does is what its tasks do.
CityStoreActive(s) ==
  \E t \in DOMAIN tasks : t[2] = s /\ tasks[t] \notin {"absent", "built"}

CityMpp ==
  [learners |-> [r \in DOMAIN learners |->
                   [gate |-> CityReadGate(r), reason |-> CityGateReason(r),
                    leaderCommit |-> learners[r].commit, replicated |-> learners[r].received,
                    applied |-> learners[r].applied, requested |-> learners[r].required]],
   tasks |-> tasks, tunnels |-> [u \in DOMAIN tunnels |-> CityTunnel[tunnels[u]]],
   active |-> {s \in DOMAIN MppRegionsOf : CityStoreActive(s)},
   rootVisible |-> "path" \in plan \/ result.stage # "idle", root |-> result.stage]

-----------------------------------------------------------------------------
(* projectTransactionLab                                                   *)
CityTxnPhase ==
  CASE stage = "locking" -> "locking"
    [] stage \in {"prewriting", "prewritten"} -> "prewrite"
    [] stage \in {"committing_primary", "client_acknowledged"} -> "commit-primary"
    [] stage = "committing_secondary" -> "secondary-cleanup"
    [] stage = "complete" -> "complete"
    [] OTHER -> "idle"

CityApply(r) ==
  IF entry[r].proposed = 0 THEN "idle"
  ELSE IF entry[r].appliedIndex >= entry[r].proposed THEN "applied"
  ELSE IF entry[r].commitIndex >= entry[r].proposed THEN "ready" ELSE "idle"

Value(r) == r \in prewritten \cup committed

CityMutation(r) ==
  IF r \in committed THEN "committed"
  ELSE IF Value(r) THEN "prewriting"
  ELSE IF r \in pessimistic THEN "buffered" ELSE "empty"

CityTxnRegion(r) ==
  [acknowledgements |-> entry[r].acknowledgements, apply |-> CityApply(r),
   lock |-> IF r \in pessimistic THEN "pessimistic-memory"
            ELSE IF r \in prewritten THEN "prewrite" ELSE "none",
   mvcc |-> [lock |-> IF r \in prewritten THEN "pending" ELSE "empty",
             default |-> IF ~Value(r) THEN "empty"
                         ELSE IF r \in committed THEN "committed" ELSE "pending",
             write |-> IF r \in committed THEN "committed" ELSE "empty"]]

CityTxn ==
  [phase |-> CityTxnPhase, coordinatorActive |-> stage \notin {"none", "complete"},
   regions |-> [r \in DOMAIN entry |-> CityTxnRegion(r) @@ [mutation |-> CityMutation(r)]]]

-----------------------------------------------------------------------------
(* projectCityLabs: the snapshot names the one lab that is not hidden.     *)
CityLab ==
  CASE scenario = "tiflash-mpp" -> CityMpp
    [] scenario = "gc-safe-point" -> CityGc
    [] scenario = "commit-protocols" -> CityProtocol
    [] scenario = "tikv-failover" -> CityRaft
    [] scenario = "lock-deadlock" -> CityLock
    [] scenario = "cross-region-transaction" -> CityTxn
=============================================================================

------------------------- MODULE ProtocolLabProofs -------------------------
(***************************************************************************)
(* Proofs about ProtocolLab for any comparison of lanes, any three voters  *)
(* and any bound on timestamps.  A delta changes one lane, so the          *)
(* invariant is a predicate of a lane: what the reducer's own validation   *)
(* (Valid) leaves open is how far a Region's log has come when its MVCC    *)
(* state shows a lock or a commit record (RegionShape), and what stands    *)
(* behind a commit timestamp (DecisionBacked).                             *)
(***************************************************************************)
EXTENDS ProtocolLab, TLAPS

CommitOperations == {"commit_primary", "commit_secondary", "commit_async"}
PrewriteOperations == {"one_pc_prewrite", "prewrite"}

OperationsOf(l, r) ==
  CASE l = "one_pc" -> {"one_pc_prewrite"}
    [] l = "async_commit" -> {"prewrite", "commit_async"}
    [] OTHER -> {"prewrite", IF r = "primary" THEN "commit_primary" ELSE "commit_secondary"}

LaneTyped(l) ==
  lanes[l] \in [stage : Stages,
                startTs : Timestamps \cup {None}, latestTs : Timestamps \cup {None},
                floor : Timestamps \cup {None}, maxTs : Timestamps \cup {None},
                commitTs : Timestamps \cup {None},
                responded : BOOLEAN, backgrounded : BOOLEAN,
                regions : [Roles(l) -> Region]]

(* A Region holds the lock from the time its prewrite is applied until its *)
(* commit entry is, and the commit record from then on.                    *)
RegionShape(l, r) ==
  LET raft == lanes[l].regions[r].raft
      mvcc == lanes[l].regions[r].mvcc
  IN  /\ raft.operation \in OperationsOf(l, r) \cup {None}
      /\ raft.operation = None <=> raft.stage = "idle"
      /\ raft.index = IF raft.operation = None THEN 0
                      ELSE IF raft.operation \in PrewriteOperations THEN 1 ELSE 2
      /\ Locked(l, r) <=> \/ raft.operation = "prewrite" /\ raft.stage = "applied"
                          \/ raft.operation \in CommitOperations /\ raft.stage # "applied"
      /\ Committed(l, r) <=> /\ raft.operation \in CommitOperations \cup {"one_pc_prewrite"}
                             /\ raft.stage = "applied"
      /\ mvcc.default = "value" <=> Locked(l, r) \/ Committed(l, r)
      /\ raft.operation \in CommitOperations => lanes[l].commitTs # None
      /\ raft.operation = "commit_secondary" => Committed(l, "primary")

Prewritten(l) == \A r \in Roles(l) : Locked(l, r) \/ Committed(l, r)

DecisionBacked(l) ==
  lanes[l].commitTs # None =>
    /\ Prewritten(l)
    /\ l = "async_commit" => /\ None \notin Returned(l)
                             /\ IsGreatest(lanes[l].commitTs, Returned(l))

StageBacked(l) ==
  LET stage == lanes[l].stage
      acknowledged == {"client_acknowledged", "background", "complete"}
  IN  /\ stage \in {"prewriting", "prewritten", "commit_ts", "committing"} \cup acknowledged =>
           Prepared(l)
      /\ (l # "one_pc" /\ stage \in {"prewritten", "commit_ts", "committing"} \cup acknowledged) =>
           Prewritten(l)
      /\ stage \in {"commit_ts", "committing"} \cup acknowledged => lanes[l].commitTs # None
      /\ stage \in acknowledged => lanes[l].responded

LaneInv(l) ==
  /\ LaneTyped(l)
  /\ \A r \in Roles(l) : RegionShape(l, r)
  /\ DecisionBacked(l)
  /\ StageBacked(l)
  /\ LaneValid(l)

IInv ==
  /\ Lanes \in Comparisons
  /\ lanes = [l \in Lanes |-> lanes[l]]
  /\ phase \in {"idle", "running", "complete"}
  /\ focus \in Lanes \cup {None}
  /\ \A l \in Lanes : LaneInv(l)

-----------------------------------------------------------------------------
(* The invariant of a lane is about that lane only.                        *)
LEMMA LaneUntouched ==
  ASSUME NEW k, LaneInv(k), lanes'[k] = lanes[k]
  PROVE  LaneInv(k)'
<1>1. LaneTyped(k)' /\ StageBacked(k)' /\ DecisionBacked(k)'
  BY DEF LaneInv, LaneTyped, StageBacked, DecisionBacked, Prewritten, Prepared,
     Locked, Committed, Returned
<1>2. ASSUME NEW r \in Roles(k) PROVE RegionShape(k, r)' /\ RegionValid(k, r)'
  <2>1. RegionShape(k, r) /\ RegionValid(k, r)
    BY DEF LaneInv, LaneValid
  <2>2. RegionShape(k, r)'
    BY <2>1 DEF RegionShape, Locked, Committed
  <2>3. RegionValid(k, r)'
    BY <2>1 DEF RegionValid, Prepared
  <2>4. QED BY <2>2, <2>3
<1>3. LaneValid(k)'
  BY <1>2 DEF LaneInv, LaneValid, TimestampsValid, MayBeAnswered, AllCommitted, Resolved,
     Locked, Committed
<1>4. QED BY <1>1, <1>2, <1>3 DEF LaneInv

(* What a delta does to one lane is all it does.                           *)
LEMMA OneLaneChanges ==
  ASSUME IInv, NEW l \in Lanes, NEW lane, ChangeLane(l, lane), LaneInv(l)'
  PROVE  IInv'
<1>1. Lanes' = Lanes /\ lanes' = [k \in Lanes' |-> lanes'[k]]
  BY DEF IInv, ChangeLane, Lanes
<1>2. \A k \in Lanes : k # l => lanes'[k] = lanes[k] /\ LaneInv(k)
  BY DEF ChangeLane, Lanes, IInv
<1>3. \A k \in Lanes : LaneInv(k)'
  BY <1>2, LaneUntouched
<1>4. phase' = phase /\ focus' = focus
  BY DEF ChangeLane
<1>5. QED BY <1>1, <1>3, <1>4 DEF IInv

-----------------------------------------------------------------------------
(* Parts of the invariant that a delta leaves alone.                       *)
LEMMA LogsUntouched ==
  ASSUME NEW l, LaneInv(l), lanes'[l].regions = lanes[l].regions,
         lanes[l].commitTs # None => lanes'[l].commitTs # None
  PROVE  /\ \A r \in Roles(l) : RegionShape(l, r)'
         /\ Prewritten(l)' <=> Prewritten(l)
         /\ Returned(l)' = Returned(l)
  BY DEF LaneInv, RegionShape, Locked, Committed, Prewritten, Returned

LEMMA DecisionUntouched ==
  ASSUME NEW l, LaneInv(l), lanes'[l].regions = lanes[l].regions,
         lanes'[l].commitTs = lanes[l].commitTs
  PROVE  DecisionBacked(l)'
  BY LogsUntouched DEF LaneInv, DecisionBacked

LEMMA StageUntouched ==
  ASSUME NEW l, LaneInv(l), lanes'[l].stage = lanes[l].stage,
         lanes[l].responded => lanes'[l].responded,
         lanes[l].commitTs # None => lanes'[l].commitTs # None,
         Prepared(l) => Prepared(l)',
         Prewritten(l) => Prewritten(l)'
  PROVE  StageBacked(l)'
  BY DEF LaneInv, StageBacked

-----------------------------------------------------------------------------
(* protocol_timestamp: the four timestamps of a lane.                      *)
LEMMA StartTsKeeps ==
  ASSUME NEW l \in Lanes, LaneInv(l), NEW ts \in Timestamps, StartTs(l, ts), LaneValid(l)'
  PROVE  LaneInv(l)'
<1>1. lanes'[l] = [lanes[l] EXCEPT !.startTs = ts]
  BY DEF StartTs, ChangeLane, Lanes
<1>2. LaneTyped(l)'
  BY <1>1 DEF LaneInv, LaneTyped
<1>3. /\ lanes'[l].regions = lanes[l].regions
      /\ lanes'[l].commitTs = lanes[l].commitTs
      /\ lanes'[l].stage = lanes[l].stage
      /\ lanes'[l].responded = lanes[l].responded
      /\ Prepared(l) => Prepared(l)'
  BY <1>1, ProtocolLabAssumption DEF LaneInv, LaneTyped, Prepared, Timestamps
<1>4. QED
  BY <1>2, <1>3, LogsUntouched, DecisionUntouched, StageUntouched DEF LaneInv

LEMMA LatestTsKeeps ==
  ASSUME NEW l \in Lanes, LaneInv(l), NEW ts \in Timestamps, LatestTs(l, ts), LaneValid(l)'
  PROVE  LaneInv(l)'
<1>1. lanes'[l] = [lanes[l] EXCEPT !.latestTs = ts]
  BY DEF LatestTs, ChangeLane, Lanes
<1>2. LaneTyped(l)'
  BY <1>1 DEF LaneInv, LaneTyped
<1>3. /\ lanes'[l].regions = lanes[l].regions
      /\ lanes'[l].commitTs = lanes[l].commitTs
      /\ lanes'[l].stage = lanes[l].stage
      /\ lanes'[l].responded = lanes[l].responded
      /\ Prepared(l) => Prepared(l)'
  BY <1>1, ProtocolLabAssumption DEF LaneInv, LaneTyped, Prepared, Timestamps
<1>4. QED
  BY <1>2, <1>3, LogsUntouched, DecisionUntouched, StageUntouched DEF LaneInv

LEMMA RequestMinCommitTsKeeps ==
  ASSUME NEW l \in Lanes, LaneInv(l), NEW ts \in Timestamps, RequestMinCommitTs(l, ts), LaneValid(l)'
  PROVE  LaneInv(l)'
<1>1. lanes'[l] = [lanes[l] EXCEPT !.floor = ts]
  BY DEF RequestMinCommitTs, ChangeLane, Lanes
<1>2. LaneTyped(l)'
  BY <1>1 DEF LaneInv, LaneTyped
<1>3. /\ lanes'[l].regions = lanes[l].regions
      /\ lanes'[l].commitTs = lanes[l].commitTs
      /\ lanes'[l].stage = lanes[l].stage
      /\ lanes'[l].responded = lanes[l].responded
      /\ Prepared(l) => Prepared(l)'
  BY <1>1, ProtocolLabAssumption DEF LaneInv, LaneTyped, Prepared, Timestamps
<1>4. QED
  BY <1>2, <1>3, LogsUntouched, DecisionUntouched, StageUntouched DEF LaneInv

LEMMA MaxCommitTsKeeps ==
  ASSUME NEW l \in Lanes, LaneInv(l), NEW ts \in Timestamps, MaxCommitTs(l, ts), LaneValid(l)'
  PROVE  LaneInv(l)'
<1>1. lanes'[l] = [lanes[l] EXCEPT !.maxTs = ts]
  BY DEF MaxCommitTs, ChangeLane, Lanes
<1>2. LaneTyped(l)'
  BY <1>1 DEF LaneInv, LaneTyped
<1>3. /\ lanes'[l].regions = lanes[l].regions
      /\ lanes'[l].commitTs = lanes[l].commitTs
      /\ lanes'[l].stage = lanes[l].stage
      /\ lanes'[l].responded = lanes[l].responded
      /\ Prepared(l) => Prepared(l)'
  BY <1>1, ProtocolLabAssumption DEF LaneInv, LaneTyped, Prepared, Timestamps
<1>4. QED
  BY <1>2, <1>3, LogsUntouched, DecisionUntouched, StageUntouched DEF LaneInv

(* The decision: what it rests on is there when it is made.                *)
LEMMA DecideKeeps ==
  ASSUME NEW l \in Lanes, LaneInv(l), l \in AllLanes, NEW ts \in Timestamps, Decide(l, ts),
         LaneValid(l)'
  PROVE  LaneInv(l)'
<1>1. lanes'[l] = [lanes[l] EXCEPT !.commitTs = ts]
  BY DEF Decide, ChangeLane, Lanes
<1>2. LaneTyped(l)'
  BY <1>1 DEF LaneInv, LaneTyped
<1>3. /\ lanes'[l].regions = lanes[l].regions
      /\ lanes'[l].commitTs = ts
      /\ ts # None
      /\ lanes'[l].stage = lanes[l].stage
      /\ lanes'[l].responded = lanes[l].responded
      /\ Prepared(l) => Prepared(l)'
  BY <1>1, ProtocolLabAssumption DEF LaneInv, LaneTyped, Prepared, Timestamps
<1>4. Prewritten(l)
  <2>1. CASE l = "async_commit"
    <3>1. ASSUME NEW r \in Roles(l) PROVE Locked(l, r) \/ Committed(l, r)
      <4>1. lanes[l].regions[r].returned # None
        BY <2>1 DEF Decide, MayDecide, Returned
      <4>2. lanes[l].regions[r].mvcc.default = "value"
        BY <4>1 DEF LaneInv, LaneValid, RegionValid
      <4>3. QED BY <4>2 DEF LaneInv, RegionShape
    <3>2. QED BY <3>1 DEF Prewritten
  <2>2. CASE l # "async_commit"
    BY <2>2 DEF Decide, MayDecide, AllLocked, AllCommitted, Prewritten
  <2>3. QED BY <2>1, <2>2
<1>5. l = "async_commit" => None \notin Returned(l) /\ IsGreatest(ts, Returned(l))
  BY DEF Decide, MayDecide
<1>6. DecisionBacked(l)'
  BY <1>3, <1>4, <1>5, LogsUntouched DEF DecisionBacked, IsGreatest
<1>7. QED
  BY <1>2, <1>3, <1>6, LogsUntouched, StageUntouched DEF LaneInv

(* A Region returns its timestamp once, and never after the decision.      *)
LEMMA ReturnedMinCommitTsKeeps ==
  ASSUME NEW l \in Lanes, LaneInv(l), NEW r \in Roles(l), NEW ts \in Timestamps,
         ReturnedMinCommitTs(l, r, ts), LaneValid(l)'
  PROVE  LaneInv(l)'
<1>1. lanes'[l] = [lanes[l] EXCEPT !.regions[r].returned = ts]
  BY DEF ReturnedMinCommitTs, ChangeLane, Lanes
<1>2. /\ lanes'[l].stage = lanes[l].stage
      /\ lanes'[l].responded = lanes[l].responded
      /\ lanes'[l].commitTs = lanes[l].commitTs
      /\ Prepared(l)' <=> Prepared(l)
      /\ lanes'[l].regions = [lanes[l].regions EXCEPT ![r].returned = ts]
      /\ lanes[l].regions \in [Roles(l) -> Region]
  BY <1>1 DEF LaneInv, LaneTyped, Prepared
<1>3. lanes'[l].regions \in [Roles(l) -> Region]
  BY <1>2 DEF Region
<1>4. LaneTyped(l)'
  BY <1>1, <1>3 DEF LaneInv, LaneTyped
<1>5. ASSUME NEW s \in Roles(l)
      PROVE  /\ lanes'[l].regions[s].raft = lanes[l].regions[s].raft
             /\ lanes'[l].regions[s].mvcc = lanes[l].regions[s].mvcc
  BY <1>2 DEF Region
<1>6. ASSUME NEW s \in Roles(l)
      PROVE  /\ Locked(l, s)' <=> Locked(l, s)
             /\ Committed(l, s)' <=> Committed(l, s)
  BY <1>5 DEF Locked, Committed
<1>7. "primary" \in Roles(l)
  BY DEF Roles
<1>8. ASSUME NEW s \in Roles(l) PROVE RegionShape(l, s)'
  <2>1. RegionShape(l, s)
    BY DEF LaneInv
  <2>2. QED BY <1>2, <1>5, <1>6, <1>7, <2>1 DEF RegionShape
<1>9. Prewritten(l)' <=> Prewritten(l)
  BY <1>6 DEF Prewritten
<1>10. DecisionBacked(l)'
  <2>1. l = "async_commit" => lanes[l].commitTs = None
    BY DEF ReturnedMinCommitTs, LaneInv, DecisionBacked, Returned
  <2>2. QED BY <1>2, <1>9, <2>1 DEF DecisionBacked, LaneInv
<1>11. StageBacked(l)'
  BY <1>2, <1>9, StageUntouched
<1>12. QED BY <1>4, <1>8, <1>10, <1>11 DEF LaneInv

-----------------------------------------------------------------------------
(* protocol_lane_stage: the stages whose backing has just been checked.    *)
LEMMA AdvanceKeeps ==
  ASSUME NEW l \in Lanes, LaneInv(l), l \in AllLanes, NEW to \in Stages, Advance(l, to),
         LaneValid(l)'
  PROVE  LaneInv(l)'
<1>1. lanes'[l] = [lanes[l] EXCEPT !.stage = to]
  BY DEF Advance, ChangeLane, Lanes
<1>2. LaneTyped(l)'
  BY <1>1 DEF LaneInv, LaneTyped
<1>3. /\ lanes'[l].regions = lanes[l].regions
      /\ lanes'[l].commitTs = lanes[l].commitTs
      /\ lanes'[l].responded = lanes[l].responded
      /\ lanes'[l].stage = to
      /\ Prepared(l)' <=> Prepared(l)
  BY <1>1 DEF LaneInv, LaneTyped, Prepared
<1>4. Prewritten(l)' <=> Prewritten(l)
  BY <1>3, LogsUntouched
<1>5. lanes[l].responded => lanes[l].commitTs # None
  BY DEF LaneInv, LaneValid, MayBeAnswered
<1>6. AllLocked(l) => Prewritten(l)
  BY DEF AllLocked, Prewritten
<1>7. StageBacked(l)'
  <2>1. Follows(l, lanes[l].stage, to) /\ Backed(l, to) /\ StageBacked(l)
    BY DEF Advance, LaneInv
  <2>2. QED
    BY <1>3, <1>4, <1>5, <1>6, <2>1 DEF Follows, Backed, StageBacked, AllLanes
<1>8. QED BY <1>2, <1>3, <1>7, LogsUntouched, DecisionUntouched DEF LaneInv

(* protocol_client_response, protocol_background_complete.                 *)
LEMMA RespondKeeps ==
  ASSUME NEW l \in Lanes, LaneInv(l), Respond(l), LaneValid(l)'
  PROVE  LaneInv(l)'
<1>1. lanes'[l] = [lanes[l] EXCEPT !.responded = TRUE]
  BY DEF Respond, ChangeLane, Lanes
<1>2. LaneTyped(l)'
  BY <1>1 DEF LaneInv, LaneTyped
<1>3. /\ lanes'[l].regions = lanes[l].regions
      /\ lanes'[l].commitTs = lanes[l].commitTs
      /\ lanes'[l].stage = lanes[l].stage
      /\ lanes[l].responded => lanes'[l].responded
      /\ Prepared(l) => Prepared(l)'
  BY <1>1 DEF LaneInv, LaneTyped, Prepared
<1>4. QED
  BY <1>2, <1>3, LogsUntouched, DecisionUntouched, StageUntouched DEF LaneInv

LEMMA FinishBackgroundKeeps ==
  ASSUME NEW l \in Lanes, LaneInv(l), FinishBackground(l), LaneValid(l)'
  PROVE  LaneInv(l)'
<1>1. lanes'[l] = [lanes[l] EXCEPT !.backgrounded = TRUE]
  BY DEF FinishBackground, ChangeLane, Lanes
<1>2. LaneTyped(l)'
  BY <1>1 DEF LaneInv, LaneTyped
<1>3. /\ lanes'[l].regions = lanes[l].regions
      /\ lanes'[l].commitTs = lanes[l].commitTs
      /\ lanes'[l].stage = lanes[l].stage
      /\ lanes[l].responded => lanes'[l].responded
      /\ Prepared(l) => Prepared(l)'
  BY <1>1 DEF LaneInv, LaneTyped, Prepared
<1>4. QED
  BY <1>2, <1>3, LogsUntouched, DecisionUntouched, StageUntouched DEF LaneInv

-----------------------------------------------------------------------------
(* protocol_region_raft: an entry on its way, its MVCC change not yet made.*)
LEMMA EntryKeeps ==
  ASSUME NEW l \in Lanes, LaneInv(l), l \in AllLanes, NEW r \in Roles(l), NEW raft \in Raft,
         ChangeLane(l, [lanes[l] EXCEPT !.regions[r].raft = raft]),
         RegionShape(l, r)',
         LaneValid(l)'
  PROVE  LaneInv(l)'
<1>1. lanes'[l] = [lanes[l] EXCEPT !.regions[r].raft = raft]
  BY DEF ChangeLane, Lanes
<1>2. /\ lanes'[l].stage = lanes[l].stage
      /\ lanes'[l].responded = lanes[l].responded
      /\ lanes'[l].commitTs = lanes[l].commitTs
      /\ Prepared(l)' <=> Prepared(l)
      /\ lanes'[l].regions = [lanes[l].regions EXCEPT ![r].raft = raft]
      /\ lanes[l].regions \in [Roles(l) -> Region]
  BY <1>1 DEF LaneInv, LaneTyped, Prepared
<1>3. lanes'[l].regions \in [Roles(l) -> Region]
  BY <1>2 DEF Region
<1>4. LaneTyped(l)'
  BY <1>1, <1>3 DEF LaneInv, LaneTyped
<1>5. ASSUME NEW s \in Roles(l)
      PROVE  /\ s # r => lanes'[l].regions[s].raft = lanes[l].regions[s].raft
             /\ lanes'[l].regions[s].mvcc = lanes[l].regions[s].mvcc
             /\ lanes'[l].regions[s].returned = lanes[l].regions[s].returned
  BY <1>2 DEF Region
<1>6. ASSUME NEW s \in Roles(l)
      PROVE  /\ Locked(l, s)' <=> Locked(l, s)
             /\ Committed(l, s)' <=> Committed(l, s)
  BY <1>5 DEF Locked, Committed
<1>7. "primary" \in Roles(l)
  BY DEF Roles
<1>8. ASSUME NEW s \in Roles(l), s # r PROVE RegionShape(l, s)'
  <2>1. RegionShape(l, s)
    BY DEF LaneInv
  <2>2. QED BY <1>2, <1>5, <1>6, <1>7, <1>8, <2>1 DEF RegionShape
<1>9. Prewritten(l)' <=> Prewritten(l)
  BY <1>6 DEF Prewritten
<1>10. Returned(l)' = Returned(l)
  BY <1>5 DEF Returned
<1>11. DecisionBacked(l)'
  BY <1>2, <1>9, <1>10 DEF DecisionBacked, LaneInv
<1>12. StageBacked(l)'
  BY <1>2, <1>9, StageUntouched
<1>13. QED BY <1>4, <1>8, <1>11, <1>12 DEF LaneInv

LEMMA ProposeKeeps ==
  ASSUME NEW l \in Lanes, LaneInv(l), l \in AllLanes, NEW r \in Roles(l),
         NEW operation \in Operations, Propose(l, r, operation), LaneValid(l)'
  PROVE  LaneInv(l)'
<1> DEFINE old == lanes[l].regions[r].raft
           raft == [operation |-> operation, stage |-> "proposed", index |-> old.index + 1,
                    persisted |-> {}]
<1>1. ChangeLane(l, [lanes[l] EXCEPT !.regions[r].raft = raft])
  BY DEF Propose
<1>2. lanes[l].regions \in [Roles(l) -> Region] /\ RegionShape(l, r)
  BY DEF LaneInv, LaneTyped
<1>3. \/ old.operation = None /\ MayPrewrite(l, r, operation)
      \/ old.operation = "prewrite" /\ MayCommit(l, r, operation)
  BY <1>2, ProtocolLabAssumption
  DEF Propose, MayPrewrite, MayCommit, RegionShape, OperationsOf, AllLanes, Operations,
      PrewriteOperations, CommitOperations
<1>4. raft \in Raft
  BY <1>2, <1>3, ProtocolLabAssumption DEF Raft, RegionShape, Operations, PrewriteOperations
<1>5. /\ lanes'[l].regions = [lanes[l].regions EXCEPT ![r].raft = raft]
      /\ lanes'[l].commitTs = lanes[l].commitTs
  BY <1>1 DEF LaneInv, LaneTyped, ChangeLane, Lanes
<1>6. ASSUME NEW s \in Roles(l)
      PROVE  /\ Locked(l, s)' <=> Locked(l, s)
             /\ Committed(l, s)' <=> Committed(l, s)
  BY <1>2, <1>5 DEF Region, Locked, Committed
<1>7. /\ lanes'[l].regions[r].raft = raft
      /\ lanes'[l].regions[r].mvcc = lanes[l].regions[r].mvcc
  BY <1>2, <1>5 DEF Region
<1>8. RegionShape(l, r)'
  <2>1. "primary" \in Roles(l)
    BY DEF Roles
  <2>2. CASE old.operation = None /\ MayPrewrite(l, r, operation)
    BY <1>2, <1>5, <1>6, <1>7, <2>1, <2>2, ProtocolLabAssumption
    DEF RegionShape, MayPrewrite, OperationsOf, AllLanes, Operations, PrewriteOperations,
        CommitOperations
  <2>3. CASE old.operation = "prewrite" /\ MayCommit(l, r, operation)
    BY <1>2, <1>5, <1>6, <1>7, <2>1, <2>3, ProtocolLabAssumption
    DEF RegionShape, MayCommit, OperationsOf, AllLanes, Operations, PrewriteOperations,
        CommitOperations, PrimaryCommitted
  <2>4. QED BY <1>3, <2>2, <2>3
<1>9. QED BY <1>1, <1>4, <1>8, EntryKeeps

LEMMA PersistQuorumKeeps ==
  ASSUME NEW l \in Lanes, LaneInv(l), l \in AllLanes, NEW r \in Roles(l),
         NEW stores \in SUBSET Voters, PersistQuorum(l, r, stores), LaneValid(l)'
  PROVE  LaneInv(l)'
<1> DEFINE old == lanes[l].regions[r].raft
           raft == [old EXCEPT !.stage = "persisted_quorum", !.persisted = stores]
<1>1. lanes[l].regions \in [Roles(l) -> Region] /\ RegionShape(l, r)
  BY DEF LaneInv, LaneTyped
<1>2. ChangeLane(l, [lanes[l] EXCEPT !.regions[r].raft = raft])
  BY DEF PersistQuorum
<1>3. raft \in Raft /\ raft.operation = old.operation /\ raft.index = old.index
      /\ raft.stage = "persisted_quorum"
  BY <1>1 DEF Region, Raft
<1>4. /\ lanes'[l].regions = [lanes[l].regions EXCEPT ![r].raft = raft]
      /\ lanes'[l].commitTs = lanes[l].commitTs
  BY <1>2 DEF LaneInv, LaneTyped, ChangeLane, Lanes
<1>5. ASSUME NEW s \in Roles(l)
      PROVE  /\ Locked(l, s)' <=> Locked(l, s)
             /\ Committed(l, s)' <=> Committed(l, s)
  BY <1>1, <1>4 DEF Region, Locked, Committed
<1>6. /\ lanes'[l].regions[r].raft = raft
      /\ lanes'[l].regions[r].mvcc = lanes[l].regions[r].mvcc
  BY <1>1, <1>4 DEF Region
<1>7. "primary" \in Roles(l) /\ old.stage = "proposed"
  BY DEF Roles, PersistQuorum
<1>8. RegionShape(l, r)'
  BY <1>1, <1>3, <1>4, <1>5, <1>6, <1>7 DEF RegionShape
<1>9. QED BY <1>2, <1>3, <1>8, EntryKeeps

LEMMA CommitEntryKeeps ==
  ASSUME NEW l \in Lanes, LaneInv(l), l \in AllLanes, NEW r \in Roles(l),
         CommitEntry(l, r), LaneValid(l)'
  PROVE  LaneInv(l)'
<1> DEFINE old == lanes[l].regions[r].raft
           raft == [old EXCEPT !.stage = "committed"]
<1>1. lanes[l].regions \in [Roles(l) -> Region] /\ RegionShape(l, r)
  BY DEF LaneInv, LaneTyped
<1>2. ChangeLane(l, [lanes[l] EXCEPT !.regions[r].raft = raft])
  BY <1>1 DEF CommitEntry, ChangeLane, Region, Raft, LaneInv, LaneTyped
<1>3. raft \in Raft /\ raft.operation = old.operation /\ raft.index = old.index
      /\ raft.stage = "committed"
  BY <1>1 DEF Region, Raft
<1>4. /\ lanes'[l].regions = [lanes[l].regions EXCEPT ![r].raft = raft]
      /\ lanes'[l].commitTs = lanes[l].commitTs
  BY <1>2 DEF LaneInv, LaneTyped, ChangeLane, Lanes
<1>5. ASSUME NEW s \in Roles(l)
      PROVE  /\ Locked(l, s)' <=> Locked(l, s)
             /\ Committed(l, s)' <=> Committed(l, s)
  BY <1>1, <1>4 DEF Region, Locked, Committed
<1>6. /\ lanes'[l].regions[r].raft = raft
      /\ lanes'[l].regions[r].mvcc = lanes[l].regions[r].mvcc
  BY <1>1, <1>4 DEF Region
<1>7. "primary" \in Roles(l) /\ old.stage = "persisted_quorum"
  BY DEF Roles, CommitEntry
<1>8. RegionShape(l, r)'
  BY <1>1, <1>3, <1>4, <1>5, <1>6, <1>7 DEF RegionShape
<1>9. QED BY <1>2, <1>3, <1>8, EntryKeeps

(* The entry is applied: a prewrite locks the Region, a commit unlocks it. *)
LEMMA ApplyEntryKeeps ==
  ASSUME NEW l \in Lanes, LaneInv(l), l \in AllLanes, NEW r \in Roles(l),
         ApplyEntry(l, r), LaneValid(l)'
  PROVE  LaneInv(l)'
<1> DEFINE old == lanes[l].regions[r]
           new == [old EXCEPT !.raft.stage = "applied", !.mvcc = MvccAfter(l, r)]
<1>1. lanes[l].regions \in [Roles(l) -> Region] /\ RegionShape(l, r)
  BY DEF LaneInv, LaneTyped
<1>2. MvccAfter(l, r) \in Mvcc
  BY DEF MvccAfter, Mvcc, SecondaryCount
<1>3. /\ new \in Region
      /\ new.raft.stage = "applied"
      /\ new.raft.operation = old.raft.operation
      /\ new.raft.index = old.raft.index
      /\ new.mvcc = MvccAfter(l, r)
      /\ new.returned = old.returned
  BY <1>1, <1>2 DEF Region, Raft
<1>4. lanes'[l] = [lanes[l] EXCEPT !.regions[r] = new]
  BY DEF ApplyEntry, ChangeLane, Lanes
<1>5. /\ lanes'[l].stage = lanes[l].stage
      /\ lanes'[l].responded = lanes[l].responded
      /\ lanes'[l].commitTs = lanes[l].commitTs
      /\ Prepared(l)' <=> Prepared(l)
      /\ lanes'[l].regions = [lanes[l].regions EXCEPT ![r] = new]
  BY <1>4 DEF LaneInv, LaneTyped, Prepared
<1>6. LaneTyped(l)'
  BY <1>1, <1>3, <1>4 DEF LaneInv, LaneTyped
<1>7. /\ lanes'[l].regions[r] = new
      /\ \A s \in Roles(l) : s # r => lanes'[l].regions[s] = lanes[l].regions[s]
  BY <1>1, <1>5
<1>8. old.raft.operation # None /\ old.raft.stage = "committed"
  BY <1>1 DEF ApplyEntry, RegionShape
<1>9. /\ Locked(l, r)' <=> old.raft.operation = "prewrite"
      /\ Committed(l, r)' <=> old.raft.operation # "prewrite"
      /\ lanes'[l].regions[r].mvcc.default = "value"
  BY <1>3, <1>7 DEF MvccAfter, Locked, Committed
<1>10. ASSUME NEW s \in Roles(l)
       PROVE  /\ Locked(l, s) \/ Committed(l, s) => Locked(l, s)' \/ Committed(l, s)'
              /\ Committed(l, s) => Committed(l, s)'
  <2>1. CASE s = r
    BY <1>1, <1>8, <1>9, <2>1, ProtocolLabAssumption
    DEF RegionShape, CommitOperations, OperationsOf, Operations
  <2>2. CASE s # r
    BY <1>7, <2>2 DEF Locked, Committed
  <2>3. QED BY <2>1, <2>2
<1>11. "primary" \in Roles(l)
  BY DEF Roles
<1>12. RegionShape(l, r)'
  BY <1>1, <1>3, <1>5, <1>7, <1>8, <1>9, <1>10, <1>11, ProtocolLabAssumption
  DEF RegionShape, CommitOperations, PrewriteOperations, OperationsOf, Operations
<1>13. ASSUME NEW s \in Roles(l), s # r PROVE RegionShape(l, s)'
  <2>1. RegionShape(l, s)
    BY DEF LaneInv
  <2>2. QED
    BY <1>5, <1>7, <1>10, <1>11, <1>13, <2>1 DEF RegionShape, Locked, Committed
<1>14. Prewritten(l) => Prewritten(l)'
  BY <1>10 DEF Prewritten
<1>15. Returned(l)' = Returned(l)
  <2>1. \A s \in Roles(l) : lanes'[l].regions[s].returned = lanes[l].regions[s].returned
    BY <1>3, <1>7
  <2>2. QED BY <2>1 DEF Returned
<1>16. DecisionBacked(l)'
  BY <1>5, <1>14, <1>15 DEF DecisionBacked, LaneInv
<1>17. StageBacked(l)'
  BY <1>5, <1>14, StageUntouched
<1>18. QED BY <1>6, <1>12, <1>13, <1>16, <1>17 DEF LaneInv

-----------------------------------------------------------------------------
LEMMA InitEstablishes == Init => IInv
<1> SUFFICES ASSUME Init PROVE IInv
  OBVIOUS
<1>1. PICK compared \in Comparisons : lanes = [l \in compared |-> FreshLane(l)]
  BY DEF Init
<1>2. Lanes = compared /\ Lanes \in Comparisons
  BY <1>1 DEF Lanes
<1>3. ASSUME NEW l \in Lanes PROVE LaneInv(l)
  <2>1. lanes[l] = FreshLane(l)
    BY <1>1, <1>2
  <2>2. FreshRegion \in Region
    BY DEF FreshRegion, Region, Raft, Mvcc
  <2>3. LaneTyped(l)
    BY <2>1, <2>2 DEF LaneTyped, FreshLane, Stages
  <2>4. \A r \in Roles(l) : lanes[l].regions[r] = FreshRegion
    BY <2>1 DEF FreshLane
  <2>5. ASSUME NEW r \in Roles(l) PROVE RegionShape(l, r) /\ RegionValid(l, r)
    BY <2>1, <2>4, ProtocolLabAssumption
    DEF RegionShape, RegionValid, FreshRegion, Locked, Committed, CommitOperations,
        PrewriteOperations, Operations
  <2>6. /\ lanes[l].stage = "idle" /\ lanes[l].startTs = None /\ lanes[l].latestTs = None
        /\ lanes[l].floor = None /\ lanes[l].maxTs = None /\ lanes[l].commitTs = None
        /\ lanes[l].responded = FALSE /\ lanes[l].backgrounded = FALSE
    BY <2>1 DEF FreshLane
  <2>7. DecisionBacked(l) /\ StageBacked(l) /\ LaneValid(l)
    BY <2>5, <2>6 DEF DecisionBacked, StageBacked, LaneValid, TimestampsValid
  <2>8. QED BY <2>3, <2>5, <2>7 DEF LaneInv
<1>4. lanes = [l \in Lanes |-> lanes[l]]
  BY <1>1, <1>2
<1>5. QED BY <1>2, <1>3, <1>4 DEF IInv, Init

LEMMA NextKeeps == IInv /\ [Next]_vars => IInv'
<1> SUFFICES ASSUME IInv, [Next]_vars PROVE IInv'
  OBVIOUS
<1>1. ASSUME NEW l \in Lanes \cup {None}, NEW p \in {"idle", "running", "complete"}, Focus(l, p)
      PROVE  IInv'
  <2>1. lanes' = lanes /\ Lanes' = Lanes
    BY <1>1 DEF Focus, Lanes
  <2>2. \A k \in Lanes : LaneInv(k)'
    BY <2>1, LaneUntouched DEF IInv
  <2>3. QED BY <1>1, <2>1, <2>2 DEF IInv, Focus
<1>2. ASSUME NEW l \in Lanes,
             \/ \E to \in Stages : Advance(l, to)
             \/ TimestampStep(l)
             \/ RaftStep(l)
             \/ Respond(l)
             \/ FinishBackground(l),
             Valid'
      PROVE  IInv'
  <2>1. PICK lane : ChangeLane(l, lane)
    BY <1>2 DEF Advance, TimestampStep, RaftStep, Respond, FinishBackground, StartTs, LatestTs,
       RequestMinCommitTs, MaxCommitTs, Decide, ReturnedMinCommitTs, Propose, PersistQuorum,
       CommitEntry, ApplyEntry
  <2>2. Lanes' = Lanes
    BY <2>1 DEF ChangeLane, Lanes, IInv
  <2>3. LaneValid(l)' /\ LaneInv(l) /\ l \in AllLanes
    BY <1>2, <2>2, ProtocolLabAssumption DEF Valid, IInv
  <2>4. LaneInv(l)'
    <3>1. CASE \E to \in Stages : Advance(l, to)
      BY <2>3, <3>1, AdvanceKeeps
    <3>2. CASE TimestampStep(l)
      BY <2>3, <3>2, StartTsKeeps, LatestTsKeeps, RequestMinCommitTsKeeps, MaxCommitTsKeeps,
         DecideKeeps, ReturnedMinCommitTsKeeps DEF TimestampStep
    <3>3. CASE RaftStep(l)
      BY <2>3, <3>3, ProposeKeeps, PersistQuorumKeeps, CommitEntryKeeps, ApplyEntryKeeps
      DEF RaftStep
    <3>4. CASE Respond(l)
      BY <2>3, <3>4, RespondKeeps
    <3>5. CASE FinishBackground(l)
      BY <2>3, <3>5, FinishBackgroundKeeps
    <3>6. QED BY <1>2, <3>1, <3>2, <3>3, <3>4, <3>5
  <2>5. QED BY <2>1, <2>4, OneLaneChanges
<1>3. CASE UNCHANGED vars
  <2>1. lanes' = lanes /\ phase' = phase /\ focus' = focus /\ Lanes' = Lanes
    BY <1>3 DEF vars, Lanes
  <2>2. \A k \in Lanes : LaneInv(k)'
    BY <2>1, LaneUntouched DEF IInv
  <2>3. QED BY <2>1, <2>2 DEF IInv
<1>4. QED BY <1>1, <1>2, <1>3 DEF Next

LEMMA Invariance == Spec => []IInv
  BY InitEstablishes, NextKeeps, PTL DEF Spec

-----------------------------------------------------------------------------
LEMMA InvImpliesLabValid == IInv => LabValid
<1> SUFFICES ASSUME IInv PROVE LabValid
  OBVIOUS
<1>1. TypeOK
  BY DEF IInv, LaneInv, LaneTyped, TypeOK
<1>2. StageIsBacked
  BY DEF IInv, LaneInv, StageBacked, StageIsBacked, Prewritten
<1>3. PrimaryDecides
  <2>1. ASSUME "two_pc" \in Lanes PROVE RegionShape("two_pc", "secondary")
    BY <2>1 DEF IInv, LaneInv, Roles
  <2>2. QED BY <2>1 DEF PrimaryDecides, RegionShape
<1>4. QED BY <1>1, <1>2, <1>3 DEF LabValid

(* The fields keep their types, TiDB shows no stage its Regions have not   *)
(* reached, and in 2PC no secondary's commit is proposed before the        *)
(* primary's is applied.                                                   *)
THEOREM LabIsValid == Spec => []LabValid
  BY Invariance, InvImpliesLabValid, PTL

(* Async Commit's commit timestamp is the greatest a Region returned,      *)
(* whichever came last.                                                    *)
THEOREM CommitTsIsCovering == Spec => []CommitTsCoversPrewrites
<1>1. IInv => CommitTsCoversPrewrites
  BY DEF IInv, LaneInv, DecisionBacked, CommitTsCoversPrewrites, IsGreatest
<1>2. QED BY <1>1, Invariance, PTL

(* A client is answered only when a majority of every Region that decides  *)
(* the outcome has persisted it.                                           *)
THEOREM AnsweredIsDurable == Spec => []ResponseIsDurable
<1>1. ASSUME IInv, NEW l \in Lanes, lanes[l].responded
      PROVE  LET regions == lanes[l].regions
             IN  /\ l = "one_pc" => Durable(regions["primary"].raft, {"one_pc_prewrite"})
                 /\ l = "two_pc" => Durable(regions["primary"].raft, {"commit_primary"})
                 /\ l = "async_commit" => \A r \in Roles(l) :
                      /\ regions[r].returned # None
                      /\ \/ Durable(regions[r].raft, {"prewrite"})
                         \/ regions[r].raft.operation = "commit_async"
  <2>1. LaneInv(l) /\ MayBeAnswered(l)
    BY <1>1 DEF IInv, LaneInv, LaneValid
  <2>2. "primary" \in Roles(l)
    BY DEF Roles
  <2>3. ASSUME NEW r \in Roles(l), lanes[l].regions[r].raft.stage = "applied"
        PROVE  Cardinality(lanes[l].regions[r].raft.persisted) >= Quorum
    BY <2>1, <2>3 DEF LaneInv, LaneValid, RegionValid
  <2>4. ASSUME NEW r \in Roles(l) PROVE RegionShape(l, r)
    BY <2>1 DEF LaneInv
  <2>5. CASE l = "one_pc"
    BY <2>1, <2>2, <2>3, <2>4, <2>5, ProtocolLabAssumption
    DEF MayBeAnswered, AllCommitted, RegionShape, OperationsOf, Durable, CommitOperations,
        Operations
  <2>6. CASE l = "two_pc"
    BY <2>1, <2>2, <2>3, <2>4, <2>6, ProtocolLabAssumption
    DEF MayBeAnswered, RegionShape, OperationsOf, Durable, CommitOperations, Operations
  <2>7. CASE l = "async_commit"
    <3>1. ASSUME NEW r \in Roles(l) PROVE lanes[l].regions[r].returned # None
      BY <2>1, <2>7 DEF MayBeAnswered, LaneInv, DecisionBacked, Returned
    <3>2. ASSUME NEW r \in Roles(l)
          PROVE  \/ Durable(lanes[l].regions[r].raft, {"prewrite"})
                 \/ lanes[l].regions[r].raft.operation = "commit_async"
      BY <2>1, <2>3, <2>4, <2>7, ProtocolLabAssumption
      DEF MayBeAnswered, RegionShape, OperationsOf, Durable, CommitOperations, Operations
    <3>3. QED BY <2>7, <3>1, <3>2
  <2>8. QED BY <2>5, <2>6, <2>7
<1>2. IInv => ResponseIsDurable
  BY <1>1 DEF ResponseIsDurable
<1>3. QED BY <1>2, Invariance, PTL

-----------------------------------------------------------------------------
(* The refinement: what Commitment sees of a lane.                         *)
RegionsPrepared(l) == {r \in Roles(l) : l \in Lanes /\ (Locked(l, r) \/ Committed(l, r))}
RegionsCommitted(l) == {r \in Roles(l) : l \in Lanes /\ Committed(l, r)}
Answered == {l \in Lanes : lanes[l].responded}

(* A lane that keeps its locks, its commit records and its answer shows    *)
(* Commitment no step.                                                     *)
LEMMA Stutter ==
  ASSUME Lanes' = Lanes,
         \A l \in AllLanes : /\ RegionsPrepared(l)' = RegionsPrepared(l)
                             /\ RegionsCommitted(l)' = RegionsCommitted(l),
         Answered' = Answered
  PROVE  UNCHANGED Decision!vars
  BY DEF Decision!vars, RegionsPrepared, RegionsCommitted, Answered

LEMMA QuietDelta ==
  ASSUME IInv, NEW l \in Lanes, NEW lane, ChangeLane(l, lane),
         lane.responded = lanes[l].responded,
         \A r \in Roles(l) : lane.regions[r].mvcc = lanes[l].regions[r].mvcc
  PROVE  UNCHANGED Decision!vars
<1>1. Lanes' = Lanes /\ lanes'[l] = lane /\ \A k \in Lanes \ {l} : lanes'[k] = lanes[k]
  BY DEF ChangeLane, Lanes, IInv
<1>2. ASSUME NEW k \in AllLanes
      PROVE  /\ RegionsPrepared(k)' = RegionsPrepared(k)
             /\ RegionsCommitted(k)' = RegionsCommitted(k)
  <2>1. CASE k = l
    BY <1>1, <2>1 DEF RegionsPrepared, RegionsCommitted, Locked, Committed
  <2>2. CASE k \in Lanes \ {l}
    BY <1>1, <2>2 DEF RegionsPrepared, RegionsCommitted, Locked, Committed
  <2>3. CASE k \notin Lanes
    BY <1>1, <2>3 DEF RegionsPrepared, RegionsCommitted
  <2>4. QED BY <2>1, <2>2, <2>3
<1>3. Answered' = Answered
  BY <1>1 DEF Answered
<1>4. QED BY <1>1, <1>2, <1>3, Stutter

LEMMA AdvanceRefines ==
  ASSUME IInv, NEW l \in Lanes, LaneTyped(l), NEW to \in Stages, Advance(l, to)
  PROVE  UNCHANGED Decision!vars
<1> DEFINE lane == [lanes[l] EXCEPT !.stage = to]
<1>1. ChangeLane(l, lane)
  BY DEF Advance
<1>2. lane.responded = lanes[l].responded /\ lane.regions = lanes[l].regions
  BY DEF LaneTyped
<1>3. QED BY <1>1, <1>2, QuietDelta

LEMMA TimestampRefines ==
  ASSUME IInv, NEW l \in Lanes, LaneTyped(l), TimestampStep(l)
  PROVE  UNCHANGED Decision!vars
<1>1. PICK ts \in Timestamps :
        \/ StartTs(l, ts) \/ LatestTs(l, ts)
        \/ RequestMinCommitTs(l, ts) \/ MaxCommitTs(l, ts)
        \/ Decide(l, ts)
        \/ \E r \in Roles(l) : ReturnedMinCommitTs(l, r, ts)
  BY DEF TimestampStep
<1>2. PICK lane : /\ ChangeLane(l, lane)
                  /\ lane.responded = lanes[l].responded
                  /\ \A r \in Roles(l) : lane.regions[r].mvcc = lanes[l].regions[r].mvcc
  <2>1. CASE StartTs(l, ts)
    BY <2>1 DEF StartTs, LaneTyped
  <2>2. CASE LatestTs(l, ts)
    BY <2>2 DEF LatestTs, LaneTyped
  <2>3. CASE RequestMinCommitTs(l, ts)
    BY <2>3 DEF RequestMinCommitTs, LaneTyped
  <2>4. CASE MaxCommitTs(l, ts)
    BY <2>4 DEF MaxCommitTs, LaneTyped
  <2>5. CASE Decide(l, ts)
    BY <2>5 DEF Decide, LaneTyped
  <2>6. ASSUME NEW r \in Roles(l), ReturnedMinCommitTs(l, r, ts)
        PROVE  \E lane : /\ ChangeLane(l, lane)
                         /\ lane.responded = lanes[l].responded
                         /\ \A s \in Roles(l) :
                              lane.regions[s].mvcc = lanes[l].regions[s].mvcc
    BY <2>6 DEF ReturnedMinCommitTs, LaneTyped, Region
  <2>7. QED BY <1>1, <2>1, <2>2, <2>3, <2>4, <2>5, <2>6
<1>3. QED BY <1>2, QuietDelta

LEMMA EntryRefines ==
  ASSUME IInv, NEW l \in Lanes, LaneTyped(l), NEW r \in Roles(l),
         \/ \E operation \in Operations : Propose(l, r, operation)
         \/ \E stores \in SUBSET Voters : PersistQuorum(l, r, stores)
         \/ CommitEntry(l, r)
  PROVE  UNCHANGED Decision!vars
<1>1. PICK raft : ChangeLane(l, [lanes[l] EXCEPT !.regions[r].raft = raft])
  <2>1. CASE CommitEntry(l, r)
    BY <2>1 DEF CommitEntry
  <2>2. QED BY <2>1 DEF Propose, PersistQuorum
<1> DEFINE lane == [lanes[l] EXCEPT !.regions[r].raft = raft]
<1>2. /\ lane.responded = lanes[l].responded
      /\ \A s \in Roles(l) : lane.regions[s].mvcc = lanes[l].regions[s].mvcc
  BY DEF LaneTyped, Region
<1>3. QED BY <1>1, <1>2, QuietDelta

(* Applying an entry prepares a Region, commits it, or, in 1PC, does both. *)
LEMMA ApplyEntryRefines ==
  ASSUME IInv, NEW l \in Lanes, LaneInv(l), l \in AllLanes, NEW r \in Roles(l),
         ApplyEntry(l, r)
  PROVE  Decision!Next
<1> DEFINE operation == lanes[l].regions[r].raft.operation
<1>1. /\ Lanes' = Lanes
      /\ lanes'[l] = [lanes[l] EXCEPT !.regions[r].raft.stage = "applied",
                                      !.regions[r].mvcc = MvccAfter(l, r)]
      /\ \A k \in Lanes \ {l} : lanes'[k] = lanes[k]
  BY DEF ApplyEntry, ChangeLane, Lanes, IInv
<1>2. /\ lanes'[l].responded = lanes[l].responded
      /\ lanes'[l].regions[r].mvcc = MvccAfter(l, r)
      /\ \A s \in Roles(l) \ {r} : lanes'[l].regions[s] = lanes[l].regions[s]
  BY <1>1 DEF LaneInv, LaneTyped, Region
<1>3. \A k \in AllLanes \ {l} : /\ RegionsPrepared(k)' = RegionsPrepared(k)
                                /\ RegionsCommitted(k)' = RegionsCommitted(k)
  BY <1>1 DEF RegionsPrepared, RegionsCommitted, Locked, Committed
<1>4. Answered' = Answered
  BY <1>1, <1>2 DEF Answered
<1>5. RegionShape(l, r) /\ operation # None /\ lanes[l].regions[r].raft.stage = "committed"
  BY DEF ApplyEntry, LaneInv, RegionShape
<1>6. CASE operation = "prewrite"
  <2>1. ~Committed(l, r) /\ Locked(l, r)' /\ ~Committed(l, r)'
    BY <1>2, <1>5, <1>6 DEF RegionShape, Locked, Committed, MvccAfter
  <2>2. RegionsPrepared(l)' = RegionsPrepared(l) \cup {r}
    BY <1>1, <1>2, <2>1 DEF RegionsPrepared, Locked, Committed
  <2>3. RegionsCommitted(l)' = RegionsCommitted(l)
    BY <1>1, <1>2, <2>1 DEF RegionsCommitted, Committed
  <2>4. Decision!Prepare(l, r)
    BY <1>3, <1>4, <2>2, <2>3
    DEF Decision!Prepare, RegionsPrepared, RegionsCommitted, Answered
  <2>5. QED BY <2>4 DEF Decision!Next
<1>7. CASE operation = "one_pc_prewrite"
  <2>1. l = "one_pc"
    BY <1>5, <1>7, ProtocolLabAssumption DEF RegionShape, OperationsOf, Operations
  <2>2. Roles(l) = {r}
    BY <2>1 DEF Roles
  <2>3. Committed(l, r)'
    BY <1>2, <1>7 DEF Committed, MvccAfter
  <2>4. RegionsPrepared(l)' = Roles(l) /\ RegionsCommitted(l)' = Roles(l)
    BY <1>1, <2>2, <2>3 DEF RegionsPrepared, RegionsCommitted, Roles
  <2>5. Decision!OnePhase(l)
    BY <1>3, <1>4, <2>2, <2>4
    DEF Decision!OnePhase, RegionsPrepared, RegionsCommitted, Answered
  <2>6. QED BY <2>5 DEF Decision!Next
<1>8. CASE operation \in CommitOperations
  <2>1. Prewritten(l)
    BY <1>5, <1>8 DEF RegionShape, LaneInv, DecisionBacked
  <2>2. RegionsPrepared(l) = Roles(l)
    BY <2>1 DEF RegionsPrepared, Prewritten
  <2>3. Committed(l, r)'
    BY <1>2, <1>8 DEF Committed, MvccAfter, CommitOperations
  <2>4. RegionsPrepared(l)' = Roles(l)
    BY <1>1, <1>2, <2>1, <2>3 DEF RegionsPrepared, Prewritten, Locked, Committed, Roles
  <2>5. RegionsCommitted(l)' = RegionsCommitted(l) \cup {r}
    BY <1>1, <1>2, <2>3 DEF RegionsCommitted, Committed
  <2>6. Decision!CommitAt(l, r)
    BY <1>3, <1>4, <2>2, <2>4, <2>5
    DEF Decision!CommitAt, RegionsPrepared, RegionsCommitted, Answered
  <2>7. QED BY <2>6 DEF Decision!Next
<1>9. QED
  BY <1>5, <1>6, <1>7, <1>8 DEF RegionShape, OperationsOf, CommitOperations

(* A response needs every Region prepared, whatever the protocol.          *)
LEMMA RespondRefines ==
  ASSUME IInv, NEW l \in Lanes, LaneInv(l), l \in AllLanes, Respond(l)
  PROVE  Decision!Next
<1>1. /\ Lanes' = Lanes
      /\ lanes'[l] = [lanes[l] EXCEPT !.responded = TRUE]
      /\ \A k \in Lanes \ {l} : lanes'[k] = lanes[k]
  BY DEF Respond, ChangeLane, Lanes, IInv
<1>2. lanes'[l].regions = lanes[l].regions /\ lanes'[l].responded
  BY <1>1 DEF LaneInv, LaneTyped
<1>3. ASSUME NEW k \in AllLanes
      PROVE  /\ RegionsPrepared(k)' = RegionsPrepared(k)
             /\ RegionsCommitted(k)' = RegionsCommitted(k)
  <2>1. k \in Lanes => lanes'[k].regions = lanes[k].regions
    BY <1>1, <1>2
  <2>2. QED
    BY <1>1, <2>1 DEF RegionsPrepared, RegionsCommitted, Locked, Committed
<1>4. Answered' = Answered \cup {l}
  BY <1>1, <1>2 DEF Answered
<1>5. RegionsPrepared(l) = Roles(l)
  BY DEF Respond, LaneInv, DecisionBacked, Prewritten, RegionsPrepared
<1>6. Decision!Answer(l)
  BY <1>3, <1>4, <1>5 DEF Decision!Answer, RegionsPrepared, RegionsCommitted, Answered
<1>7. QED BY <1>6 DEF Decision!Next

LEMMA InitRefines == Init => Decision!Init
<1> SUFFICES ASSUME Init PROVE Decision!Init
  OBVIOUS
<1>1. \A l \in Lanes : lanes[l] = FreshLane(l)
  BY DEF Init, Lanes
<1>2. ASSUME NEW l \in Lanes
      PROVE  /\ lanes[l].responded = FALSE
             /\ \A r \in Roles(l) : lanes[l].regions[r] = FreshRegion
  <2>1. lanes[l] = FreshLane(l)
    BY <1>1
  <2>2. QED BY <2>1 DEF FreshLane
<1>3. ASSUME NEW l \in Lanes, NEW r \in Roles(l) PROVE ~Locked(l, r) /\ ~Committed(l, r)
  <2>1. lanes[l].regions[r].mvcc = FreshRegion.mvcc
    BY <1>2
  <2>2. QED BY <2>1 DEF FreshRegion, Locked, Committed
<1>4. QED BY <1>2, <1>3 DEF Decision!Init

LEMMA NextRefines == IInv /\ [Next]_vars => [Decision!Next]_Decision!vars
<1> SUFFICES ASSUME IInv, [Next]_vars PROVE [Decision!Next]_Decision!vars
  OBVIOUS
<1>1. ASSUME lanes' = lanes PROVE UNCHANGED Decision!vars
  <2>1. Lanes' = Lanes /\ Answered' = Answered
    BY <1>1 DEF Lanes, Answered
  <2>2. \A l \in AllLanes : /\ RegionsPrepared(l)' = RegionsPrepared(l)
                            /\ RegionsCommitted(l)' = RegionsCommitted(l)
    BY <1>1 DEF Lanes, RegionsPrepared, RegionsCommitted, Locked, Committed
  <2>3. QED BY <2>1, <2>2, Stutter
<1>2. ASSUME NEW l \in Lanes \cup {None}, NEW p \in {"idle", "running", "complete"}, Focus(l, p)
      PROVE  UNCHANGED Decision!vars
  BY <1>1, <1>2 DEF Focus
<1>3. ASSUME NEW l \in Lanes,
             \/ \E to \in Stages : Advance(l, to)
             \/ TimestampStep(l)
             \/ RaftStep(l)
             \/ Respond(l)
             \/ FinishBackground(l)
      PROVE  [Decision!Next]_Decision!vars
  <2>1. LaneInv(l) /\ LaneTyped(l) /\ l \in AllLanes
    BY ProtocolLabAssumption DEF IInv, LaneInv
  <2>2. CASE \E to \in Stages : Advance(l, to)
    BY <2>1, <2>2, AdvanceRefines
  <2>3. CASE TimestampStep(l)
    BY <2>1, <2>3, TimestampRefines
  <2>4. CASE RaftStep(l)
    <3>1. PICK r \in Roles(l) :
            \/ \E operation \in Operations : Propose(l, r, operation)
            \/ \E stores \in SUBSET Voters : PersistQuorum(l, r, stores)
            \/ CommitEntry(l, r)
            \/ ApplyEntry(l, r)
      BY <2>4 DEF RaftStep
    <3>2. CASE ApplyEntry(l, r)
      BY <2>1, <3>2, ApplyEntryRefines
    <3>3. CASE ~ApplyEntry(l, r)
      BY <2>1, <3>1, <3>3, EntryRefines
    <3>4. QED BY <3>2, <3>3
  <2>5. CASE Respond(l)
    BY <2>1, <2>5, RespondRefines
  <2>6. CASE FinishBackground(l)
    <3> DEFINE lane == [lanes[l] EXCEPT !.backgrounded = TRUE]
    <3>1. ChangeLane(l, lane)
      BY <2>6 DEF FinishBackground
    <3>2. lane.responded = lanes[l].responded /\ lane.regions = lanes[l].regions
      BY <2>1 DEF LaneTyped
    <3>3. QED BY <3>1, <3>2, QuietDelta
  <2>7. QED BY <1>3, <2>2, <2>3, <2>4, <2>5, <2>6
<1>4. CASE UNCHANGED vars
  BY <1>1, <1>4 DEF vars
<1>5. QED BY <1>2, <1>3, <1>4 DEF Next

(* The lanes implement Commitment: no Region commits and no client is      *)
(* answered before every Region of the transaction has prepared.           *)
THEOREM LanesImplementCommitment == Spec => ImplementsCommitment
  BY Invariance, InitRefines, NextRefines, PTL DEF Spec, ImplementsCommitment, Decision!Spec
=============================================================================

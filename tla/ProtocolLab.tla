---------------------------- MODULE ProtocolLab ----------------------------
(***************************************************************************)
(* reduceProtocolLabState of src/tidb/model/protocol-lab.ts: three         *)
(* transactions of their own Regions, committed by 1PC, by Async Commit    *)
(* and by regular 2PC, each coordinated by TiDB over the Regions' Raft     *)
(* groups.  Each delta kind, timestamp purpose and Raft action is an       *)
(* action here, in any order.  A delta whose check fails throws and        *)
(* changes nothing; the checks are the guards, and so is Valid', because   *)
(* validateProtocolLab runs on the outcome of every delta.                 *)
(*                                                                         *)
(* Lanes share no Region, so a Region is named by its role in its lane.    *)
(* The fields that createProtocolLabState fixes for good (eligibility,     *)
(* consistency, mutation counts) enter only through Protocol and           *)
(* SecondaryCount, and the timestamps' sources, which are fixed by their   *)
(* purpose, not at all.                                                    *)
(***************************************************************************)
EXTENDS Integers, FiniteSets

CONSTANTS Comparisons,  \* sets of lanes to compare; the code compares all three
          Voters,       \* the three voters of a Region
          MaxTs,        \* bound on timestamps
          None          \* JavaScript's null

AllLanes == {"one_pc", "async_commit", "two_pc"}

Operations == {"one_pc_prewrite", "prewrite", "commit_primary", "commit_secondary",
               "commit_async"}

ASSUME ProtocolLabAssumption ==
  /\ Comparisons \subseteq SUBSET AllLanes
  /\ Cardinality(Voters) = 3
  /\ MaxTs \in Nat
  /\ None \notin Nat \cup AllLanes \cup Operations

VARIABLES lanes, phase, focus

vars == <<lanes, phase, focus>>

Lanes == DOMAIN lanes

Roles(l) == IF l = "one_pc" THEN {"primary"} ELSE {"primary", "secondary"}
Timestamps == 1..MaxTs
Quorum == 2

Stages == {"idle", "requested", "started", "candidates_checked", "latest_ts", "selected",
           "prewriting", "prewritten", "commit_ts", "committing", "client_acknowledged",
           "background", "complete"}

Raft == [operation : Operations \cup {None},
         stage : {"idle", "proposed", "persisted_quorum", "committed", "applied"},
         index : 0..2,
         persisted : SUBSET Voters]

Mvcc == [default : {"empty", "value"}, lock : {"empty", "prewrite"},
         write : {"empty", "commit"}, async : BOOLEAN, secondaries : Nat]

Region == [raft : Raft, mvcc : Mvcc, returned : Timestamps \cup {None}]

-----------------------------------------------------------------------------
(* createProtocolLabState; index 0 stands for its null.                    *)
FreshRegion ==
  [raft |-> [operation |-> None, stage |-> "idle", index |-> 0, persisted |-> {}],
   mvcc |-> [default |-> "empty", lock |-> "empty", write |-> "empty", async |-> FALSE,
             secondaries |-> 0],
   returned |-> None]

FreshLane(l) ==
  [stage |-> "idle", startTs |-> None, latestTs |-> None, floor |-> None, maxTs |-> None,
   commitTs |-> None, responded |-> FALSE, backgrounded |-> FALSE,
   regions |-> [r \in Roles(l) |-> FreshRegion]]

Init ==
  /\ \E compared \in Comparisons : lanes = [l \in compared |-> FreshLane(l)]
  /\ phase = "idle"
  /\ focus = None

-----------------------------------------------------------------------------
(* What several checks ask of a lane.                                      *)
Prepared(l) == None \notin {lanes[l].startTs, lanes[l].floor, lanes[l].maxTs}
Locked(l, r) == lanes[l].regions[r].mvcc.lock = "prewrite"
Committed(l, r) == lanes[l].regions[r].mvcc.write = "commit"
Returned(l) == {lanes[l].regions[r].returned : r \in Roles(l)}

AllLocked(l) == \A r \in Roles(l) : Locked(l, r)
AllCommitted(l) == \A r \in Roles(l) : Committed(l, r)

-----------------------------------------------------------------------------
(* validateRegion *)
RegionValid(l, r) ==
  LET region == lanes[l].regions[r]
      mvcc == region.mvcc
  IN  /\ region.raft.stage \in {"persisted_quorum", "committed", "applied"} =>
           Cardinality(region.raft.persisted) >= Quorum
      /\ ~(mvcc.lock = "prewrite" /\ mvcc.write = "commit")
      /\ mvcc.lock = "prewrite" \/ mvcc.write = "commit" => mvcc.default = "value"
      /\ mvcc.async \/ mvcc.secondaries > 0 => l = "async_commit" /\ mvcc.lock = "prewrite"
      /\ region.returned # None =>
           /\ l = "async_commit"
           /\ mvcc.default = "value"
           /\ Prepared(l)
           /\ region.returned \in lanes[l].floor..lanes[l].maxTs

(* validateProtocolLab, the bounds of the timestamps                       *)
TimestampsValid(l) ==
  LET lane == lanes[l]
  IN  /\ lane.latestTs # None => lane.startTs # None /\ lane.latestTs > lane.startTs
      /\ lane.floor # None => lane.latestTs # None /\ lane.floor = lane.latestTs + 1
      /\ lane.maxTs # None => lane.floor # None /\ lane.maxTs >= lane.floor
      /\ lane.commitTs # None =>
           /\ lane.startTs # None /\ lane.commitTs > lane.startTs
           /\ lane.floor # None /\ lane.commitTs >= lane.floor
           /\ l # "two_pc" => lane.maxTs # None /\ lane.commitTs <= lane.maxTs

(* Mutant: whoever has a commit timestamp may be answered.                 *)
AnsweredEarly(l) == lanes[l].commitTs # None

MayBeAnswered(l) ==
  /\ lanes[l].commitTs # None
  /\ l = "one_pc" => AllCommitted(l)
  /\ l = "async_commit" => \A r \in Roles(l) : Locked(l, r) \/ Committed(l, r)
  /\ l = "two_pc" => Committed(l, "primary")

Resolved(l) == \A r \in Roles(l) : Committed(l, r) /\ ~Locked(l, r)

LaneValid(l) ==
  /\ TimestampsValid(l)
  /\ \A r \in Roles(l) : RegionValid(l, r)
  /\ lanes[l].responded => MayBeAnswered(l)
  /\ lanes[l].backgrounded => l # "one_pc" /\ Resolved(l)
  /\ lanes[l].stage = "complete" => lanes[l].responded /\ Resolved(l)

Valid ==
  /\ \A l \in Lanes : LaneValid(l)
  /\ phase = "complete" => focus = None /\ \A l \in Lanes : lanes[l].stage = "complete"

-----------------------------------------------------------------------------
(* protocol_lab_focus *)
Focus(l, p) ==
  /\ focus' = l
  /\ phase' = p
  /\ UNCHANGED lanes

ChangeLane(l, lane) ==
  /\ lanes' = [lanes EXCEPT ![l] = lane]
  /\ UNCHANGED <<phase, focus>>

(* protocol_lane_stage: validateLaneTransition                             *)
Follows(l, from, to) ==
  \/ <<from, to>> \in {<<"idle", "requested">>, <<"requested", "started">>,
                       <<"started", "candidates_checked">>,
                       <<"candidates_checked", "latest_ts">>, <<"selected", "prewriting">>,
                       <<"commit_ts", "committing">>, <<"committing", "client_acknowledged">>,
                       <<"background", "complete">>}
  \/ l = "one_pc" /\ <<from, to>> \in {<<"latest_ts", "prewriting">>,
                       <<"prewriting", "committing">>, <<"client_acknowledged", "complete">>}
  \/ l # "one_pc" /\ <<from, to>> \in {<<"latest_ts", "selected">>,
                       <<"prewriting", "prewritten">>, <<"client_acknowledged", "background">>}
  \/ l = "async_commit" /\ <<from, to>> = <<"prewritten", "client_acknowledged">>
  \/ l # "async_commit" /\ <<from, to>> = <<"prewritten", "commit_ts">>

(* Mutant: the stage runs ahead of the locks.                              *)
BackedButLocks(l, to) ==
  /\ to = "started" => lanes[l].startTs # None
  /\ to = "prewriting" => Prepared(l)
  /\ to \in {"commit_ts", "committing"} => lanes[l].commitTs # None
  /\ to = "client_acknowledged" => lanes[l].responded

Backed(l, to) ==
  /\ to = "started" => lanes[l].startTs # None
  /\ to = "latest_ts" => None \notin {lanes[l].latestTs, lanes[l].floor, lanes[l].maxTs}
  /\ to = "prewriting" => Prepared(l)
  /\ to = "prewritten" => AllLocked(l)
  /\ to \in {"commit_ts", "committing"} => lanes[l].commitTs # None
  /\ to = "client_acknowledged" => lanes[l].responded

Advance(l, to) ==
  /\ Follows(l, lanes[l].stage, to)
  /\ Backed(l, to)
  /\ ChangeLane(l, [lanes[l] EXCEPT !.stage = to])

-----------------------------------------------------------------------------
(* protocol_timestamp, by purpose                                          *)
StartTs(l, ts) ==
  /\ lanes[l].startTs = None
  /\ ChangeLane(l, [lanes[l] EXCEPT !.startTs = ts])

LatestTs(l, ts) ==
  /\ lanes[l].latestTs = None
  /\ ChangeLane(l, [lanes[l] EXCEPT !.latestTs = ts])

RequestMinCommitTs(l, ts) ==
  /\ lanes[l].floor = None
  /\ ChangeLane(l, [lanes[l] EXCEPT !.floor = ts])

MaxCommitTs(l, ts) ==
  /\ lanes[l].maxTs = None
  /\ ChangeLane(l, [lanes[l] EXCEPT !.maxTs = ts])

ReturnedMinCommitTs(l, r, ts) ==
  /\ lanes[l].regions[r].returned = None
  /\ ChangeLane(l, [lanes[l] EXCEPT !.regions[r].returned = ts])

(* Mutant: the decision takes the least of the returned timestamps.        *)
IsLeast(ts, S) == ts \in S /\ \A x \in S : ts <= x

IsGreatest(ts, S) == ts \in S /\ \A x \in S : x <= ts

(* Mutant: one prewritten Region is enough.                                *)
MayDecideOnOne(l, ts) ==
  \/ \E r \in Roles(l) : Locked(l, r)
  \/ l = "one_pc" /\ AllCommitted(l)

MayDecide(l, ts) ==
  \/ l = "two_pc" /\ AllLocked(l)
  \/ l = "one_pc" /\ AllCommitted(l)
  \/ l = "async_commit" /\ None \notin Returned(l) /\ IsGreatest(ts, Returned(l))

Undecided(l) == lanes[l].commitTs = None

Decide(l, ts) ==
  /\ MayDecide(l, ts)
  /\ Undecided(l)
  /\ ChangeLane(l, [lanes[l] EXCEPT !.commitTs = ts])

-----------------------------------------------------------------------------
(* protocol_region_raft *)
MayPrewrite(l, r, operation) ==
  /\ operation = IF l = "one_pc" THEN "one_pc_prewrite" ELSE "prewrite"
  /\ lanes[l].stage = "prewriting"
  /\ Prepared(l)
  /\ lanes[l].regions[r].mvcc.default = "empty"
  /\ ~Locked(l, r)
  /\ ~Committed(l, r)

PrimaryCommitted(l) == Committed(l, "primary")

MayCommit(l, r, operation) ==
  /\ lanes[l].commitTs # None
  /\ Locked(l, r)
  /\ \/ l = "async_commit" /\ operation = "commit_async"
     \/ l = "two_pc" /\ r = "primary" /\ operation = "commit_primary"
     \/ l = "two_pc" /\ r = "secondary" /\ operation = "commit_secondary"
  /\ operation = "commit_secondary" => PrimaryCommitted(l)

Propose(l, r, operation) ==
  /\ lanes[l].regions[r].raft.stage \in {"idle", "applied"}
  /\ MayPrewrite(l, r, operation) \/ MayCommit(l, r, operation)
  /\ ChangeLane(l, [lanes[l] EXCEPT !.regions[r].raft =
       [operation |-> operation, stage |-> "proposed", index |-> @.index + 1, persisted |-> {}]])

PersistQuorum(l, r, stores) ==
  /\ lanes[l].regions[r].raft.stage = "proposed"
  /\ Cardinality(stores) >= 2
  /\ ChangeLane(l, [lanes[l] EXCEPT !.regions[r].raft =
       [@ EXCEPT !.stage = "persisted_quorum", !.persisted = stores]])

CommitEntry(l, r) ==
  /\ lanes[l].regions[r].raft.stage = "persisted_quorum"
  /\ ChangeLane(l, [lanes[l] EXCEPT !.regions[r].raft.stage = "committed"])

(* Each fixture changes one key per Region.                                *)
SecondaryCount(l, r) == IF l = "async_commit" /\ r = "primary" THEN 1 ELSE 0

MvccAfter(l, r) ==
  IF lanes[l].regions[r].raft.operation = "prewrite"
  THEN [default |-> "value", lock |-> "prewrite", write |-> "empty",
        async |-> l = "async_commit", secondaries |-> SecondaryCount(l, r)]
  ELSE [default |-> "value", lock |-> "empty", write |-> "commit", async |-> FALSE,
        secondaries |-> 0]

ApplyEntry(l, r) ==
  /\ lanes[l].regions[r].raft.stage = "committed"
  /\ ChangeLane(l, [lanes[l] EXCEPT !.regions[r].raft.stage = "applied",
                                    !.regions[r].mvcc = MvccAfter(l, r)])

(* protocol_client_response, protocol_background_complete                  *)
Respond(l) ==
  /\ lanes[l].commitTs # None
  /\ ChangeLane(l, [lanes[l] EXCEPT !.responded = TRUE])

FinishBackground(l) == ChangeLane(l, [lanes[l] EXCEPT !.backgrounded = TRUE])

-----------------------------------------------------------------------------
TimestampStep(l) ==
  \E ts \in Timestamps :
     \/ StartTs(l, ts) \/ LatestTs(l, ts)
     \/ RequestMinCommitTs(l, ts) \/ MaxCommitTs(l, ts)
     \/ Decide(l, ts)
     \/ \E r \in Roles(l) : ReturnedMinCommitTs(l, r, ts)

RaftStep(l) ==
  \E r \in Roles(l) :
     \/ \E operation \in Operations : Propose(l, r, operation)
     \/ \E stores \in SUBSET Voters : PersistQuorum(l, r, stores)
     \/ CommitEntry(l, r)
     \/ ApplyEntry(l, r)

Next ==
  /\ \/ \E l \in Lanes \cup {None}, p \in {"idle", "running", "complete"} : Focus(l, p)
     \/ \E l \in Lanes :
          \/ \E to \in Stages : Advance(l, to)
          \/ TimestampStep(l)
          \/ RaftStep(l)
          \/ Respond(l)
          \/ FinishBackground(l)
  /\ Valid'

Spec == Init /\ [][Next]_vars
-----------------------------------------------------------------------------
TypeOK ==
  /\ Lanes \in Comparisons
  /\ \A l \in Lanes :
       LET lane == lanes[l]
       IN  /\ lane.stage \in Stages
           /\ {lane.startTs, lane.latestTs, lane.floor, lane.maxTs, lane.commitTs}
                \subseteq Timestamps \cup {None}
           /\ {lane.responded, lane.backgrounded} \subseteq BOOLEAN
           /\ lane.regions \in [Roles(l) -> Region]
  /\ phase \in {"idle", "running", "complete"}
  /\ focus \in Lanes \cup {None}

(* The stage TiDB shows is never ahead of what the Regions did: from       *)
(* "prewritten" on every Region holds the lock or the commit record, and   *)
(* from "client_acknowledged" on the client has its answer.                *)
StageIsBacked ==
  \A l \in Lanes :
    LET stage == lanes[l].stage
        acknowledged == {"client_acknowledged", "background", "complete"}
    IN  /\ stage \in {"prewriting", "prewritten", "commit_ts", "committing"} \cup acknowledged =>
             Prepared(l)
        /\ (l # "one_pc" /\ stage \in {"prewritten", "commit_ts", "committing"} \cup acknowledged) =>
             \A r \in Roles(l) : Locked(l, r) \/ Committed(l, r)
        /\ stage \in {"commit_ts", "committing"} \cup acknowledged => lanes[l].commitTs # None
        /\ stage \in acknowledged => lanes[l].responded

(* The commit timestamp of Async Commit is one that some Region promised   *)
(* and none exceeded, however late the prewrite results came in.           *)
CommitTsCoversPrewrites ==
  \A l \in Lanes : l = "async_commit" /\ lanes[l].commitTs # None =>
    /\ None \notin Returned(l)
    /\ lanes[l].commitTs \in Returned(l)
    /\ \A ts \in Returned(l) : ts <= lanes[l].commitTs

(* When the client has been answered, the outcome is in Raft logs that a   *)
(* majority persisted: the one commit entry, the primary's commit entry,   *)
(* or the prewrite entry of every Region with its promised timestamp.      *)
Durable(raft, operations) ==
  /\ raft.operation \in operations
  /\ Cardinality(raft.persisted) >= Quorum
  /\ raft.stage = "applied"

ResponseIsDurable ==
  \A l \in Lanes : lanes[l].responded =>
    LET regions == lanes[l].regions
    IN  /\ l = "one_pc" => Durable(regions["primary"].raft, {"one_pc_prewrite"})
        /\ l = "two_pc" => Durable(regions["primary"].raft, {"commit_primary"})
        /\ l = "async_commit" => \A r \in Roles(l) :
             /\ regions[r].returned # None
             /\ \/ Durable(regions[r].raft, {"prewrite"})
                \/ regions[r].raft.operation = "commit_async"

(* In 2PC a secondary's commit is not even proposed before the primary has *)
(* committed, so the primary alone decides the transaction.                *)
PrimaryDecides ==
  "two_pc" \in Lanes /\ lanes["two_pc"].regions["secondary"].raft.operation = "commit_secondary" =>
    Committed("two_pc", "primary")

(* The fields keep their types, TiDB shows no stage the Regions have not   *)
(* reached, and the primary alone decides 2PC.                             *)
LabValid == TypeOK /\ StageIsBacked /\ PrimaryDecides

(* The lanes, whichever protocol each runs, implement Commitment.          *)
Decision == INSTANCE Commitment
  WITH Transactions <- AllLanes,
       Regions <- [l \in AllLanes |-> Roles(l)],
       prepared <- [l \in AllLanes |->
                      {r \in Roles(l) : l \in Lanes /\ (Locked(l, r) \/ Committed(l, r))}],
       committed <- [l \in AllLanes |-> {r \in Roles(l) : l \in Lanes /\ Committed(l, r)}],
       answered <- {l \in Lanes : lanes[l].responded}

ImplementsCommitment == Decision!Spec
=============================================================================

----------------------------- MODULE RegionRaft -----------------------------
(***************************************************************************)
(* The Regions of src/tidb/model/simulation.ts and the operations that     *)
(* touch their Raft state, each run to completion before the next one: the *)
(* elections hidden in ensureLeader, replication, follower reads, Store    *)
(* failures and hotspot splits.  Callers (background work, traced          *)
(* statements) may issue them in any order.                                *)
(***************************************************************************)
EXTENDS RaftGroup, Sequences, FiniteSetsExt

CONSTANTS InitialRegions,  \* 36 in the code
          RegionWidth,     \* keys per initial Region: 1 000 000 in the code
          HotRegion,       \* the one Region traceWrite splits: 35 in the code
          Baseline,        \* log index the failover fixture starts from: 42
          MaxIndex,        \* bound: no Region's log grows past this index
          MaxRegions,      \* bound: splits stop at this many Regions
          NoRead

ASSUME RegionRaftAssumption ==
  /\ InitialRegions \in Nat \ {0}
  /\ RegionWidth \in Nat \ {0}
  /\ HotRegion \in 0..(InitialRegions - 1)
  /\ Baseline \in Nat \ {0}
  /\ MaxIndex \in Nat
  /\ MaxRegions \in Nat
  /\ NoRead \notin [region : Nat, index : Nat, store : Store]

VARIABLES regions,   \* state.regions, in key order
          storeUp,   \* the TiKV Stores whose topology status is "up"
          served     \* the point the last Region read was served at

vars == <<regions, storeUp, served>>

KeyspaceEnd == InitialRegions * RegionWidth

Reads == [region : Nat, index : Nat, store : Store]

Positions == 1..Len(regions)
RegionIds == {regions[i].id : i \in Positions}

-----------------------------------------------------------------------------
(* createRegions: Region ids follow the key order, leaders rotate.         *)
FreshRegion(i) ==
  LET leader == ((i - 1) % 3) + 1
  IN  [id |-> i - 1,
       startKey |-> (i - 1) * RegionWidth,
       endKey |-> i * RegionWidth,
       epoch |-> 1,
       leader |-> leader,
       role |-> [s \in Store |-> IF s = leader THEN "leader" ELSE "follower"],
       term |-> 1,
       commit |-> 0,
       applied |-> 0,
       match |-> [s \in Store |-> 0],
       peerApplied |-> [s \in Store |-> 0],
       healthy |-> [s \in Store |-> TRUE],
       health |-> "healthy"]

FreshRegions == [i \in 1..InitialRegions |-> FreshRegion(i)]

(* The Regions after the guided cross-Region transaction: prewrite and     *)
(* commit reached a two-voter quorum in two Regions with different leaders. *)
CrossRegionFixture(first, second) ==
  [i \in 1..InitialRegions |->
     IF i \in {first, second}
     THEN TwoVoterAppend(TwoVoterAppend(FreshRegion(i)))
     ELSE FreshRegion(i)]

(* The Regions after the guided failover of one Region's leader: the Region *)
(* was set to a legible baseline, its lowest surviving voter won term 2,   *)
(* and both survivors hold and applied the no-op.                          *)
FailedOver(r) ==
  LET old    == r.leader
      winner == CHOOSE s \in Store \ {old} : \A o \in Store \ {old} : s <= o
      log    == [s \in Store |-> IF s = old THEN Baseline ELSE Baseline + 1]
  IN  PeerDown([r EXCEPT !.leader = winner,
                         !.role = [s \in Store |->
                                     IF s = winner THEN "leader" ELSE "follower"],
                         !.term = r.term + 1,
                         !.commit = Baseline + 1,
                         !.applied = Baseline + 1,
                         !.match = log,
                         !.peerApplied = log],
               old)

FailoverFixture ==
  [i \in 1..InitialRegions |->
     IF i = 1 THEN FailedOver(FreshRegion(1))
              ELSE PeerDown(FreshRegion(i), FreshRegion(1).leader)]

(* Every state reset() and runScenario() can leave before the next request; *)
(* both rebuild the whole state, so nothing survives from before.          *)
Init ==
  /\ \/ regions = FreshRegions /\ storeUp = Store
     \/ \E i, j \in 1..InitialRegions :
           /\ FreshRegion(i).leader # FreshRegion(j).leader
           /\ regions = CrossRegionFixture(i, j)
           /\ storeUp = Store
     \/ regions = FailoverFixture /\ storeUp = Store \ {FreshRegion(1).leader}
  /\ served = NoRead

-----------------------------------------------------------------------------
(* Bound on the model only: an operation adds at most two entries.         *)
LogRoom(i) == regions[i].commit + 2 <= MaxIndex

(* A leader is needed but nothing is proposed: the pessimistic lock, the   *)
(* optimistic conflict check and the MPP snapshot gate.                    *)
RequireLeader(i) ==
  /\ LogRoom(i)
  /\ regions' = [regions EXCEPT ![i] = EnsureLeader(regions[i])]
  /\ served' = NoRead
  /\ UNCHANGED storeUp

(* One traced mutation or one background write.                            *)
Mutate(i) ==
  /\ LogRoom(i)
  /\ regions' = [regions EXCEPT ![i] = Replicate(regions[i])]
  /\ served' = NoRead
  /\ UNCHANGED storeUp

(* One Region of a TiKV read.  Without a leader the read fails with a      *)
(* warning; otherwise it is served from the leader or a caught-up follower. *)
ReadRegion(i, policy) ==
  LET elected == EnsureLeader(regions[i])
      ready   == ReadFrom(elected, policy)
      store   == ServingStore(elected, policy)
  IN  /\ LogRoom(i)
      /\ IF LeaderAvailable(regions[i])
         THEN /\ regions' = [regions EXCEPT ![i] = ready]
              /\ served' = [region |-> ready.id,
                            index |-> ready.peerApplied[store],
                            store |-> store]
         ELSE /\ regions' = [regions EXCEPT ![i] = elected]
              /\ served' = NoRead
      /\ UNCHANGED storeUp

(* Mutant: only the Regions that the Store leads lose it.                  *)
MarkStoreDownWhereItLeads(i) ==
  LET s == regions[i].leader
  IN  /\ regions' = [j \in Positions |->
                       IF regions[j].leader = s THEN PeerDown(regions[j], s) ELSE regions[j]]
      /\ storeUp' = storeUp \ {s}
      /\ served' = NoRead

(* An explicit failover request on the live state stops the Store that     *)
(* leads the requested Region, in every Region at once.                    *)
MarkStoreDown(i) ==
  LET s == regions[i].leader
  IN  /\ regions' = [j \in Positions |-> PeerDown(regions[j], s)]
      /\ storeUp' = storeUp \ {s}
      /\ served' = NoRead

NextRegionId == Max(RegionIds) + 1

(* Array.splice: the sibling takes position i, the Region moves to i + 1.  *)
Splice(i, lower, upper) ==
  [j \in 1..(Len(regions) + 1) |->
     IF j < i THEN regions[j]
     ELSE IF j = i THEN lower
     ELSE IF j = i + 1 THEN upper
     ELSE regions[j - 1]]

Splittable(r) == Midpoint(r) > r.startKey /\ Midpoint(r) < r.endKey

(* splitRegion; the size threshold the caller tests is abstracted away.    *)
SplitRegion(i) ==
  LET parent == Replicate(regions[i])
  IN  /\ LogRoom(i)
      /\ Len(regions) < MaxRegions
      /\ regions[i].id = HotRegion
      /\ Splittable(regions[i])
      /\ regions' = IF LeaderAvailable(regions[i])
                    THEN Splice(i, LowerHalf(parent, NextRegionId), UpperHalf(parent))
                    ELSE [regions EXCEPT ![i] = parent]
      /\ served' = NoRead
      /\ UNCHANGED storeUp

Next ==
  \E i \in Positions :
     \/ RequireLeader(i)
     \/ Mutate(i)
     \/ \E policy \in {"leader", "follower"} : ReadRegion(i, policy)
     \/ MarkStoreDown(i)
     \/ SplitRegion(i)

Spec == Init /\ [][Next]_vars
-----------------------------------------------------------------------------
TypeOK ==
  /\ regions \in Seq(Region)
  /\ storeUp \subseteq Store
  /\ served \in Reads \cup {NoRead}

(* Nothing a Region calls committed can be lost with one Store: two voters *)
(* hold the whole committed prefix, and no voter holds an entry past it    *)
(* that a later leader could mistake for committed (the deferred catch-up  *)
(* of ensureLeader, the two-voter persistence of the guided transaction).  *)
CommittedOnQuorum == \A i \in Positions : Durable(regions[i])

(* The leader path serves without any gate, so the recorded leader - even  *)
(* one that is down and waits to be replaced - has applied every committed *)
(* entry, and exactly the recorded leader claims the leader role.          *)
LeaderServesCommitted == \A i \in Positions : LeaderCurrent(regions[i])

(* A live quorum always contains a voter that may lead: ensureLeader never *)
(* takes its "no replacement" exit while two voters are healthy.           *)
QuorumCanLead ==
  \A i \in Positions :
     HasQuorum(Live(regions[i])) => LeaderAvailable(regions[i])

(* Both halves of what ensureLeader owes its callers: while two voters     *)
(* live there is a peer to lead, and whoever is recorded may be read.      *)
LeadersAreFit == LeaderServesCommitted /\ QuorumCanLead

(* Three copies of one fact stay equal: the topology's Store status, each  *)
(* Region's peer flags (a split's clone included), and the health label    *)
(* that ensureLeader, replication, splits and failures each recompute.     *)
HealthCurrent ==
  \A i \in Positions :
     /\ Live(regions[i]) = storeUp
     /\ HealthLabelled(regions[i])

(* However often the hot Region splits, the array stays a partition of the *)
(* key space in key order, under distinct Region ids 0..n-1.               *)
KeyspacePartition ==
  /\ Len(regions) >= 1
  /\ regions[1].startKey = 0
  /\ regions[Len(regions)].endKey = KeyspaceEnd
  /\ \A i \in Positions : regions[i].startKey < regions[i].endKey
  /\ \A i \in Positions : i > 1 => regions[i - 1].endKey = regions[i].startKey
  /\ \A i \in Positions : regions[i].id < Len(regions)
  /\ \A i, j \in Positions : regions[i].id = regions[j].id => i = j
  /\ \A n \in 0..(Len(regions) - 1) : \E i \in Positions : regions[i].id = n

(* The Region array as the rest of the engine may use it: the lookup, the  *)
(* indexing by id, the peers' health and the label on display.             *)
RegionsValid == TypeOK /\ HealthCurrent /\ KeyspacePartition

(* A Region never changes leader inside a term, never moves its term back, *)
(* and a new leader has committed an entry of its own term before anything *)
(* else can happen; no Region ever leaves the array.                       *)
TermFencesLeader ==
  [][\A i \in Positions : \E j \in 1..Len(regions') :
        LET r == regions[i]
            n == regions'[j]
        IN  /\ n.id = r.id
            /\ n.term >= r.term
            /\ n.leader # r.leader => n.term > r.term /\ n.commit > r.commit]_vars

(* The replicated Regions implement RegionLog, reading the committed       *)
(* prefix off the voters' logs instead of the Region's own commit field:   *)
(* the longest prefix two voters hold.                                     *)
DurablePrefix(r) ==
  Max({n \in {r.match[s] : s \in Store} : HasQuorum({s \in Store : r.match[s] >= n})})

Committed ==
  [id \in RegionIds |->
     DurablePrefix(CHOOSE r \in {regions[i] : i \in Positions} : r.id = id)]

Observed ==
  IF served = NoRead THEN NoRead ELSE [region |-> served.region, index |-> served.index]

Log == INSTANCE RegionLog WITH committed <- Committed, observed <- Observed
ImplementsRegionLog == Log!Spec
=============================================================================

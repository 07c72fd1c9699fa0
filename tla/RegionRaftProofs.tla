-------------------------- MODULE RegionRaftProofs --------------------------
(***************************************************************************)
(* The invariants of RegionRaft, for every number of Regions, key-space    *)
(* width, split bound and log bound.                                       *)
(***************************************************************************)
EXTENDS RegionRaft, SequenceTheorems, FiniteSetTheorems, TLAPS

(***************************************************************************)
(* What the operations on one Region preserve.                             *)
(***************************************************************************)
GroupOK(r) == r \in Region /\ Durable(r) /\ LeaderCurrent(r) /\ HealthLabelled(r)

(* Nothing but the Raft state of r changed.                                *)
SameShape(r, n) ==
  /\ n.id = r.id /\ n.startKey = r.startKey /\ n.endKey = r.endKey
  /\ n.epoch = r.epoch /\ n.healthy = r.healthy

(* The step a Region's log may take: the same leader in the same term, or  *)
(* a new term whose leader has already committed an entry of its own.      *)
Forward(r, n) ==
  /\ n.term >= r.term
  /\ n.commit >= r.commit
  /\ n.leader # r.leader => n.term > r.term /\ n.commit > r.commit

LEMMA HealthType == ASSUME NEW r PROVE HealthOf(r) \in Health
BY DEF HealthOf, Health

(* Among the voters that hold the committed prefix one precedes all others *)
(* in the sort order, so the sorted array has a first element.             *)
LEMMA ReplacementIsCandidate ==
  ASSUME NEW r \in Region, Candidates(r) # {}
  PROVE  Replacement(r) \in Candidates(r)
<1>1. \E s \in Candidates(r) : \A o \in Candidates(r) : Precedes(r, s, o)
  <2>1. Candidates(r) \subseteq {1, 2, 3}
    BY DEF Candidates, Live, Store
  <2>2. r.match[1] \in Nat /\ r.match[2] \in Nat /\ r.match[3] \in Nat
    BY DEF Region, Store
  <2>3. QED
    BY <2>1, <2>2 DEF Precedes
<1>2. QED
  BY <1>1 DEF Replacement

(* Any two quorums of three voters share a voter: a live quorum meets the  *)
(* quorum that holds the committed prefix.                                 *)
LEMMA QuorumHasCandidate ==
  ASSUME NEW r \in Region, Durable(r), HasQuorum(Live(r))
  PROVE  Candidates(r) # {}
<1>1. PICK a \in Live(r), b \in Live(r) : a # b
  BY DEF HasQuorum
<1>2. PICK c \in Store, d \in Store :
        c # d /\ r.match[c] >= r.commit /\ r.match[d] >= r.commit
  BY DEF Durable, HasQuorum
<1>3. a = c \/ a = d \/ b = c \/ b = d
  BY <1>1, <1>2 DEF Live, Store
<1>4. QED
  BY <1>1, <1>2, <1>3 DEF Candidates

LEMMA LeaderAvailableIffQuorum ==
  ASSUME NEW r \in Region, Durable(r)
  PROVE  LeaderAvailable(r) <=> HasQuorum(Live(r))
BY QuorumHasCandidate DEF LeaderAvailable

LEMMA UpdateHealthOK ==
  ASSUME NEW r \in Region, Durable(r), LeaderCurrent(r)
  PROVE  /\ GroupOK(UpdateRegionHealth(r))
         /\ SameShape(r, UpdateRegionHealth(r))
         /\ Forward(r, UpdateRegionHealth(r))
<1>1. HealthOf(UpdateRegionHealth(r)) = HealthOf(r)
  BY DEF HealthOf, UpdateRegionHealth, Live, Region
<1>2. HealthOf(r) \in Health
  BY HealthType
<1>3. UpdateRegionHealth(r) \in Region
  BY <1>2 DEF UpdateRegionHealth, Region
<1>4. QED
  BY <1>1, <1>3 DEF UpdateRegionHealth, Region, GroupOK, Durable, LeaderCurrent,
                    HealthLabelled, SameShape, Forward

(* An election starts from a voter that holds the committed prefix, so the *)
(* no-op lands right behind it, on every live voter.                       *)
LEMMA ElectOK ==
  ASSUME NEW r \in Region, Durable(r), LeaderCurrent(r), HasQuorum(Live(r)),
         NEW w \in Candidates(r), w # r.leader
  PROVE  /\ GroupOK(Elect(r, w))
         /\ SameShape(r, Elect(r, w))
         /\ Forward(r, Elect(r, w))
<1> DEFINE noOp == r.match[w] + 1
           roles == [s \in Store |-> IF s = w THEN "leader" ELSE "follower"]
           logs == [s \in Store |-> IF r.healthy[s] THEN noOp ELSE r.match[s]]
           done == [r.peerApplied EXCEPT ![w] = noOp]
           e == [r EXCEPT !.leader = w, !.role = roles, !.term = r.term + 1,
                          !.commit = noOp, !.applied = noOp,
                          !.match = logs, !.peerApplied = done]
<1>1. w \in Store /\ r.healthy[w] /\ r.match[w] = r.commit /\ noOp = r.commit + 1
  BY DEF Candidates, Live, Durable, Region
<1>2. /\ roles \in [Store -> {"leader", "follower"}]
      /\ logs \in [Store -> Nat]
      /\ done \in [Store -> Nat]
      /\ \A s \in Store : logs[s] = IF r.healthy[s] THEN noOp ELSE r.match[s]
      /\ \A s \in Store : done[s] = IF s = w THEN noOp ELSE r.peerApplied[s]
      /\ \A s \in Store : roles[s] = "leader" <=> s = w
  <2>1. r.match \in [Store -> Nat] /\ r.peerApplied \in [Store -> Nat] /\ noOp \in Nat
    BY <1>1 DEF Region
  <2> HIDE DEF noOp
  <2>2. done \in [Store -> Nat] /\ \A s \in Store : done[s] = IF s = w THEN noOp ELSE r.peerApplied[s]
    BY <1>1, <2>1
  <2>3. logs \in [Store -> Nat] /\ \A s \in Store : logs[s] = IF r.healthy[s] THEN noOp ELSE r.match[s]
    BY <2>1
  <2>4. roles \in [Store -> {"leader", "follower"}] /\ \A s \in Store : roles[s] = "leader" <=> s = w
    OBVIOUS
  <2>5. QED
    BY <2>2, <2>3, <2>4
<1> HIDE DEF roles, logs, done, noOp
<1>3. e \in Region
  <2>1. w \in Store /\ r.term + 1 \in Nat /\ noOp \in Nat
    BY <1>1 DEF Region
  <2>2. QED
    BY <1>2, <2>1 DEF Region
<1>4. /\ e.leader = w /\ e.role = roles /\ e.term = r.term + 1
      /\ e.commit = noOp /\ e.applied = noOp /\ e.match = logs /\ e.peerApplied = done
      /\ SameShape(r, e)
  BY DEF Region, SameShape
<1>5. Elect(r, w) = UpdateRegionHealth(e)
  BY DEF Elect, roles, logs, done, noOp
<1> HIDE DEF e
<1>6. Durable(e)
  <2>1. \A s \in Live(r) : s \in Store /\ logs[s] = noOp
    BY <1>2 DEF Live
  <2>2. noOp \in Nat
    BY <1>1 DEF Region
  <2>3. HasQuorum({s \in Store : e.match[s] >= e.commit})
    BY <1>4, <2>1, <2>2 DEF HasQuorum
  <2>4. ASSUME NEW s \in Store
        PROVE  e.match[s] <= e.commit /\ e.peerApplied[s] <= e.match[s]
    <3>1. /\ r.match[s] \in Nat /\ r.peerApplied[s] \in Nat /\ r.commit \in Nat
          /\ r.match[s] <= r.commit /\ r.peerApplied[s] <= r.match[s]
      BY DEF Durable, Region
    <3>2. QED
      BY <1>1, <1>2, <1>4, <3>1
  <2>5. QED
    BY <2>3, <2>4 DEF Durable
<1>7. LeaderCurrent(e)
  BY <1>1, <1>2, <1>4 DEF LeaderCurrent
<1>8. Forward(r, e)
  BY <1>1, <1>4 DEF Forward, Region
<1>9. GroupOK(Elect(r, w)) /\ SameShape(e, Elect(r, w)) /\ Forward(e, Elect(r, w))
  BY <1>3, <1>5, <1>6, <1>7, UpdateHealthOK
<1>10. Elect(r, w).leader = e.leader
  BY <1>3, <1>5 DEF UpdateRegionHealth, Region
<1>11. Elect(r, w) \in Region
  BY <1>9 DEF GroupOK
<1>12. QED
  BY <1>3, <1>4, <1>8, <1>9, <1>10, <1>11 DEF SameShape, Forward, Region

(* ensureLeader keeps the group sound; when it reports a leader, that      *)
(* leader is up.                                                           *)
LEMMA EnsureLeaderOK ==
  ASSUME NEW r \in Region, GroupOK(r)
  PROVE  /\ GroupOK(EnsureLeader(r))
         /\ SameShape(r, EnsureLeader(r))
         /\ Forward(r, EnsureLeader(r))
         /\ LeaderAvailable(r) => /\ HasQuorum(Live(EnsureLeader(r)))
                                  /\ EnsureLeader(r).healthy[EnsureLeader(r).leader]
<1>1. Durable(r) /\ LeaderCurrent(r) /\ HealthLabelled(r)
  BY DEF GroupOK
<1>2. CASE ~LeaderAvailable(r)
  BY <1>1, <1>2, UpdateHealthOK DEF EnsureLeader
<1>3. CASE LeaderAvailable(r) /\ LeaderUsable(r)
  BY <1>3 DEF EnsureLeader, SameShape, Forward, Region, LeaderAvailable, LeaderUsable
<1>4. CASE LeaderAvailable(r) /\ ~LeaderUsable(r)
  <2> DEFINE w == Replacement(r)
  <2>1. HasQuorum(Live(r)) /\ Candidates(r) # {}
    BY <1>4 DEF LeaderAvailable
  <2>2. w \in Candidates(r)
    BY <2>1, ReplacementIsCandidate
  <2>3. w # r.leader
    BY <1>4, <2>2 DEF LeaderUsable, Candidates, Live
  <2>4. EnsureLeader(r) = Elect(r, w)
    BY <1>4 DEF EnsureLeader
  <2> HIDE DEF w
  <2>5. GroupOK(Elect(r, w)) /\ SameShape(r, Elect(r, w)) /\ Forward(r, Elect(r, w))
    BY <1>1, <2>1, <2>2, <2>3, ElectOK
  <2>6. Elect(r, w).leader = w
    BY DEF Elect, UpdateRegionHealth, Region
  <2>7. Live(Elect(r, w)) = Live(r) /\ r.healthy[w]
    BY <2>2, <2>5 DEF SameShape, Live, Candidates
  <2>8. QED
    BY <2>1, <2>4, <2>5, <2>6, <2>7 DEF SameShape
<1>5. QED
  BY <1>2, <1>3, <1>4

LEMMA AppendEntryOK ==
  ASSUME NEW r \in Region, GroupOK(r), HasQuorum(Live(r)), r.healthy[r.leader]
  PROVE  /\ GroupOK(AppendEntry(r))
         /\ SameShape(r, AppendEntry(r))
         /\ Forward(r, AppendEntry(r))
         /\ AppendEntry(r).commit = r.commit + 1
<1> DEFINE next == r.commit + 1
           logs == [s \in Store |-> IF r.healthy[s] THEN next ELSE r.match[s]]
           done == [s \in Store |-> IF r.healthy[s] THEN next ELSE r.peerApplied[s]]
           a == [r EXCEPT !.commit = next, !.applied = next,
                          !.match = logs, !.peerApplied = done]
<1>1. AppendEntry(r) = UpdateRegionHealth(a)
  <2>1. [[r EXCEPT !.match = logs] EXCEPT !.commit = next, !.applied = next,
                                           !.peerApplied = done] = a
    BY DEF Region
  <2>2. QED
    BY <2>1 DEF AppendEntry
<1>2. /\ next \in Nat /\ logs \in [Store -> Nat] /\ done \in [Store -> Nat]
      /\ \A s \in Store : logs[s] = IF r.healthy[s] THEN next ELSE r.match[s]
      /\ \A s \in Store : done[s] = IF r.healthy[s] THEN next ELSE r.peerApplied[s]
  BY DEF Region
<1> HIDE DEF logs, done
<1>3. a \in Region
  BY <1>2 DEF Region
<1>4. /\ a.commit = next /\ a.applied = next /\ a.match = logs /\ a.peerApplied = done
      /\ a.leader = r.leader /\ a.role = r.role /\ a.term = r.term
      /\ SameShape(r, a)
  BY DEF Region, SameShape
<1> HIDE DEF a
<1>5. Durable(a)
  <2>1. \A s \in Live(r) : s \in Store /\ logs[s] = next
    BY <1>2 DEF Live
  <2>2. HasQuorum({s \in Store : a.match[s] >= a.commit})
    BY <1>2, <1>4, <2>1 DEF HasQuorum
  <2>3. ASSUME NEW s \in Store
        PROVE  a.match[s] <= a.commit /\ a.peerApplied[s] <= a.match[s]
    <3>1. /\ r.match[s] \in Nat /\ r.peerApplied[s] \in Nat /\ r.commit \in Nat
          /\ r.match[s] <= r.commit /\ r.peerApplied[s] <= r.match[s]
      BY DEF Durable, Region, GroupOK
    <3>2. QED
      BY <1>2, <1>4, <3>1
  <2>4. QED
    BY <2>2, <2>3 DEF Durable
<1>6. LeaderCurrent(a)
  <2>1. r.leader \in Store
    BY DEF Region
  <2>2. QED
    BY <1>2, <1>4, <2>1 DEF LeaderCurrent, GroupOK
<1>7. Forward(r, a)
  BY <1>4 DEF Forward, Region
<1>8. GroupOK(AppendEntry(r)) /\ SameShape(a, AppendEntry(r)) /\ Forward(a, AppendEntry(r))
  BY <1>1, <1>3, <1>5, <1>6, UpdateHealthOK
<1>9. AppendEntry(r).commit = a.commit /\ AppendEntry(r).leader = a.leader
  BY <1>1, <1>3 DEF UpdateRegionHealth, Region
<1>10. AppendEntry(r) \in Region
  BY <1>8 DEF GroupOK
<1>11. QED
  BY <1>3, <1>4, <1>7, <1>8, <1>9, <1>10 DEF SameShape, Forward, Region

LEMMA ReplicateOK ==
  ASSUME NEW r \in Region, GroupOK(r)
  PROVE  /\ GroupOK(Replicate(r))
         /\ SameShape(r, Replicate(r))
         /\ Forward(r, Replicate(r))
<1> DEFINE e == EnsureLeader(r)
<1>1. GroupOK(e) /\ SameShape(r, e) /\ Forward(r, e) /\ e \in Region
  BY EnsureLeaderOK DEF GroupOK
<1>2. CASE ~LeaderAvailable(r)
  BY <1>1, <1>2 DEF Replicate
<1>3. CASE LeaderAvailable(r)
  <2>1. HasQuorum(Live(e)) /\ e.healthy[e.leader]
    BY <1>3, EnsureLeaderOK
  <2>2. Replicate(r) = AppendEntry(e)
    BY <1>3 DEF Replicate
  <2> HIDE DEF e
  <2>3. GroupOK(AppendEntry(e)) /\ SameShape(e, AppendEntry(e)) /\ Forward(e, AppendEntry(e))
    BY <1>1, <2>1, AppendEntryOK
  <2>4. AppendEntry(e) \in Region
    BY <2>3 DEF GroupOK
  <2>5. QED
    BY <1>1, <2>2, <2>3, <2>4 DEF SameShape, Forward, Region
<1>4. QED
  BY <1>2, <1>3

LEMMA FirstFollowerIsLive ==
  ASSUME NEW r \in Region, Live(r) \ {r.leader} # {}
  PROVE  FirstFollower(r) \in Live(r) \ {r.leader}
<1>1. Live(r) \ {r.leader} \subseteq {1, 2, 3}
  BY DEF Live, Store
<1>2. \E s \in Live(r) \ {r.leader} : \A o \in Live(r) \ {r.leader} : s <= o
  BY <1>1
<1>3. QED
  BY <1>2 DEF FirstFollower

(* A follower that catches up to the ReadIndex serves the whole prefix.    *)
LEMMA ReadFromOK ==
  ASSUME NEW r \in Region, GroupOK(r), NEW policy
  PROVE  /\ GroupOK(ReadFrom(r, policy))
         /\ SameShape(r, ReadFrom(r, policy))
         /\ Forward(r, ReadFrom(r, policy))
         /\ ServingStore(r, policy) \in Store
         /\ ReadFrom(r, policy).peerApplied[ServingStore(r, policy)] = ReadFrom(r, policy).commit
<1> DEFINE s == ServingStore(r, policy)
<1>1. s \in Store
  BY FirstFollowerIsLive DEF ServingStore, Region, Live
<1> HIDE DEF s
<1>2. CASE s = r.leader
  BY <1>1, <1>2 DEF ReadFrom, s, SameShape, Forward, GroupOK, LeaderCurrent, Region
<1>3. CASE s # r.leader
  <2> DEFINE n == CatchUp(r, s)
  <2>1. ReadFrom(r, policy) = n
    BY <1>3 DEF ReadFrom, s
  <2>2. /\ r.match[s] \in Nat /\ r.peerApplied[s] \in Nat /\ r.commit \in Nat
        /\ r.match[s] <= r.commit /\ r.peerApplied[s] <= r.match[s]
    BY <1>1 DEF GroupOK, Durable, Region
  <2>3. n = [r EXCEPT !.match = [r.match EXCEPT ![s] = r.commit],
                      !.peerApplied = [r.peerApplied EXCEPT ![s] = r.commit]]
    <3>1. r.match[s] >= r.commit => r.match[s] = r.commit
      BY <2>2
    <3>2. r.peerApplied[s] >= r.commit => r.peerApplied[s] = r.commit
      BY <2>2
    <3>3. QED
      BY <3>1, <3>2 DEF CatchUp
  <2> DEFINE logs == [r.match EXCEPT ![s] = r.commit]
             done == [r.peerApplied EXCEPT ![s] = r.commit]
  <2>4. /\ logs \in [Store -> Nat] /\ done \in [Store -> Nat]
        /\ \A o \in Store : logs[o] = IF o = s THEN r.commit ELSE r.match[o]
        /\ \A o \in Store : done[o] = IF o = s THEN r.commit ELSE r.peerApplied[o]
    BY <1>1, <2>2 DEF Region
  <2> HIDE DEF n, logs, done
  <2>5. n = [r EXCEPT !.match = logs, !.peerApplied = done]
    BY <2>3 DEF logs, done
  <2>6. /\ n \in Region
        /\ n.match = logs /\ n.peerApplied = done /\ n.commit = r.commit
        /\ n.applied = r.applied /\ n.leader = r.leader /\ n.role = r.role
        /\ n.term = r.term /\ n.health = r.health /\ n.healthy = r.healthy
        /\ SameShape(r, n)
    BY <2>4, <2>5 DEF Region, SameShape
  <2>7. Durable(n)
    <3>1. PICK a \in Store, b \in Store :
            a # b /\ r.match[a] >= r.commit /\ r.match[b] >= r.commit
      BY DEF GroupOK, Durable, HasQuorum
    <3>2. n.match[a] >= n.commit /\ n.match[b] >= n.commit
      BY <2>2, <2>4, <2>6, <3>1
    <3>3. ASSUME NEW o \in Store
          PROVE  n.match[o] <= n.commit /\ n.peerApplied[o] <= n.match[o]
      <4>1. /\ r.match[o] \in Nat /\ r.peerApplied[o] \in Nat
            /\ r.match[o] <= r.commit /\ r.peerApplied[o] <= r.match[o]
        BY DEF GroupOK, Durable, Region
      <4>2. QED
        BY <2>2, <2>4, <2>6, <4>1
    <3>4. QED
      BY <3>1, <3>2, <3>3 DEF Durable, HasQuorum
  <2>8. LeaderCurrent(n)
    <3>1. r.leader \in Store
      BY DEF Region
    <3>2. QED
      BY <1>3, <2>4, <2>6, <3>1 DEF LeaderCurrent, GroupOK
  <2>9. HealthLabelled(n)
    BY <2>6 DEF HealthLabelled, HealthOf, Live, GroupOK
  <2>10. Forward(r, n)
    BY <2>6 DEF Forward, Region
  <2>11. QED
    BY <1>1, <2>1, <2>4, <2>6, <2>7, <2>8, <2>9, <2>10 DEF GroupOK, s
<1>4. QED
  BY <1>2, <1>3

LEMMA PeerDownOK ==
  ASSUME NEW r \in Region, Durable(r), LeaderCurrent(r), NEW s \in Store
  PROVE  /\ GroupOK(PeerDown(r, s))
         /\ Live(PeerDown(r, s)) = Live(r) \ {s}
         /\ Forward(r, PeerDown(r, s))
         /\ PeerDown(r, s).id = r.id
         /\ PeerDown(r, s).startKey = r.startKey
         /\ PeerDown(r, s).endKey = r.endKey
<1> DEFINE up == [r.healthy EXCEPT ![s] = FALSE]
           d == [r EXCEPT !.healthy = up]
<1>1. up \in [Store -> BOOLEAN] /\ \A o \in Store : up[o] = (r.healthy[o] /\ o # s)
  BY DEF Region
<1> HIDE DEF up
<1>2. d \in Region
  BY <1>1 DEF Region
<1>3. /\ d.match = r.match /\ d.peerApplied = r.peerApplied /\ d.commit = r.commit
      /\ d.applied = r.applied /\ d.leader = r.leader /\ d.role = r.role
      /\ d.term = r.term /\ d.id = r.id /\ d.startKey = r.startKey
      /\ d.endKey = r.endKey /\ d.healthy = up
  BY DEF Region
<1>4. PeerDown(r, s) = UpdateRegionHealth(d)
  BY DEF PeerDown, up
<1> HIDE DEF d
<1>5. Durable(d) /\ LeaderCurrent(d)
  BY <1>3 DEF Durable, LeaderCurrent
<1>6. /\ GroupOK(PeerDown(r, s)) /\ SameShape(d, PeerDown(r, s))
      /\ Forward(d, PeerDown(r, s)) /\ PeerDown(r, s).leader = d.leader
  BY <1>2, <1>4, <1>5, UpdateHealthOK DEF UpdateRegionHealth, Region
<1>7. Live(PeerDown(r, s)) = Live(r) \ {s}
  BY <1>1, <1>3, <1>6 DEF Live, SameShape
<1>8. QED
  BY <1>3, <1>6, <1>7 DEF SameShape, Forward, Region

(* Persisting on the leader and one follower is a quorum too.              *)
LEMMA TwoVoterAppendOK ==
  ASSUME NEW r \in Region, GroupOK(r), Live(r) \ {r.leader} # {}
  PROVE  GroupOK(TwoVoterAppend(r)) /\ SameShape(r, TwoVoterAppend(r))
<1> DEFINE next == r.commit + 1
           f == FirstFollower(r)
           logs == [s \in Store |-> IF s \in {r.leader, f} THEN next ELSE r.match[s]]
           done == [s \in Store |-> IF s \in {r.leader, f} THEN next ELSE r.peerApplied[s]]
           a == [r EXCEPT !.commit = next, !.applied = next,
                          !.match = logs, !.peerApplied = done]
<1>1. TwoVoterAppend(r) = a
  BY DEF TwoVoterAppend
<1>2. f \in Store /\ f # r.leader /\ r.leader \in Store
  BY FirstFollowerIsLive DEF Live, Region
<1> HIDE DEF f
<1>3. /\ next \in Nat /\ logs \in [Store -> Nat] /\ done \in [Store -> Nat]
      /\ \A s \in Store : logs[s] = IF s \in {r.leader, f} THEN next ELSE r.match[s]
      /\ \A s \in Store : done[s] = IF s \in {r.leader, f} THEN next ELSE r.peerApplied[s]
  BY DEF Region
<1> HIDE DEF logs, done
<1>4. a \in Region
  BY <1>3 DEF Region
<1>5. /\ a.commit = next /\ a.applied = next /\ a.match = logs /\ a.peerApplied = done
      /\ a.leader = r.leader /\ a.role = r.role /\ a.health = r.health
      /\ SameShape(r, a)
  BY DEF Region, SameShape
<1> HIDE DEF a
<1>6. Durable(a)
  <2>1. a.match[f] = next /\ a.match[r.leader] = next /\ next >= a.commit
    BY <1>2, <1>3, <1>5
  <2>2. HasQuorum({s \in Store : a.match[s] >= a.commit})
    BY <1>2, <1>3, <1>5, <2>1 DEF HasQuorum
  <2>3. ASSUME NEW s \in Store
        PROVE  a.match[s] <= a.commit /\ a.peerApplied[s] <= a.match[s]
    <3>1. /\ r.match[s] \in Nat /\ r.peerApplied[s] \in Nat /\ r.commit \in Nat
          /\ r.match[s] <= r.commit /\ r.peerApplied[s] <= r.match[s]
      BY DEF Durable, Region, GroupOK
    <3>2. QED
      BY <1>3, <1>5, <3>1
  <2>4. QED
    BY <2>2, <2>3 DEF Durable
<1>7. LeaderCurrent(a)
  BY <1>2, <1>3, <1>5 DEF LeaderCurrent, GroupOK
<1>8. HealthLabelled(a)
  BY <1>5 DEF HealthLabelled, HealthOf, GroupOK, Live, SameShape
<1>9. QED
  BY <1>1, <1>4, <1>5, <1>6, <1>7, <1>8 DEF GroupOK

(* Two distinct voters are what the code counts as "at least two".          *)
LEMMA QuorumIsTwo ==
  ASSUME NEW S \in SUBSET Store
  PROVE  HasQuorum(S) <=> Cardinality(S) >= 2
<1>1. IsFiniteSet(S)
  <2>1. IsFiniteSet(Store)
    BY 1 \in Int, 3 \in Int, FS_Interval, Zenon DEF Store
  <2>2. QED
    BY <2>1, FS_Subset
<1>2. ASSUME NEW a \in S, NEW b \in S, a # b
      PROVE  Cardinality(S) >= 2
  <2>1. IsFiniteSet({a}) /\ Cardinality({a}) = 1
    BY FS_Singleton
  <2>2. IsFiniteSet({a} \cup {b}) /\ Cardinality({a} \cup {b}) = 2
    BY <1>2, <2>1, FS_AddElement
  <2>3. Cardinality({a} \cup {b}) <= Cardinality(S)
    BY <1>1, <1>2, FS_Subset
  <2>4. QED
    BY <2>2, <2>3, <1>1, FS_CardinalityType
<1>3. ASSUME Cardinality(S) >= 2
      PROVE  \E a, b \in S : a # b
  <2>1. S # {}
    BY <1>3, FS_EmptySet
  <2>2. PICK a \in S : TRUE
    BY <2>1
  <2>3. S # {a}
    BY <1>3, FS_Singleton
  <2>4. QED
    BY <2>2, <2>3
<1>4. QED
  BY <1>2, <1>3 DEF HasQuorum

(***************************************************************************)
(* What the steps of the component preserve.                               *)
(***************************************************************************)

(* The invariants lean on each other: an election is safe because a quorum *)
(* holds the prefix, and available because the flags match the topology;   *)
(* a split is fresh because ids are exactly 0..n-1.                        *)
IInv ==
  /\ TypeOK
  /\ CommittedOnQuorum
  /\ LeaderServesCommitted
  /\ HealthCurrent
  /\ KeyspacePartition

(* The same invariant, one Region at a time.                               *)
RegionsOK(rs, up) ==
  /\ rs \in Seq(Region)
  /\ \A i \in 1..Len(rs) : GroupOK(rs[i]) /\ Live(rs[i]) = up

Partition(rs) ==
  /\ Len(rs) >= 1
  /\ rs[1].startKey = 0
  /\ rs[Len(rs)].endKey = KeyspaceEnd
  /\ \A i \in 1..Len(rs) : rs[i].startKey < rs[i].endKey
  /\ \A i \in 1..Len(rs) : i > 1 => rs[i - 1].endKey = rs[i].startKey
  /\ \A i \in 1..Len(rs) : rs[i].id < Len(rs)
  /\ \A i, j \in 1..Len(rs) : rs[i].id = rs[j].id => i = j
  /\ \A n \in 0..(Len(rs) - 1) : \E i \in 1..Len(rs) : rs[i].id = n

LEMMA IInvByRegion ==
  IInv <=> /\ RegionsOK(regions, storeUp)
           /\ Partition(regions)
           /\ storeUp \subseteq Store
           /\ served \in Reads \cup {NoRead}
<1>1. regions \in Seq(Region) => \A i \in Positions : regions[i] \in Region
  BY DEF Positions
<1>2. QED
  BY <1>1 DEF IInv, TypeOK, CommittedOnQuorum, LeaderServesCommitted, HealthCurrent,
              KeyspacePartition, RegionsOK, Partition, GroupOK, Positions

LEMMA NextByRegion ==
  IInv' <=> /\ RegionsOK(regions', storeUp')
            /\ Partition(regions')
            /\ storeUp' \subseteq Store
            /\ served' \in Reads \cup {NoRead}
<1>1. regions' \in Seq(Region) => \A i \in Positions' : regions'[i] \in Region
  BY DEF Positions
<1>2. QED
  BY <1>1 DEF IInv, TypeOK, CommittedOnQuorum, LeaderServesCommitted, HealthCurrent,
              KeyspacePartition, RegionsOK, Partition, GroupOK, Positions

-----------------------------------------------------------------------------
(* Replacing one Region by a sound one of the same shape.                  *)
LEMMA ReplaceOne ==
  ASSUME NEW rs, NEW up, RegionsOK(rs, up), Partition(rs),
         NEW i \in 1..Len(rs), NEW n, GroupOK(n), SameShape(rs[i], n)
  PROVE  RegionsOK([rs EXCEPT ![i] = n], up) /\ Partition([rs EXCEPT ![i] = n])
<1> DEFINE ns == [rs EXCEPT ![i] = n]
<1>1. rs \in Seq(Region) /\ n \in Region
  BY DEF RegionsOK, GroupOK
<1>2. /\ ns \in Seq(Region) /\ Len(ns) = Len(rs)
      /\ \A j \in 1..Len(rs) : ns[j] = IF j = i THEN n ELSE rs[j]
  BY <1>1
<1>3. \A j \in 1..Len(rs) : /\ ns[j].id = rs[j].id
                            /\ ns[j].startKey = rs[j].startKey
                            /\ ns[j].endKey = rs[j].endKey
                            /\ Live(ns[j]) = Live(rs[j])
  BY <1>2 DEF SameShape, Live
<1> HIDE DEF ns
<1>4. RegionsOK(ns, up)
  BY <1>2, <1>3 DEF RegionsOK
<1>5. Partition(ns)
  <2> DEFINE L == Len(rs)
  <2>1. L \in Nat /\ L >= 1 /\ 1 \in 1..L /\ L \in 1..L
    BY <1>1 DEF Partition
  <2>2. ns[1].startKey = 0 /\ ns[L].endKey = KeyspaceEnd
    BY <1>3, <2>1 DEF Partition
  <2>3. \A j \in 1..L : ns[j].startKey < ns[j].endKey
    BY <1>3 DEF Partition
  <2>4. \A j \in 1..L : j > 1 => ns[j - 1].endKey = ns[j].startKey
    <3>1. \A j \in 1..L : j > 1 => j - 1 \in 1..L
      BY <2>1
    <3>2. QED
      BY <1>3, <3>1 DEF Partition
  <2>5. \A j \in 1..L : ns[j].id < L
    BY <1>3 DEF Partition
  <2>6. \A j, k \in 1..L : ns[j].id = ns[k].id => j = k
    BY <1>3 DEF Partition
  <2>7. \A m \in 0..(L - 1) : \E j \in 1..L : ns[j].id = m
    <3>1. \A m \in 0..(L - 1) : \E j \in 1..L : rs[j].id = m
      BY DEF Partition
    <3>2. QED
      BY <1>3, <3>1
  <2>8. QED
    BY <1>2, <2>1, <2>2, <2>3, <2>4, <2>5, <2>6, <2>7 DEF Partition
<1>6. QED
  BY <1>4, <1>5 DEF ns

-----------------------------------------------------------------------------
(* Math.max over the ids, plus one, is the number of Regions.              *)
LEMMA NextIdFresh ==
  ASSUME regions \in Seq(Region), Partition(regions)
  PROVE  NextRegionId = Len(regions)
<1> DEFINE L == Len(regions)
<1>1. L \in Nat /\ L >= 1
  BY DEF Partition
<1>2. \A x \in RegionIds : x \in Nat /\ x <= L - 1
  <2>1. \A k \in 1..L : regions[k] \in Region /\ regions[k].id < L
    BY DEF Partition
  <2>2. \A k \in 1..L : regions[k].id \in Nat /\ regions[k].id < L
    BY <2>1 DEF Region
  <2>3. QED
    BY <1>1, <2>2 DEF RegionIds, Positions
<1>3. L - 1 \in RegionIds
  <2>1. L - 1 \in 0..(L - 1)
    BY <1>1
  <2>2. PICK i \in 1..L : regions[i].id = L - 1
    BY <2>1 DEF Partition
  <2>3. QED
    BY <2>2 DEF RegionIds, Positions
<1> HIDE DEF L
<1>4. \A x \in RegionIds : (\A y \in RegionIds : x >= y) => x = L - 1
  BY <1>1, <1>2, <1>3
<1>5. \A y \in RegionIds : L - 1 >= y
  BY <1>1, <1>2
<1>6. Max(RegionIds) = L - 1
  BY <1>3, <1>4, <1>5 DEF Max
<1>7. QED
  BY <1>1, <1>6 DEF NextRegionId, L

(* A split hands the lower half to a sibling under a new id and keeps the  *)
(* array a partition.                                                      *)
LEMMA SpliceOK ==
  ASSUME RegionsOK(regions, storeUp), Partition(regions),
         NEW i \in Positions, NEW lo, NEW hi, NEW mid \in Nat,
         GroupOK(lo), GroupOK(hi), Live(lo) = storeUp, Live(hi) = storeUp,
         lo.startKey = regions[i].startKey, lo.endKey = mid,
         hi.startKey = mid, hi.endKey = regions[i].endKey,
         lo.id = Len(regions), hi.id = regions[i].id,
         regions[i].startKey < mid, mid < regions[i].endKey
  PROVE  RegionsOK(Splice(i, lo, hi), storeUp) /\ Partition(Splice(i, lo, hi))
<1> DEFINE L == Len(regions)
           ns == Splice(i, lo, hi)
<1>1. L \in Nat /\ L >= 1 /\ i \in 1..L /\ \A j \in 1..L : regions[j] \in Region
  BY DEF RegionsOK, Partition, Positions
<1>k. \A j \in 1..L : /\ regions[j].startKey \in Nat /\ regions[j].endKey \in Nat
                      /\ regions[j].id \in Nat
  BY <1>1 DEF Region
<1>p. /\ regions[1].startKey = 0
      /\ regions[L].endKey = KeyspaceEnd
      /\ \A j \in 1..L : regions[j].startKey < regions[j].endKey
      /\ \A j \in 1..L : j > 1 => regions[j - 1].endKey = regions[j].startKey
      /\ \A j \in 1..L : regions[j].id < L
      /\ \A j, k \in 1..L : regions[j].id = regions[k].id => j = k
      /\ \A n \in 0..(L - 1) : \E j \in 1..L : regions[j].id = n
  BY DEF Partition
<1>2. \A j \in 1..(L + 1) :
         ns[j] = IF j < i THEN regions[j]
                 ELSE IF j = i THEN lo
                 ELSE IF j = i + 1 THEN hi
                 ELSE regions[j - 1]
  BY DEF Splice
<1>3. \A j \in 1..(L + 1) : ns[j] \in Region
  <2>1. lo \in Region /\ hi \in Region
    BY DEF GroupOK
  <2>2. QED
    BY <1>1, <1>2, <2>1
<1>4. ns \in Seq(Region) /\ Len(ns) = L + 1
  <2>1. ns = [j \in 1..(L + 1) |-> ns[j]]
    BY DEF Splice
  <2> HIDE DEF ns
  <2>2. ns \in [1..(L + 1) -> Region]
    BY <1>3, <2>1
  <2>3. QED
    BY <1>1, <2>2, <2>1, IsASeq
<1> HIDE DEF ns, L
<1>n. /\ \A j \in 1..L : j < i => ns[j] = regions[j]
      /\ ns[i] = lo
      /\ ns[i + 1] = hi
      /\ \A j \in 1..(L + 1) : j > i + 1 => ns[j] = regions[j - 1]
  <2>1. i \in 1..(L + 1) /\ i + 1 \in 1..(L + 1) /\ ~(i < i) /\ ~(i + 1 < i) /\ i + 1 # i
    BY <1>1
  <2>2. \A j \in 1..L : j \in 1..(L + 1)
    BY <1>1
  <2>3. \A j \in 1..(L + 1) : j > i + 1 => ~(j < i) /\ j # i /\ j # i + 1
    BY <1>1
  <2>4. QED
    BY <1>2, <2>1, <2>2, <2>3
<1>5. RegionsOK(ns, storeUp)
  <2>1. ASSUME NEW j \in 1..(L + 1)
        PROVE  GroupOK(ns[j]) /\ Live(ns[j]) = storeUp
    <3>0. \A k \in 1..L : GroupOK(regions[k]) /\ Live(regions[k]) = storeUp
      BY DEF RegionsOK, L
    <3>1. CASE j < i
      BY <1>1, <1>n, <3>0, <3>1
    <3>2. CASE j = i
      BY <1>n, <3>2
    <3>3. CASE j = i + 1
      BY <1>n, <3>3
    <3>4. CASE j > i + 1
      <4>1. j - 1 \in 1..L
        BY <1>1, <3>4
      <4>2. QED
        BY <1>n, <3>0, <3>4, <4>1
    <3>5. QED
      BY <1>1, <3>1, <3>2, <3>3, <3>4
  <2>2. QED
    BY <1>4, <2>1 DEF RegionsOK
<1>6. Partition(ns)
  <2>1. Len(ns) >= 1
    BY <1>1, <1>4
  <2>2. ns[1].startKey = 0
    <3>1. CASE i = 1
      BY <1>n, <1>p, <3>1
    <3>2. CASE i > 1
      <4>1. ns[1] = regions[1]
        BY <1>1, <1>n, <3>2
      <4>2. QED
        BY <1>p, <4>1
    <3>3. QED
      BY <1>1, <3>1, <3>2
  <2>3. ns[L + 1].endKey = KeyspaceEnd
    <3>1. CASE i = L
      BY <1>n, <1>p, <3>1
    <3>2. CASE i < L
      <4>1. ns[L + 1] = regions[L]
        <5>1. L + 1 \in 1..(L + 1) /\ L + 1 > i + 1 /\ (L + 1) - 1 = L
          BY <1>1, <3>2
        <5>2. QED
          BY <1>n, <5>1
      <4>2. QED
        BY <1>p, <4>1
    <3>3. QED
      BY <1>1, <3>1, <3>2
  <2>4. ASSUME NEW j \in 1..(L + 1)
        PROVE  ns[j].startKey < ns[j].endKey
    <3>1. CASE j < i
      <4>1. j \in 1..L
        BY <1>1, <3>1
      <4>2. QED
        BY <1>n, <1>p, <3>1, <4>1
    <3>2. CASE j = i
      BY <1>n, <3>2
    <3>3. CASE j = i + 1
      BY <1>n, <3>3
    <3>4. CASE j > i + 1
      <4>1. j - 1 \in 1..L
        BY <1>1, <3>4
      <4>2. QED
        BY <1>n, <1>p, <3>4, <4>1
    <3>5. QED
      BY <1>1, <3>1, <3>2, <3>3, <3>4
  <2>5. ASSUME NEW j \in 1..(L + 1), j > 1
        PROVE  ns[j - 1].endKey = ns[j].startKey
    <3>1. CASE j < i
      <4>1. j \in 1..L /\ j - 1 \in 1..L /\ j - 1 < i
        BY <1>1, <2>5, <3>1
      <4>2. ns[j - 1] = regions[j - 1] /\ ns[j] = regions[j]
        BY <1>n, <3>1, <4>1
      <4>3. QED
        BY <1>p, <2>5, <4>1, <4>2
    <3>2. CASE j = i
      <4>1. i - 1 \in 1..L /\ i - 1 < i /\ i > 1
        BY <1>1, <2>5, <3>2
      <4>2. ns[j - 1] = regions[i - 1] /\ ns[j] = lo
        BY <1>n, <3>2, <4>1
      <4>3. QED
        BY <1>1, <1>p, <4>1, <4>2
    <3>3. CASE j = i + 1
      <4>1. j - 1 = i
        BY <1>1, <3>3
      <4>2. QED
        BY <1>n, <3>3, <4>1
    <3>4. CASE j = i + 2
      <4>1. j - 1 = i + 1 /\ i + 1 \in 1..L /\ j > i + 1 /\ (i + 1) - 1 = i /\ i + 1 > 1
        BY <1>1, <3>4
      <4>2. ns[j - 1] = hi /\ ns[j] = regions[i + 1]
        BY <1>n, <4>1
      <4>3. QED
        BY <1>p, <4>1, <4>2
    <3>5. CASE j > i + 2
      <4>1. /\ j - 1 \in 1..L /\ j - 1 \in 1..(L + 1)
            /\ j > i + 1 /\ j - 1 > i + 1 /\ j - 1 > 1
        BY <1>1, <3>5
      <4>2. ns[j - 1] = regions[(j - 1) - 1] /\ ns[j] = regions[j - 1]
        BY <1>n, <4>1
      <4>3. QED
        BY <1>p, <4>1, <4>2
    <3>6. QED
      BY <1>1, <3>1, <3>2, <3>3, <3>4, <3>5
  <2> DEFINE from(j) == IF j < i THEN j ELSE j - 1
  <2>6. /\ ns[i].id = L
        /\ \A j \in 1..(L + 1) : j # i => from(j) \in 1..L /\ ns[j].id = regions[from(j)].id
        /\ \A j, k \in 1..(L + 1) : j # i /\ k # i /\ from(j) = from(k) => j = k
    <3>1. ns[i].id = L
      BY <1>n DEF L
    <3>2. ASSUME NEW j \in 1..(L + 1), j # i
          PROVE  from(j) \in 1..L /\ ns[j].id = regions[from(j)].id
      <4>1. from(j) \in 1..L
        BY <1>1, <3>2
      <4>2. CASE j < i
        BY <1>n, <4>1, <4>2
      <4>3. CASE j = i + 1
        <5>1. from(j) = i
          BY <1>1, <4>3
        <5>2. QED
          BY <1>n, <4>1, <4>3, <5>1
      <4>4. CASE j > i + 1
        <5>1. from(j) = j - 1
          BY <1>1, <4>4
        <5>2. QED
          BY <1>n, <4>1, <4>4, <5>1
      <4>5. QED
        BY <1>1, <3>2, <4>2, <4>3, <4>4
    <3>3. \A j, k \in 1..(L + 1) : j # i /\ k # i /\ from(j) = from(k) => j = k
      BY <1>1
    <3>4. QED
      BY <3>1, <3>2, <3>3
  <2> HIDE DEF from
  <2>7. \A j \in 1..(L + 1) : ns[j].id < L + 1
    <3>1. ASSUME NEW j \in 1..(L + 1)
          PROVE  ns[j].id < L + 1
      <4>1. CASE j = i
        BY <1>1, <2>6, <4>1
      <4>2. CASE j # i
        <5>1. regions[from(j)].id < L /\ regions[from(j)].id \in Nat
          BY <1>k, <1>p, <2>6, <4>2
        <5>2. QED
          BY <1>1, <2>6, <4>2, <5>1
      <4>3. QED
        BY <4>1, <4>2
    <3>2. QED
      BY <3>1
  <2>8. ASSUME NEW j \in 1..(L + 1), NEW k \in 1..(L + 1), ns[j].id = ns[k].id
        PROVE  j = k
    <3>1. ASSUME NEW m \in 1..(L + 1), m # i
          PROVE  ns[m].id # L
      <4>1. regions[from(m)].id < L /\ regions[from(m)].id \in Nat
        BY <1>k, <1>p, <2>6, <3>1
      <4>2. QED
        BY <1>1, <2>6, <3>1, <4>1
    <3>2. CASE j = i \/ k = i
      BY <2>6, <2>8, <3>1, <3>2
    <3>3. CASE j # i /\ k # i
      <4>1. from(j) = from(k)
        <5>1. regions[from(j)].id = regions[from(k)].id
          BY <2>6, <2>8, <3>3
        <5>2. from(j) \in 1..L /\ from(k) \in 1..L
          BY <2>6, <3>3
        <5>3. QED
          BY <1>p, <5>1, <5>2
      <4>2. QED
        BY <2>6, <3>3, <4>1
    <3>4. QED
      BY <3>2, <3>3
  <2>9. ASSUME NEW n \in 0..L
        PROVE  \E j \in 1..(L + 1) : ns[j].id = n
    <3>1. CASE n = L
      <4>1. i \in 1..(L + 1)
        BY <1>1
      <4>2. QED
        BY <2>6, <3>1, <4>1
    <3>2. CASE n < L
      <4>0. n \in 0..(L - 1)
        BY <1>1, <3>2
      <4>1. PICK m \in 1..L : regions[m].id = n
        BY <1>p, <4>0
      <4>2. PICK j \in 1..(L + 1) : j # i /\ from(j) = m
        <5>1. CASE m < i
          <6>1. m \in 1..(L + 1) /\ m # i /\ from(m) = m
            BY <1>1, <5>1 DEF from
          <6>2. QED
            BY <6>1
        <5>2. CASE m >= i
          <6>1. m + 1 \in 1..(L + 1) /\ m + 1 # i /\ from(m + 1) = m
            BY <1>1, <5>2 DEF from
          <6>2. QED
            BY <6>1
        <5>3. QED
          BY <1>1, <5>1, <5>2
      <4>3. QED
        BY <2>6, <4>1, <4>2
    <3>3. QED
      BY <1>1, <3>1, <3>2
  <2>10. (L + 1) - 1 = L
    BY <1>1
  <2>11. QED
    BY <1>4, <2>1, <2>2, <2>3, <2>4, <2>5, <2>7, <2>8, <2>9, <2>10 DEF Partition
<1>7. QED
  BY <1>5, <1>6 DEF ns

-----------------------------------------------------------------------------
(* One Region as TermFencesLeader compares it across a step.               *)
Follows(r, n) ==
  /\ n.id = r.id
  /\ n.term >= r.term
  /\ n.leader # r.leader => n.term > r.term /\ n.commit > r.commit

Fenced == \A i \in Positions : \E j \in 1..Len(regions') : Follows(regions[i], regions'[j])

LEMMA ForwardFollows ==
  ASSUME NEW r, NEW n, Forward(r, n), n.id = r.id
  PROVE  Follows(r, n)
BY DEF Forward, Follows

LEMMA FollowsItself ==
  ASSUME NEW r \in Region
  PROVE  Follows(r, r)
BY DEF Follows, Region

(* An operation that touches one Region.                                   *)
LEMMA OneRegionStep ==
  ASSUME IInv, NEW i \in Positions, NEW n,
         GroupOK(n), SameShape(regions[i], n), Forward(regions[i], n),
         regions' = [regions EXCEPT ![i] = n],
         storeUp' = storeUp,
         served' \in Reads \cup {NoRead}
  PROVE  IInv' /\ Fenced
<1>1. RegionsOK(regions, storeUp) /\ Partition(regions) /\ storeUp \subseteq Store
  BY IInvByRegion
<1>2. RegionsOK(regions', storeUp') /\ Partition(regions')
  BY <1>1, ReplaceOne DEF Positions
<1>3. IInv'
  BY <1>1, <1>2, NextByRegion
<1>4. regions \in Seq(Region) /\ Len(regions') = Len(regions)
  BY <1>1 DEF RegionsOK
<1>5. ASSUME NEW j \in Positions
      PROVE  Follows(regions[j], regions'[j])
  <2>1. regions[j] \in Region
    BY <1>4 DEF Positions
  <2>2. CASE j = i
    <3>1. regions'[j] = n /\ n.id = regions[j].id
      BY <1>4, <2>2 DEF Positions, SameShape
    <3>2. QED
      BY <2>2, <3>1, ForwardFollows
  <2>3. CASE j # i
    <3>1. regions'[j] = regions[j]
      BY <1>4, <2>3 DEF Positions
    <3>2. QED
      BY <2>1, <3>1, FollowsItself
  <2>4. QED
    BY <2>2, <2>3
<1>6. QED
  BY <1>3, <1>4, <1>5 DEF Fenced, Positions

LEMMA RegionAt ==
  ASSUME IInv, NEW i \in Positions
  PROVE  /\ regions[i] \in Region
         /\ GroupOK(regions[i])
         /\ Live(regions[i]) = storeUp
BY IInvByRegion DEF RegionsOK, Positions

LEMMA RequireLeaderStep ==
  ASSUME IInv, NEW i \in Positions, RequireLeader(i)
  PROVE  IInv' /\ Fenced
<1>1. regions[i] \in Region /\ GroupOK(regions[i])
  BY RegionAt
<1>2. QED
  BY <1>1, EnsureLeaderOK, OneRegionStep DEF RequireLeader

LEMMA MutateStep ==
  ASSUME IInv, NEW i \in Positions, Mutate(i)
  PROVE  IInv' /\ Fenced
<1>1. regions[i] \in Region /\ GroupOK(regions[i])
  BY RegionAt
<1>2. QED
  BY <1>1, ReplicateOK, OneRegionStep DEF Mutate

LEMMA ReadRegionStep ==
  ASSUME IInv, NEW i \in Positions, NEW policy, ReadRegion(i, policy)
  PROVE  IInv' /\ Fenced
<1> DEFINE e == EnsureLeader(regions[i])
           f == ReadFrom(e, policy)
           s == ServingStore(e, policy)
<1>1. regions[i] \in Region /\ GroupOK(regions[i])
  BY RegionAt
<1>2. GroupOK(e) /\ SameShape(regions[i], e) /\ Forward(regions[i], e) /\ e \in Region
  BY <1>1, EnsureLeaderOK DEF GroupOK
<1>3. /\ GroupOK(f) /\ SameShape(e, f) /\ Forward(e, f) /\ f \in Region
      /\ s \in Store /\ f.peerApplied[s] = f.commit
  BY <1>2, ReadFromOK DEF GroupOK
<1>4. SameShape(regions[i], f) /\ Forward(regions[i], f)
  BY <1>1, <1>2, <1>3 DEF SameShape, Forward, Region
<1>5. CASE LeaderAvailable(regions[i])
  <2>1. [region |-> f.id, index |-> f.peerApplied[s], store |-> s] \in Reads
    BY <1>3 DEF Reads, Region
  <2>2. QED
    BY <1>3, <1>4, <1>5, <2>1, OneRegionStep DEF ReadRegion
<1>6. CASE ~LeaderAvailable(regions[i])
  BY <1>2, <1>6, OneRegionStep DEF ReadRegion
<1>7. QED
  BY <1>5, <1>6

(* A Store failure disturbs every Region alike.                            *)
LEMMA MarkStoreDownStep ==
  ASSUME IInv, NEW i \in Positions, MarkStoreDown(i)
  PROVE  IInv' /\ Fenced
<1> DEFINE st == regions[i].leader
           L == Len(regions)
<1>1. RegionsOK(regions, storeUp) /\ Partition(regions) /\ storeUp \subseteq Store
  BY IInvByRegion
<1>2. /\ L \in Nat /\ L >= 1 /\ Positions = 1..L /\ regions \in Seq(Region)
      /\ st \in Store
  <2>1. regions \in Seq(Region) /\ L >= 1 /\ Positions = 1..L
    BY <1>1 DEF RegionsOK, Partition, Positions
  <2>2. regions[i] \in Region
    BY RegionAt
  <2>3. st \in Store
    BY <2>2 DEF Region
  <2>4. L \in Nat
    BY <2>1
  <2>5. QED
    BY <2>1, <2>3, <2>4
<1>3. ASSUME NEW j \in 1..L
      PROVE  /\ GroupOK(PeerDown(regions[j], st))
             /\ Live(PeerDown(regions[j], st)) = storeUp \ {st}
             /\ Forward(regions[j], PeerDown(regions[j], st))
             /\ PeerDown(regions[j], st).id = regions[j].id
             /\ PeerDown(regions[j], st).startKey = regions[j].startKey
             /\ PeerDown(regions[j], st).endKey = regions[j].endKey
  <2>1. regions[j] \in Region /\ GroupOK(regions[j]) /\ Live(regions[j]) = storeUp
    BY <1>2, RegionAt
  <2>2. QED
    BY <1>2, <2>1, PeerDownOK DEF GroupOK
<1> HIDE DEF st
<1>4. /\ regions' = [j \in 1..L |-> PeerDown(regions[j], st)]
      /\ storeUp' = storeUp \ {st} /\ served' = NoRead
  BY <1>2 DEF MarkStoreDown, st
<1>5. /\ \A j \in 1..L : regions'[j] = PeerDown(regions[j], st)
      /\ regions' \in [1..L -> Region]
  <2>1. \A j \in 1..L : PeerDown(regions[j], st) \in Region
    BY <1>3 DEF GroupOK
  <2>2. QED
    BY <1>4, <2>1
<1>6. regions' \in Seq(Region) /\ Len(regions') = L
  BY <1>2, <1>4, <1>5, IsASeq
<1> HIDE DEF L
<1>7. RegionsOK(regions', storeUp')
  BY <1>3, <1>4, <1>5, <1>6 DEF RegionsOK
<1>8. \A j \in 1..L : /\ regions'[j].id = regions[j].id
                      /\ regions'[j].startKey = regions[j].startKey
                      /\ regions'[j].endKey = regions[j].endKey
  BY <1>3, <1>5
<1>9. Partition(regions')
  <2>1. 1 \in 1..L /\ L \in 1..L /\ \A j \in 1..L : j > 1 => j - 1 \in 1..L
    BY <1>2
  <2>2. regions'[1].startKey = 0 /\ regions'[L].endKey = KeyspaceEnd
    BY <1>1, <1>8, <2>1 DEF Partition, L
  <2>3. \A j \in 1..L : regions'[j].startKey < regions'[j].endKey
    BY <1>1, <1>8 DEF Partition, L
  <2>4. \A j \in 1..L : j > 1 => regions'[j - 1].endKey = regions'[j].startKey
    BY <1>1, <1>8, <2>1 DEF Partition, L
  <2>5. \A j \in 1..L : regions'[j].id < L
    BY <1>1, <1>8 DEF Partition, L
  <2>6. \A j, k \in 1..L : regions'[j].id = regions'[k].id => j = k
    BY <1>1, <1>8 DEF Partition, L
  <2>7. \A m \in 0..(L - 1) : \E j \in 1..L : regions'[j].id = m
    <3>1. \A m \in 0..(L - 1) : \E j \in 1..L : regions[j].id = m
      BY <1>1 DEF Partition, L
    <3>2. QED
      BY <1>8, <3>1
  <2>8. QED
    BY <1>2, <1>6, <2>2, <2>3, <2>4, <2>5, <2>6, <2>7 DEF Partition
<1>10. IInv'
  BY <1>1, <1>4, <1>7, <1>9, NextByRegion
<1>11. ASSUME NEW j \in 1..L
       PROVE  Follows(regions[j], regions'[j])
  BY <1>3, <1>5, ForwardFollows
<1>12. QED
  BY <1>2, <1>6, <1>10, <1>11 DEF Fenced

(* A split: the committed admin command, then the two halves.              *)
LEMMA HalvesOK ==
  ASSUME NEW r \in Region, GroupOK(r), Splittable(r), NEW newId \in Nat
  PROVE  /\ Midpoint(r) \in Nat
         /\ r.startKey < Midpoint(r) /\ Midpoint(r) < r.endKey
         /\ GroupOK(UpperHalf(r)) /\ GroupOK(LowerHalf(r, newId))
         /\ Live(UpperHalf(r)) = Live(r) /\ Live(LowerHalf(r, newId)) = Live(r)
         /\ Forward(r, UpperHalf(r))
         /\ LowerHalf(r, newId).startKey = r.startKey
         /\ LowerHalf(r, newId).endKey = Midpoint(r)
         /\ UpperHalf(r).startKey = Midpoint(r)
         /\ UpperHalf(r).endKey = r.endKey
         /\ LowerHalf(r, newId).id = newId
         /\ UpperHalf(r).id = r.id
<1> DEFINE m == Midpoint(r)
<1>1. r.startKey \in Nat /\ r.endKey \in Nat /\ r.epoch \in Nat
  BY DEF Region
<1>2. m \in Nat /\ r.startKey < m /\ m < r.endKey
  BY <1>1 DEF Midpoint, Splittable
<1> HIDE DEF m
<1>3. UpperHalf(r) = [r EXCEPT !.startKey = m, !.epoch = r.epoch + 1]
  BY DEF UpperHalf, m
<1> DEFINE u == UpperHalf(r)
           l == LowerHalf(r, newId)
<1>u. u = [r EXCEPT !.startKey = m, !.epoch = r.epoch + 1]
  BY <1>3
<1>4. l = [u EXCEPT !.id = newId, !.startKey = r.startKey, !.endKey = m]
  BY DEF LowerHalf, m
<1> HIDE DEF u, l
<1>5. /\ u \in Region
      /\ u.startKey = m /\ u.endKey = r.endKey /\ u.id = r.id
      /\ u.leader = r.leader /\ u.role = r.role /\ u.term = r.term /\ u.commit = r.commit
      /\ u.applied = r.applied /\ u.match = r.match /\ u.peerApplied = r.peerApplied
      /\ u.healthy = r.healthy /\ u.health = r.health
  <2>1. u \in Region
    <3> DEFINE ep == r.epoch + 1
    <3>1. ep \in Nat
      BY <1>1
    <3>2. u = [r EXCEPT !.startKey = m, !.epoch = ep]
      BY <1>u
    <3> HIDE DEF ep
    <3>3. QED
      BY <1>2, <3>1, <3>2 DEF Region
  <2>2. /\ u.startKey = m /\ u.endKey = r.endKey /\ u.id = r.id
        /\ u.leader = r.leader /\ u.role = r.role /\ u.term = r.term
    BY <1>u DEF Region
  <2>3. /\ u.commit = r.commit /\ u.applied = r.applied /\ u.match = r.match
        /\ u.peerApplied = r.peerApplied /\ u.healthy = r.healthy /\ u.health = r.health
    BY <1>u DEF Region
  <2>4. QED
    BY <2>1, <2>2, <2>3
<1>6. /\ l \in Region
      /\ l.startKey = r.startKey /\ l.endKey = m /\ l.id = newId
      /\ l.leader = r.leader /\ l.role = r.role /\ l.term = r.term /\ l.commit = r.commit
      /\ l.applied = r.applied /\ l.match = r.match /\ l.peerApplied = r.peerApplied
      /\ l.healthy = r.healthy /\ l.health = r.health
  BY <1>1, <1>2, <1>4, <1>5 DEF Region
<1>7. ASSUME NEW n \in Region,
             n.leader = r.leader, n.role = r.role, n.commit = r.commit,
             n.applied = r.applied, n.match = r.match, n.peerApplied = r.peerApplied,
             n.healthy = r.healthy, n.health = r.health
      PROVE  GroupOK(n) /\ Live(n) = Live(r)
  <2>1. Durable(n) /\ LeaderCurrent(n) /\ Live(n) = Live(r)
    BY <1>7 DEF GroupOK, Durable, LeaderCurrent, Live
  <2>2. HealthLabelled(n)
    BY <1>7, <2>1 DEF GroupOK, HealthLabelled, HealthOf
  <2>3. QED
    BY <2>1, <2>2 DEF GroupOK
<1>8. Forward(r, u)
  BY <1>5 DEF Forward, Region
<1>9. GroupOK(u) /\ Live(u) = Live(r) /\ GroupOK(l) /\ Live(l) = Live(r)
  BY <1>5, <1>6, <1>7
<1>10. QED
  BY <1>2, <1>5, <1>6, <1>8, <1>9 DEF m, u, l

LEMMA SplitRegionStep ==
  ASSUME IInv, NEW i \in Positions, SplitRegion(i)
  PROVE  IInv' /\ Fenced
<1> DEFINE r == regions[i]
           p == Replicate(r)
           lo == LowerHalf(p, NextRegionId)
           hi == UpperHalf(p)
           L == Len(regions)
<1>1. /\ RegionsOK(regions, storeUp) /\ Partition(regions) /\ storeUp \subseteq Store
      /\ regions \in Seq(Region) /\ L \in Nat /\ L >= 1 /\ i \in 1..L
  <2>1. RegionsOK(regions, storeUp) /\ Partition(regions) /\ storeUp \subseteq Store
    BY IInvByRegion
  <2>2. regions \in Seq(Region)
    BY <2>1 DEF RegionsOK
  <2>3. L \in Nat /\ L >= 1
    BY <2>1, <2>2 DEF Partition
  <2>4. i \in 1..L
    BY DEF Positions
  <2>5. QED
    BY <2>1, <2>2, <2>3, <2>4
<1>2. r \in Region /\ GroupOK(r) /\ Live(r) = storeUp
  BY RegionAt
<1>3. GroupOK(p) /\ SameShape(r, p) /\ Forward(r, p)
  BY <1>2, ReplicateOK
<1>4. served' = NoRead /\ storeUp' = storeUp
  BY DEF SplitRegion
<1>5. CASE ~LeaderAvailable(r)
  <2>1. regions' = [regions EXCEPT ![i] = p]
    BY <1>5 DEF SplitRegion
  <2>2. QED
    BY <1>3, <1>4, <2>1, OneRegionStep
<1>6. CASE LeaderAvailable(r)
  <2>1. NextRegionId = L /\ NextRegionId \in Nat
    BY <1>1, NextIdFresh
  <2>2. p \in Region /\ Splittable(p) /\ Live(p) = storeUp
    <3>1. Midpoint(p) = Midpoint(r)
      BY <1>3 DEF SameShape, Midpoint
    <3>2. Splittable(r)
      BY DEF SplitRegion
    <3>3. QED
      BY <1>2, <1>3, <3>1, <3>2 DEF SameShape, Splittable, Live, GroupOK
  <2>3. /\ Midpoint(p) \in Nat
        /\ p.startKey < Midpoint(p) /\ Midpoint(p) < p.endKey
        /\ GroupOK(hi) /\ GroupOK(lo) /\ Live(hi) = Live(p) /\ Live(lo) = Live(p)
        /\ Forward(p, hi)
        /\ lo.startKey = p.startKey /\ lo.endKey = Midpoint(p)
        /\ hi.startKey = Midpoint(p) /\ hi.endKey = p.endKey
        /\ lo.id = NextRegionId /\ hi.id = p.id
    BY <1>3, <2>1, <2>2, HalvesOK
  <2> HIDE DEF lo, hi
  <2>4. regions' = Splice(i, lo, hi)
    BY <1>6 DEF SplitRegion, lo, hi
  <2> HIDE DEF p
  <2>5. RegionsOK(Splice(i, lo, hi), storeUp) /\ Partition(Splice(i, lo, hi))
    <3> DEFINE mid == Midpoint(p)
    <3>1. /\ mid \in Nat /\ lo.endKey = mid /\ hi.startKey = mid
          /\ r.startKey < mid /\ mid < r.endKey
          /\ lo.startKey = r.startKey /\ hi.endKey = r.endKey
          /\ lo.id = L /\ hi.id = r.id
          /\ Live(lo) = storeUp /\ Live(hi) = storeUp /\ GroupOK(lo) /\ GroupOK(hi)
      BY <1>3, <2>1, <2>2, <2>3 DEF SameShape
    <3> HIDE DEF mid
    <3>2. QED
      BY <1>1, <3>1, SpliceOK
  <2>6. IInv'
    BY <1>1, <1>4, <2>4, <2>5, NextByRegion
  <2>7. Follows(r, hi)
    <3>1. hi \in Region /\ p \in Region
      BY <2>2, <2>3 DEF GroupOK
    <3>2. Forward(r, hi)
      BY <1>2, <1>3, <2>3, <3>1 DEF Forward, Region
    <3>3. QED
      BY <1>3, <2>3, <3>2, ForwardFollows DEF SameShape
  <2> HIDE DEF r, L
  <2>8. /\ Len(regions') = L + 1
        /\ \A j \in 1..L : j < i => regions'[j] = regions[j]
        /\ regions'[i + 1] = hi
        /\ \A j \in 1..L : j > i => regions'[j + 1] = regions[j]
    <3>1. regions' = [j \in 1..(L + 1) |->
                        IF j < i THEN regions[j]
                        ELSE IF j = i THEN lo
                        ELSE IF j = i + 1 THEN hi
                        ELSE regions[j - 1]]
      BY <2>4 DEF Splice, L
    <3>2. Len(regions') = L + 1
      <4>1. regions' \in Seq(Region) /\ DOMAIN regions' = 1..(L + 1)
        BY <2>4, <2>5, <3>1 DEF RegionsOK
      <4>2. QED
        BY <1>1, <4>1, LenProperties
    <3>3. \A j \in 1..L : j < i => regions'[j] = regions[j]
      BY <1>1, <3>1
    <3>4. regions'[i + 1] = hi
      BY <1>1, <3>1
    <3>5. ASSUME NEW j \in 1..L, j > i
          PROVE  regions'[j + 1] = regions[j]
      <4>1. /\ j + 1 \in 1..(L + 1) /\ ~(j + 1 < i) /\ j + 1 # i /\ j + 1 # i + 1
            /\ (j + 1) - 1 = j
        BY <1>1, <3>5
      <4>2. QED
        BY <3>1, <4>1
    <3>6. QED
      BY <3>2, <3>3, <3>4, <3>5
  <2>9. ASSUME NEW j \in 1..L
        PROVE  \E k \in 1..(L + 1) : Follows(regions[j], regions'[k])
    <3>0. regions[j] \in Region
      BY <1>1 DEF L
    <3>1. CASE j < i
      BY <1>1, <2>8, <3>0, <3>1, FollowsItself
    <3>2. CASE j = i
      <4>1. i + 1 \in 1..(L + 1)
        BY <1>1
      <4>2. QED
        BY <2>7, <2>8, <3>2, <4>1 DEF r
    <3>3. CASE j > i
      <4>1. j + 1 \in 1..(L + 1)
        BY <1>1
      <4>2. QED
        BY <2>8, <3>0, <3>3, <4>1, FollowsItself
    <3>4. QED
      BY <1>1, <3>1, <3>2, <3>3
  <2>10. QED
    BY <2>6, <2>8, <2>9 DEF Fenced, Positions, L
<1>7. QED
  BY <1>5, <1>6

-----------------------------------------------------------------------------
(* The initial states.                                                     *)
Grid(rs) ==
  /\ rs \in [1..InitialRegions -> Region]
  /\ \A i \in 1..InitialRegions : /\ rs[i].id = i - 1
                                  /\ rs[i].startKey = (i - 1) * RegionWidth
                                  /\ rs[i].endKey = i * RegionWidth

LEMMA GridOK ==
  ASSUME NEW rs, Grid(rs), NEW up,
         \A i \in 1..InitialRegions : GroupOK(rs[i]) /\ Live(rs[i]) = up
  PROVE  RegionsOK(rs, up) /\ Partition(rs)
<1> DEFINE N == InitialRegions
           W == RegionWidth
<1>1. N \in Nat /\ N >= 1 /\ W \in Nat /\ W >= 1
  BY RegionRaftAssumption
<1>2. rs \in Seq(Region) /\ Len(rs) = N
  <2>1. rs = [i \in 1..N |-> rs[i]] /\ \A i \in 1..N : rs[i] \in Region
    BY DEF Grid
  <2>2. rs \in Seq(Region)
    BY <1>1, <2>1, IsASeq
  <2>3. DOMAIN rs = 1..N
    BY DEF Grid
  <2>4. QED
    BY <1>1, <2>2, <2>3, LenProperties
<1>3. RegionsOK(rs, up)
  BY <1>2 DEF RegionsOK
<1>4. /\ \A i \in 1..N : rs[i].id = i - 1
      /\ \A i \in 1..N : rs[i].startKey = (i - 1) * W
      /\ \A i \in 1..N : rs[i].endKey = i * W
  BY DEF Grid
<1>k. KeyspaceEnd = N * W
  BY DEF KeyspaceEnd
<1> HIDE DEF N, W
<1>5. \A i \in 1..N : (i - 1) * W < i * W
  <2>1. ASSUME NEW i \in 1..N
        PROVE  (i - 1) * W < i * W
    <3>1. (i - 1) * W = i * W - W /\ i * W \in Int
      BY <1>1
    <3>2. QED
      BY <1>1, <3>1
  <2>2. QED
    BY <2>1
<1>6. Partition(rs)
  <2>1. 1 \in 1..N /\ N \in 1..N /\ (1 - 1) * W = 0
    BY <1>1
  <2>2. rs[1].startKey = 0 /\ rs[N].endKey = KeyspaceEnd
    BY <1>4, <1>k, <2>1
  <2>3. \A i \in 1..N : rs[i].startKey < rs[i].endKey
    BY <1>4, <1>5
  <2>4. ASSUME NEW i \in 1..N, i > 1
        PROVE  rs[i - 1].endKey = rs[i].startKey
    <3>1. i - 1 \in 1..N
      BY <1>1, <2>4
    <3>2. QED
      BY <1>4, <3>1
  <2>5. \A i \in 1..N : rs[i].id < N
    BY <1>1, <1>4
  <2>6. \A i, j \in 1..N : rs[i].id = rs[j].id => i = j
    BY <1>1, <1>4
  <2>7. ASSUME NEW n \in 0..(N - 1)
        PROVE  \E i \in 1..N : rs[i].id = n
    <3>1. n + 1 \in 1..N /\ (n + 1) - 1 = n
      BY <1>1
    <3>2. QED
      BY <1>4, <3>1
  <2>8. QED
    BY <1>1, <1>2, <2>2, <2>3, <2>4, <2>5, <2>6, <2>7 DEF Partition
<1>7. QED
  BY <1>3, <1>6

LEMMA FreshRegionOK ==
  ASSUME NEW i \in 1..InitialRegions
  PROVE  /\ GroupOK(FreshRegion(i))
         /\ Live(FreshRegion(i)) = Store
         /\ FreshRegion(i).id = i - 1
         /\ FreshRegion(i).startKey = (i - 1) * RegionWidth
         /\ FreshRegion(i).endKey = i * RegionWidth
<1> DEFINE leader == ((i - 1) % 3) + 1
           roles == [s \in Store |-> IF s = leader THEN "leader" ELSE "follower"]
           zeros == [s \in Store |-> 0]
           ups == [s \in Store |-> TRUE]
           a == (i - 1) * RegionWidth
           b == i * RegionWidth
           d == i - 1
           r == [id |-> d, startKey |-> a, endKey |-> b, epoch |-> 1, leader |-> leader,
                 role |-> roles, term |-> 1, commit |-> 0, applied |-> 0, match |-> zeros,
                 peerApplied |-> zeros, healthy |-> ups, health |-> "healthy"]
<1>1. FreshRegion(i) = r
  BY DEF FreshRegion
<1>2. leader \in Store
  <2>1. i - 1 \in Nat
    BY RegionRaftAssumption
  <2>2. (i - 1) % 3 \in 0..2
    BY <2>1
  <2>3. QED
    BY <2>2 DEF Store
<1>3. a \in Nat /\ b \in Nat /\ d \in Nat
  <2>1. i \in Nat /\ d \in Nat /\ RegionWidth \in Nat
    BY RegionRaftAssumption
  <2>2. QED
    BY <2>1
<1>4. /\ roles \in [Store -> {"leader", "follower"}] /\ zeros \in [Store -> Nat]
      /\ ups \in [Store -> BOOLEAN]
      /\ \A s \in Store : /\ zeros[s] = 0 /\ ups[s] = TRUE
                           /\ (roles[s] = "leader" <=> s = leader)
  OBVIOUS
<1> HIDE DEF leader, roles, zeros, ups, a, b, d
<1>5. r \in Region
  BY <1>2, <1>3, <1>4 DEF Region, Health
<1>6. 1 \in Store /\ 2 \in Store
  BY DEF Store
<1>7. Durable(r)
  BY <1>4, <1>6 DEF Durable, HasQuorum
<1>8. LeaderCurrent(r)
  BY <1>2, <1>4 DEF LeaderCurrent
<1>9. Live(r) = Store
  BY <1>4 DEF Live
<1>10. HealthLabelled(r)
  BY <1>2, <1>4, <1>6, <1>9 DEF HealthLabelled, HealthOf, HasQuorum
<1> HIDE DEF r
<1>11. GroupOK(r)
  BY <1>5, <1>7, <1>8, <1>10 DEF GroupOK
<1>12. r.id = d /\ r.startKey = a /\ r.endKey = b
  BY DEF r
<1>13. QED
  BY <1>1, <1>9, <1>11, <1>12 DEF a, b, d

LEMMA FailedOverOK ==
  ASSUME NEW r \in Region, r.term \in Nat
  PROVE  /\ GroupOK(FailedOver(r))
         /\ Live(FailedOver(r)) = Live(r) \ {r.leader}
         /\ FailedOver(r).id = r.id
         /\ FailedOver(r).startKey = r.startKey
         /\ FailedOver(r).endKey = r.endKey
<1> DEFINE old == r.leader
           w == CHOOSE s \in Store \ {old} : \A o \in Store \ {old} : s <= o
           logs == [s \in Store |-> IF s = old THEN Baseline ELSE Baseline + 1]
           roles == [s \in Store |-> IF s = w THEN "leader" ELSE "follower"]
           next == Baseline + 1
           t == r.term + 1
           e == [r EXCEPT !.leader = w, !.role = roles, !.term = t, !.commit = next,
                          !.applied = next, !.match = logs, !.peerApplied = logs]
<1>1. FailedOver(r) = PeerDown(e, old)
  BY DEF FailedOver
<1>2. w \in Store \ {old} /\ old \in Store
  <2>1. \E s \in Store \ {old} : \A o \in Store \ {old} : s <= o
    BY DEF Store
  <2>2. QED
    BY <2>1 DEF Region
<1>3. /\ Baseline \in Nat /\ next \in Nat /\ t \in Nat /\ next = Baseline + 1
      /\ logs \in [Store -> Nat]
      /\ roles \in [Store -> {"leader", "follower"}]
      /\ \A s \in Store : logs[s] = IF s = old THEN Baseline ELSE next
      /\ \A s \in Store : roles[s] = "leader" <=> s = w
  <2>1. Baseline \in Nat /\ next \in Nat /\ t \in Nat
    BY RegionRaftAssumption
  <2>2. logs \in [Store -> Nat] /\ \A s \in Store : logs[s] = IF s = old THEN Baseline ELSE next
    BY <2>1
  <2>3. roles \in [Store -> {"leader", "follower"}] /\ \A s \in Store : roles[s] = "leader" <=> s = w
    OBVIOUS
  <2>4. QED
    BY <2>1, <2>2, <2>3
<1> HIDE DEF w, logs, roles, next, t
<1>4. e \in Region
  BY <1>2, <1>3 DEF Region
<1>5. /\ e.leader = w /\ e.role = roles /\ e.commit = next /\ e.applied = next
      /\ e.match = logs /\ e.peerApplied = logs /\ e.healthy = r.healthy
      /\ e.id = r.id /\ e.startKey = r.startKey /\ e.endKey = r.endKey
  BY DEF Region
<1> HIDE DEF e
<1>6. Durable(e)
  <2>1. PICK o \in Store : o # old /\ o # w
    BY <1>2 DEF Store
  <2>2. w \in Store /\ e.match[w] = next /\ e.match[o] = next
    BY <1>2, <1>3, <1>5, <2>1
  <2>3. HasQuorum({s \in Store : e.match[s] >= e.commit})
    BY <1>3, <1>5, <2>1, <2>2 DEF HasQuorum
  <2>4. QED
    BY <1>3, <1>5, <2>3 DEF Durable
<1>7. LeaderCurrent(e)
  BY <1>2, <1>3, <1>5 DEF LeaderCurrent
<1> HIDE DEF old
<1>8. Live(e) = Live(r)
  BY <1>5 DEF Live
<1>9. QED
  BY <1>1, <1>2, <1>4, <1>5, <1>6, <1>7, <1>8, PeerDownOK DEF old

LEMMA InitOK ==
  ASSUME Init
  PROVE  IInv
<1>1. \A i \in 1..InitialRegions :
        /\ FreshRegion(i) \in Region
        /\ GroupOK(FreshRegion(i))
        /\ Live(FreshRegion(i)) = Store
        /\ FreshRegion(i).id = i - 1
        /\ FreshRegion(i).startKey = (i - 1) * RegionWidth
        /\ FreshRegion(i).endKey = i * RegionWidth
  BY FreshRegionOK DEF GroupOK
<1>2. CASE regions = FreshRegions /\ storeUp = Store
  <2>1. Grid(regions)
    BY <1>1, <1>2 DEF Grid, FreshRegions
  <2>2. \A i \in 1..InitialRegions : GroupOK(regions[i]) /\ Live(regions[i]) = storeUp
    BY <1>1, <1>2 DEF FreshRegions
  <2>3. QED
    BY <1>2, <2>1, <2>2, GridOK, IInvByRegion DEF Init
<1>3. ASSUME NEW a \in 1..InitialRegions, NEW b \in 1..InitialRegions,
             regions = CrossRegionFixture(a, b), storeUp = Store
      PROVE  IInv
  <2>1. ASSUME NEW i \in 1..InitialRegions
        PROVE  LET n == TwoVoterAppend(TwoVoterAppend(FreshRegion(i)))
               IN  GroupOK(n) /\ SameShape(FreshRegion(i), n) /\ n \in Region
    <3> DEFINE f == FreshRegion(i)
               g == TwoVoterAppend(f)
               n == TwoVoterAppend(g)
    <3>1. \A r \in Region : Live(r) = Store => Live(r) \ {r.leader} # {}
      BY DEF Store
    <3>2. f \in Region /\ GroupOK(f) /\ Live(f) = Store
      BY <1>1
    <3> HIDE DEF f
    <3>3. GroupOK(g) /\ SameShape(f, g) /\ g \in Region
      BY <3>1, <3>2, TwoVoterAppendOK DEF GroupOK
    <3>4. Live(g) = Store
      BY <3>2, <3>3 DEF Live, SameShape
    <3> HIDE DEF g
    <3>5. GroupOK(n) /\ SameShape(g, n) /\ n \in Region
      BY <3>1, <3>3, <3>4, TwoVoterAppendOK DEF GroupOK
    <3>6. SameShape(f, n)
      BY <3>3, <3>5 DEF SameShape
    <3>7. QED
      BY <3>5, <3>6 DEF f, g
  <2>2. \A i \in 1..InitialRegions :
          /\ GroupOK(regions[i]) /\ regions[i] \in Region
          /\ Live(regions[i]) = Store
          /\ regions[i].id = i - 1
          /\ regions[i].startKey = (i - 1) * RegionWidth
          /\ regions[i].endKey = i * RegionWidth
    <3>1. ASSUME NEW i \in 1..InitialRegions
          PROVE  /\ GroupOK(regions[i]) /\ regions[i] \in Region
                 /\ SameShape(FreshRegion(i), regions[i])
      <4>1. CASE i \in {a, b}
        <5>1. regions[i] = TwoVoterAppend(TwoVoterAppend(FreshRegion(i)))
          BY <1>3, <4>1 DEF CrossRegionFixture
        <5>2. QED
          BY <2>1, <5>1
      <4>2. CASE i \notin {a, b}
        <5>1. regions[i] = FreshRegion(i)
          BY <1>3, <4>2 DEF CrossRegionFixture
        <5>2. QED
          BY <1>1, <5>1 DEF SameShape
      <4>3. QED
        BY <4>1, <4>2
    <3>2. QED
      BY <1>1, <3>1 DEF SameShape, Live
  <2>3. regions \in [1..InitialRegions -> Region]
    BY <1>3, <2>2 DEF CrossRegionFixture
  <2>4. Grid(regions)
    BY <2>2, <2>3 DEF Grid
  <2>5. QED
    BY <1>3, <2>2, <2>4, GridOK, IInvByRegion DEF Init
<1>4. CASE regions = FailoverFixture /\ storeUp = Store \ {FreshRegion(1).leader}
  <2> DEFINE old == FreshRegion(1).leader
  <2>1. 1 \in 1..InitialRegions
    BY RegionRaftAssumption
  <2>2. old \in Store /\ FreshRegion(1).term \in Nat
    BY <1>1, <2>1 DEF Region
  <2>3. ASSUME NEW i \in 1..InitialRegions
        PROVE  /\ GroupOK(regions[i]) /\ regions[i] \in Region
               /\ Live(regions[i]) = storeUp
               /\ regions[i].id = i - 1
               /\ regions[i].startKey = (i - 1) * RegionWidth
               /\ regions[i].endKey = i * RegionWidth
    <3>1. CASE i = 1
      <4>1. regions[i] = FailedOver(FreshRegion(1))
        BY <1>4, <3>1 DEF FailoverFixture
      <4>2. QED
        BY <1>1, <1>4, <2>1, <2>2, <3>1, <4>1, FailedOverOK DEF GroupOK
    <3>2. CASE i # 1
      <4>1. regions[i] = PeerDown(FreshRegion(i), old)
        BY <1>4, <3>2 DEF FailoverFixture
      <4>2. Durable(FreshRegion(i)) /\ LeaderCurrent(FreshRegion(i))
        BY <1>1 DEF GroupOK
      <4>3. QED
        BY <1>1, <1>4, <2>2, <4>1, <4>2, PeerDownOK DEF GroupOK
    <3>3. QED
      BY <3>1, <3>2
  <2>4. regions \in [1..InitialRegions -> Region]
    BY <1>4, <2>3 DEF FailoverFixture
  <2>5. Grid(regions)
    BY <2>3, <2>4 DEF Grid
  <2>6. storeUp \subseteq Store
    BY <1>4
  <2>7. QED
    BY <2>3, <2>5, <2>6, GridOK, IInvByRegion DEF Init
<1>5. QED
  BY <1>2, <1>3, <1>4 DEF Init

-----------------------------------------------------------------------------
LEMMA ServedStutters ==
  ASSUME IInv, UNCHANGED vars
  PROVE  IInv' /\ Fenced
<1>1. /\ RegionsOK(regions, storeUp) /\ Partition(regions) /\ storeUp \subseteq Store
      /\ served \in Reads \cup {NoRead}
  BY IInvByRegion
<1>2. regions' = regions /\ storeUp' = storeUp /\ served' = served
  BY DEF vars
<1>3. IInv'
  BY <1>1, <1>2, NextByRegion
<1>4. \A i \in Positions : regions[i] \in Region
  BY RegionAt
<1>5. QED
  BY <1>2, <1>3, <1>4, FollowsItself DEF Fenced, Positions

LEMMA StepOK ==
  ASSUME IInv, [Next]_vars
  PROVE  IInv' /\ Fenced
<1>1. ASSUME NEW i \in Positions,
             \/ RequireLeader(i)
             \/ Mutate(i)
             \/ \E policy \in {"leader", "follower"} : ReadRegion(i, policy)
             \/ MarkStoreDown(i)
             \/ SplitRegion(i)
      PROVE  IInv' /\ Fenced
  <2>1. CASE RequireLeader(i)
    BY <2>1, RequireLeaderStep
  <2>2. CASE Mutate(i)
    BY <2>2, MutateStep
  <2>3. CASE \E policy \in {"leader", "follower"} : ReadRegion(i, policy)
    BY <2>3, ReadRegionStep
  <2>4. CASE MarkStoreDown(i)
    BY <2>4, MarkStoreDownStep
  <2>5. CASE SplitRegion(i)
    BY <2>5, SplitRegionStep
  <2>6. QED
    BY <1>1, <2>1, <2>2, <2>3, <2>4, <2>5
<1>2. CASE UNCHANGED vars
  BY <1>2, ServedStutters
<1>3. QED
  BY <1>1, <1>2 DEF Next

(* The strengthened invariant holds in every reachable state.              *)
THEOREM Inductive == Spec => []IInv
<1>1. Init => IInv
  BY InitOK
<1>2. IInv /\ [Next]_vars => IInv'
  BY StepOK
<1>3. QED
  BY <1>1, <1>2, PTL DEF Spec

(* Every variable keeps its type: in particular every peer's indexes stay  *)
(* natural numbers and Region ids and keys are never fractional, whatever  *)
(* the sequence of elections, writes and splits.                           *)
THEOREM TypeCorrect == Spec => []TypeOK
<1>1. IInv => TypeOK
  BY DEF IInv
<1>2. QED
  BY <1>1, Inductive, PTL

(* What a Region calls committed stays on two of its three voters through  *)
(* elections, failures and splits (ensureLeader, replicateRaft).           *)
THEOREM CommitIsDurable == Spec => []CommittedOnQuorum
<1>1. IInv => CommittedOnQuorum
  BY DEF IInv
<1>2. QED
  BY <1>1, Inductive, PTL

(* The recorded leader has applied every committed entry, so a leader read *)
(* without a gate is never stale (traceRead).                              *)
THEOREM LeaderIsCurrent == Spec => []LeaderServesCommitted
<1>1. IInv => LeaderServesCommitted
  BY DEF IInv
<1>2. QED
  BY <1>1, Inductive, PTL

(* While two voters are live, ensureLeader finds a leader: any two quorums *)
(* intersect, so the durable prefix is on a live voter.                    *)
THEOREM QuorumElects == Spec => []QuorumCanLead
<1>1. IInv => QuorumCanLead
  <2>1. ASSUME IInv, NEW i \in Positions, HasQuorum(Live(regions[i]))
        PROVE  LeaderAvailable(regions[i])
    <3>1. regions[i] \in Region /\ Durable(regions[i])
      BY <2>1, RegionAt DEF GroupOK
    <3>2. QED
      BY <2>1, <3>1, LeaderAvailableIffQuorum
  <2>2. QED
    BY <2>1 DEF QuorumCanLead
<1>2. QED
  BY <1>1, Inductive, PTL

(* ensureLeader never refuses a living quorum, and never answers with a    *)
(* leader that is behind.                                                  *)
THEOREM LeadersStayFit == Spec => []LeadersAreFit
<1>1. LeaderServesCommitted /\ QuorumCanLead => LeadersAreFit
  BY DEF LeadersAreFit
<1>2. QED
  BY <1>1, LeaderIsCurrent, QuorumElects, PTL

(* Topology status, peer flags and health labels agree after every         *)
(* operation, splits and Store failures included.                          *)
THEOREM HealthAgrees == Spec => []HealthCurrent
<1>1. IInv => HealthCurrent
  BY DEF IInv
<1>2. QED
  BY <1>1, Inductive, PTL

(* Any number of splits leaves the Regions a partition of the key space in *)
(* array order, with ids exactly 0..n-1 (splitRegion, createRegions).      *)
THEOREM SplitsPartition == Spec => []KeyspacePartition
<1>1. IInv => KeyspacePartition
  BY DEF IInv
<1>2. QED
  BY <1>1, Inductive, PTL

(* regionForKey and the indexing by Region id can rely on the array, and   *)
(* its peer flags and health labels are those of the Stores.               *)
THEOREM RegionsAreValid == Spec => []RegionsValid
<1>1. TypeOK /\ HealthCurrent /\ KeyspacePartition => RegionsValid
  BY DEF RegionsValid
<1>2. QED
  BY <1>1, TypeCorrect, HealthAgrees, SplitsPartition, PTL

(* A leader changes only with a new term and an entry committed in it.     *)
THEOREM TermsFence == Spec => TermFencesLeader
<1> DEFINE F == \A i \in Positions : \E j \in 1..Len(regions') :
                  LET r == regions[i]
                      n == regions'[j]
                  IN  /\ n.id = r.id
                      /\ n.term >= r.term
                      /\ n.leader # r.leader => n.term > r.term /\ n.commit > r.commit
<1>1. IInv /\ [Next]_vars => [F]_vars
  <2>1. Fenced => F
    BY DEF Fenced, Follows
  <2>2. QED
    BY <2>1, StepOK
<1> HIDE DEF F
<1>2. Spec => [][F]_vars
  BY <1>1, Inductive, PTL DEF Spec
<1>3. QED
  BY <1>2 DEF TermFencesLeader, F

-----------------------------------------------------------------------------
(* The refinement of RegionLog: what each operation does to the committed  *)
(* prefix of one Region.                                                   *)
LEMMA EnsureLeaderGrowth ==
  ASSUME NEW r \in Region, GroupOK(r)
  PROVE  EnsureLeader(r).commit \in {r.commit, r.commit + 1}
<1>1. CASE ~LeaderAvailable(r) \/ LeaderUsable(r)
  BY <1>1 DEF EnsureLeader, UpdateRegionHealth, Region
<1>2. CASE LeaderAvailable(r) /\ ~LeaderUsable(r)
  <2> DEFINE w == Replacement(r)
  <2>1. w \in Candidates(r)
    BY <1>2, ReplacementIsCandidate DEF LeaderAvailable
  <2>2. r.match[w] = r.commit
    BY <2>1 DEF Candidates, Live, GroupOK, Durable, Region
  <2>3. EnsureLeader(r) = Elect(r, w)
    BY <1>2 DEF EnsureLeader
  <2>4. Elect(r, w).commit = r.match[w] + 1
    BY DEF Elect, UpdateRegionHealth, Region
  <2>5. QED
    BY <2>2, <2>3, <2>4
<1>3. QED
  BY <1>1, <1>2

LEMMA ReplicateGrowth ==
  ASSUME NEW r \in Region, GroupOK(r)
  PROVE  /\ LeaderAvailable(r) => Replicate(r).commit \in {r.commit + 1, r.commit + 2}
         /\ ~LeaderAvailable(r) => Replicate(r).commit = r.commit
<1> DEFINE e == EnsureLeader(r)
<1>1. /\ GroupOK(e) /\ e \in Region /\ r.commit \in Nat
      /\ e.commit \in {r.commit, r.commit + 1}
  BY EnsureLeaderOK, EnsureLeaderGrowth DEF GroupOK, Region
<1>2. CASE LeaderAvailable(r)
  <2>1. HasQuorum(Live(e)) /\ Replicate(r) = AppendEntry(e)
    BY <1>2, EnsureLeaderOK DEF Replicate
  <2> HIDE DEF e
  <2>2. AppendEntry(e).commit = e.commit + 1
    BY <1>1, <2>1 DEF AppendEntry, UpdateRegionHealth, Region
  <2>3. QED
    BY <1>1, <1>2, <2>1, <2>2
<1>3. CASE ~LeaderAvailable(r)
  BY <1>3 DEF Replicate, EnsureLeader, UpdateRegionHealth, Region
<1>4. QED
  BY <1>2, <1>3

LEMMA ReadFromGrowth ==
  ASSUME NEW r \in Region, NEW policy
  PROVE  ReadFrom(r, policy).commit = r.commit
BY DEF ReadFrom, CatchUp, Region

LEMMA PeerDownGrowth ==
  ASSUME NEW r \in Region, NEW s
  PROVE  PeerDown(r, s).commit = r.commit
BY DEF PeerDown, UpdateRegionHealth, Region

(* The longest prefix two voters hold is the one the Region calls          *)
(* committed.                                                              *)
LEMMA DurablePrefixIsCommit ==
  ASSUME NEW r \in Region, Durable(r)
  PROVE  DurablePrefix(r) = r.commit
<1> DEFINE S == {n \in {r.match[s] : s \in Store} : HasQuorum({s \in Store : r.match[s] >= n})}
<1>1. r.commit \in Nat /\ \A s \in Store : r.match[s] \in Nat /\ r.match[s] <= r.commit
  BY DEF Durable, Region
<1>2. r.commit \in S
  <2>1. PICK s \in Store : r.match[s] >= r.commit
    BY DEF Durable, HasQuorum
  <2>2. r.match[s] = r.commit
    BY <1>1, <2>1
  <2>3. HasQuorum({t \in Store : r.match[t] >= r.commit})
    BY DEF Durable
  <2>4. QED
    BY <2>2, <2>3
<1>3. \A n \in S : n \in Nat /\ n <= r.commit
  BY <1>1
<1> HIDE DEF S
<1>4. \A n \in S : (\A m \in S : n >= m) => n = r.commit
  BY <1>1, <1>2, <1>3
<1>5. \A m \in S : r.commit >= m
  BY <1>1, <1>3
<1>6. Max(S) = r.commit
  BY <1>2, <1>4, <1>5 DEF Max
<1>7. QED
  BY <1>6 DEF DurablePrefix, S

(* The abstract log of a Region array.                                     *)
IdsOf(rs) == {rs[i].id : i \in 1..Len(rs)}

LogOf(rs) ==
  [id \in IdsOf(rs) |->
     DurablePrefix(CHOOSE r \in {rs[i] : i \in 1..Len(rs)} : r.id = id)]

LEMMA CommittedIsLog == Committed = LogOf(regions) /\ Committed' = LogOf(regions')
BY DEF Committed, LogOf, IdsOf, RegionIds, Positions

(* C is the function from the ids of rs to their commit indexes.           *)
IsLog(rs, C) ==
  /\ C = [id \in IdsOf(rs) |-> C[id]]
  /\ \A i \in 1..Len(rs) : C[rs[i].id] = rs[i].commit

LEMMA LogOfRegions ==
  ASSUME NEW rs, NEW up, RegionsOK(rs, up), Partition(rs)
  PROVE  IsLog(rs, LogOf(rs))
<1>1. ASSUME NEW i \in 1..Len(rs)
      PROVE  LogOf(rs)[rs[i].id] = rs[i].commit
  <2> DEFINE R == {rs[k] : k \in 1..Len(rs)}
             c == CHOOSE r \in R : r.id = rs[i].id
  <2>1. rs[i] \in R
    OBVIOUS
  <2>2. c \in R /\ c.id = rs[i].id
    BY <2>1
  <2>3. c = rs[i]
    BY <2>2 DEF Partition
  <2>4. rs[i] \in Region /\ Durable(rs[i])
    BY DEF RegionsOK, GroupOK
  <2>5. LogOf(rs)[rs[i].id] = DurablePrefix(c)
    BY DEF LogOf, IdsOf
  <2>6. QED
    BY <2>3, <2>4, <2>5, DurablePrefixIsCommit
<1>2. LogOf(rs) = [id \in IdsOf(rs) |-> LogOf(rs)[id]]
  BY DEF LogOf
<1>3. QED
  BY <1>1, <1>2 DEF IsLog

(* Two logs that agree on every Region are the same.                       *)
LEMMA LogIsUnique ==
  ASSUME NEW rs, NEW C, NEW D, IsLog(rs, C), IsLog(rs, D)
  PROVE  C = D
<1>1. \A id \in IdsOf(rs) : C[id] = D[id]
  BY DEF IsLog, IdsOf
<1>2. QED
  BY <1>1 DEF IsLog

LEMMA LogExtended ==
  ASSUME NEW rs, NEW up, RegionsOK(rs, up), Partition(rs), NEW i \in 1..Len(rs),
         NEW n, GroupOK(n), SameShape(rs[i], n)
  PROVE  LogOf([rs EXCEPT ![i] = n]) = [LogOf(rs) EXCEPT ![rs[i].id] = n.commit]
<1> DEFINE ns == [rs EXCEPT ![i] = n]
           id == rs[i].id
           C == LogOf(rs)
           D == [C EXCEPT ![id] = n.commit]
<1>1. rs \in Seq(Region) /\ n \in Region /\ n.id = id
  BY DEF RegionsOK, GroupOK, SameShape
<1>2. /\ ns \in Seq(Region) /\ Len(ns) = Len(rs)
      /\ \A j \in 1..Len(rs) : ns[j] = IF j = i THEN n ELSE rs[j]
  BY <1>1
<1>3. IsLog(ns, LogOf(ns)) /\ IsLog(rs, C)
  BY ReplaceOne, LogOfRegions
<1> HIDE DEF ns, C
<1>4. IdsOf(ns) = IdsOf(rs)
  BY <1>1, <1>2 DEF IdsOf
<1>5. IsLog(ns, D)
  <2>1. DOMAIN C = IdsOf(rs) /\ id \in IdsOf(rs)
    BY <1>3 DEF IsLog, IdsOf
  <2>2. DOMAIN D = IdsOf(rs) /\ \A x \in IdsOf(rs) : D[x] = IF x = id THEN n.commit ELSE C[x]
    BY <2>1
  <2>3. D = [x \in IdsOf(rs) |-> D[x]]
    BY <2>1
  <2>4. \A j \in 1..Len(rs) : rs[j].id \in IdsOf(rs) /\ (rs[j].id = id => j = i)
    BY DEF IdsOf, Partition
  <2>5. ASSUME NEW j \in 1..Len(ns)
        PROVE  D[ns[j].id] = ns[j].commit
    <3>1. CASE j = i
      BY <1>1, <1>2, <2>1, <2>2, <3>1
    <3>2. CASE j # i
      <4>1. ns[j] = rs[j] /\ rs[j].id # id /\ C[rs[j].id] = rs[j].commit
        BY <1>2, <1>3, <2>4, <3>2 DEF IsLog
      <4>2. QED
        BY <1>2, <2>2, <2>4, <4>1
    <3>3. QED
      BY <3>1, <3>2
  <2>6. QED
    BY <1>4, <2>3, <2>5 DEF IsLog
<1>6. LogOf(ns) = D
  BY <1>3, <1>5, LogIsUnique
<1>7. QED
  BY <1>6 DEF ns, C

(* A step of the abstract log, or none.                                    *)
LogStep == Log!Next \/ (Committed' = Committed /\ Observed' = Observed)

LEMMA LogHere ==
  ASSUME IInv, NEW i \in Positions
  PROVE  /\ RegionsOK(regions, storeUp) /\ Partition(regions)
         /\ IsLog(regions, Committed)
         /\ i \in 1..Len(regions) /\ regions[i].commit \in Nat
         /\ regions[i].id \in DOMAIN Committed
         /\ Committed[regions[i].id] = regions[i].commit
<1>1. RegionsOK(regions, storeUp) /\ Partition(regions) /\ i \in 1..Len(regions)
  BY IInvByRegion DEF Positions
<1>2. IsLog(regions, Committed)
  BY <1>1, LogOfRegions, CommittedIsLog
<1>3. regions[i].commit \in Nat
  BY RegionAt DEF Region
<1>4. QED
  BY <1>1, <1>2, <1>3 DEF IsLog, IdsOf

(* An operation on one Region that adds to its prefix and serves nothing.  *)
LEMMA OneRegionLog ==
  ASSUME IInv, NEW i \in Positions, NEW n, GroupOK(n), SameShape(regions[i], n),
         regions' = [regions EXCEPT ![i] = n]
  PROVE  /\ Committed' = [Committed EXCEPT ![regions[i].id] = n.commit]
         /\ n.commit = regions[i].commit => Committed' = Committed
         /\ Committed'[regions[i].id] = n.commit
<1>1. /\ RegionsOK(regions, storeUp) /\ Partition(regions) /\ i \in 1..Len(regions)
      /\ IsLog(regions, Committed) /\ regions[i].id \in DOMAIN Committed
      /\ Committed[regions[i].id] = regions[i].commit
  BY LogHere
<1>2. LogOf(regions') = [LogOf(regions) EXCEPT ![regions[i].id] = n.commit]
  BY <1>1, LogExtended
<1>3. Committed' = [Committed EXCEPT ![regions[i].id] = n.commit]
  BY <1>2, CommittedIsLog
<1>4. Committed = [id \in IdsOf(regions) |-> Committed[id]]
  BY <1>1 DEF IsLog
<1>5. n.commit = regions[i].commit => Committed' = Committed
  BY <1>1, <1>3, <1>4
<1>6. QED
  BY <1>1, <1>3, <1>5

LEMMA GrowsOrIdles ==
  ASSUME IInv, NEW i \in Positions, NEW n, GroupOK(n), SameShape(regions[i], n),
         regions' = [regions EXCEPT ![i] = n], served' = NoRead,
         n.commit \in {regions[i].commit, regions[i].commit + 1, regions[i].commit + 2}
  PROVE  LogStep
<1> DEFINE id == regions[i].id
<1>1. /\ Committed' = [Committed EXCEPT ![id] = n.commit]
      /\ n.commit = regions[i].commit => Committed' = Committed
      /\ id \in DOMAIN Committed /\ Committed[id] = regions[i].commit
  BY OneRegionLog, LogHere
<1>2. Observed' = NoRead
  BY DEF Observed
<1> HIDE DEF id
<1>3. CASE n.commit = regions[i].commit
  BY <1>1, <1>2, <1>3 DEF LogStep, Log!Next, Log!Idle
<1>4. CASE n.commit # regions[i].commit
  <2>1. n.commit \in Log!Grown(id)
    BY <1>1, <1>4 DEF Log!Grown
  <2>2. Log!Extend(id)
    BY <1>1, <1>2, <2>1 DEF Log!Extend
  <2>3. QED
    BY <1>1, <2>2 DEF LogStep, Log!Next
<1>5. QED
  BY <1>3, <1>4

LEMMA ReadRegionLog ==
  ASSUME IInv, NEW i \in Positions, NEW policy, ReadRegion(i, policy)
  PROVE  LogStep
<1> DEFINE r == regions[i]
           e == EnsureLeader(r)
           f == ReadFrom(e, policy)
           s == ServingStore(e, policy)
<1>1. r \in Region /\ GroupOK(r) /\ r.commit \in Nat
  BY RegionAt DEF Region
<1>2. /\ GroupOK(e) /\ SameShape(r, e) /\ e \in Region
      /\ e.commit \in {r.commit, r.commit + 1}
  BY <1>1, EnsureLeaderOK, EnsureLeaderGrowth DEF GroupOK
<1>3. /\ GroupOK(f) /\ SameShape(e, f) /\ f \in Region /\ s \in Store
      /\ f.peerApplied[s] = f.commit /\ f.commit = e.commit
  BY <1>2, ReadFromOK, ReadFromGrowth DEF GroupOK
<1>4. SameShape(r, f) /\ f.id = r.id
  BY <1>2, <1>3 DEF SameShape
<1>5. CASE LeaderAvailable(r)
  <2>1. /\ regions' = [regions EXCEPT ![i] = f]
        /\ served' = [region |-> f.id, index |-> f.peerApplied[s], store |-> s]
    BY <1>5 DEF ReadRegion
  <2>2. served' \in Reads
    BY <1>3, <2>1 DEF Reads, Region
  <2>3. served' # NoRead
    BY <2>2, RegionRaftAssumption DEF Reads
  <2> HIDE DEF e, f, s
  <2>4. /\ Committed' = [Committed EXCEPT ![r.id] = f.commit]
        /\ f.commit = r.commit => Committed' = Committed
        /\ Committed'[r.id] = f.commit
    BY <1>3, <1>4, <2>1, OneRegionLog
  <2>5. r.id \in DOMAIN Committed /\ Committed[r.id] = r.commit
    BY LogHere
  <2> HIDE DEF r
  <2>6. Observed' = [region |-> r.id, index |-> Committed'[r.id]]
    BY <1>3, <1>4, <2>1, <2>3, <2>4 DEF Observed
  <2>7. Committed' = Committed \/ Committed' = [Committed EXCEPT ![r.id] = Committed[r.id] + 1]
    BY <1>2, <1>3, <2>4, <2>5
  <2>8. Log!Read(r.id)
    BY <2>6, <2>7 DEF Log!Read
  <2>9. QED
    BY <2>5, <2>8 DEF LogStep, Log!Next
<1>6. CASE ~LeaderAvailable(r)
  <2>1. regions' = [regions EXCEPT ![i] = e] /\ served' = NoRead
    BY <1>6 DEF ReadRegion
  <2>2. QED
    BY <1>2, <2>1, GrowsOrIdles
<1>7. QED
  BY <1>5, <1>6

LEMMA MarkStoreDownLog ==
  ASSUME IInv, NEW i \in Positions, MarkStoreDown(i)
  PROVE  LogStep
<1> DEFINE st == regions[i].leader
           L == Len(regions)
<1>1. regions \in Seq(Region) /\ L \in Nat /\ Positions = 1..L /\ IsLog(regions, Committed)
  <2>1. RegionsOK(regions, storeUp) /\ IsLog(regions, Committed)
    BY LogHere
  <2>2. QED
    BY <2>1 DEF RegionsOK, Positions
<1>2. regions' = [j \in 1..L |-> PeerDown(regions[j], st)] /\ served' = NoRead
  BY <1>1 DEF MarkStoreDown
<1>3. RegionsOK(regions', storeUp') /\ Partition(regions')
  BY MarkStoreDownStep, NextByRegion
<1>4. Len(regions') = L
  <2>1. regions' \in Seq(Region) /\ DOMAIN regions' = 1..L
    BY <1>2, <1>3 DEF RegionsOK
  <2>2. QED
    BY <1>1, <2>1, LenProperties
<1>5. ASSUME NEW j \in 1..L
      PROVE  regions'[j].id = regions[j].id /\ regions'[j].commit = regions[j].commit
  <2>1. regions[j] \in Region
    BY <1>1
  <2>2. PeerDown(regions[j], st).id = regions[j].id
    BY <2>1 DEF PeerDown, UpdateRegionHealth, Region
  <2>3. QED
    BY <1>2, <2>1, <2>2, PeerDownGrowth
<1>6. IdsOf(regions') = IdsOf(regions)
  BY <1>4, <1>5 DEF IdsOf
<1>7. IsLog(regions', Committed)
  BY <1>1, <1>4, <1>5, <1>6 DEF IsLog
<1>8. IsLog(regions', Committed')
  <2> DEFINE rs == regions'
             up == storeUp'
  <2>1. RegionsOK(rs, up) /\ Partition(rs)
    BY <1>3
  <2> HIDE DEF rs, up
  <2>2. IsLog(rs, LogOf(rs))
    BY <2>1, LogOfRegions
  <2>3. QED
    BY <2>2, CommittedIsLog DEF rs
<1>9. Committed' = Committed
  BY <1>7, <1>8, LogIsUnique
<1>10. Observed' = NoRead
  BY <1>2 DEF Observed
<1>11. QED
  BY <1>9, <1>10 DEF LogStep, Log!Next, Log!Idle

LEMMA SplitRegionLog ==
  ASSUME IInv, NEW i \in Positions, SplitRegion(i)
  PROVE  LogStep
<1> DEFINE r == regions[i]
           p == Replicate(r)
           child == NextRegionId
           lo == LowerHalf(p, child)
           hi == UpperHalf(p)
           L == Len(regions)
           n == p.commit
<1>1. r \in Region /\ GroupOK(r) /\ r.commit \in Nat
  BY RegionAt DEF Region
<1>2. GroupOK(p) /\ SameShape(r, p) /\ p \in Region
  BY <1>1, ReplicateOK DEF GroupOK
<1>3. served' = NoRead /\ Observed' = NoRead
  BY DEF SplitRegion, Observed
<1>4. CASE ~LeaderAvailable(r)
  <2>1. regions' = [regions EXCEPT ![i] = p]
    BY <1>4 DEF SplitRegion
  <2>2. p.commit = r.commit
    BY <1>1, <1>4, ReplicateGrowth
  <2>3. QED
    BY <1>2, <1>3, <2>1, <2>2, GrowsOrIdles
<1>5. CASE LeaderAvailable(r)
  <2>1. n \in {r.commit + 1, r.commit + 2}
    BY <1>1, <1>5, ReplicateGrowth
  <2>2. /\ RegionsOK(regions, storeUp) /\ Partition(regions) /\ IsLog(regions, Committed)
        /\ regions \in Seq(Region) /\ L \in Nat /\ i \in 1..L
        /\ r.id \in DOMAIN Committed /\ Committed[r.id] = r.commit
    <3>1. /\ RegionsOK(regions, storeUp) /\ Partition(regions) /\ IsLog(regions, Committed)
          /\ i \in 1..L /\ r.id \in DOMAIN Committed /\ Committed[r.id] = r.commit
      BY LogHere
    <3>2. regions \in Seq(Region)
      BY <3>1 DEF RegionsOK
    <3>3. QED
      BY <3>1, <3>2
  <2>3. child = L
    BY <2>2, NextIdFresh
  <2>4. /\ lo.id = child /\ lo.commit = n
        /\ hi.id = r.id /\ hi.commit = n
    BY <1>2 DEF LowerHalf, UpperHalf, Region, SameShape
  <2>5. regions' = Splice(i, lo, hi)
    BY <1>5 DEF SplitRegion
  <2>6. RegionsOK(regions', storeUp') /\ Partition(regions')
    BY SplitRegionStep, NextByRegion
  <2>7. IsLog(regions', Committed')
    <3> DEFINE rs == regions'
               up == storeUp'
    <3>1. RegionsOK(rs, up) /\ Partition(rs)
      BY <2>6
    <3> HIDE DEF rs, up
    <3>2. IsLog(rs, LogOf(rs))
      BY <3>1, LogOfRegions
    <3>3. QED
      BY <3>2, CommittedIsLog DEF rs
  <2> HIDE DEF lo, hi, n, child, p
  <2>8. /\ regions' = [j \in 1..(L + 1) |->
                         IF j < i THEN regions[j]
                         ELSE IF j = i THEN lo
                         ELSE IF j = i + 1 THEN hi
                         ELSE regions[j - 1]]
        /\ Len(regions') = L + 1
    <3>1. regions' = [j \in 1..(L + 1) |->
                        IF j < i THEN regions[j]
                        ELSE IF j = i THEN lo
                        ELSE IF j = i + 1 THEN hi
                        ELSE regions[j - 1]]
      BY <2>5 DEF Splice
    <3>2. regions' \in Seq(Region) /\ DOMAIN regions' = 1..(L + 1)
      BY <2>6, <3>1 DEF RegionsOK
    <3>3. QED
      BY <2>2, <3>1, <3>2, LenProperties
  <2> DEFINE F == [x \in DOMAIN Committed \cup {child} |->
                     IF x \in {r.id, child} THEN n ELSE Committed[x]]
  <2> HIDE DEF r, L
  <2>9. /\ regions'[i] = lo /\ regions'[i + 1] = hi
        /\ \A j \in 1..L : j < i => regions'[j] = regions[j]
        /\ \A j \in 1..L : j > i => regions'[j + 1] = regions[j]
        /\ i \in 1..(L + 1) /\ i + 1 \in 1..(L + 1)
    <3>1. \A j \in 1..L : j > i => /\ j + 1 \in 1..(L + 1) /\ ~(j + 1 < i) /\ j + 1 # i
                                   /\ j + 1 # i + 1 /\ (j + 1) - 1 = j
      BY <2>2
    <3>2. QED
      BY <2>2, <2>8, <3>1
  <2>10. \A k \in 1..(L + 1) : \/ k = i \/ k = i + 1
                               \/ k \in 1..L /\ k < i
                               \/ k - 1 \in 1..L /\ k - 1 > i /\ (k - 1) + 1 = k
    BY <2>2
  <2>11. /\ DOMAIN Committed = IdsOf(regions)
         /\ \A j \in 1..L : /\ Committed[regions[j].id] = regions[j].commit
                            /\ regions[j].id \in IdsOf(regions)
                            /\ regions[j].id # child
                            /\ (regions[j].id = r.id => j = i)
    <3>1. \A j \in 1..L : regions[j].id < L /\ regions[j].id \in Nat
      <4>1. \A j \in 1..L : regions[j] \in Region
        BY <2>2 DEF L
      <4>2. \A j \in 1..L : regions[j].id < L
        BY <2>2 DEF Partition, L
      <4>3. QED
        BY <4>1, <4>2 DEF Region
    <3>2. \A j \in 1..L : regions[j].id = r.id => j = i
      BY <2>2 DEF Partition, r, L
    <3>3. DOMAIN Committed = IdsOf(regions)
      BY <2>2 DEF IsLog
    <3>4. \A j \in 1..L : regions[j].id # child
      BY <2>2, <2>3, <3>1
    <3>5. \A j \in 1..L : regions[j].id \in IdsOf(regions)
      BY DEF IdsOf, L
    <3>6. \A j \in 1..L : Committed[regions[j].id] = regions[j].commit
      BY <2>2 DEF IsLog, L
    <3>7. QED
      BY <3>2, <3>3, <3>4, <3>5, <3>6
  <2>12. IdsOf(regions') = IdsOf(regions) \cup {child}
    <3>1. \A x \in IdsOf(regions') : x \in IdsOf(regions) \cup {child}
      <4> SUFFICES ASSUME NEW k \in 1..(L + 1)
                   PROVE  regions'[k].id \in IdsOf(regions) \cup {child}
        BY <2>8 DEF IdsOf
      <4>1. CASE k = i
        BY <2>4, <2>9, <4>1
      <4>2. CASE k = i + 1
        BY <2>2, <2>4, <2>9, <2>11, <4>2
      <4>3. CASE k \in 1..L /\ k < i
        BY <2>9, <2>11, <4>3
      <4>4. CASE k - 1 \in 1..L /\ k - 1 > i /\ (k - 1) + 1 = k
        BY <2>9, <2>11, <4>4
      <4>5. QED
        BY <2>10, <4>1, <4>2, <4>3, <4>4
    <3>2. child \in IdsOf(regions')
      BY <2>4, <2>8, <2>9 DEF IdsOf
    <3>3. ASSUME NEW j \in 1..L
          PROVE  regions[j].id \in IdsOf(regions')
      <4>1. CASE j < i
        <5>1. j \in 1..(L + 1)
          BY <2>2
        <5>2. QED
          BY <2>8, <2>9, <4>1, <5>1 DEF IdsOf
      <4>2. CASE j = i
        BY <2>4, <2>8, <2>9, <4>2 DEF IdsOf, r
      <4>3. CASE j > i
        <5>1. j + 1 \in 1..(L + 1)
          BY <2>2
        <5>2. QED
          BY <2>8, <2>9, <4>3, <5>1 DEF IdsOf
      <4>4. QED
        BY <2>2, <4>1, <4>2, <4>3
    <3>4. QED
      BY <3>1, <3>2, <3>3 DEF IdsOf, L
  <2>13. IsLog(regions', F)
    <3>1. DOMAIN F = IdsOf(regions') /\ F = [x \in IdsOf(regions') |-> F[x]]
      BY <2>11, <2>12
    <3>2. /\ F[child] = n /\ F[r.id] = n
          /\ \A j \in 1..L : j # i => F[regions[j].id] = regions[j].commit
      BY <2>2, <2>11
    <3> HIDE DEF F
    <3>3. ASSUME NEW k \in 1..(L + 1)
          PROVE  F[regions'[k].id] = regions'[k].commit
      <4>1. CASE k = i
        BY <2>4, <2>9, <3>2, <4>1
      <4>2. CASE k = i + 1
        BY <2>4, <2>9, <3>2, <4>2
      <4>3. CASE k \in 1..L /\ k < i
        BY <2>2, <2>9, <3>2, <4>3
      <4>4. CASE k - 1 \in 1..L /\ k - 1 > i /\ (k - 1) + 1 = k
        <5>1. regions'[k] = regions[k - 1] /\ k - 1 # i
          BY <2>2, <2>9, <4>4
        <5>2. QED
          BY <3>2, <4>4, <5>1
      <4>5. QED
        BY <2>10, <4>1, <4>2, <4>3, <4>4
    <3>4. QED
      BY <2>8, <3>1, <3>3 DEF IsLog
  <2>14. Committed' = F
    BY <2>7, <2>13, LogIsUnique
  <2>15. child \in DOMAIN Committed' \ DOMAIN Committed
    <3>1. child \in DOMAIN F
      OBVIOUS
    <3>2. child \notin DOMAIN Committed
      BY <2>11 DEF IdsOf, L
    <3>3. QED
      BY <2>14, <3>1, <3>2
  <2>16. n \in Log!Grown(r.id)
    BY <2>1, <2>2 DEF Log!Grown, r
  <2>17. Log!Fork(r.id)
    BY <1>3, <2>14, <2>15, <2>16 DEF Log!Fork
  <2>18. QED
    BY <2>2, <2>17 DEF LogStep, Log!Next
<1>6. QED
  BY <1>4, <1>5

LEMMA LogInit ==
  ASSUME Init
  PROVE  Log!Init
<1>1. IInv /\ served = NoRead
  BY InitOK DEF Init
<1>2. RegionsOK(regions, storeUp) /\ Partition(regions)
  BY <1>1, IInvByRegion
<1>3. IsLog(regions, Committed)
  BY <1>2, LogOfRegions, CommittedIsLog
<1>4. /\ DOMAIN Committed = IdsOf(regions)
      /\ \A j \in 1..Len(regions) : /\ Committed[regions[j].id] = regions[j].commit
                                    /\ regions[j].id \in Nat /\ regions[j].commit \in Nat
  <2>1. \A j \in 1..Len(regions) : regions[j] \in Region
    BY <1>2 DEF RegionsOK
  <2>2. QED
    BY <1>3, <2>1 DEF IsLog, Region
<1>5. DOMAIN Committed # {}
  <2>1. 1 \in 1..Len(regions)
    BY <1>2 DEF RegionsOK, Partition
  <2>2. QED
    BY <1>4, <2>1 DEF IdsOf
<1>6. \A id \in DOMAIN Committed : id \in Nat /\ Committed[id] \in Nat
  BY <1>4 DEF IdsOf
<1>7. Observed = NoRead
  BY <1>1 DEF Observed
<1>8. QED
  BY <1>5, <1>6, <1>7 DEF Log!Init

LEMMA LogStepOK ==
  ASSUME IInv, [Next]_vars
  PROVE  LogStep
<1>1. ASSUME NEW i \in Positions, RequireLeader(i)
      PROVE  LogStep
  <2>1. regions[i] \in Region /\ GroupOK(regions[i])
    BY RegionAt
  <2>2. QED
    BY <1>1, <2>1, EnsureLeaderOK, EnsureLeaderGrowth, GrowsOrIdles DEF RequireLeader
<1>2. ASSUME NEW i \in Positions, Mutate(i)
      PROVE  LogStep
  <2>1. regions[i] \in Region /\ GroupOK(regions[i])
    BY RegionAt
  <2>2. QED
    BY <1>2, <2>1, ReplicateOK, ReplicateGrowth, GrowsOrIdles DEF Mutate
<1>3. CASE UNCHANGED vars
  BY <1>3 DEF vars, LogStep, Committed, Observed, RegionIds, Positions
<1>4. QED
  BY <1>1, <1>2, <1>3, ReadRegionLog, MarkStoreDownLog, SplitRegionLog DEF Next

(* The replicated Regions implement RegionLog: whatever elections,         *)
(* failures and splits do, the prefix that two voters hold only grows, a   *)
(* read observes all of it, and a child starts from its parent's.          *)
THEOREM RegionsImplementLog == Spec => ImplementsRegionLog
<1>1. Init => Log!Init
  BY LogInit
<1>2. IInv /\ [Next]_vars => [Log!Next]_(Log!logVars)
  BY LogStepOK DEF LogStep, Log!logVars
<1>3. QED
  BY <1>1, <1>2, Inductive, PTL DEF Spec, ImplementsRegionLog, Log!Spec
=============================================================================

----------------------------- MODULE RaftGroup -----------------------------
(***************************************************************************)
(* One Region as src/tidb/model/simulation.ts keeps it: a key range, an    *)
(* epoch, and a three-voter Raft group reduced to indexes.  A voter's log  *)
(* is the prefix 1..match[s] of the Region's log; entries have no content. *)
(* Every operator is a pure function on a Region record, because the code  *)
(* mutates one Region object synchronously; RegionRaft.tla and             *)
(* Simulation.tla turn them into actions.                                  *)
(***************************************************************************)
EXTENDS Integers

(* tikv-1, tikv-2, tikv-3: the numbers order the peers array, and also     *)
(* give the order storeId.localeCompare uses to break ties.                *)
Store == 1..3

(* The code's quorum is the literal 2 of three voters.                     *)
HasQuorum(S) == \E a, b \in S : a # b

Health == {"healthy", "degraded", "unavailable"}

Region == [id          : Nat,
           startKey    : Nat,
           endKey      : Nat,
           epoch       : Nat,
           leader      : Store,
           role        : [Store -> {"leader", "follower"}],
           term        : Nat,
           commit      : Nat,
           applied     : Nat,
           match       : [Store -> Nat],
           peerApplied : [Store -> Nat],
           healthy     : [Store -> BOOLEAN],
           health      : Health]

Live(r) == {s \in Store : r.healthy[s]}

-----------------------------------------------------------------------------
(* updateRegionHealth *)
HealthOf(r) ==
  IF ~HasQuorum(Live(r))
  THEN "unavailable"
  ELSE IF r.healthy[r.leader] /\ Live(r) = Store THEN "healthy" ELSE "degraded"

UpdateRegionHealth(r) == [r EXCEPT !.health = HealthOf(r)]

-----------------------------------------------------------------------------
(* ensureLeader *)

(* The recorded leader may keep leading.                                   *)
LeaderUsable(r) == r.healthy[r.leader] /\ r.match[r.leader] >= r.commit

(* Mutant: the candidate must be strictly ahead of the commit index.       *)
CandidatesStrict(r) == {s \in Live(r) : r.match[s] > r.commit}

Candidates(r) == {s \in Live(r) : r.match[s] >= r.commit}

(* The sort order: longest log first, then the smallest store id.          *)
Precedes(r, s, o) ==
  \/ r.match[s] > r.match[o]
  \/ r.match[s] = r.match[o] /\ s <= o

Replacement(r) ==
  CHOOSE s \in Candidates(r) : \A o \in Candidates(r) : Precedes(r, s, o)

(* Mutant: the leader changes inside its term.                             *)
ElectInTerm(r, w) ==
  LET noOp == r.match[w] + 1
  IN  UpdateRegionHealth(
        [r EXCEPT !.leader = w,
                  !.role = [s \in Store |-> IF s = w THEN "leader" ELSE "follower"],
                  !.commit = noOp,
                  !.applied = noOp,
                  !.match = [s \in Store |-> IF r.healthy[s] THEN noOp ELSE r.match[s]],
                  !.peerApplied = [r.peerApplied EXCEPT ![w] = noOp]])

(* Election of w, then the collapsed catch-up and current-term no-op: every *)
(* live voter holds the no-op, only the new leader applies it.             *)
Elect(r, w) ==
  LET noOp == r.match[w] + 1
  IN  UpdateRegionHealth(
        [r EXCEPT !.leader = w,
                  !.role = [s \in Store |-> IF s = w THEN "leader" ELSE "follower"],
                  !.term = r.term + 1,
                  !.commit = noOp,
                  !.applied = noOp,
                  !.match = [s \in Store |-> IF r.healthy[s] THEN noOp ELSE r.match[s]],
                  !.peerApplied = [r.peerApplied EXCEPT ![w] = noOp]])

(* Mutant: a live leader is enough, whatever happened to the quorum.       *)
LeaderAvailableAlone(r) == LeaderUsable(r) \/ Candidates(r) # {}

(* The Boolean ensureLeader returns.                                       *)
LeaderAvailable(r) ==
  HasQuorum(Live(r)) /\ (LeaderUsable(r) \/ Candidates(r) # {})

(* The Region ensureLeader leaves behind.                                  *)
EnsureLeader(r) ==
  IF ~LeaderAvailable(r) THEN UpdateRegionHealth(r)
  ELSE IF LeaderUsable(r) THEN r
  ELSE Elect(r, Replacement(r))

-----------------------------------------------------------------------------
(* replicateRaft and applyRaftWithoutTrace make the same state changes:    *)
(* every healthy voter catches up to the new entry; with two               *)
(* acknowledgements it commits and all of them apply it.                   *)
AppendEntry(r) ==
  LET next  == r.commit + 1
      acked == [r EXCEPT !.match =
                  [s \in Store |-> IF r.healthy[s] THEN next ELSE r.match[s]]]
  IN  UpdateRegionHealth(
        IF HasQuorum(Live(r))
        THEN [acked EXCEPT !.commit = next,
                           !.applied = next,
                           !.peerApplied = [s \in Store |->
                              IF r.healthy[s] THEN next ELSE r.peerApplied[s]]]
        ELSE acked)

Replicate(r) == IF LeaderAvailable(r) THEN AppendEntry(EnsureLeader(r)) ELSE EnsureLeader(r)

-----------------------------------------------------------------------------
(* The detailed cross-Region transaction persists on the leader and the    *)
(* first live follower only; the third voter is left behind.               *)
FirstFollower(r) ==
  CHOOSE s \in Live(r) \ {r.leader} : \A o \in Live(r) \ {r.leader} : s <= o

TwoVoterAppend(r) ==
  LET next == r.commit + 1
      persisted == {r.leader, FirstFollower(r)}
  IN  [r EXCEPT !.commit = next,
                !.applied = next,
                !.match = [s \in Store |-> IF s \in persisted THEN next ELSE r.match[s]],
                !.peerApplied = [s \in Store |->
                                   IF s \in persisted THEN next ELSE r.peerApplied[s]]]

-----------------------------------------------------------------------------
(* traceRead with readPolicy "follower": the first live follower obtains   *)
(* the ReadIndex, catches up to it and applies it before it serves.        *)
CatchUp(r, s) ==
  [r EXCEPT !.match[s] = IF r.match[s] >= r.commit THEN r.match[s] ELSE r.commit,
            !.peerApplied[s] =
               IF r.peerApplied[s] >= r.commit THEN r.peerApplied[s] ELSE r.commit]

ServingStore(r, policy) ==
  IF policy = "follower" /\ Live(r) \ {r.leader} # {} THEN FirstFollower(r) ELSE r.leader

(* Mutant: the follower serves before it reached the ReadIndex.            *)
ReadFromStale(r, policy) == r

ReadFrom(r, policy) ==
  LET s == ServingStore(r, policy)
  IN  IF s = r.leader THEN r ELSE CatchUp(r, s)

-----------------------------------------------------------------------------
(* One peer goes down with its Store (markStoreDown, for one Region).      *)
PeerDown(r, s) == UpdateRegionHealth([r EXCEPT !.healthy[s] = FALSE])

(* splitRegion, once the admin command has committed: the sibling gets the *)
(* lower half and a copy of the group, the Region keeps the upper half.    *)
Midpoint(r) == (r.startKey + r.endKey) \div 2

(* Mutant: the two halves leave a key between them.                        *)
UpperHalfGap(r) == [r EXCEPT !.startKey = Midpoint(r) + 1, !.epoch = r.epoch + 1]

UpperHalf(r) == [r EXCEPT !.startKey = Midpoint(r), !.epoch = r.epoch + 1]

LowerHalf(r, newId) ==
  [UpperHalf(r) EXCEPT !.id = newId, !.startKey = r.startKey, !.endKey = Midpoint(r)]

-----------------------------------------------------------------------------
(* Facts about one Region that every operation above keeps.                *)

(* Two voters hold the committed prefix and no voter holds more than it.   *)
Durable(r) ==
  /\ HasQuorum({s \in Store : r.match[s] >= r.commit})
  /\ \A s \in Store : r.match[s] <= r.commit /\ r.peerApplied[s] <= r.match[s]

(* The recorded leader holds and has applied all of it, and it is the only *)
(* peer with the leader role.                                              *)
LeaderCurrent(r) ==
  /\ r.match[r.leader] = r.commit
  /\ r.peerApplied[r.leader] = r.commit
  /\ r.applied = r.commit
  /\ \A s \in Store : r.role[s] = "leader" <=> s = r.leader

HealthLabelled(r) == r.health = HealthOf(r)
=============================================================================

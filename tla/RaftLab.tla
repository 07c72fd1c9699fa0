------------------------------ MODULE RaftLab ------------------------------
(***************************************************************************)
(* reduceRaftLabState of src/tidb/model/raft-lab.ts: one Region of three   *)
(* voters loses a store, elects a new leader, confirms it with a no-op     *)
(* entry, and the TiDB server retries its request there.  Each delta kind  *)
(* and action is an action here; a delta that fails a check of the reducer *)
(* throws and changes nothing, so the checks are the guards.  Deltas may   *)
(* arrive in any order.                                                    *)
(*                                                                         *)
(* After every delta the code runs validateRaftLab over the whole state.   *)
(* Two of its clauses can really fire, both in LookUpRoute; that no other  *)
(* ever does is the invariant LabValid.                                    *)
(***************************************************************************)
EXTENDS Integers, FiniteSets

CONSTANTS Stores,       \* the voters; store ids are compared, so numbers
          Definitions,  \* what the log of a peer may look like at the start
          MaxTerm,      \* bound on the term a campaign may reach
          None          \* JavaScript's null

ASSUME RaftLabAssumption ==
  /\ Stores \subseteq Nat
  /\ IsFiniteSet(Stores)
  /\ Cardinality(Stores) = 3
  /\ MaxTerm \in Nat \ {0}
  /\ None \notin Nat
  /\ \A d \in Definitions :
       /\ d \in [lastIndex : Nat, lastTerm : Nat, commit : Nat, applied : Nat, term : Nat]
       /\ d.applied <= d.commit /\ d.commit <= d.lastIndex
       /\ d.term \in 1..MaxTerm /\ d.lastTerm <= d.term
       /\ d.lastIndex = 0 <=> d.lastTerm = 0

VARIABLES phase,     \* what the trace shows
          oldLeader,
          leader,
          failed,
          peers,     \* one record per voter
          election,
          log,       \* progress of the no-op
          request,
          pd

vars == <<phase, oldLeader, leader, failed, peers, election, log, request, pd>>

Quorum == 2
Live == {s \in Stores : peers[s].healthy}

Peer == [role : {"leader", "follower", "pre_candidate", "candidate", "offline"},
         healthy : BOOLEAN,
         term : 1..MaxTerm,
         voted : Stores \cup {None},
         lastIndex : Nat, lastTerm : Nat, match : Nat, commit : Nat, applied : Nat]

Election == [phase : {"idle", "timeout", "pre_vote", "vote", "elected"},
             candidate : Stores \cup {None},
             preVotes : SUBSET Stores,
             votes : SUBSET Stores]

Noop == [index : Nat \cup {None}, term : Nat \cup {None},
         persisted : SUBSET Stores, committed : BOOLEAN, applied : SUBSET Stores]

Request == [attempt : 0..2,
            cached : Stores \cup {None},
            cache : {"cached", "invalidated", "refreshed"},
            status : {"idle", "sent", "transport_error", "backoff", "retrying",
                      "served", "completed"}]

Phases == {"healthy", "requesting", "leader_lost", "backoff", "timeout", "pre_vote",
           "vote", "elected", "confirming", "routing", "serving", "complete"}

-----------------------------------------------------------------------------
(* compareLog(p, q) >= 0.  Mutant: only the term of the last entry counts. *)
NewerTerm(p, q) == p.lastTerm >= q.lastTerm

UpToDate(p, q) ==
  \/ p.lastTerm > q.lastTerm
  \/ p.lastTerm = q.lastTerm /\ p.lastIndex >= q.lastIndex

(* createRaftLabState takes any three logs; the ones considered are those  *)
(* a Raft group can be in, where whoever a majority could elect, and the   *)
(* leader it has, holds every committed entry.  That is Raft's own order   *)
(* of logs, stated apart from the reducer's comparison.                    *)
Ahead(d, s, t) ==
  \/ d[t].lastTerm < d[s].lastTerm
  \/ d[t].lastTerm = d[s].lastTerm /\ d[t].lastIndex <= d[s].lastIndex

Possible(d, l) ==
  \A s \in Stores :
    (s = l \/ Cardinality({t \in Stores : Ahead(d, s, t)}) >= Quorum) =>
      \A t \in Stores : d[t].commit <= d[s].lastIndex

PeerOf(d, isLeader) ==
  [role |-> IF isLeader THEN "leader" ELSE "follower", healthy |-> TRUE,
   term |-> d.term, voted |-> None, lastIndex |-> d.lastIndex, lastTerm |-> d.lastTerm,
   match |-> d.lastIndex, commit |-> d.commit, applied |-> d.applied]

Init ==
  /\ oldLeader \in Stores
  /\ \E d \in [Stores -> Definitions] :
       /\ Possible(d, oldLeader)
       /\ peers = [s \in Stores |-> PeerOf(d[s], s = oldLeader)]
  /\ phase = "healthy"
  /\ leader = oldLeader
  /\ failed = None
  /\ election = [phase |-> "idle", candidate |-> None, preVotes |-> {}, votes |-> {}]
  /\ log = [index |-> None, term |-> None, persisted |-> {}, committed |-> FALSE,
            applied |-> {}]
  /\ request = [attempt |-> 0, cached |-> oldLeader, cache |-> "cached", status |-> "idle"]
  /\ pd = [observed |-> None, lookedUp |-> FALSE]

-----------------------------------------------------------------------------
(* raft_peer_health: the slice models one failure, of any one store.       *)
Fail(s) ==
  /\ peers[s].healthy
  /\ failed = None
  /\ peers' = [peers EXCEPT ![s].healthy = FALSE, ![s].role = "offline"]
  /\ failed' = s
  /\ leader' = IF leader = s THEN None ELSE leader
  /\ phase' = "leader_lost"
  /\ UNCHANGED <<oldLeader, election, log, request, pd>>

(* raft_election_timeout *)
Eligible == {s \in Live : \A t \in Live : UpToDate(peers[s], peers[t])}

Timeout(c) ==
  /\ leader = None
  /\ Cardinality(Live) >= Quorum
  /\ c \in Eligible
  /\ \A s \in Eligible : c <= s
  /\ phase' = "timeout"
  /\ election' = [election EXCEPT !.phase = "timeout", !.candidate = c]
  /\ UNCHANGED <<oldLeader, leader, failed, peers, log, request, pd>>

(* raft_pre_vote *)
StartPreVote(c) ==
  /\ election.candidate = c
  /\ c \in Live
  /\ election.phase = "timeout"
  /\ peers' = [peers EXCEPT ![c].role = "pre_candidate"]
  /\ phase' = "pre_vote"
  /\ election' = [election EXCEPT !.phase = "pre_vote", !.preVotes = {c}]
  /\ UNCHANGED <<oldLeader, leader, failed, log, request, pd>>

NotStale(ts, v) == ts >= peers[v].term

GrantPreVote(c, v) ==
  /\ election.candidate = c
  /\ {c, v} \subseteq Live
  /\ election.phase = "pre_vote"
  /\ LET next == peers[c].term + 1
     IN  /\ NotStale(next, v)
         /\ next > peers[v].term \/ peers[v].voted \in {None, c}
  /\ v \notin election.preVotes
  /\ UpToDate(peers[c], peers[v])
  /\ election' = [election EXCEPT !.preVotes = election.preVotes \cup {v}]
  /\ UNCHANGED <<phase, oldLeader, leader, failed, peers, log, request, pd>>

(* raft_term_vote.  Mutant: votes of an earlier round stay counted.        *)
AddVote(c) == election.votes \cup {c}

OwnVote(c) == {c}

BecomeCandidate(c) ==
  /\ election.candidate = c
  /\ c \in Live
  /\ election.phase = "pre_vote"
  /\ Cardinality(election.preVotes) >= Quorum
  /\ peers[c].term < MaxTerm
  /\ peers' = [peers EXCEPT ![c].role = "candidate", ![c].term = peers[c].term + 1,
                            ![c].voted = c]
  /\ phase' = "vote"
  /\ election' = [election EXCEPT !.phase = "vote", !.votes = OwnVote(c)]
  /\ UNCHANGED <<oldLeader, leader, failed, log, request, pd>>

GrantVote(c, v) ==
  /\ election.candidate = c
  /\ {c, v} \subseteq Live
  /\ election.phase = "vote"
  /\ NotStale(peers[c].term, v)
  /\ peers[v].voted = None \/ peers[v].term < peers[c].term
  /\ v \notin election.votes
  /\ UpToDate(peers[c], peers[v])
  /\ peers' = [peers EXCEPT ![v].term = peers[c].term, ![v].voted = c]
  /\ election' = [election EXCEPT !.votes = election.votes \cup {v}]
  /\ UNCHANGED <<phase, oldLeader, leader, failed, log, request, pd>>

(* raft_leader_elected *)
RoleAfter(s, c) ==
  CASE ~peers[s].healthy -> "offline"
    [] peers[s].healthy /\ s = c -> "leader"
    [] OTHER -> "follower"

TermAfter(s, c) ==
  IF peers[s].healthy /\ peers[c].term > peers[s].term THEN peers[c].term ELSE peers[s].term

ElectLeader(c, votes) ==
  /\ leader = None
  /\ c = election.candidate
  /\ votes \subseteq election.votes
  /\ Cardinality(votes) >= Quorum
  /\ peers' = [s \in Stores |->
                 [peers[s] EXCEPT !.role = RoleAfter(s, c), !.term = TermAfter(s, c)]]
  /\ leader' = c
  /\ phase' = "elected"
  /\ election' = [election EXCEPT !.phase = "elected", !.votes = votes]
  /\ UNCHANGED <<oldLeader, failed, log, request, pd>>

-----------------------------------------------------------------------------
(* raft_propose, raft_persist, raft_commit and raft_apply of the no-op.    *)
Propose ==
  /\ leader # None
  /\ election.phase = "elected"
  /\ log.index = None
  /\ LET next == peers[leader].lastIndex + 1
         ts == peers[leader].term
     IN  /\ peers' = [peers EXCEPT ![leader].lastIndex = next, ![leader].lastTerm = ts]
         /\ log' = [log EXCEPT !.index = next, !.term = ts]
  /\ phase' = "confirming"
  /\ UNCHANGED <<oldLeader, leader, failed, election, request, pd>>

Persist(stores) ==
  /\ log.index # None
  /\ stores # {}
  /\ \A s \in stores :
       /\ peers[s].healthy
       /\ peers[s].commit < log.index \/ s \in log.persisted
  /\ peers' = [s \in Stores |->
                 IF s \notin stores THEN peers[s]
                 ELSE [peers[s] EXCEPT !.lastIndex = log.index, !.lastTerm = log.term,
                                       !.match = log.index]]
  /\ log' = [log EXCEPT !.persisted = log.persisted \cup stores]
  /\ UNCHANGED <<phase, oldLeader, leader, failed, election, request, pd>>

Commit ==
  /\ log.index # None
  /\ Cardinality(log.persisted) >= Quorum
  /\ peers' = [s \in Stores |->
                 IF s \in log.persisted /\ peers[s].commit < log.index
                 THEN [peers[s] EXCEPT !.commit = log.index] ELSE peers[s]]
  /\ log' = [log EXCEPT !.committed = TRUE]
  /\ UNCHANGED <<phase, oldLeader, leader, failed, election, request, pd>>

(* Mutant: the entry is applied as soon as it is persisted.                *)
WhenPersisted == log.persisted # {}

WhenCommitted == log.committed

Apply(stores) ==
  /\ WhenCommitted
  /\ stores # {}
  /\ stores \subseteq log.persisted
  /\ stores \cap log.applied = {}
  /\ peers' = [s \in Stores |->
                 IF s \in stores /\ peers[s].applied < log.index
                 THEN [peers[s] EXCEPT !.applied = log.index] ELSE peers[s]]
  /\ log' = [log EXCEPT !.applied = log.applied \cup stores]
  /\ UNCHANGED <<phase, oldLeader, leader, failed, election, request, pd>>

-----------------------------------------------------------------------------
(* raft_pd_state *)
ObserveLeader ==
  /\ leader # None
  /\ election.phase = "elected"
  /\ pd' = [pd EXCEPT !.observed = leader]
  /\ UNCHANGED <<phase, oldLeader, leader, failed, peers, election, log, request>>

(* The last two guards are validateRaftLab's: PD metadata without a leader *)
(* and a phase that leaves "complete" are refused after the fact.          *)
LookUpRoute ==
  /\ pd.observed = leader
  /\ pd' = [pd EXCEPT !.lookedUp = TRUE]
  /\ phase' = "routing"
  /\ leader # None
  /\ request.status # "completed"
  /\ UNCHANGED <<oldLeader, leader, failed, peers, election, log, request>>

(* raft_region_request *)
Move(from, to, show) ==
  /\ request.status = from
  /\ request' = [request EXCEPT !.status = to]
  /\ phase' = show
  /\ UNCHANGED <<oldLeader, leader, failed, peers, election, log, pd>>

Send ==
  /\ request.status = "idle"
  /\ request' = [request EXCEPT !.attempt = 1, !.status = "sent"]
  /\ phase' = "requesting"
  /\ UNCHANGED <<oldLeader, leader, failed, peers, election, log, pd>>

TransportError ==
  /\ failed = oldLeader
  /\ leader = None
  /\ Move("sent", "transport_error", "leader_lost")

BackOff ==
  /\ request.status = "transport_error"
  /\ request' = [request EXCEPT !.cached = None, !.cache = "invalidated", !.status = "backoff"]
  /\ phase' = "backoff"
  /\ UNCHANGED <<oldLeader, leader, failed, peers, election, log, pd>>

Refresh ==
  /\ request.status = "backoff"
  /\ request.cache = "invalidated"
  /\ pd.lookedUp
  /\ leader # None
  /\ request' = [request EXCEPT !.cached = leader, !.cache = "refreshed"]
  /\ phase' = "routing"
  /\ UNCHANGED <<oldLeader, leader, failed, peers, election, log, pd>>

Retry ==
  /\ request.status = "backoff"
  /\ request.cache = "refreshed"
  /\ leader # None
  /\ request' = [request EXCEPT !.attempt = 2, !.status = "retrying"]
  /\ phase' = "serving"
  /\ UNCHANGED <<oldLeader, leader, failed, peers, election, log, pd>>

(* Mutant: any leader serves, confirmed or not.                            *)
AnyLeader == TRUE

Confirmed == leader \in log.applied

Serve ==
  /\ leader # None
  /\ Confirmed
  /\ Move("retrying", "served", "serving")

Complete == Move("served", "completed", "complete")

-----------------------------------------------------------------------------
ElectionStep ==
  \/ \E s \in Stores : Fail(s)
  \/ \E c \in Stores :
       \/ Timeout(c)
       \/ StartPreVote(c)
       \/ BecomeCandidate(c)
       \/ \E v \in Stores : GrantPreVote(c, v) \/ GrantVote(c, v)
       \/ \E votes \in SUBSET Stores : ElectLeader(c, votes)

LogStep ==
  \/ Propose
  \/ Commit
  \/ \E stores \in SUBSET Stores : Persist(stores) \/ Apply(stores)

RequestStep ==
  \/ ObserveLeader \/ LookUpRoute
  \/ Send \/ TransportError \/ BackOff \/ Refresh \/ Retry \/ Serve \/ Complete

Next == ElectionStep \/ LogStep \/ RequestStep

Spec == Init /\ [][Next]_vars

-----------------------------------------------------------------------------
TypeOK ==
  /\ phase \in Phases
  /\ oldLeader \in Stores
  /\ leader \in Stores \cup {None}
  /\ failed \in Stores \cup {None}
  /\ peers \in [Stores -> Peer]
  /\ election \in Election
  /\ log \in Noop
  /\ log.index = None <=> log.term = None
  /\ request \in Request
  /\ pd \in [observed : Stores \cup {None}, lookedUp : BOOLEAN]

(* validateRaftLab never throws, but where LookUpRoute says: indexes stay  *)
(* ordered, one healthy leader at most, votes and progress of the no-op    *)
(* agree with what the peers themselves recorded.                          *)
IndexesOrdered ==
  \A s \in Stores :
    LET p == peers[s]
    IN  /\ p.applied <= p.commit /\ p.commit <= p.lastIndex /\ p.match <= p.lastIndex
        /\ p.lastTerm <= p.term
        /\ p.lastIndex = 0 <=> p.lastTerm = 0

RolesAgree ==
  /\ \A s \in Stores : peers[s].role = "offline" <=> ~peers[s].healthy
  /\ \A s \in Stores : peers[s].role = "leader" <=> leader = s
  /\ failed # None => ~peers[failed].healthy

ElectionAgrees ==
  /\ election.preVotes \cup election.votes \subseteq Live
  /\ election.candidate # None => election.candidate \in Live
  /\ election.phase = "elected" =>
       Cardinality(election.votes) >= Quorum /\ leader = election.candidate

NoopAgrees ==
  /\ log.persisted # {} => log.index # None
  /\ \A s \in log.persisted :
       s \in Live /\ peers[s].lastIndex >= log.index /\ peers[s].lastTerm = log.term
  /\ log.committed => Cardinality(log.persisted) >= Quorum
  /\ \A s \in log.applied :
       log.committed /\ s \in log.persisted /\ peers[s].applied >= log.index

RequestAgrees ==
  /\ request.attempt = 2 => request.cache = "refreshed" /\ request.cached = leader
  /\ request.status = "completed" =>
       phase = "complete" /\ request.attempt = 2 /\ leader \in log.applied
  /\ pd.lookedUp => pd.observed = leader /\ leader # None

LabValid ==
  TypeOK /\ IndexesOrdered /\ RolesAgree /\ ElectionAgrees /\ NoopAgrees /\ RequestAgrees

(* Whoever leads holds every entry any peer has committed, whatever the    *)
(* three logs looked like when the old leader failed, and a committed      *)
(* no-op lies above all of them.                                           *)
LeaderIsComplete ==
  /\ leader # None => \A s \in Stores : peers[s].commit <= peers[leader].lastIndex
  /\ log.committed => \A s \in Stores : peers[s].commit <= log.index

(* The request is answered only by a leader that was elected after the     *)
(* failure, that applied an entry of its own term, and that PD named.      *)
ServedByConfirmedLeader ==
  request.status \in {"served", "completed"} =>
    /\ leader \in Live \ {oldLeader}
    /\ log.index # None
    /\ peers[leader].applied >= log.index
    /\ log.term = peers[leader].term
    /\ Cardinality({s \in Stores : peers[s].commit >= log.index}) >= Quorum
    /\ pd.observed = leader /\ request.cached = leader

(* A peer keeps its word: no step takes a term, a commit or an applied     *)
(* index back or changes a vote within its term, and leadership changes    *)
(* hands only on votes that a majority cast in the winner's own term - a   *)
(* lost majority of an earlier round does not count.                       *)
PeersKeepTheirWord ==
  [][/\ \A s \in Stores :
          /\ peers'[s].term >= peers[s].term
          /\ peers'[s].commit >= peers[s].commit
          /\ peers'[s].applied >= peers[s].applied
          /\ peers'[s].term = peers[s].term /\ peers[s].voted # None =>
               peers'[s].voted = peers[s].voted
     /\ leader' # leader /\ leader' # None =>
          Cardinality({s \in election'.votes :
                         peers[s].voted = leader' /\ peers[s].term = peers[leader'].term})
            >= Quorum]_vars
=============================================================================

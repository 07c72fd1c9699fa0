--------------------------- MODULE RaftLabProofs ---------------------------
(***************************************************************************)
(* Proofs about RaftLab for any three stores, any logs they may start      *)
(* with and any bound on terms.  One store fails at most, so the election  *)
(* is one contest, however many rounds it takes: the two survivors' logs   *)
(* stay as they were until somebody leads, and the timeout always names    *)
(* the same candidate.  What the invariant adds to validateRaftLab is that *)
(* contest (Contest, Ballots), the logs it was decided on (LogsKept,       *)
(* NoopShape), and what the request has seen (RequestShape).               *)
(***************************************************************************)
EXTENDS RaftLab, FiniteSetTheorems, TLAPS

Health == \A s \in Stores : peers[s].healthy <=> s # failed

Campaigning == {"timeout", "pre_vote", "vote"}

(* Who leads at which stage of the election.                               *)
Contest ==
  /\ leader \in Live \cup {None}
  /\ leader = None => failed = oldLeader
  /\ election.phase # "idle" => failed = oldLeader /\ election.candidate \in Live
  /\ election.phase = "idle" =>
       /\ leader \in {None, oldLeader}
       /\ election.candidate = None /\ election.preVotes = {} /\ election.votes = {}
  /\ election.phase \in Campaigning => leader = None
  /\ election.phase = "elected" => leader = election.candidate

First(c) == c \in Eligible /\ \A s \in Eligible : c <= s

Ballots ==
  /\ election.preVotes \cup election.votes \subseteq Live
  /\ election.phase \in Campaigning => First(election.candidate)
  /\ election.phase \in Campaigning => \A v \in election.votes :
       /\ peers[v].voted = election.candidate
       /\ peers[v].term = peers[election.candidate].term
  /\ election.phase = "elected" =>
       /\ Cardinality(election.votes) >= Quorum
       /\ \A s \in Live : peers[leader].term <= peers[s].term

(* Possible, of the logs as they are while nobody has appended to them.    *)
HoldsAllCommitted(s) == \A t \in Stores : peers[t].commit <= peers[s].lastIndex

LogsKept ==
  /\ leader # None => HoldsAllCommitted(leader)
  /\ election.phase # "elected" => \A s \in Stores :
       Cardinality({t \in Stores : UpToDate(peers[s], peers[t])}) >= Quorum => HoldsAllCommitted(s)

NoopShape ==
  /\ log.index = None =>
       log.term = None /\ log.persisted = {} /\ ~log.committed /\ log.applied = {}
  /\ log.index # None =>
       /\ election.phase = "elected"
       /\ log.index = peers[leader].lastIndex /\ log.index > 0
       /\ log.term = peers[leader].term
       /\ \A s \in Stores : peers[s].commit <= log.index
  /\ \A s \in log.persisted :
       s \in Live /\ peers[s].lastIndex = log.index /\ peers[s].lastTerm = log.term
  /\ log.committed => \A s \in Live : s \in log.persisted /\ peers[s].commit >= log.index
  /\ \A s \in log.applied :
       log.committed /\ s \in log.persisted /\ peers[s].applied >= log.index

RequestShape ==
  /\ pd.observed # None => election.phase = "elected" /\ pd.observed = leader
  /\ pd.lookedUp => pd.observed # None
  /\ request.attempt = 2 => request.status \in {"retrying", "served", "completed"}
  /\ request.status \in {"retrying", "served", "completed"} =>
       request.attempt = 2 /\ request.cache = "refreshed"
  /\ request.cache = "refreshed" => request.cached = leader /\ pd.lookedUp
  /\ request.status \in {"served", "completed"} => leader \in log.applied
  /\ request.status = "completed" => phase = "complete"

IInv ==
  /\ TypeOK
  /\ IndexesOrdered
  /\ RolesAgree
  /\ Health
  /\ Contest
  /\ Ballots
  /\ LogsKept
  /\ NoopShape
  /\ RequestShape

-----------------------------------------------------------------------------
LEMMA Basics ==
  ASSUME IInv
  PROVE  /\ peers \in [Stores -> Peer]
         /\ election \in Election /\ log \in Noop /\ request \in Request
         /\ pd \in [observed : Stores \cup {None}, lookedUp : BOOLEAN]
         /\ leader \in Stores \cup {None} /\ oldLeader \in Stores
         /\ failed \in Stores \cup {None} /\ None \notin Nat /\ None \notin Stores
         /\ Live = {s \in Stores : s # failed}
  BY RaftLabAssumption DEF IInv, TypeOK, Health, Live

(* The two that are left once the old leader is gone.                      *)
LEMMA Survivors ==
  ASSUME IInv, failed = oldLeader
  PROVE  Live = Stores \ {oldLeader} /\ IsFiniteSet(Live) /\ Cardinality(Live) = 2
<1>1. Live = Stores \ {oldLeader} /\ oldLeader \in Stores
  BY Basics
<1>2. QED BY <1>1, FS_RemoveElement, RaftLabAssumption

(* The parts of the invariant that PD, the request and the trace leave.    *)
LEMMA GroupUntouched ==
  ASSUME IInv, UNCHANGED <<oldLeader, leader, failed, peers, election, log>>
  PROVE  /\ IndexesOrdered' /\ RolesAgree' /\ Health' /\ Contest'
         /\ Ballots' /\ LogsKept' /\ NoopShape'
<1>1. IndexesOrdered' /\ RolesAgree' /\ Health'
  BY DEF IInv, IndexesOrdered, RolesAgree, Health
<1>2. Live' = Live /\ Eligible' = Eligible
  BY DEF Live, Eligible, UpToDate
<1>3. Contest' /\ Ballots'
  BY <1>2 DEF IInv, Contest, Ballots, First, Campaigning
<1>4. LogsKept'
  BY DEF IInv, LogsKept, HoldsAllCommitted, UpToDate
<1>5. NoopShape'
  BY <1>2 DEF IInv, NoopShape
<1>6. QED BY <1>1, <1>3, <1>4, <1>5

(* raft_pd_state *)
LEMMA ObserveLeaderKeeps == IInv /\ ObserveLeader => IInv'
<1> SUFFICES ASSUME IInv, ObserveLeader PROVE IInv'
  OBVIOUS
<1> USE DEF ObserveLeader
<1>1. TypeOK'
  BY DEF IInv, TypeOK
<1>2. RequestShape'
  BY Basics DEF IInv, RequestShape
<1>3. QED BY <1>1, <1>2, GroupUntouched DEF IInv

LEMMA LookUpRouteKeeps == IInv /\ LookUpRoute => IInv'
<1> SUFFICES ASSUME IInv, LookUpRoute PROVE IInv'
  OBVIOUS
<1> USE DEF LookUpRoute
<1>1. TypeOK'
  BY DEF IInv, TypeOK, Phases
<1>2. RequestShape'
  BY Basics DEF IInv, RequestShape
<1>3. QED BY <1>1, <1>2, GroupUntouched DEF IInv

(* raft_region_request *)
LEMMA RequestKeeps ==
  ASSUME IInv,
         Send \/ TransportError \/ BackOff \/ Refresh \/ Retry \/ Serve \/ Complete
  PROVE  IInv'
<1>1. UNCHANGED <<oldLeader, leader, failed, peers, election, log, pd>>
  BY DEF Send, TransportError, BackOff, Refresh, Retry, Serve, Complete, Move
<1>2. /\ request' \in Request /\ phase' \in Phases
      /\ RequestShape'
  <2>1. CASE Send
    <3>1. request' \in Request /\ phase' \in Phases
      <4>1. request \in Request
        BY Basics
      <4>2. request' = [request EXCEPT !.attempt = 1, !.status = "sent"]
        BY <2>1 DEF Send
      <4>3. /\ 1 \in 0..2
            /\ "sent" \in {"idle", "sent", "transport_error", "backoff", "retrying",
                         "served", "completed"}
        OBVIOUS
      <4>4. request' \in Request
        BY <4>1, <4>2, <4>3, Zenon DEF Request
      <4>5. phase' \in Phases
        BY <2>1 DEF Send, Phases
      <4>6. QED BY <4>4, <4>5
    <3>2. RequestShape'
      <4>1. UNCHANGED <<leader, election, log, pd>>
        BY <1>1
      <4>2. /\ request'.cached = request.cached /\ request'.cache = request.cache
            /\ request'.attempt = 1
            /\ request'.status = "sent"
        BY <2>1, Basics DEF Send, Request
      <4>3. QED BY <4>1, <4>2 DEF IInv, RequestShape
    <3>3. QED BY <3>1, <3>2
  <2>2. CASE TransportError
    BY <2>2, Basics DEF TransportError, Move, Request, Phases, IInv, RequestShape
  <2>3. CASE BackOff
    BY <2>3, Basics DEF BackOff, Request, Phases, IInv, RequestShape
  <2>4. CASE Refresh
    BY <2>4, Basics DEF Refresh, Request, Phases, IInv, RequestShape
  <2>5. CASE Retry
    <3>1. request' \in Request /\ phase' \in Phases
      <4>1. request \in Request
        BY Basics
      <4>2. request' = [request EXCEPT !.attempt = 2, !.status = "retrying"]
        BY <2>5 DEF Retry
      <4>3. /\ 2 \in 0..2
            /\ "retrying" \in {"idle", "sent", "transport_error", "backoff", "retrying",
                         "served", "completed"}
        OBVIOUS
      <4>4. request' \in Request
        BY <4>1, <4>2, <4>3, Zenon DEF Request
      <4>5. phase' \in Phases
        BY <2>5 DEF Retry, Phases
      <4>6. QED BY <4>4, <4>5
    <3>2. RequestShape'
      <4>1. UNCHANGED <<leader, election, log, pd>>
        BY <1>1
      <4>2. /\ request'.cached = request.cached /\ request'.cache = request.cache
            /\ request'.attempt = 2
            /\ request'.status = "retrying"
        BY <2>5, Basics DEF Retry, Request
      <4>3. request.cache = "refreshed"
        BY <2>5 DEF Retry
      <4>4. QED BY <4>1, <4>2, <4>3 DEF IInv, RequestShape
    <3>3. QED BY <3>1, <3>2
  <2>6. CASE Serve
    BY <2>6, Basics DEF Serve, Confirmed, Move, Request, Phases, IInv, RequestShape
  <2>7. CASE Complete
    BY <2>7, Basics DEF Complete, Move, Request, Phases, IInv, RequestShape
  <2>8. QED BY <2>1, <2>2, <2>3, <2>4, <2>5, <2>6, <2>7
<1>3. TypeOK'
  BY <1>1, <1>2 DEF IInv, TypeOK
<1>4. QED BY <1>1, <1>2, <1>3, GroupUntouched DEF IInv

-----------------------------------------------------------------------------
(* Before anybody is elected the request has seen nothing of it.           *)
LEMMA RequestBeforeElection ==
  ASSUME IInv, election.phase # "elected", UNCHANGED <<log, request, pd>>
  PROVE  RequestShape'
<1>1. pd.observed = None /\ ~pd.lookedUp /\ request.cache # "refreshed"
  BY Basics DEF IInv, RequestShape
<1>2. request.status \notin {"retrying", "served", "completed"} /\ request.attempt # 2
  BY <1>1 DEF IInv, RequestShape
<1>3. QED BY <1>1, <1>2 DEF RequestShape

(* raft_peer_health: only the old leader's store can fail before it is     *)
(* replaced, and no store fails after.                                     *)
LEMMA FailKeeps ==
  ASSUME IInv, NEW s \in Stores, Fail(s)
  PROVE  IInv'
<1>1. /\ peers \in [Stores -> Peer] /\ failed = None /\ failed' = s
      /\ peers' = [peers EXCEPT ![s].healthy = FALSE, ![s].role = "offline"]
      /\ UNCHANGED <<oldLeader, election, log, request, pd>>
  BY Basics DEF Fail
<1>2. election.phase = "idle" /\ leader = oldLeader /\ log.index = None
  BY <1>1, Basics DEF IInv, Contest, NoopShape, Campaigning, Election
<1>3. ASSUME NEW t \in Stores
      PROVE  /\ peers'[t].term = peers[t].term /\ peers'[t].voted = peers[t].voted
             /\ peers'[t].lastIndex = peers[t].lastIndex
             /\ peers'[t].lastTerm = peers[t].lastTerm /\ peers'[t].match = peers[t].match
             /\ peers'[t].commit = peers[t].commit /\ peers'[t].applied = peers[t].applied
             /\ t # s => peers'[t] = peers[t]
             /\ t = s => peers'[t].role = "offline" /\ ~peers'[t].healthy
             /\ peers'[t] \in Peer
  BY <1>1 DEF Peer
<1>4. peers' \in [Stores -> Peer]
  BY <1>1, <1>3
<1>5. TypeOK'
  BY <1>1, <1>4, Basics DEF IInv, TypeOK, Fail, Phases
<1>6. IndexesOrdered'
  BY <1>3 DEF IInv, IndexesOrdered
<1>7. Health'
  BY <1>1, <1>3, Basics DEF IInv, Health
<1>8. RolesAgree'
  BY <1>1, <1>2, <1>3, Basics DEF IInv, RolesAgree, Fail
<1>9. Contest'
  BY <1>1, <1>2, <1>3, Basics DEF IInv, Contest, Fail, Live, Campaigning, RolesAgree
<1>10. Ballots'
  BY <1>1, <1>2 DEF IInv, Ballots, Contest, Campaigning
<1>11. LogsKept'
  <2>1. \A t, u \in Stores : UpToDate(peers[t], peers[u])' <=> UpToDate(peers[t], peers[u])
    BY <1>3 DEF UpToDate
  <2>2. ASSUME NEW t \in Stores
        PROVE  /\ HoldsAllCommitted(t)' <=> HoldsAllCommitted(t)
               /\ {u \in Stores : UpToDate(peers[t], peers[u])'}
                    = {u \in Stores : UpToDate(peers[t], peers[u])}
    BY <1>3, <2>1 DEF HoldsAllCommitted
  <2>3. leader' # None => leader' = leader
    BY DEF Fail
  <2>4. QED BY <1>1, <1>2, <2>2, <2>3, Basics DEF IInv, LogsKept
<1>12. NoopShape'
  BY <1>1, <1>2 DEF IInv, NoopShape
<1>13. RequestShape'
  BY <1>1, <1>2, RequestBeforeElection
<1>14. QED
  BY <1>5, <1>6, <1>7, <1>8, <1>9, <1>10, <1>11, <1>12, <1>13 DEF IInv

-----------------------------------------------------------------------------
(* What every step of the contest leaves alone: the logs, and with them    *)
(* who is eligible.                                                        *)
LEMMA CampaignUntouched ==
  ASSUME IInv, leader = None, election.phase # "elected",
         UNCHANGED <<oldLeader, leader, failed, log, request, pd>>,
         election'.phase \in Campaigning,
         peers' \in [Stores -> Peer],
         \A s \in Stores :
           /\ peers'[s].healthy = peers[s].healthy
           /\ peers'[s].lastIndex = peers[s].lastIndex
           /\ peers'[s].lastTerm = peers[s].lastTerm
           /\ peers'[s].match = peers[s].match
           /\ peers'[s].commit = peers[s].commit
           /\ peers'[s].applied = peers[s].applied
           /\ peers[s].term <= peers'[s].term
  PROVE  /\ Live' = Live /\ Eligible' = Eligible
         /\ IndexesOrdered' /\ Health' /\ LogsKept' /\ NoopShape' /\ RequestShape'
<1>1. Live' = Live
  BY DEF Live
<1>2. \A s, t \in Stores : UpToDate(peers[s], peers[t])' <=> UpToDate(peers[s], peers[t])
  BY DEF UpToDate
<1>3. Eligible' = Eligible
  <2>1. Live \subseteq Stores
    BY DEF Live
  <2>2. QED BY <1>1, <1>2, <2>1 DEF Eligible
<1>4. IndexesOrdered'
  <2>1. peers \in [Stores -> Peer]
    BY Basics
  <2>2. QED BY <2>1 DEF IInv, IndexesOrdered, Peer
<1>5. Health'
  BY DEF IInv, Health
<1>6. LogsKept'
  <2>1. ASSUME NEW s \in Stores
        PROVE  /\ HoldsAllCommitted(s)' <=> HoldsAllCommitted(s)
               /\ {t \in Stores : UpToDate(peers[s], peers[t])'}
                    = {t \in Stores : UpToDate(peers[s], peers[t])}
    BY <1>2 DEF HoldsAllCommitted
  <2>2. QED BY <2>1 DEF IInv, LogsKept
<1>7. NoopShape'
  BY DEF IInv, NoopShape
<1>8. RequestShape'
  BY RequestBeforeElection
<1>9. QED BY <1>1, <1>3, <1>4, <1>5, <1>6, <1>7, <1>8

(* raft_election_timeout: however often it fires, the candidate is the one *)
(* store the survivors' logs single out, so votes once cast stay for it.   *)
LEMMA TimeoutKeeps ==
  ASSUME IInv, NEW c \in Stores, Timeout(c)
  PROVE  IInv'
<1>1. /\ leader = None /\ failed = oldLeader /\ First(c) /\ c \in Live
      /\ election' = [election EXCEPT !.phase = "timeout", !.candidate = c]
      /\ UNCHANGED <<oldLeader, leader, failed, peers, log, request, pd>>
      /\ peers \in [Stores -> Peer] /\ election \in Election
  BY Basics DEF Timeout, First, Eligible, IInv, Contest
<1>2. election.phase # "elected"
  BY <1>1, Basics DEF IInv, Contest
<1>3. /\ election'.phase = "timeout" /\ election'.candidate = c
      /\ election'.preVotes = election.preVotes /\ election'.votes = election.votes
      /\ election' \in Election
  BY <1>1 DEF Election
<1>4. /\ Live' = Live /\ Eligible' = Eligible
      /\ IndexesOrdered' /\ Health' /\ LogsKept' /\ NoopShape' /\ RequestShape'
  BY <1>1, <1>2, <1>3, CampaignUntouched DEF Campaigning, Peer
<1>5. TypeOK'
  BY <1>1, <1>3 DEF IInv, TypeOK, Timeout, Phases
<1>6. RolesAgree'
  BY <1>1 DEF IInv, RolesAgree
<1>7. Contest'
  BY <1>1, <1>3, <1>4 DEF Contest, Campaigning
<1>8. Ballots'
  <2>1. election.phase \in Campaigning => election.candidate = c
    <3>1. Eligible \subseteq Nat
      BY RaftLabAssumption DEF Eligible, Live
    <3>2. QED BY <1>1, <3>1 DEF IInv, Ballots, First
  <2>2. election.phase = "idle" => election.votes = {}
    BY DEF IInv, Contest
  <2>3. election.phase \in Campaigning \cup {"idle"}
    BY <1>1, <1>2 DEF Election, Campaigning
  <2>4. QED
    BY <1>1, <1>3, <1>4, <2>1, <2>2, <2>3 DEF IInv, Ballots, First, Campaigning
<1>9. QED BY <1>4, <1>5, <1>6, <1>7, <1>8 DEF IInv

(* raft_pre_vote                                                           *)
LEMMA StartPreVoteKeeps ==
  ASSUME IInv, NEW c \in Stores, StartPreVote(c)
  PROVE  IInv'
<1>1. /\ leader = None /\ failed = oldLeader /\ c \in Live /\ election.candidate = c
      /\ election.phase = "timeout"
      /\ election' = [election EXCEPT !.phase = "pre_vote", !.preVotes = {c}]
      /\ peers' = [peers EXCEPT ![c].role = "pre_candidate"]
      /\ UNCHANGED <<oldLeader, leader, failed, log, request, pd>>
      /\ peers \in [Stores -> Peer] /\ election \in Election
  BY Basics DEF StartPreVote, IInv, Contest, Campaigning
<1>2. /\ election'.phase = "pre_vote" /\ election'.candidate = c
      /\ election'.preVotes = {c} /\ election'.votes = election.votes
      /\ election' \in Election
  BY <1>1 DEF Election
<1>3. ASSUME NEW s \in Stores
      PROVE  /\ peers'[s] \in Peer
             /\ peers'[s].healthy = peers[s].healthy
             /\ peers'[s].lastIndex = peers[s].lastIndex
             /\ peers'[s].lastTerm = peers[s].lastTerm
             /\ peers'[s].match = peers[s].match
             /\ peers'[s].commit = peers[s].commit
             /\ peers'[s].applied = peers[s].applied
             /\ peers'[s].term = peers[s].term /\ peers'[s].voted = peers[s].voted
             /\ s # c => peers'[s].role = peers[s].role
             /\ s = c => peers'[s].role = "pre_candidate"
             /\ peers[s].term <= peers'[s].term
  BY <1>1 DEF Peer
<1>4. peers' \in [Stores -> Peer]
  BY <1>1, <1>3
<1>5. /\ Live' = Live /\ Eligible' = Eligible
      /\ IndexesOrdered' /\ Health' /\ LogsKept' /\ NoopShape' /\ RequestShape'
  BY <1>1, <1>2, <1>3, <1>4, CampaignUntouched DEF Campaigning
<1>6. TypeOK'
  BY <1>1, <1>2, <1>4 DEF IInv, TypeOK, StartPreVote, Phases
<1>7. RolesAgree'
  BY <1>1, <1>3, Basics DEF IInv, RolesAgree, Live
<1>8. Contest'
  BY <1>1, <1>2, <1>5 DEF Contest, Campaigning
<1>9. Ballots'
  <2>1. Live \subseteq Stores
    BY DEF Live
  <2>2. QED
    BY <1>1, <1>2, <1>3, <1>5, <2>1 DEF IInv, Ballots, First, Campaigning
<1>10. QED BY <1>5, <1>6, <1>7, <1>8, <1>9 DEF IInv

LEMMA GrantPreVoteKeeps ==
  ASSUME IInv, NEW c \in Stores, NEW v \in Stores, GrantPreVote(c, v)
  PROVE  IInv'
<1>1. /\ leader = None /\ failed = oldLeader /\ {c, v} \subseteq Live
      /\ election.candidate = c /\ election.phase = "pre_vote"
      /\ election' = [election EXCEPT !.preVotes = election.preVotes \cup {v}]
      /\ UNCHANGED <<oldLeader, leader, failed, peers, log, request, pd, phase>>
      /\ peers \in [Stores -> Peer] /\ election \in Election
  BY Basics DEF GrantPreVote, IInv, Contest, Campaigning
<1>2. /\ election'.phase = "pre_vote" /\ election'.candidate = c
      /\ election'.preVotes = election.preVotes \cup {v} /\ election'.votes = election.votes
      /\ election' \in Election
  BY <1>1 DEF Election
<1>3. /\ Live' = Live /\ Eligible' = Eligible
      /\ IndexesOrdered' /\ Health' /\ LogsKept' /\ NoopShape' /\ RequestShape'
  BY <1>1, <1>2, CampaignUntouched DEF Campaigning, Peer
<1>4. TypeOK'
  BY <1>1, <1>2 DEF IInv, TypeOK
<1>5. RolesAgree'
  BY <1>1 DEF IInv, RolesAgree
<1>6. Contest'
  BY <1>1, <1>2, <1>3 DEF Contest, Campaigning
<1>7. Ballots'
  BY <1>1, <1>2, <1>3 DEF IInv, Ballots, First, Campaigning
<1>8. QED BY <1>3, <1>4, <1>5, <1>6, <1>7 DEF IInv

(* raft_term_vote: a candidate starts a new term with its own vote, and a  *)
(* voter that grants its vote moves to that term.                          *)
LEMMA BecomeCandidateKeeps ==
  ASSUME IInv, NEW c \in Stores, BecomeCandidate(c)
  PROVE  IInv'
<1>1. /\ leader = None /\ failed = oldLeader /\ c \in Live /\ election.candidate = c
      /\ election.phase = "pre_vote"
      /\ election' = [election EXCEPT !.phase = "vote", !.votes = {c}]
      /\ peers' = [peers EXCEPT ![c].role = "candidate", ![c].term = peers[c].term + 1,
                                ![c].voted = c]
      /\ UNCHANGED <<oldLeader, leader, failed, log, request, pd>>
      /\ peers \in [Stores -> Peer] /\ election \in Election
      /\ peers[c].term + 1 \in 1..MaxTerm
  <2>1. peers[c].term \in 1..MaxTerm /\ MaxTerm \in Nat
    BY Basics, RaftLabAssumption DEF Peer
  <2>2. QED
    BY <2>1, Basics DEF BecomeCandidate, OwnVote, IInv, Contest, Campaigning
<1>2. /\ election'.phase = "vote" /\ election'.candidate = c
      /\ election'.preVotes = election.preVotes /\ election'.votes = {c}
      /\ election' \in Election
  BY <1>1 DEF Election
<1>3. ASSUME NEW s \in Stores
      PROVE  /\ peers'[s] \in Peer
             /\ peers'[s].healthy = peers[s].healthy
             /\ peers'[s].lastIndex = peers[s].lastIndex
             /\ peers'[s].lastTerm = peers[s].lastTerm
             /\ peers'[s].match = peers[s].match
             /\ peers'[s].commit = peers[s].commit
             /\ peers'[s].applied = peers[s].applied
             /\ s # c => peers'[s] = peers[s]
             /\ s = c => peers'[s].role = "candidate" /\ peers'[s].voted = c
             /\ peers[s].term <= peers'[s].term
  BY <1>1 DEF Peer
<1>4. peers' \in [Stores -> Peer]
  BY <1>1, <1>3
<1>5. /\ Live' = Live /\ Eligible' = Eligible
      /\ IndexesOrdered' /\ Health' /\ LogsKept' /\ NoopShape' /\ RequestShape'
  BY <1>1, <1>2, <1>3, <1>4, CampaignUntouched DEF Campaigning
<1>6. TypeOK'
  BY <1>1, <1>2, <1>4 DEF IInv, TypeOK, BecomeCandidate, Phases
<1>7. RolesAgree'
  BY <1>1, <1>3, Basics DEF IInv, RolesAgree, Live
<1>8. Contest'
  BY <1>1, <1>2, <1>5 DEF Contest, Campaigning
<1>9. Ballots'
  BY <1>1, <1>2, <1>3, <1>5 DEF IInv, Ballots, First, Campaigning
<1>10. QED BY <1>5, <1>6, <1>7, <1>8, <1>9 DEF IInv

LEMMA GrantVoteKeeps ==
  ASSUME IInv, NEW c \in Stores, NEW v \in Stores, GrantVote(c, v)
  PROVE  IInv'
<1>1. /\ leader = None /\ failed = oldLeader /\ {c, v} \subseteq Live
      /\ election.candidate = c /\ election.phase = "vote"
      /\ election' = [election EXCEPT !.votes = election.votes \cup {v}]
      /\ peers' = [peers EXCEPT ![v].term = peers[c].term, ![v].voted = c]
      /\ UNCHANGED <<oldLeader, leader, failed, log, request, pd, phase>>
      /\ peers \in [Stores -> Peer] /\ election \in Election
      /\ peers[c].term >= peers[v].term
  BY Basics DEF GrantVote, NotStale, IInv, Contest, Campaigning
<1>2. /\ election'.phase = "vote" /\ election'.candidate = c
      /\ election'.preVotes = election.preVotes /\ election'.votes = election.votes \cup {v}
      /\ election' \in Election
  BY <1>1 DEF Election
<1>3. ASSUME NEW s \in Stores
      PROVE  /\ peers'[s] \in Peer
             /\ peers'[s].healthy = peers[s].healthy
             /\ peers'[s].lastIndex = peers[s].lastIndex
             /\ peers'[s].lastTerm = peers[s].lastTerm
             /\ peers'[s].match = peers[s].match
             /\ peers'[s].commit = peers[s].commit
             /\ peers'[s].applied = peers[s].applied
             /\ peers'[s].role = peers[s].role
             /\ s # v => peers'[s] = peers[s]
             /\ s = v => peers'[s].term = peers[c].term /\ peers'[s].voted = c
             /\ peers[s].term <= peers'[s].term
  <2>1. peers[c] \in Peer /\ peers[s] \in Peer /\ c \in Stores
    BY <1>1
  <2>2. CASE s = v
    <3>1. peers'[s] = [peers[s] EXCEPT !.term = peers[c].term, !.voted = c]
      BY <1>1, <2>2
    <3>2. peers[s].term <= peers[c].term
      BY <1>1, <2>1, <2>2 DEF Peer
    <3>3. QED BY <2>1, <2>2, <3>1, <3>2 DEF Peer
  <2>3. CASE s # v
    <3>1. peers'[s] = peers[s]
      BY <1>1, <2>3
    <3>2. QED BY <2>1, <2>3, <3>1 DEF Peer
  <2>4. QED BY <2>2, <2>3
<1>4. peers' \in [Stores -> Peer]
  BY <1>1, <1>3
<1>5. /\ Live' = Live /\ Eligible' = Eligible
      /\ IndexesOrdered' /\ Health' /\ LogsKept' /\ NoopShape' /\ RequestShape'
  BY <1>1, <1>2, <1>3, <1>4, CampaignUntouched DEF Campaigning
<1>6. TypeOK'
  BY <1>1, <1>2, <1>4 DEF IInv, TypeOK
<1>7. RolesAgree'
  BY <1>1, <1>3, Basics DEF IInv, RolesAgree
<1>8. Contest'
  BY <1>1, <1>2, <1>5 DEF Contest, Campaigning
<1>9. Ballots'
  <2>1. peers'[c].term = peers[c].term
    BY <1>1, <1>3
  <2>2. Live \subseteq Stores
    BY DEF Live
  <2>3. QED
    BY <1>1, <1>2, <1>3, <1>5, <2>1, <2>2 DEF IInv, Ballots, First, Campaigning
<1>10. QED BY <1>5, <1>6, <1>7, <1>8, <1>9 DEF IInv

(* raft_leader_elected: the survivors agree that the winner's log is at    *)
(* least theirs, so it holds whatever any of the three had committed.      *)
LEMMA ElectLeaderKeeps ==
  ASSUME IInv, NEW c \in Stores, NEW votes \in SUBSET Stores, ElectLeader(c, votes)
  PROVE  IInv'
<1>1. /\ leader = None /\ failed = oldLeader /\ election.phase \in Campaigning
      /\ election.candidate = c /\ c \in Live
      /\ votes \subseteq election.votes /\ Cardinality(votes) >= Quorum
  <2>1. votes # {}
    <3>1. Cardinality({}) = 0
      BY FS_EmptySet
    <3>2. Cardinality(votes) >= 2
      BY DEF ElectLeader, Quorum
    <3>3. QED BY <3>1, <3>2
  <2>2. QED BY <2>1, Basics DEF ElectLeader, IInv, Contest, Campaigning, Election
<1>2. /\ leader' = c
      /\ UNCHANGED <<oldLeader, failed, log, request, pd>>
      /\ peers \in [Stores -> Peer] /\ election \in Election
  BY Basics DEF ElectLeader
<1>3. /\ election'.phase = "elected" /\ election'.candidate = c
      /\ election'.preVotes = election.preVotes /\ election'.votes = votes
      /\ election' \in Election
  <2>1. election' = [election EXCEPT !.phase = "elected", !.votes = votes]
    BY DEF ElectLeader
  <2>2. QED BY <1>1, <1>2, <2>1 DEF Election
<1>4. ASSUME NEW s \in Stores
      PROVE  /\ peers'[s] \in Peer
             /\ peers'[s].healthy = peers[s].healthy
             /\ peers'[s].lastIndex = peers[s].lastIndex
             /\ peers'[s].lastTerm = peers[s].lastTerm
             /\ peers'[s].match = peers[s].match
             /\ peers'[s].commit = peers[s].commit
             /\ peers'[s].applied = peers[s].applied
             /\ peers'[s].role = RoleAfter(s, c)
             /\ peers[s].term <= peers'[s].term
             /\ s = c => peers'[s].term = peers[s].term
             /\ s \in Live => peers[c].term <= peers'[s].term
  <2>1. RoleAfter(s, c) \in {"leader", "follower", "pre_candidate", "candidate", "offline"}
    BY DEF RoleAfter
  <2>2. peers[s] \in Peer /\ peers[s].term \in 1..MaxTerm /\ peers[c].term \in 1..MaxTerm
    BY <1>2 DEF Peer
  <2>3. /\ TermAfter(s, c) \in 1..MaxTerm /\ peers[s].term <= TermAfter(s, c)
        /\ s = c => TermAfter(s, c) = peers[s].term
        /\ s \in Live => peers[c].term <= TermAfter(s, c)
    BY <2>2 DEF TermAfter, Live
  <2>4. peers'[s] = [peers[s] EXCEPT !.role = RoleAfter(s, c), !.term = TermAfter(s, c)]
    BY DEF ElectLeader
  <2>5. /\ peers'[s] \in Peer
        /\ peers'[s].role = RoleAfter(s, c) /\ peers'[s].term = TermAfter(s, c)
    BY <2>1, <2>2, <2>3, <2>4 DEF Peer
  <2>6. /\ peers'[s].healthy = peers[s].healthy
        /\ peers'[s].lastIndex = peers[s].lastIndex
        /\ peers'[s].lastTerm = peers[s].lastTerm
        /\ peers'[s].match = peers[s].match
        /\ peers'[s].commit = peers[s].commit
        /\ peers'[s].applied = peers[s].applied
    BY <2>2, <2>4 DEF Peer
  <2>7. QED BY <2>3, <2>5, <2>6
<1>5. peers' \in [Stores -> Peer]
  BY <1>4 DEF ElectLeader
<1>6. TypeOK'
  BY <1>2, <1>3, <1>5 DEF IInv, TypeOK, ElectLeader, Phases
<1>7. IndexesOrdered'
  BY <1>2, <1>4, <1>5 DEF IInv, IndexesOrdered, Peer
<1>8. Health' /\ Live' = Live
  BY <1>2, <1>4 DEF IInv, Health, Live
<1>9. RolesAgree'
  <2>1. ASSUME NEW s \in Stores
        PROVE  /\ peers'[s].role = "offline" <=> ~peers'[s].healthy
               /\ peers'[s].role = "leader" <=> leader' = s
    <3>1. peers[c].healthy /\ peers[s].healthy \in BOOLEAN
      BY <1>1, <1>2 DEF Live, Peer
    <3>2. QED BY <1>2, <1>4, <3>1 DEF RoleAfter
  <2>2. failed' # None => ~peers'[failed'].healthy
    BY <1>2, <1>4, Basics DEF IInv, RolesAgree
  <2>3. QED BY <2>1, <2>2 DEF RolesAgree
<1>10. Contest'
  BY <1>1, <1>2, <1>3, <1>8, Basics DEF Contest, Campaigning
<1>11. Ballots'
  <2>1. votes \subseteq Live /\ election.preVotes \subseteq Live /\ Live \subseteq Stores
    BY <1>1 DEF IInv, Ballots, Live
  <2>2. \A s \in Live : peers'[c].term <= peers'[s].term
    BY <1>4, <2>1
  <2>3. QED
    BY <1>1, <1>2, <1>3, <1>8, <2>1, <2>2 DEF Ballots, Campaigning
<1>12. LogsKept'
  <2> DEFINE behind == {t \in Stores : UpToDate(peers[c], peers[t])}
  <2>1. First(c)
    BY <1>1 DEF IInv, Ballots
  <2>2. Live \subseteq behind
    BY <2>1 DEF First, Eligible, Live
  <2>3. IsFiniteSet(behind) /\ Cardinality(Live) <= Cardinality(behind)
    <3>1. behind \in SUBSET Stores
      OBVIOUS
    <3>2. IsFiniteSet(behind)
      BY <3>1, RaftLabAssumption, FS_Subset
    <3>3. QED BY <2>2, <3>2, FS_Subset
  <2>4. Cardinality(behind) >= Quorum
    BY <1>1, <2>3, Survivors, FS_CardinalityType DEF Quorum
  <2>5. HoldsAllCommitted(c)
    BY <1>1, <2>4 DEF IInv, LogsKept, Campaigning
  <2>6. HoldsAllCommitted(c)'
    BY <1>4, <2>5 DEF HoldsAllCommitted
  <2>7. QED BY <1>2, <1>3, <2>6 DEF LogsKept
<1>13. NoopShape'
  BY <1>1, <1>2 DEF IInv, NoopShape, Campaigning
<1>14. RequestShape'
  BY <1>1, <1>2, RequestBeforeElection DEF Campaigning
<1>15. QED
  BY <1>6, <1>7, <1>8, <1>9, <1>10, <1>11, <1>12, <1>13, <1>14 DEF IInv

-----------------------------------------------------------------------------
(* raft_propose, raft_persist, raft_commit and raft_apply: nobody's role,  *)
(* term, vote or health changes, and the contest is over.                  *)
LEMMA LogStepUntouched ==
  ASSUME IInv, election.phase = "elected",
         UNCHANGED <<oldLeader, leader, failed, election>>,
         \A s \in Stores :
           /\ peers'[s].healthy = peers[s].healthy
           /\ peers'[s].role = peers[s].role
           /\ peers'[s].term = peers[s].term
  PROVE  Live' = Live /\ Health' /\ RolesAgree' /\ Contest' /\ Ballots'
<1>1. Live' = Live /\ Live \subseteq Stores
  BY DEF Live
<1>2. Health'
  BY DEF IInv, Health
<1>3. RolesAgree'
  BY Basics DEF IInv, RolesAgree
<1>4. Contest'
  BY <1>1 DEF IInv, Contest, Campaigning
<1>5. leader \in Stores
  BY Basics DEF IInv, Contest, Live
<1>6. Ballots'
  BY <1>1, <1>5 DEF IInv, Ballots, Campaigning
<1>7. QED BY <1>1, <1>2, <1>3, <1>4, <1>6

(* The no-op goes above everything its leader holds, and so above every    *)
(* committed entry.                                                        *)
LEMMA ProposeKeeps ==
  ASSUME IInv, Propose
  PROVE  IInv'
<1> DEFINE next == peers[leader].lastIndex + 1
           ts == peers[leader].term
<1>1. /\ election.phase = "elected" /\ log.index = None
      /\ leader \in Stores /\ peers \in [Stores -> Peer] /\ log \in Noop
      /\ peers' = [peers EXCEPT ![leader].lastIndex = next, ![leader].lastTerm = ts]
      /\ log' = [log EXCEPT !.index = next, !.term = ts]
      /\ UNCHANGED <<oldLeader, leader, failed, election, request, pd>>
  BY Basics DEF Propose
<1>2. ASSUME NEW s \in Stores
      PROVE  /\ peers'[s] \in Peer
             /\ peers'[s].healthy = peers[s].healthy /\ peers'[s].role = peers[s].role
             /\ peers'[s].term = peers[s].term /\ peers'[s].voted = peers[s].voted
             /\ peers'[s].match = peers[s].match
             /\ peers'[s].commit = peers[s].commit
             /\ peers'[s].applied = peers[s].applied
             /\ s # leader => peers'[s] = peers[s]
             /\ s = leader => peers'[s].lastIndex = next /\ peers'[s].lastTerm = ts
  <2>1. peers[s] \in Peer /\ next \in Nat /\ ts \in Nat
    BY <1>1 DEF Peer
  <2>2. peers'[s] = IF s = leader THEN [peers[s] EXCEPT !.lastIndex = next, !.lastTerm = ts]
                    ELSE peers[s]
    BY <1>1
  <2> HIDE DEF next, ts
  <2>3. QED BY <2>1, <2>2 DEF Peer
<1>3. /\ log' \in Noop /\ log'.index = next /\ log'.term = ts
      /\ log'.persisted = {} /\ ~log'.committed /\ log'.applied = {}
      /\ next \in Nat /\ next > 0 /\ next > peers[leader].lastIndex /\ ts \in Nat /\ ts > 0
  <2>1. peers[leader] \in Peer
    BY <1>1
  <2>2. next \in Nat /\ next > 0 /\ next > peers[leader].lastIndex /\ ts \in Nat /\ ts > 0
    BY <2>1 DEF Peer
  <2>3. log.persisted = {} /\ ~log.committed /\ log.applied = {}
    BY <1>1 DEF IInv, NoopShape
  <2> HIDE DEF next, ts
  <2>4. QED BY <1>1, <2>2, <2>3 DEF Noop
<1>4. peers' \in [Stores -> Peer]
  BY <1>1, <1>2
<1>5. TypeOK'
  BY <1>1, <1>3, <1>4, Basics DEF IInv, TypeOK, Propose, Phases
<1>6. IndexesOrdered'
  <2>1. ASSUME NEW s \in Stores
        PROVE  /\ peers[s] \in Peer
               /\ peers[s].applied <= peers[s].commit /\ peers[s].commit <= peers[s].lastIndex
               /\ peers[s].match <= peers[s].lastIndex /\ peers[s].lastTerm <= peers[s].term
               /\ peers[s].lastIndex = 0 <=> peers[s].lastTerm = 0
    BY <1>1 DEF IInv, IndexesOrdered
  <2>2. QED BY <1>2, <1>3, <2>1 DEF IndexesOrdered, Peer
<1>7. Live' = Live /\ Health' /\ RolesAgree' /\ Contest' /\ Ballots'
  BY <1>1, <1>2, LogStepUntouched
<1>8. \A s \in Stores : peers'[s].commit <= next
  BY <1>1, <1>2, <1>3, Basics DEF IInv, LogsKept, HoldsAllCommitted, Peer
<1>9. LogsKept'
  BY <1>1, <1>2, <1>8 DEF LogsKept, HoldsAllCommitted
<1>10. NoopShape'
  BY <1>1, <1>2, <1>3, <1>8, Basics DEF NoopShape
<1>11. RequestShape'
  BY <1>1, <1>3 DEF IInv, RequestShape, NoopShape
<1>12. QED BY <1>5, <1>6, <1>7, <1>9, <1>10, <1>11 DEF IInv

LEMMA PersistKeeps ==
  ASSUME IInv, NEW stores \in SUBSET Stores, Persist(stores)
  PROVE  IInv'
<1>1. /\ election.phase = "elected" /\ log.index # None /\ log.index \in Nat
      /\ log.term \in Nat /\ log.index > 0 /\ log.index = peers[leader].lastIndex
      /\ log.term = peers[leader].term
      /\ leader \in Stores /\ peers \in [Stores -> Peer] /\ log \in Noop
      /\ stores \subseteq Live
      /\ \A s \in Stores : peers[s].commit <= log.index
      /\ UNCHANGED <<phase, oldLeader, leader, failed, election, request, pd>>
  BY Basics DEF Persist, IInv, NoopShape, Noop, Contest, Live, TypeOK
<1>2. /\ log' \in Noop /\ log'.index = log.index /\ log'.term = log.term
      /\ log'.persisted = log.persisted \cup stores
      /\ log'.committed = log.committed /\ log'.applied = log.applied
  <2>1. log' = [log EXCEPT !.persisted = log.persisted \cup stores]
    BY DEF Persist
  <2>2. QED BY <1>1, <2>1 DEF Noop
<1>3. ASSUME NEW s \in Stores
      PROVE  /\ peers'[s] \in Peer
             /\ peers'[s].healthy = peers[s].healthy /\ peers'[s].role = peers[s].role
             /\ peers'[s].term = peers[s].term /\ peers'[s].voted = peers[s].voted
             /\ peers'[s].commit = peers[s].commit
             /\ peers'[s].applied = peers[s].applied
             /\ s \notin stores => peers'[s] = peers[s]
             /\ s \in stores => /\ peers'[s].lastIndex = log.index
                              /\ peers'[s].lastTerm = log.term
                              /\ peers'[s].match = log.index
  <2>1. peers'[s] = IF s \notin stores THEN peers[s]
                    ELSE [peers[s] EXCEPT !.lastIndex = log.index, !.lastTerm = log.term,
                                          !.match = log.index]
    BY DEF Persist
  <2>2. QED BY <1>1, <2>1 DEF Peer
<1>4. peers' \in [Stores -> Peer]
  BY <1>3 DEF Persist
<1>5. TypeOK'
  BY <1>1, <1>2, <1>4 DEF IInv, TypeOK
<1>6. IndexesOrdered'
  <2>1. ASSUME NEW s \in Stores
        PROVE  /\ peers[s] \in Peer
               /\ peers[s].applied <= peers[s].commit /\ peers[s].commit <= peers[s].lastIndex
               /\ peers[s].match <= peers[s].lastIndex /\ peers[s].lastTerm <= peers[s].term
               /\ peers[s].lastIndex = 0 <=> peers[s].lastTerm = 0
    BY <1>1 DEF IInv, IndexesOrdered
  <2>2. \A s \in stores : log.term <= peers[s].term
    BY <1>1 DEF IInv, Ballots
  <2>3. peers[leader] \in Peer /\ log.term > 0
    BY <1>1, RaftLabAssumption DEF Peer
  <2>4. QED BY <1>1, <1>3, <2>1, <2>2, <2>3 DEF IndexesOrdered, Peer
<1>7. Live' = Live /\ Health' /\ RolesAgree' /\ Contest' /\ Ballots'
  BY <1>1, <1>3, LogStepUntouched
<1>8. peers'[leader].lastIndex = log.index
  BY <1>1, <1>3
<1>9. LogsKept'
  BY <1>1, <1>3, <1>8 DEF LogsKept, HoldsAllCommitted
<1>10. NoopShape'
  <2>1. Live \subseteq Stores /\ log.persisted \subseteq Live
    BY DEF IInv, NoopShape, Live
  <2>2. \A s \in log'.persisted :
          s \in Live' /\ peers'[s].lastIndex = log'.index /\ peers'[s].lastTerm = log'.term
    BY <1>1, <1>2, <1>3, <1>7, <2>1 DEF IInv, NoopShape
  <2>3. log'.committed =>
          \A s \in Live' : s \in log'.persisted /\ peers'[s].commit >= log'.index
    BY <1>2, <1>3, <1>7, <2>1 DEF IInv, NoopShape
  <2>4. \A s \in log'.applied :
          log'.committed /\ s \in log'.persisted /\ peers'[s].applied >= log'.index
    BY <1>1, <1>2, <1>3, <2>1 DEF IInv, NoopShape
  <2>5. \A s \in Stores : peers'[s].commit <= log'.index
    BY <1>1, <1>2, <1>3
  <2>6. log'.term = peers'[leader'].term /\ log'.index = peers'[leader'].lastIndex
    BY <1>1, <1>2, <1>3, <1>8
  <2>7. QED BY <1>1, <1>2, <2>2, <2>3, <2>4, <2>5, <2>6 DEF NoopShape
<1>11. RequestShape'
  BY <1>1, <1>2 DEF IInv, RequestShape
<1>12. QED BY <1>5, <1>6, <1>7, <1>9, <1>10, <1>11 DEF IInv

(* Two stores hold the no-op when it is committed, and only two are left.  *)
LEMMA CommitKeeps ==
  ASSUME IInv, Commit
  PROVE  IInv'
<1>1. /\ election.phase = "elected" /\ log.index # None /\ log.index \in Nat
      /\ log.index = peers[leader].lastIndex
      /\ leader \in Stores /\ peers \in [Stores -> Peer] /\ log \in Noop
      /\ failed = oldLeader
      /\ UNCHANGED <<phase, oldLeader, leader, failed, election, request, pd>>
  BY Basics DEF Commit, IInv, NoopShape, Noop, Contest, Live
<1>2. log.persisted = Live
  <2>1. log.persisted \in SUBSET Live
    BY DEF IInv, NoopShape
  <2>2. Cardinality(log.persisted) >= 2
    BY DEF Commit, Quorum
  <2>3. IsFiniteSet(Live) /\ Cardinality(Live) = 2
    BY <1>1, Survivors
  <2>4. Cardinality(log.persisted) <= 2 /\ Cardinality(log.persisted) \in Nat
    BY <2>1, <2>3, FS_Subset, FS_CardinalityType
  <2>5. QED BY <2>1, <2>2, <2>3, <2>4, FS_Subset
<1>3. /\ log' \in Noop /\ log'.index = log.index /\ log'.term = log.term
      /\ log'.persisted = log.persisted /\ log'.committed /\ log'.applied = log.applied
  <2>1. log' = [log EXCEPT !.committed = TRUE]
    BY DEF Commit
  <2>2. QED BY <1>1, <2>1 DEF Noop
<1>4. ASSUME NEW s \in Stores
      PROVE  /\ peers'[s] \in Peer
             /\ peers'[s].healthy = peers[s].healthy /\ peers'[s].role = peers[s].role
             /\ peers'[s].term = peers[s].term /\ peers'[s].voted = peers[s].voted
             /\ peers'[s].lastIndex = peers[s].lastIndex
             /\ peers'[s].lastTerm = peers[s].lastTerm
             /\ peers'[s].match = peers[s].match
             /\ peers'[s].applied = peers[s].applied
             /\ peers[s].commit <= peers'[s].commit
             /\ \/ peers'[s].commit = peers[s].commit
                \/ s \in log.persisted /\ peers'[s].commit = log.index
             /\ s \in log.persisted => peers'[s].commit >= log.index
  <2>1. peers'[s] = IF s \in log.persisted /\ peers[s].commit < log.index
                    THEN [peers[s] EXCEPT !.commit = log.index] ELSE peers[s]
    BY DEF Commit
  <2>2. QED BY <1>1, <2>1 DEF Peer
<1>5. peers' \in [Stores -> Peer]
  BY <1>4 DEF Commit
<1>6. TypeOK'
  BY <1>1, <1>3, <1>5 DEF IInv, TypeOK
<1>7. IndexesOrdered'
  <2>1. ASSUME NEW s \in Stores
        PROVE  /\ peers[s] \in Peer
               /\ peers[s].applied <= peers[s].commit /\ peers[s].commit <= peers[s].lastIndex
               /\ peers[s].match <= peers[s].lastIndex /\ peers[s].lastTerm <= peers[s].term
               /\ peers[s].lastIndex = 0 <=> peers[s].lastTerm = 0
               /\ s \in log.persisted => peers[s].lastIndex = log.index
    BY <1>1 DEF IInv, IndexesOrdered, NoopShape
  <2>2. QED BY <1>1, <1>4, <2>1 DEF IndexesOrdered, Peer
<1>8. Live' = Live /\ Health' /\ RolesAgree' /\ Contest' /\ Ballots'
  BY <1>1, <1>4, LogStepUntouched
<1>9. \A s \in Stores : peers'[s].commit <= log.index
  BY <1>1, <1>4 DEF IInv, NoopShape
<1>10. LogsKept'
  BY <1>1, <1>4, <1>9 DEF LogsKept, HoldsAllCommitted
<1>11. NoopShape'
  <2>1. Live \subseteq Stores
    BY DEF Live
  <2>2. \A s \in log.persisted : peers[s].lastIndex = log.index /\ peers[s].lastTerm = log.term
    BY DEF IInv, NoopShape
  <2>3. \A s \in log.applied : s \in log.persisted /\ peers[s].applied >= log.index
    BY DEF IInv, NoopShape
  <2>4. log.term = peers[leader].term /\ log.index > 0
    BY <1>1 DEF IInv, NoopShape
  <2>5. QED
    BY <1>1, <1>2, <1>3, <1>4, <1>8, <1>9, <2>1, <2>2, <2>3, <2>4 DEF NoopShape
<1>12. RequestShape'
  BY <1>1, <1>3 DEF IInv, RequestShape
<1>13. QED BY <1>6, <1>7, <1>8, <1>10, <1>11, <1>12 DEF IInv

LEMMA ApplyKeeps ==
  ASSUME IInv, NEW stores \in SUBSET Stores, Apply(stores)
  PROVE  IInv'
<1>1. /\ log.committed /\ stores \subseteq log.persisted /\ log.persisted \subseteq Live
      /\ log.index # None /\ log.index \in Nat /\ election.phase = "elected"
      /\ leader \in Stores /\ peers \in [Stores -> Peer] /\ log \in Noop
      /\ UNCHANGED <<phase, oldLeader, leader, failed, election, request, pd>>
  BY Basics DEF Apply, WhenCommitted, IInv, NoopShape, Noop, Contest, Live
<1>2. /\ log' \in Noop /\ log'.index = log.index /\ log'.term = log.term
      /\ log'.persisted = log.persisted /\ log'.committed
      /\ log'.applied = log.applied \cup stores
  <2>1. log' = [log EXCEPT !.applied = log.applied \cup stores]
    BY DEF Apply
  <2>2. QED BY <1>1, <2>1 DEF Noop
<1>3. ASSUME NEW s \in Stores
      PROVE  /\ peers'[s] \in Peer
             /\ peers'[s].healthy = peers[s].healthy /\ peers'[s].role = peers[s].role
             /\ peers'[s].term = peers[s].term /\ peers'[s].voted = peers[s].voted
             /\ peers'[s].lastIndex = peers[s].lastIndex
             /\ peers'[s].lastTerm = peers[s].lastTerm
             /\ peers'[s].match = peers[s].match
             /\ peers'[s].commit = peers[s].commit
             /\ peers[s].applied <= peers'[s].applied
             /\ \/ peers'[s].applied = peers[s].applied
                \/ s \in stores /\ peers'[s].applied = log.index
             /\ s \in stores => peers'[s].applied >= log.index
  <2>1. peers'[s] = IF s \in stores /\ peers[s].applied < log.index
                    THEN [peers[s] EXCEPT !.applied = log.index] ELSE peers[s]
    BY DEF Apply
  <2>2. QED BY <1>1, <2>1 DEF Peer
<1>4. peers' \in [Stores -> Peer]
  BY <1>3 DEF Apply
<1>5. TypeOK'
  BY <1>1, <1>2, <1>4 DEF IInv, TypeOK
<1>6. IndexesOrdered'
  <2>1. ASSUME NEW s \in Stores
        PROVE  /\ peers[s] \in Peer
               /\ peers[s].applied <= peers[s].commit /\ peers[s].commit <= peers[s].lastIndex
               /\ peers[s].match <= peers[s].lastIndex /\ peers[s].lastTerm <= peers[s].term
               /\ peers[s].lastIndex = 0 <=> peers[s].lastTerm = 0
               /\ s \in stores => peers[s].commit >= log.index
    BY <1>1 DEF IInv, IndexesOrdered, NoopShape
  <2>2. QED BY <1>1, <1>3, <2>1 DEF IndexesOrdered, Peer
<1>7. Live' = Live /\ Health' /\ RolesAgree' /\ Contest' /\ Ballots'
  BY <1>1, <1>3, LogStepUntouched
<1>8. LogsKept'
  BY <1>1, <1>3 DEF IInv, LogsKept, HoldsAllCommitted
<1>9. NoopShape'
  <2>1. Live \subseteq Stores
    BY DEF Live
  <2>2. \A s \in log'.applied :
          log'.committed /\ s \in log'.persisted /\ peers'[s].applied >= log'.index
    <3>1. ASSUME NEW s \in log.applied
          PROVE  s \in Stores /\ s \in log.persisted /\ peers[s].applied >= log.index
      BY <1>1, <2>1 DEF IInv, NoopShape
    <3>2. \A s \in Stores : peers[s].applied \in Nat /\ peers'[s].applied \in Nat
      BY <1>1, <1>3 DEF Peer
    <3>3. QED BY <1>1, <1>2, <1>3, <3>1, <3>2
  <2>3. QED
    BY <1>1, <1>2, <1>3, <1>7, <2>1, <2>2 DEF IInv, NoopShape
<1>10. RequestShape'
  BY <1>1, <1>2 DEF IInv, RequestShape
<1>11. QED BY <1>5, <1>6, <1>7, <1>8, <1>9, <1>10 DEF IInv

-----------------------------------------------------------------------------
LEMMA InitEstablishes == Init => IInv
<1> SUFFICES ASSUME Init PROVE IInv
  OBVIOUS
<1>1. PICK d \in [Stores -> Definitions] :
        Possible(d, oldLeader) /\ peers = [s \in Stores |-> PeerOf(d[s], s = oldLeader)]
  BY DEF Init
<1>2. /\ oldLeader \in Stores /\ leader = oldLeader /\ failed = None
      /\ None \notin Nat /\ None \notin Stores
  BY RaftLabAssumption DEF Init
<1>3. ASSUME NEW s \in Stores
      PROVE  /\ d[s] \in [lastIndex : Nat, lastTerm : Nat, commit : Nat, applied : Nat,
                           term : Nat]
             /\ d[s].applied <= d[s].commit /\ d[s].commit <= d[s].lastIndex
             /\ d[s].term \in 1..MaxTerm /\ d[s].lastTerm <= d[s].term
             /\ d[s].lastIndex = 0 <=> d[s].lastTerm = 0
             /\ peers[s] = PeerOf(d[s], s = oldLeader)
  BY <1>1, RaftLabAssumption
<1>4. ASSUME NEW s \in Stores
      PROVE  /\ peers[s] \in Peer
             /\ peers[s].healthy
             /\ peers[s].role = "leader" <=> s = oldLeader
             /\ peers[s].role # "offline"
             /\ peers[s].lastIndex = d[s].lastIndex /\ peers[s].lastTerm = d[s].lastTerm
             /\ peers[s].match = d[s].lastIndex /\ peers[s].term = d[s].term
             /\ peers[s].commit = d[s].commit /\ peers[s].applied = d[s].applied
  <2> DEFINE role == IF s = oldLeader THEN "leader" ELSE "follower"
  <2>1. peers[s] = [role |-> role, healthy |-> TRUE, term |-> d[s].term, voted |-> None,
                    lastIndex |-> d[s].lastIndex, lastTerm |-> d[s].lastTerm,
                    match |-> d[s].lastIndex, commit |-> d[s].commit,
                    applied |-> d[s].applied]
    BY <1>3, <1>4 DEF PeerOf
  <2>2. /\ role \in {"leader", "follower"} /\ (role = "leader" <=> s = oldLeader)
        /\ d[s].term \in 1..MaxTerm
        /\ d[s].lastIndex \in Nat /\ d[s].lastTerm \in Nat
        /\ d[s].commit \in Nat /\ d[s].applied \in Nat
    BY <1>3, <1>4
  <2> HIDE DEF role
  <2>3. /\ peers[s].role = role /\ peers[s].healthy = TRUE
        /\ peers[s].lastIndex = d[s].lastIndex /\ peers[s].lastTerm = d[s].lastTerm
        /\ peers[s].match = d[s].lastIndex /\ peers[s].term = d[s].term
        /\ peers[s].commit = d[s].commit /\ peers[s].applied = d[s].applied
    BY <2>1
  <2>4. peers[s] \in Peer
    <3>1. /\ role \in {"leader", "follower", "pre_candidate", "candidate", "offline"}
          /\ TRUE \in BOOLEAN /\ None \in Stores \cup {None}
      BY <2>2
    <3>2. QED BY <2>1, <2>2, <3>1 DEF Peer
  <2>5. role # "offline"
    BY <2>2
  <2>6. QED BY <2>2, <2>3, <2>4, <2>5, Zenon
<1>5. TypeOK
  <2>1. peers \in [Stores -> Peer]
    BY <1>1, <1>4
  <2>2. log \in Noop /\ election \in Election /\ request \in Request
    BY <1>2 DEF Init, Noop, Election, Request
  <2>3. QED BY <1>2, <2>1, <2>2 DEF Init, TypeOK, Phases
<1>6. IndexesOrdered
  BY <1>3, <1>4 DEF IndexesOrdered
<1>7. RolesAgree /\ Health
  BY <1>2, <1>4 DEF RolesAgree, Health
<1>8. Contest /\ Ballots
  BY <1>2, <1>4 DEF Init, Contest, Ballots, Campaigning, Live
<1>9. LogsKept
  <2>1. ASSUME NEW s \in Stores
        PROVE  /\ HoldsAllCommitted(s) <=> \A t \in Stores : d[t].commit <= d[s].lastIndex
               /\ {t \in Stores : UpToDate(peers[s], peers[t])} = {t \in Stores : Ahead(d, s, t)}
    <3>1. \A t \in Stores : /\ d[t].lastIndex \in Nat /\ d[t].lastTerm \in Nat
      BY <1>3
    <3>2. QED BY <1>4, <3>1 DEF HoldsAllCommitted, UpToDate, Ahead
  <2>2. QED BY <1>1, <1>2, <2>1 DEF LogsKept, Possible, Init
<1>10. NoopShape
  BY DEF Init, NoopShape
<1>11. RequestShape
  BY DEF Init, RequestShape
<1>12. QED BY <1>5, <1>6, <1>7, <1>8, <1>9, <1>10, <1>11 DEF IInv

LEMMA NextKeeps == IInv /\ [Next]_vars => IInv'
<1> SUFFICES ASSUME IInv, [Next]_vars PROVE IInv'
  OBVIOUS
<1>1. CASE ElectionStep
  BY <1>1, FailKeeps, TimeoutKeeps, StartPreVoteKeeps, BecomeCandidateKeeps,
     GrantPreVoteKeeps, GrantVoteKeeps, ElectLeaderKeeps DEF ElectionStep
<1>2. CASE LogStep
  BY <1>2, ProposeKeeps, PersistKeeps, CommitKeeps, ApplyKeeps DEF LogStep
<1>3. CASE RequestStep
  BY <1>3, ObserveLeaderKeeps, LookUpRouteKeeps, RequestKeeps DEF RequestStep
<1>4. CASE UNCHANGED vars
  <2>1. TypeOK' /\ RequestShape'
    BY <1>4 DEF vars, IInv, TypeOK, RequestShape
  <2>2. QED BY <1>4, <2>1, GroupUntouched DEF vars, IInv
<1>5. QED BY <1>1, <1>2, <1>3, <1>4 DEF Next

LEMMA Invariance == Spec => []IInv
  BY InitEstablishes, NextKeeps, PTL DEF Spec

(* Whatever the three logs looked like, indexes stay ordered, one healthy  *)
(* store leads at most, and votes, the no-op and the request agree with    *)
(* what the peers recorded: validateRaftLab has nothing to find.           *)
THEOREM LabIsValid == Spec => []LabValid
<1>1. ASSUME IInv PROVE LabValid
  <2>1. ElectionAgrees
    <3>1. election.phase \in {"idle"} \cup Campaigning \cup {"elected"}
      BY <1>1, Basics DEF Election, Campaigning
    <3>2. election.candidate # None => election.candidate \in Live
      BY <1>1 DEF IInv, Contest
    <3>3. QED BY <1>1, <3>1, <3>2 DEF IInv, Contest, Ballots, ElectionAgrees
  <2>2. NoopAgrees
    <3>1. log.committed => Cardinality(log.persisted) >= Quorum
      <4>1. ASSUME log.committed PROVE log.persisted = Live /\ failed = oldLeader
        BY <1>1, <4>1 DEF IInv, NoopShape, Contest
      <4>2. QED BY <1>1, <4>1, Survivors DEF Quorum
    <3>2. \A s \in log.persisted :
            s \in Live /\ peers[s].lastIndex >= log.index /\ peers[s].lastTerm = log.term
      <4>1. log.persisted # {} => log.index \in Nat
        BY <1>1, Basics DEF IInv, NoopShape, Noop
      <4>2. QED BY <1>1, <4>1 DEF IInv, NoopShape
    <3>3. QED BY <1>1, <3>1, <3>2 DEF IInv, NoopShape, NoopAgrees
  <2>3. RequestAgrees
    BY <1>1, Basics DEF IInv, RequestShape, RequestAgrees
  <2>4. QED BY <1>1, <2>1, <2>2, <2>3 DEF IInv, LabValid
<1>2. QED BY <1>1, Invariance, PTL

(* Whoever leads holds every entry any of the three stores has committed,  *)
(* the one that failed included, and a committed no-op lies above them.    *)
THEOREM LeaderHoldsCommitted == Spec => []LeaderIsComplete
<1>1. IInv => LeaderIsComplete
  BY DEF IInv, LogsKept, NoopShape, HoldsAllCommitted, LeaderIsComplete
<1>2. QED BY <1>1, Invariance, PTL

(* A request is answered only by the new leader, and only when a majority  *)
(* has committed and the leader has applied an entry of its own term.      *)
THEOREM ServedByConfirmed == Spec => []ServedByConfirmedLeader
<1>1. ASSUME IInv, request.status \in {"served", "completed"}
      PROVE  /\ leader \in Live \ {oldLeader}
             /\ log.index # None
             /\ peers[leader].applied >= log.index
             /\ log.term = peers[leader].term
             /\ Cardinality({s \in Stores : peers[s].commit >= log.index}) >= Quorum
             /\ pd.observed = leader /\ request.cached = leader
  <2>1. /\ request.cache = "refreshed" /\ request.cached = leader /\ pd.lookedUp
        /\ pd.observed = leader /\ leader # None /\ leader \in log.applied
    BY <1>1 DEF IInv, RequestShape
  <2>2. /\ log.index # None /\ log.committed /\ leader \in log.persisted
        /\ peers[leader].applied >= log.index /\ log.term = peers[leader].term
        /\ failed = oldLeader /\ leader \in Live
    BY <1>1, <2>1 DEF IInv, NoopShape, Contest
  <2>3. Live = Stores \ {oldLeader} /\ IsFiniteSet(Live) /\ Cardinality(Live) = 2
    BY <1>1, <2>2, Survivors
  <2> DEFINE holders == {s \in Stores : peers[s].commit >= log.index}
  <2>4. Live \subseteq holders
    BY <1>1, <2>2, <2>3 DEF IInv, NoopShape
  <2>5. IsFiniteSet(holders)
    <3>1. holders \in SUBSET Stores
      OBVIOUS
    <3>2. QED BY <3>1, RaftLabAssumption, FS_Subset
  <2>6. Cardinality(holders) >= 2
    BY <2>3, <2>4, <2>5, FS_Subset, FS_CardinalityType
  <2>7. QED BY <2>1, <2>2, <2>3, <2>6 DEF Quorum
<1>2. IInv => ServedByConfirmedLeader
  BY <1>1 DEF ServedByConfirmedLeader
<1>3. QED BY <1>2, Invariance, PTL

(* No step takes a term, a commit or an applied index back.                *)
LEMMA IndexesGrow ==
  ASSUME IInv, [Next]_vars, NEW s \in Stores
  PROVE  /\ peers'[s].term >= peers[s].term
         /\ peers'[s].commit >= peers[s].commit
         /\ peers'[s].applied >= peers[s].applied
<1>1. /\ peers \in [Stores -> Peer] /\ peers[s] \in Peer
      /\ peers[s].term \in Nat /\ peers[s].commit \in Nat /\ peers[s].applied \in Nat
  BY Basics DEF Peer
<1>2. CASE UNCHANGED peers
  BY <1>1, <1>2
<1>3. ASSUME NEW t \in Stores, Fail(t) \/ StartPreVote(t)
      PROVE  /\ peers'[s].term = peers[s].term /\ peers'[s].commit = peers[s].commit
             /\ peers'[s].applied = peers[s].applied
  BY <1>1, <1>3 DEF Fail, StartPreVote, Peer
<1>4. ASSUME NEW c \in Stores, BecomeCandidate(c)
      PROVE  /\ peers'[s].term >= peers[s].term /\ peers'[s].commit = peers[s].commit
             /\ peers'[s].applied = peers[s].applied
  BY <1>1, <1>4 DEF BecomeCandidate, Peer
<1>5. ASSUME NEW c \in Stores, NEW v \in Stores, GrantVote(c, v)
      PROVE  /\ peers'[s].term >= peers[s].term /\ peers'[s].commit = peers[s].commit
             /\ peers'[s].applied = peers[s].applied
  <2>1. peers[c].term \in Nat /\ peers[c].term >= peers[v].term
    BY <1>1, <1>5 DEF GrantVote, NotStale, Peer
  <2>2. QED BY <1>1, <1>5, <2>1 DEF GrantVote, Peer
<1>6. ASSUME NEW c \in Stores, NEW votes \in SUBSET Stores, ElectLeader(c, votes)
      PROVE  /\ peers'[s].term >= peers[s].term /\ peers'[s].commit = peers[s].commit
             /\ peers'[s].applied = peers[s].applied
  <2>1. /\ peers'[s].term = TermAfter(s, c) /\ peers'[s].commit = peers[s].commit
        /\ peers'[s].applied = peers[s].applied
    BY <1>1, <1>6 DEF ElectLeader, Peer
  <2>2. peers[c].term \in Nat
    BY <1>1 DEF Peer
  <2>3. TermAfter(s, c) >= peers[s].term
    BY <1>1, <2>2 DEF TermAfter
  <2>4. QED BY <2>1, <2>3
<1>7. ASSUME Propose
      PROVE  /\ peers'[s].term = peers[s].term /\ peers'[s].commit = peers[s].commit
             /\ peers'[s].applied = peers[s].applied
  BY <1>1, <1>7 DEF Propose, Peer
<1>8. ASSUME NEW stores \in SUBSET Stores, Persist(stores)
      PROVE  /\ peers'[s].term = peers[s].term /\ peers'[s].commit = peers[s].commit
             /\ peers'[s].applied = peers[s].applied
  BY <1>1, <1>8 DEF Persist, Peer
<1>9. ASSUME Commit
       PROVE  /\ peers'[s].term = peers[s].term /\ peers'[s].commit >= peers[s].commit
              /\ peers'[s].applied = peers[s].applied
  <2>1. log.index \in Nat
    BY <1>9, Basics DEF Commit, Noop
  <2>2. QED BY <1>1, <1>9, <2>1 DEF Commit, Peer
<1>10. ASSUME NEW stores \in SUBSET Stores, Apply(stores)
       PROVE  /\ peers'[s].term = peers[s].term /\ peers'[s].commit = peers[s].commit
              /\ peers'[s].applied >= peers[s].applied
  <2>1. log.index \in Nat
    <3>1. log.persisted # {}
      BY <1>10 DEF Apply
    <3>2. QED BY <3>1, Basics DEF IInv, NoopShape, Noop
  <2>2. QED BY <1>1, <1>10, <2>1 DEF Apply, Peer
<1>11. CASE ~ UNCHANGED peers
  <2>1. ElectionStep \/ Propose \/ Commit
          \/ \E stores \in SUBSET Stores : Persist(stores) \/ Apply(stores)
    BY <1>11 DEF Next, vars, LogStep, RequestStep, ObserveLeader, LookUpRoute, Send,
         TransportError, BackOff, Refresh, Retry, Serve, Complete, Move
  <2>2. CASE ElectionStep
    <3>1. \/ \E t \in Stores : Fail(t) \/ StartPreVote(t) \/ BecomeCandidate(t)
          \/ \E c, v \in Stores : GrantVote(c, v)
          \/ \E c \in Stores : \E votes \in SUBSET Stores : ElectLeader(c, votes)
      BY <1>11, <2>2 DEF ElectionStep, Timeout, GrantPreVote
    <3>2. QED BY <1>1, <1>3, <1>4, <1>5, <1>6, <3>1
  <2>3. QED BY <1>1, <1>7, <1>8, <1>9, <1>10, <2>1, <2>2
<1>12. QED BY <1>2, <1>11

(* A vote is given once in a term.                                         *)
LEMMA VotesStand ==
  ASSUME IInv, [Next]_vars, NEW s \in Stores,
         peers'[s].term = peers[s].term, peers[s].voted # None
  PROVE  peers'[s].voted = peers[s].voted
<1>1. /\ peers \in [Stores -> Peer] /\ \A t \in Stores : peers[t] \in Peer
      /\ \A t \in Stores : peers[t].term \in Nat
  BY Basics DEF Peer
<1>2. CASE UNCHANGED peers
  BY <1>2
<1>3. ASSUME NEW c \in Stores, BecomeCandidate(c)
      PROVE  peers'[s].voted = peers[s].voted
  BY <1>1, <1>3 DEF BecomeCandidate, Peer
<1>4. ASSUME NEW c \in Stores, NEW v \in Stores, GrantVote(c, v)
      PROVE  peers'[s].voted = peers[s].voted
  <2>1. CASE s = v
    <3>1. peers[v].term < peers[c].term
      BY <1>4, <2>1 DEF GrantVote
    <3>2. peers'[v].term = peers[c].term
      BY <1>1, <1>4 DEF GrantVote, Peer
    <3>3. QED BY <1>1, <2>1, <3>1, <3>2
  <2>2. QED BY <1>1, <1>4, <2>1 DEF GrantVote
<1>5. ASSUME NEW t \in Stores, Fail(t) \/ StartPreVote(t)
      PROVE  peers'[s].voted = peers[s].voted
  BY <1>1, <1>5 DEF Fail, StartPreVote, Peer
<1>6. ASSUME NEW c \in Stores, NEW votes \in SUBSET Stores, ElectLeader(c, votes)
      PROVE  peers'[s].voted = peers[s].voted
  BY <1>1, <1>6 DEF ElectLeader, Peer
<1>7. ASSUME LogStep
      PROVE  peers'[s].voted = peers[s].voted
  <2>1. CASE Propose
    BY <1>1, <2>1 DEF Propose, Peer
  <2>2. ASSUME NEW stores \in SUBSET Stores, Persist(stores)
        PROVE  peers'[s].voted = peers[s].voted
    BY <1>1, <2>2 DEF Persist, Peer
  <2>3. CASE Commit
    BY <1>1, <2>3 DEF Commit, Peer
  <2>4. ASSUME NEW stores \in SUBSET Stores, Apply(stores)
        PROVE  peers'[s].voted = peers[s].voted
    BY <1>1, <2>4 DEF Apply, Peer
  <2>5. QED BY <1>7, <2>1, <2>2, <2>3, <2>4 DEF LogStep
<1>8. CASE ~ UNCHANGED peers
  <2>1. ElectionStep \/ LogStep
    BY <1>8 DEF Next, vars, RequestStep, ObserveLeader, LookUpRoute, Send,
         TransportError, BackOff, Refresh, Retry, Serve, Complete, Move
  <2>2. CASE ElectionStep
    <3>1. \/ \E t \in Stores : Fail(t) \/ StartPreVote(t) \/ BecomeCandidate(t)
          \/ \E c, v \in Stores : GrantVote(c, v)
          \/ \E c \in Stores : \E votes \in SUBSET Stores : ElectLeader(c, votes)
      BY <1>8, <2>2 DEF ElectionStep, Timeout, GrantPreVote
    <3>2. QED BY <1>3, <1>4, <1>5, <1>6, <3>1
  <2>3. QED BY <1>7, <2>1, <2>2
<1>9. QED BY <1>2, <1>8

(* Leadership changes hands only in raft_leader_elected, and every vote    *)
(* counted there was cast for the winner in the winner's own term.         *)
LEMMA LeadershipByVotes ==
  ASSUME IInv, [Next]_vars, leader' # leader, leader' # None
  PROVE  Cardinality({s \in election'.votes :
                        peers[s].voted = leader' /\ peers[s].term = peers[leader'].term})
           >= Quorum
<1>1. PICK c \in Stores, votes \in SUBSET Stores : ElectLeader(c, votes)
  BY DEF Next, vars, ElectionStep, Fail, Timeout, StartPreVote, BecomeCandidate,
       GrantPreVote, GrantVote, LogStep, Propose, Commit, Persist, Apply, RequestStep,
       ObserveLeader, LookUpRoute, Send, TransportError, BackOff, Refresh, Retry, Serve,
       Complete, Move
<1>2. /\ leader = None /\ leader' = c /\ c = election.candidate
      /\ votes \subseteq election.votes /\ Cardinality(votes) >= Quorum
  BY <1>1 DEF ElectLeader
<1>3. election'.votes = votes
  BY <1>1, Basics DEF ElectLeader, Election
<1>4. votes # {}
  BY <1>2, FS_EmptySet DEF Quorum
<1>5. election.phase \in Campaigning
  <2>1. election.phase \in {"idle", "elected"} \cup Campaigning
    BY Basics DEF Election, Campaigning
  <2>2. election.phase # "idle"
    BY <1>2, <1>4 DEF IInv, Contest
  <2>3. election.phase # "elected"
    BY <1>2, Basics DEF IInv, Contest
  <2>4. QED BY <2>1, <2>2, <2>3
<1>6. \A v \in votes : peers[v].voted = leader' /\ peers[v].term = peers[leader'].term
  BY <1>2, <1>5 DEF IInv, Ballots
<1>7. {s \in election'.votes :
         peers[s].voted = leader' /\ peers[s].term = peers[leader'].term} = votes
  BY <1>3, <1>6
<1>8. QED BY <1>2, <1>7

(* A peer keeps its word from the first delta to the last: terms, commits  *)
(* and applied indexes only grow, a vote stands for its term, and only     *)
(* votes of the winner's own term make a leader.                           *)
THEOREM WordIsKept == Spec => PeersKeepTheirWord
<1>1. IInv /\ [Next]_vars =>
        [/\ \A s \in Stores :
              /\ peers'[s].term >= peers[s].term
              /\ peers'[s].commit >= peers[s].commit
              /\ peers'[s].applied >= peers[s].applied
              /\ peers'[s].term = peers[s].term /\ peers[s].voted # None =>
                   peers'[s].voted = peers[s].voted
         /\ leader' # leader /\ leader' # None =>
              Cardinality({s \in election'.votes :
                             peers[s].voted = leader' /\ peers[s].term = peers[leader'].term})
                >= Quorum]_vars
  BY IndexesGrow, VotesStand, LeadershipByVotes
<1>2. QED BY <1>1, Invariance, PTL DEF Spec, PeersKeepTheirWord
=============================================================================

--------------------------- MODULE FailoverScenario ---------------------------
(***************************************************************************)
(* traceRaftFailoverScenario of src/tidb/model/simulation.ts: a point read *)
(* on its way to a Region whose leader's store fails.  The client's        *)
(* request and the election go their own ways from the failure, and meet   *)
(* when the Region cache is refreshed.                                     *)
(***************************************************************************)
EXTENDS TraceBuilder

VoterStores == 1..3

\* Followers in store order: the first campaigns, the second votes.
CandidateOf(old) == Min(VoterStores \ {old})
VoterOf(old) == Max(VoterStores \ {old})

FailoverRequest ==
  Chain({}, <<Plain("raft_lab_start"), Plain("route"), Plain("parse_optimize"),
              Plain("snapshot_ts"), Plain("locate_region"),
              Step1("region_request_attempt", <<"Send">>)>>)

FailoverLoss(old) ==
  Chain({<<"region_request_attempt", 0>>},
    <<Failed(Step1("tikv_process_unreachable", <<"Fail", old>>)),
      Warning(Step1("region_request_transport_error", <<"TransportError">>)),
      Warning(Lasting(80, Step1("region_request_backoff", <<"BackOff">>)))>>)

FailoverPreVote(c, v) ==
  Chain({<<"tikv_process_unreachable", 0>>},
    <<Warning(Lasting(130, Step1("raft_election_timeout", <<"Timeout", c>>))),
      Step1("raft_pre_vote_start", <<"StartPreVote", c>>),
      Plain("raft_pre_vote_request"),
      Step1("raft_pre_vote_granted", <<"GrantPreVote", c, v>>)>>)

FailoverVote(c, v) ==
  Chain({<<"raft_pre_vote_granted", 0>>},
    <<Step1("raft_candidate_term", <<"BecomeCandidate", c>>),
      Plain("raft_vote_request"),
      Step1("raft_vote_granted", <<"GrantVote", c, v>>),
      Step1("raft_leader_elected", <<"ElectLeader", c, {c, v}>>)>>)

FailoverNoop(c, v) ==
  Chain({<<"raft_leader_elected", 0>>},
    <<Step1("raft_leader_noop_propose", <<"Propose">>),
      Step1("raft_leader_noop_persist", <<"Persist", {c, v}>>),
      Step1("raft_leader_noop_commit", <<"Commit">>),
      Step1("raft_leader_noop_apply", <<"Apply", {c}>>)>>)

\* PD hears of the leader from its election; showing it waits for the no-op.
FailoverRouting ==
  <<Fenced({<<"raft_leader_noop_apply", 0>>},
      Joining({<<"raft_leader_elected", 0>>},
        Step1("pd_observes_region_leader", <<"ObserveLeader">>))),
    Joining({<<"pd_observes_region_leader", 0>>, <<"region_request_backoff", 0>>},
      Event("region_cache_refreshed", 0, <<<<"LookUpRoute">>, <<"Refresh">>>>)),
    Joining({<<"region_cache_refreshed", 0>>},
      Step1("region_request_retry", <<"Retry">>))>>

FailoverServing(v) ==
  Chain({<<"region_request_retry", 0>>, <<"raft_leader_noop_apply", 0>>},
    <<Step1("point_get_recovered", <<"Serve">>),
      Step1("raft_failover_complete", <<"Complete">>),
      Step1("raft_follower_noop_apply", <<"Apply", {v}>>)>>)

FailoverEvents(old) ==
  LET c == CandidateOf(old)
      v == VoterOf(old)
  IN  FailoverRequest \o FailoverLoss(old) \o FailoverPreVote(c, v) \o FailoverVote(c, v)
        \o FailoverNoop(c, v) \o FailoverRouting \o FailoverServing(v)
=============================================================================

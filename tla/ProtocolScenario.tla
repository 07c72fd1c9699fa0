--------------------------- MODULE ProtocolScenario ---------------------------
(***************************************************************************)
(* traceDetailedCommitProtocols of src/tidb/model/simulation.ts: a 1PC, an *)
(* Async Commit and a 2PC transaction, one after the other.  The two       *)
(* Regions of a transaction are dispatched to independently; the fence     *)
(* shows one after the other.                                              *)
(*                                                                         *)
(* allocateProtocolTs leaves room between two timestamps of PD, because    *)
(* TiDB and TiKV derive commit timestamps from the last one on their own.  *)
(***************************************************************************)
EXTENDS TraceBuilder

ProtocolVoters == {1, 2, 3}
PersistingVoters == {1, 2}     \* the leader and its first follower

\* The nth timestamp of PD.
ProtocolTs(n) == 100 * n

\* Where a lane's commit timestamp comes from.
CommitTsSource(l) ==
  [one_pc |-> "tikv_one_pc_result", async_commit |-> "max_prewrite_min_commit_ts",
   two_pc |-> "pd_tso_after_prewrite"][l]

\* raftSequence: one command through the Raft group of a Region.
RaftSequence(l, r, region, operation) ==
  <<Event(operation \o "_propose", region, <<<<"Propose", l, r, operation>>>>),
    Event(operation \o "_persist", region, <<<<"PersistQuorum", l, r, PersistingVoters>>>>),
    Event(operation \o "_commit", region, <<<<"CommitEntry", l, r>>>>),
    Event(operation \o "_apply", region, <<<<"ApplyEntry", l, r>>>>)>>

\* A step of one lane: what it records and the stage it reaches.
LaneStep(name, l, deltas, stage) ==
  Event(name \o l, 0, Append(deltas, <<"Advance", l, stage>>))

\* The request of a lane up to its timestamps; n timestamps are allocated.
LaneStart(l, parent, n) ==
  LET latest == ProtocolTs(n + 2)
  IN  Chain({parent},
        <<LaneStep("request_", l, <<<<"Focus", l, "running">>>>, "requested"),
          LaneStep("start_ts_", l, <<<<"StartTs", l, ProtocolTs(n + 1)>>>>, "started"),
          LaneStep("eligibility_", l, <<>>, "candidates_checked"),
          LaneStep("latest_ts_", l,
            <<<<"LatestTs", l, latest>>, <<"RequestMinCommitTs", l, latest + 1>>,
              <<"MaxCommitTs", l, latest + 80>>>>, "latest_ts")>>)

ProtocolBegin ==
  Chain({}, <<Step1("protocol_comparison_start", <<"Focus", None, "running">>)>>)

-----------------------------------------------------------------------------
(* 1PC: the prewrite carries the commit.                                   *)
OnePcPrewrite ==
  Chain({<<"latest_ts_one_pc", 0>>},
    <<LaneStep("dispatch_", "one_pc", <<>>, "prewriting")>>
      \o RaftSequence("one_pc", "primary", 24, "one_pc_prewrite"))

OnePcResult ==
  Chain({<<"one_pc_prewrite_apply", 24>>},
    <<LaneStep("result_", "one_pc", <<<<"Decide", "one_pc", ProtocolTs(2) + 2>>>>, "committing"),
      LaneStep("response_", "one_pc", <<<<"Respond", "one_pc">>>>, "client_acknowledged"),
      LaneStep("complete_", "one_pc", <<>>, "complete")>>)

-----------------------------------------------------------------------------
(* A Region's dispatch depends on parent and is fenced behind the Region   *)
(* before it; the first dispatch moves the lane to its stage.              *)
Dispatch(name, l, region, isFirst, stage, fence) ==
  Fenced(fence, Event(name, region, IF isFirst THEN <<<<"Advance", l, stage>>>> ELSE <<>>))

AsyncBranch(region, r, min, isFirst, fence) ==
  Chain({<<"selected_async_commit", 0>>},
    <<Dispatch("async_dispatch", "async_commit", region, isFirst, "prewriting", fence)>>
      \o RaftSequence("async_commit", r, region, "prewrite")
      \o <<Event("async_result", region, <<<<"ReturnedMinCommitTs", "async_commit", r, min>>>>)>>)

AsyncPrewrite ==
  Chain({<<"latest_ts_async_commit", 0>>},
        <<LaneStep("selected_", "async_commit", <<>>, "selected")>>)
    \o AsyncBranch(25, "primary", ProtocolTs(4) + 2, TRUE, {})
    \o AsyncBranch(26, "secondary", ProtocolTs(4) + 3, FALSE, {<<"async_result", 25>>})

AsyncDecision ==
  Chain({<<"async_result", 25>>, <<"async_result", 26>>},
    <<LaneStep("decision_", "async_commit", <<<<"Decide", "async_commit", ProtocolTs(4) + 3>>>>,
               "prewritten"),
      LaneStep("response_", "async_commit", <<<<"Respond", "async_commit">>>>,
               "client_acknowledged")>>)

AsyncBackgroundBranch(region, r, isFirst, fence) ==
  Chain({<<"response_async_commit", 0>>},
    <<Dispatch("background_dispatch", "async_commit", region, isFirst, "background", fence)>>
      \o RaftSequence("async_commit", r, region, "commit_async"))

AsyncBackground ==
  AsyncBackgroundBranch(25, "primary", TRUE, {})
    \o AsyncBackgroundBranch(26, "secondary", FALSE, {<<"commit_async_apply", 25>>})
    \o <<Joining({<<"commit_async_apply", 25>>, <<"commit_async_apply", 26>>},
           LaneStep("complete_", "async_commit", <<<<"FinishBackground", "async_commit">>>>,
                    "complete"))>>

-----------------------------------------------------------------------------
(* 2PC: all prewrites, PD's commit timestamp, the primary, the answer.     *)
\* The third transaction begins once the second is done in the background.
TwoPcStart == LaneStart("two_pc", <<"complete_async_commit", 0>>, 4)

TwoPcBranch(region, r, isFirst, fence) ==
  Chain({<<"selected_two_pc", 0>>},
    <<Dispatch("two_pc_dispatch", "two_pc", region, isFirst, "prewriting", fence)>>
      \o RaftSequence("two_pc", r, region, "prewrite")
      \o <<Event("two_pc_result", region, <<>>)>>)

TwoPcPrewrite ==
  Chain({<<"latest_ts_two_pc", 0>>}, <<LaneStep("selected_", "two_pc", <<>>, "selected")>>)
    \o TwoPcBranch(27, "primary", TRUE, {})
    \o TwoPcBranch(28, "secondary", FALSE, {<<"two_pc_result", 27>>})

TwoPcPrimary ==
  Chain({<<"two_pc_result", 27>>, <<"two_pc_result", 28>>},
    <<LaneStep("all_", "two_pc", <<>>, "prewritten"),
      LaneStep("commit_ts_", "two_pc", <<<<"Decide", "two_pc", ProtocolTs(7)>>>>, "commit_ts"),
      LaneStep("primary_dispatch_", "two_pc", <<>>, "committing")>>
      \o RaftSequence("two_pc", "primary", 27, "commit_primary")
      \o <<LaneStep("response_", "two_pc", <<<<"Respond", "two_pc">>>>, "client_acknowledged")>>)

TwoPcSecondary ==
  Chain({<<"response_two_pc", 0>>},
    <<LaneStep("secondary_dispatch_", "two_pc", <<>>, "background")>>
      \o RaftSequence("two_pc", "secondary", 28, "commit_secondary")
      \o <<LaneStep("complete_", "two_pc", <<<<"FinishBackground", "two_pc">>>>, "complete")>>)

ProtocolEnd ==
  <<Joining({<<"complete_one_pc", 0>>, <<"complete_async_commit", 0>>, <<"complete_two_pc", 0>>},
      Step1("protocol_lab_complete", <<"Focus", None, "complete">>))>>

ProtocolEvents ==
  ProtocolBegin
    \o LaneStart("one_pc", <<"protocol_comparison_start", 0>>, 0) \o OnePcPrewrite \o OnePcResult
    \o LaneStart("async_commit", <<"complete_one_pc", 0>>, 2) \o AsyncPrewrite \o AsyncDecision
    \o AsyncBackground
    \o TwoPcStart \o TwoPcPrewrite \o TwoPcPrimary \o TwoPcSecondary \o ProtocolEnd
=============================================================================

----------------------------- MODULE MppScenario -----------------------------
(***************************************************************************)
(* traceDetailedTiFlashMpp of src/tidb/model/simulation.ts: a grouped      *)
(* aggregate over Regions 24 to 26, whose learners lie on two TiFlash      *)
(* stores.  Region 24 is covered by its own safe timestamp; the other two  *)
(* ask their leaders for a read index while the log is still being         *)
(* applied.  Replication and query are branches that only a fence orders.  *)
(***************************************************************************)
EXTENDS TraceBuilder

MppRegions == <<24, 25, 26>>
MppRegionsOf == <<{24, 26}, {25}>>          \* TiFlash store -> Regions
MppSnapshot == 4
MppLeaders ==                               \* what the learners know of time
  [r \in {24, 25, 26} |-> [leader |-> 4, self |-> IF r = 24 THEN 4 ELSE 2]]

ScanTasks == <<<<"scan", 1>>, <<"scan", 2>>>>
FinalTasks == <<<<"final", 1>>, <<"final", 2>>>>
MppTasks == ScanTasks \o FinalTasks
RootTunnel(n) == <<FinalTasks[n], <<"root", None>>>>
HashTunnel == <<<<ScanTasks[1], FinalTasks[1]>>, <<ScanTasks[1], FinalTasks[2]>>,
                <<ScanTasks[2], FinalTasks[1]>>, <<ScanTasks[2], FinalTasks[2]>>>>

Moved(tasks, to) == [i \in DOMAIN tasks |-> <<"MoveTask", tasks[i], to>>]

\* The same delta for every Region of a sequence, as one event each.
PerRegion(name, action, regions) ==
  [i \in DOMAIN regions |-> Event(name, regions[i], <<<<action, regions[i]>>>>)]

\* Every event depends on its Region's event `before`; fences keep the order.
AfterEach(before, es) ==
  [i \in DOMAIN es |->
     [es[i] EXCEPT !.deps = {<<before, es[i].id[2]>>},
                   !.after = IF i = 1 THEN {} ELSE {es[i - 1].id}]]

-----------------------------------------------------------------------------
MppCommits == Fan({}, PerRegion("raft_leader_commit", "RaftCommit", MppRegions))

Reached1(name, action, r) == Event(name, r, <<<<action, r, 1>>>>)

MppReceives ==
  AfterEach("raft_leader_commit",
            [i \in 1..3 |-> Reached1("learner_receive", "Receive", MppRegions[i])])

ApplyTail(r) ==
  Chain({<<"learner_receive", r>>},
    <<Reached1("apply_command", "ApplyCommand", r), Reached1("dm_flush", "Flush", r),
      Reached1("applied_advance", "AdvanceApplied", r)>>)

MppPlanning ==
  Chain({<<"applied_advance", 24>>, <<"learner_receive", 25>>, <<"learner_receive", 26>>},
    <<Step1("query_received", <<"ReceiveQuery">>),
      Step1("snapshot_tso", <<"AllocateSnapshot", MppSnapshot>>),
      Plain("safe_ts_read_state_update"),
      Step1("replica_placement_observed", <<"ObserveProvisioning">>),
      Step1("access_path_selected", <<"SelectAccessPath">>),
      Step1("fragments_built", <<"BuildFragments">>),
      Step1("regions_scheduled", <<"ScheduleRegions">>)>>)

MppDispatching ==
  Chain({<<"regions_scheduled", 0>>},
    <<Step1("tasks_built", <<"BuildTasks">>),
      Step1("tunnels_planned", <<"BuildTunnels">>),
      Event("dispatch_batch", 0, Moved(MppTasks, "dispatched")),
      Event("tasks_prepared", 0, <<<<"RegisterTunnels">>>> \o Moved(MppTasks, "prepared")),
      Event("gating_started", 0, Moved(ScanTasks, "snapshot_gating"))>>)

MppSafeTsGate ==
  Fan({<<"gating_started", 0>>}, PerRegion("safe_ts_check", "CheckSafeTs", MppRegions))
    \o AfterEach("safe_ts_check", PerRegion("ready_safe_ts", "ReadySafeTs", <<24>>))

MppReadIndex ==
  AfterEach("safe_ts_check",
            PerRegion("read_index_requested", "RequestReadIndex", <<25, 26>>))
    \o AfterEach("read_index_requested",
                 PerRegion("read_index_returned", "ReturnReadIndex", <<25, 26>>))

MppWaits ==
  AfterEach("read_index_returned", PerRegion("wait_applied", "WaitApplied", <<25, 26>>))

\* The log goes on being applied while the query waits: a fence, no dependency.
MppApplies ==
  LET FencedTail(fence, tail) == <<Fenced({fence}, tail[1])>> \o Tail(tail)
  IN  FencedTail(<<"wait_applied", 25>>, ApplyTail(25))
        \o FencedTail(<<"applied_advance", 25>>, ApplyTail(26))

MppReady ==
  AfterEach("applied_advance", PerRegion("ready_read_index", "ReadyReadIndex", <<25, 26>>))

EveryRegion(action) == [i \in 1..3 |-> <<action, MppRegions[i]>>]

MppScans ==
  Chain({<<"ready_safe_ts", 24>>, <<"ready_read_index", 25>>, <<"ready_read_index", 26>>},
    <<Event("mvcc_lock_checks", 0, EveryRegion("CheckLocks")),
      Event("scans_started", 0, Moved(ScanTasks, "scanning")),
      Event("post_read_validated", 0, EveryRegion("Validate")),
      Event("partial_aggregate", 0, Moved(ScanTasks, "partial_aggregated")),
      Event("hash_partition_started", 0, Moved(ScanTasks, "exchange_sending"))>>)

MppSends ==
  Fan({<<"hash_partition_started", 0>>},
      [i \in 1..4 |-> Event("hash_exchange_send", i, <<<<"Send", HashTunnel[i]>>>>)])

MppExchange ==
  Chain({<<"hash_exchange_send", i>> : i \in 1..4},
    <<Event("hash_exchange_received", 0,
            Moved(FinalTasks, "exchange_receiving")
              \o [i \in 1..4 |-> <<"Deliver", HashTunnel[i]>>]),
      Event("final_aggregate", 0, Moved(FinalTasks, "final_aggregated")),
      Event("root_passthrough_sent", 0,
            Moved(FinalTasks, "root_streaming")
              \o [n \in 1..2 |-> <<"Send", RootTunnel(n)>>])>>)

MppAnswer ==
  Chain({<<"root_passthrough_sent", 0>>},
    <<Event("gather_decoded", 0, <<<<"Deliver", RootTunnel(1)>>, <<"DecodeChunks", 1>>>>),
      Step1("client_columns_sent", <<"SendColumns", 1>>),
      Step1("client_rows_streamed", <<"StreamRows", 1>>),
      Event("gather_progress", 0,
            <<<<"Deliver", RootTunnel(2)>>, <<"StreamMoreRows", 2>>>>),
      Step1("root_streams_eof", <<"EndStreams", 2>>)>>)

MppCompletion ==
  Chain({<<"root_streams_eof", 0>>},
    <<Event("client_query_complete", 0, Moved(MppTasks, "complete") \o <<<<"Complete", 2>>>>)>>)

MppEvents ==
  MppCommits \o MppReceives \o ApplyTail(24) \o MppPlanning \o MppDispatching
    \o MppSafeTsGate \o MppReadIndex \o MppWaits \o MppApplies \o MppReady
    \o MppScans \o MppSends \o MppExchange \o MppAnswer \o MppCompletion
=============================================================================

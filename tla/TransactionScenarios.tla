------------------------- MODULE TransactionScenarios -------------------------
(***************************************************************************)
(* The guided scenarios about transactions that take locks and prewrite:   *)
(* the lock-wait deadlock and the transaction over two Regions.            *)
(***************************************************************************)
EXTENDS TraceBuilder

(***************************************************************************)
(* traceLockDeadlockScenario of src/tidb/model/simulation.ts: transactions *)
(* A and B lock the resources a and b in opposite order.  B closes the     *)
(* cycle and is rolled back; A commits, and B's client tries again with    *)
(* transaction C once its backoff is over and A has released its locks.    *)
(* Timestamps are the order in which the scenario allocates them.          *)
(***************************************************************************)

DeadlockTransactions == {"A", "B", "C"}
DeadlockResources == {"a", "b"}
DeadlockClients == {"client-a", "client-b"}

WaitEdge(waiter, holder, r) == [waiter |-> waiter, holder |-> holder, resource |-> r]

DeadlockBegin ==
  Chain({}, <<Plain("lock_lab_start"),
              Step1("begin_a", <<"Begin", "A", "client-a", 1>>),
              Step1("begin_b", <<"Begin", "B", "client-b", 2>>)>>)

DeadlockAcquire ==
  <<Joining({<<"begin_b", 0>>}, Step1("acquire_a", <<"Acquire", "A", "a">>)),
    Joining({<<"begin_b", 0>>}, Step1("acquire_b", <<"Acquire", "B", "b">>))>>

Waiting(name, t, h, r) ==
  Warning(Event(name, 0, <<<<"Enqueue", t, r>>, <<"AddEdge", t, h, r>>>>))

DeadlockWait ==
  Chain({<<"acquire_a", 0>>, <<"acquire_b", 0>>},
        <<Waiting("wait_a", "A", "B", "b"), Waiting("wait_b", "B", "A", "a")>>)

DeadlockDetection ==
  Chain({<<"wait_b", 0>>},
    <<Plain("deadlock_detector_lookup"),
      Failed(Step1("deadlock_detected", <<"Detect", <<"B", "A", "B">>>>)),
      Failed(Event("deadlock_victim_selected", 0, <<<<"SelectVictim", "B">>, <<"Victimize", "B">>>>))>>)

\* One event: the victim leaves the graph and A, the next waiter, gets b.
DeadlockRollback ==
  Chain({<<"deadlock_victim_selected", 0>>},
    <<Failed(Event("deadlock_victim_rollback", 0,
        <<<<"RemoveEdge", WaitEdge("B", "A", "a")>>, <<"Dequeue", "B", "a">>,
          <<"RemoveEdge", WaitEdge("A", "B", "b")>>, <<"Dequeue", "A", "b">>,
          <<"Release", "B", "b">>, <<"Acquire", "A", "b">>, <<"RollBack", "B">>>>))>>)

\* The detector and B's client both learn of the rollback; A is woken.
DeadlockResolution ==
  LET rollback == {<<"deadlock_victim_rollback", 0>>}
  IN  <<Joining(rollback, Step1("deadlock_resolved", <<"Resolve">>)),
        Joining(rollback, Failed(Step1("deadlock_error_1213", <<"ClientError", "B">>))),
        Joining({<<"deadlock_error_1213", 0>>},
          Warning(Lasting(120, Step1("application_retry_backoff", <<"Schedule", "B">>))))>>

DeadlockHandOff ==
  Chain({<<"deadlock_resolved", 0>>},
    <<Plain("lock_waiter_woken"),
      Step1("commit_handoff_a", <<"HandOff", "A">>),
      Step1("commit_summary_a", <<"Complete", "A", 3>>),
      Event("lock_release_a", 0, <<<<"Release", "A", "a">>, <<"Release", "A", "b">>>>)>>)

DeadlockRetry ==
  Chain({<<"application_retry_backoff", 0>>, <<"lock_release_a", 0>>},
    <<Event("application_retry_begin", 0, <<<<"StartRetry", "C">>, <<"BeginRetry", "C", "B", 4>>>>),
      Step1("retry_acquire_a", <<"Acquire", "C", "a">>),
      Step1("retry_acquire_b", <<"Acquire", "C", "b">>)>>)

DeadlockRetryCommit ==
  Chain({<<"retry_acquire_b", 0>>},
    <<Step1("commit_handoff_c", <<"HandOff", "C">>),
      Step1("commit_summary_c", <<"Complete", "C", 5>>),
      Event("lock_release_c", 0, <<<<"Release", "C", "a">>, <<"Release", "C", "b">>>>),
      Step1("lock_lab_summary", <<"FinishRetry">>)>>)

DeadlockEvents ==
  DeadlockBegin \o DeadlockAcquire \o DeadlockWait \o DeadlockDetection \o DeadlockRollback
    \o DeadlockResolution \o DeadlockHandOff \o DeadlockRetry \o DeadlockRetryCommit

(***************************************************************************)
(* traceDetailedCrossRegionTransaction of src/tidb/model/simulation.ts:    *)
(* one pessimistic transaction over two Regions.  The prewrites of the two *)
(* Regions are branches with no order between them; everything after they  *)
(* join is one chain.                                                      *)
(***************************************************************************)

TransactionRegions == 1..2   \* the primary's first

TransactionStart ==
  Chain({},
    <<Plain("submit"), Plain("route"), Plain("parse_optimize"),
      Step1("start_ts", <<"Start", 1>>), Plain("protocol_selection")>>)

\* The two locks are asked for one after the other, before COMMIT.
TransactionLocks ==
  Chain({<<"protocol_selection", 0>>},
    <<Event("pessimistic_lock", 1, <<<<"PessimisticLock", 1>>>>),
      Event("pessimistic_lock", 2, <<<<"PessimisticLock", 2>>>>),
      Plain("commit_requested")>>)

\* One event per Region and step, the step of every Region before the next.
Branches(name, before, deltas(_)) ==
  [r \in TransactionRegions |->
     Joining({<<before, IF before = "commit_requested" THEN 0 ELSE r>>},
             Event(name, r, deltas(r)))]

TransactionPrewrite ==
  Branches("prewrite", "commit_requested",
           LAMBDA r : IF r = 1 THEN <<<<"Stage", "locking", "prewriting">>>> ELSE <<>>)
    \o Branches("prewrite_propose", "prewrite", LAMBDA r : <<<<"RaftPropose", r, 1>>>>)
    \o Branches("prewrite_persist", "prewrite_propose", LAMBDA r : <<<<"RaftPersist", r>>>>)
    \o Branches("prewrite_commit", "prewrite_persist", LAMBDA r : <<<<"RaftCommit", r, 1>>>>)
    \o Branches("prewrite_apply", "prewrite_commit", LAMBDA r : <<<<"RaftApply", r, 1>>>>)
    \o Branches("mvcc_prewrite", "prewrite_apply", LAMBDA r : <<<<"MvccPrewrite", r>>>>)

\* appendSerialRaftOperation: the second entry of a Region.
SerialRaftOperation(name, r) ==
  <<Step1(name \o "_propose", <<"RaftPropose", r, 2>>),
    Step1(name \o "_persist", <<"RaftPersist", r>>),
    Step1(name \o "_commit", <<"RaftCommit", r, 2>>),
    Step1(name \o "_apply", <<"RaftApply", r, 2>>)>>

\* Mutant: the decision waits for the primary's prewrite alone.
PrimaryPrewrite == {<<"mvcc_prewrite", 1>>}

AllPrewrites == {<<"mvcc_prewrite", r>> : r \in TransactionRegions}

TransactionCommit ==
  Chain(AllPrewrites,
    <<Step1("all_prewrite_complete", <<"Stage", "prewriting", "prewritten">>),
      Step1("commit_ts", <<"CommitTimestamp", 2>>)>>)

\* The primary is committed before the client is answered.
TransactionPrimary ==
  Chain({<<"commit_ts", 0>>},
    <<Plain("commit_primary")>>
    \o SerialRaftOperation("primary", 1)
    \o <<Step1("mvcc_primary_commit", <<"MvccCommit", 1>>),
         Step1("complete", <<"Respond">>)>>)

TransactionCleanup ==
  Chain({<<"complete", 0>>},
    <<Step1("commit_secondary", <<"Stage", "client_acknowledged", "committing_secondary">>)>>
    \o SerialRaftOperation("secondary", 2)
    \o <<Step1("mvcc_secondary_commit", <<"MvccCommit", 2>>),
         Step1("secondary_cleanup_complete", <<"Stage", "committing_secondary", "complete">>)>>)

TransactionEvents ==
  TransactionStart \o TransactionLocks \o TransactionPrewrite \o TransactionCommit
    \o TransactionPrimary \o TransactionCleanup
=============================================================================

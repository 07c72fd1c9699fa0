------------------------------ MODULE GcScenario ------------------------------
(***************************************************************************)
(* traceDetailedGcStorage of src/tidb/model/simulation.ts: two rounds of   *)
(* garbage collection.  A long-running reader caps the safe point of the   *)
(* first; once it has completed, the second goes past it and cleans up the *)
(* Delete marker the first had to keep.  Timestamps are thousands above    *)
(* TSO_BASE, which itself is 1.                                            *)
(***************************************************************************)
EXTENDS TraceBuilder

GcRegions == {8, 20}
GcStores == 1..3

BlockerStartTs == 80
BlockedCandidate == 180
BlockedSafePoint == BlockerStartTs - 1
ReleasedCandidate == 220

GcFixture ==
  LET put(ts) == [ts |-> ts, type |-> "put"]
  IN  [chains |-> [a |-> <<put(20), put(60), put(110), put(260)>>,
                   b |-> <<put(30), [ts |-> 70, type |-> "delete"], put(250)>>,
                   c |-> <<put(90), put(150), put(280)>>,
                   d |-> <<[ts |-> 40, type |-> "rollback"], put(50)>>],
       region |-> [a |-> 8, b |-> 8, c |-> 20, d |-> 20],
       lock |-> [l1 |-> [region |-> 8, startTs |-> 30, primary |-> "committed"],
                 l2 |-> [region |-> 20, startTs |-> 55, primary |-> "rolled_back"]],
       dropTs |-> [r1 |-> 50], initial |-> 1, blockerTs |-> BlockerStartTs]

\* Puts short enough to lie in write CF; the others have a value in default CF.
GcInline == {<<"a", 2>>, <<"c", 3>>, <<"d", 2>>}

GcPhase(to) == <<"Advance", to>>

-----------------------------------------------------------------------------
\* What the two rounds have in common: the safe point, staged in mysql.tidb.
GcSafePoint(round, start, parents, candidate, bound, service) ==
  LET Named1(name, delta) == Event(name, round, <<delta>>)
  IN  Chain(parents,
        <<Named1("gc_round_start", start),
          Named1("gc_safe_point_candidate", <<"Candidate", candidate>>),
          bound,
          Named1("gc_service_safe_point", GcPhase("safe_point_bounded")),
          Named1("gc_mysql_safe_point_staged", <<"Stage">>),
          Named1("gc_resolve_locks_start", GcPhase("resolving_locks"))>>)

\* Both Regions are scanned from the start of Resolve Locks; the fence shows
\* the second after what was done in the first.
GcScan(round, region, fence) ==
  Fenced(fence, Joining({<<"gc_resolve_locks_start", round>>},
    Event("gc_resolve_locks_scan_" \o ToString(region), round, <<<<"ScanRegion", region>>>>)))

GcVisibility(round, parents) ==
  Joining(parents, Event("gc_visibility_safe_point_saved", round,
                         <<GcPhase("caching_safe_point"), <<"SaveVisibility">>>>))

GcPublish(round, parents) ==
  Joining(parents, Event("gc_global_safe_point_publish", round,
                         <<GcPhase("publishing_safe_point"), <<"Publish">>>>))

\* storeDetectionEvents: every store on its own; the first moves the phase.
StoreDetection(round, s) == <<"gc_store_safe_point_detected_" \o ToString(s), round>>

StoreDetectionEvents(round) ==
  Fan({<<"gc_global_safe_point_publish", round>>},
    [s \in GcStores |->
       Event(StoreDetection(round, s)[1], round,
             (IF s = 1 THEN <<GcPhase("tikv_observing")>> ELSE <<>>) \o <<<<"Observe", s>>>>)])

\* compactionEvents: markers are the Delete markers eligible before the pass.
CompactionEvents(round, markers, last) ==
  LET EveryStore(action) == [s \in GcStores |-> <<action, s>>]
      Cleaning(e) == IF markers = {} THEN <<>> ELSE <<e>>
  IN  Chain({StoreDetection(round, s) : s \in GcStores},
        <<Event("gc_compaction_filter_start", round,
                <<GcPhase("compacting")>> \o EveryStore("StartCompaction")),
          Event("gc_compaction_filter_apply", round, <<<<"FilterVersions">>>>)>>
        \o Cleaning(Event("gc_delete_marker_cleanup_scheduled", round,
                          <<<<"ScheduleCleanup", markers>>>>))
        \o <<Event("gc_compaction_filter_complete", round, EveryStore("FinishCompaction"))>>
        \o Cleaning(Event("gc_delete_marker_cleanup_complete", round,
                          <<GcPhase("cleaning_delete_markers"), <<"DeleteMarkers", markers>>>>))
        \o <<Event("gc_round_complete", round, <<GcPhase(last)>>)>>)

-----------------------------------------------------------------------------
GcResolve(region, lock) ==
  Joining({<<"gc_resolve_locks_scan_" \o ToString(region), 1>>},
    Event("gc_resolve_lock", region, <<<<"ResolveLock", lock>>>>))

GcDeleteRanges ==
  Chain({<<"gc_visibility_safe_point_saved", 1>>},
        <<Event("gc_delete_ranges_start", 0, <<GcPhase("deleting_ranges"), <<"MarkRange", "r1">>>>)>>)
    \o Fan({<<"gc_delete_ranges_start", 0>>},
           [s \in GcStores |-> Event("gc_delete_range_store", s, <<>>)])
    \o <<Joining({<<"gc_delete_range_store", s>> : s \in GcStores},
           Step1("gc_delete_range_complete", <<"DeleteRange", "r1">>))>>

GcRoundOne ==
  GcSafePoint(1, GcPhase("preparing"), {}, BlockedCandidate,
              Warning(Step1("gc_min_start_ts_bound",
                            <<"Bound", BlockedSafePoint, BlockerStartTs>>)),
              BlockedSafePoint)
    \o <<GcScan(1, 8, {}), GcResolve(8, "l1"),
         GcScan(1, 20, {<<"gc_resolve_lock", 8>>}), GcResolve(20, "l2"),
         GcVisibility(1, {<<"gc_resolve_lock", 8>>, <<"gc_resolve_lock", 20>>})>>
    \o GcDeleteRanges
    \o <<GcPublish(1, {<<"gc_delete_range_complete", 0>>})>>
    \o StoreDetectionEvents(1) \o CompactionEvents(1, {}, "between_rounds")

GcBlockerComplete ==
  <<Joining({<<"gc_round_complete", 1>>}, Step1("gc_blocker_complete", <<"CompleteBlocker">>))>>

\* The scans find no lock that is left to resolve.
GcRoundTwo ==
  GcSafePoint(2, <<"StartRound2">>, {<<"gc_blocker_complete", 0>>}, ReleasedCandidate,
              Step1("gc_min_start_ts_clear", <<"Bound", ReleasedCandidate, None>>),
              ReleasedCandidate)
    \o <<GcScan(2, 8, {}), GcScan(2, 20, {<<"gc_resolve_locks_scan_8", 2>>})>>

\* Nor is there a range to delete; the Delete marker of b goes at last.
GcRoundTwoEnd ==
  <<GcVisibility(2, {<<"gc_resolve_locks_scan_8", 2>>, <<"gc_resolve_locks_scan_20", 2>>})>>
    \o Chain({<<"gc_visibility_safe_point_saved", 2>>},
             <<Step1("gc_delete_ranges_empty", GcPhase("deleting_ranges"))>>)
    \o <<GcPublish(2, {<<"gc_delete_ranges_empty", 0>>})>>
    \o StoreDetectionEvents(2) \o CompactionEvents(2, {<<"b", 2>>}, "complete")

GcEvents == GcRoundOne \o GcBlockerComplete \o GcRoundTwo \o GcRoundTwoEnd
=============================================================================

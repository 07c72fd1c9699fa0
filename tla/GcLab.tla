-------------------------------- MODULE GcLab --------------------------------
(***************************************************************************)
(* The GC/Storage lab of src/tidb/model/gc-lab.ts: two GC rounds of TiDB's *)
(* leader (bound the safe point by the oldest reader, resolve old locks,   *)
(* save the visibility safe point, delete dropped ranges, publish), then   *)
(* the TiKV stores that observe the published safe point and compact with  *)
(* the GC filter, and the separate cleanup of Delete markers.              *)
(*                                                                         *)
(* One action per delta that reduceGcLabState accepts.  A delta it refuses *)
(* (it throws and the state stays) is a disabled action.                   *)
(***************************************************************************)
EXTENDS Integers, Sequences, FiniteSets

CONSTANTS Fixtures,  \* the GcLabDefinition records a lab may be built from
          Keys,      \* ids of their key chains
          Locks,     \* ids of their locks
          Ranges,    \* ids of their dropped ranges
          Stores,    \* the three stores
          MaxTs,     \* bound on safe points and reported timestamps
          None       \* JavaScript's null

WriteTypes == {"put", "delete", "rollback", "lock"}

Fixture == [chains : [Keys -> Seq([ts : Nat, type : WriteTypes])],
            region : [Keys -> Nat],
            lock : [Locks -> [region : Nat, startTs : Nat,
                              primary : {"committed", "rolled_back"}]],
            dropTs : [Ranges -> Nat],
            initial : Nat,
            blockerTs : Nat]

ASSUME GcLabAssumption ==
  /\ Fixtures \subseteq Fixture
  /\ \A d \in Fixtures :
       /\ 0 < d.initial /\ d.initial < d.blockerTs
       /\ \A k \in Keys : \A i, j \in DOMAIN d.chains[k] :
            i < j => d.chains[k][i].ts < d.chains[k][j].ts
  /\ MaxTs \in Nat
  /\ None \notin Nat

VARIABLES fixture,        \* the definition the lab was created from
          phase, round,
          safePoint,
          blocker,        \* status of the one long-running reader
          scanned,        \* Regions whose locks were scanned in this round
          locks,          \* status of each lock
          ranges,         \* status of each dropped range
          stores,         \* detected safe point and compaction of each store
          versions,       \* state of each version of each chain
          filterApplied,  \* this round's one compaction pass happened
          cleanup         \* Delete markers eligible, scheduled and deleted

vars == <<fixture, phase, round, safePoint, blocker, scanned, locks, ranges, stores,
          versions, filterApplied, cleanup>>

Timestamps == 1..MaxTs

Successors ==
  [idle |-> {"preparing"},
   preparing |-> {"safe_point_bounded"},
   safe_point_bounded |-> {"resolving_locks"},
   resolving_locks |-> {"caching_safe_point"},
   caching_safe_point |-> {"deleting_ranges"},
   deleting_ranges |-> {"publishing_safe_point"},
   publishing_safe_point |-> {"tikv_observing"},
   tikv_observing |-> {"compacting"},
   compacting |-> {"cleaning_delete_markers", "between_rounds", "complete"},
   cleaning_delete_markers |-> {"between_rounds", "complete"},
   between_rounds |-> {"preparing"},
   complete |-> {}]

SafePoint == [previous : Nat, candidate : Nat \cup {None}, minStartTs : Nat \cup {None},
              service : Nat \cup {None}, staged : Nat, visibility : Nat, published : Nat,
              blocked : BOOLEAN]

-----------------------------------------------------------------------------
(* Versions of a chain, oldest first.                                      *)
Chain(k) == fixture.chains[k]
Ids == UNION {{k} \X DOMAIN Chain(k) : k \in Keys}
TypeOf(id) == Chain(id[1])[id[2]].type
TsOf(id) == Chain(id[1])[id[2]].ts
StateOf(id) == versions[id[1]][id[2]]
Older(id) == {o \in Ids : o[1] = id[1] /\ o[2] < id[2]}
Removed(id) == StateOf(id) \in {"filtered", "gc_deleted"}

(* planGcCompaction: what one pass at safe point ts meets of each chain,   *)
(* the newest Put or Delete it meets there, and what becomes of the rest.  *)
(* Mutant: removed versions are met again.                                 *)
InputAgain(ts) == {id \in Ids : TsOf(id) <= ts}
Input(ts) == {id \in Ids : ~Removed(id) /\ TsOf(id) <= ts}

Boundary(ts) ==
  {id \in Input(ts) :
     /\ TypeOf(id) \in {"put", "delete"}
     /\ \A o \in Input(ts) : o[1] = id[1] /\ o[2] > id[2] => TypeOf(o) \notin {"put", "delete"}}

Filtered(ts) == Input(ts) \ Boundary(ts)
Anchors(ts) == {id \in Boundary(ts) : TypeOf(id) = "put"}
EligibleMarkers(ts) ==
  {id \in Boundary(ts) : TypeOf(id) = "delete" /\ \A o \in Older(id) : Removed(o)}

-----------------------------------------------------------------------------
(* createGcLabState                                                        *)
Init ==
  /\ fixture \in Fixtures
  /\ phase = "idle" /\ round = 1
  /\ safePoint = [previous |-> fixture.initial, candidate |-> None, minStartTs |-> None,
                  service |-> None, staged |-> fixture.initial,
                  visibility |-> fixture.initial, published |-> fixture.initial,
                  blocked |-> FALSE]
  /\ blocker = "active"
  /\ scanned = {}
  /\ locks = [l \in Locks |-> "pending"]
  /\ ranges = [r \in Ranges |-> "pending"]
  /\ stores = [s \in Stores |-> [detected |-> fixture.initial, compaction |-> "idle"]]
  /\ versions = [k \in Keys |-> [i \in DOMAIN Chain(k) |-> "present"]]
  /\ filterApplied = FALSE
  /\ cleanup = [eligible |-> {}, scheduled |-> {}, deleted |-> {}]

-----------------------------------------------------------------------------
(* gc_phase.  What the coordinator needs before it enters a phase.         *)
FixtureRegions ==
  {fixture.region[k] : k \in Keys} \cup {fixture.lock[l].region : l \in Locks}

(* Mutant: the lock that carries the safe point itself is left.            *)
OldLockStrictly(l) == fixture.lock[l].startTs < safePoint.service
OldLock(l) == fixture.lock[l].startTs <= safePoint.service

OldLocksResolved == \A l \in Locks : OldLock(l) => locks[l] # "pending"
OldRangesDeleted ==
  \A r \in Ranges : fixture.dropTs[r] < safePoint.service => ranges[r] = "deleted"
AllStores(compaction) == \A s \in Stores : stores[s].compaction = compaction
NoCleanupPending == cleanup.scheduled \subseteq cleanup.deleted

(* Mutant: locks are resolved before the safe point reaches mysql.tidb.    *)
StagedOrNot == TRUE
Staged == safePoint.staged = safePoint.service

Ready(to) ==
  CASE to = "safe_point_bounded" ->
         safePoint.service # None /\ safePoint.service > safePoint.previous
    [] to = "resolving_locks" -> Staged
    [] to = "caching_safe_point" -> FixtureRegions \subseteq scanned /\ OldLocksResolved
    [] to = "deleting_ranges" -> safePoint.visibility = safePoint.service
    [] to = "publishing_safe_point" -> OldRangesDeleted
    [] to = "tikv_observing" ->
         safePoint.published = safePoint.service /\ safePoint.published > safePoint.previous
    [] to = "compacting" ->
         AllStores("eligible") /\ \A s \in Stores : stores[s].detected = safePoint.published
    [] to = "cleaning_delete_markers" -> AllStores("complete")
    [] to = "between_rounds" -> AllStores("complete") /\ NoCleanupPending /\ round = 1
    [] to = "complete" ->
         /\ AllStores("complete") /\ NoCleanupPending /\ round = 2
         /\ blocker = "completed" /\ OldLocksResolved /\ OldRangesDeleted
    [] OTHER -> TRUE

Advance(to) ==
  /\ to \in Successors[phase]
  /\ phase # "between_rounds"
  /\ Ready(to)
  /\ phase' = to
  /\ UNCHANGED <<fixture, round, safePoint, blocker, scanned, locks, ranges, stores, versions,
                 filterApplied, cleanup>>

StartRound2 ==
  /\ phase = "between_rounds"
  /\ phase' = "preparing"
  /\ round' = 2
  /\ safePoint' = [safePoint EXCEPT !.previous = safePoint.published, !.candidate = None,
                                    !.minStartTs = None, !.service = None, !.blocked = FALSE]
  /\ scanned' = {}
  /\ stores' = [s \in Stores |-> [stores[s] EXCEPT !.compaction = "idle"]]
  /\ cleanup' = [cleanup EXCEPT !.eligible = {}]
  /\ filterApplied' = FALSE
  /\ UNCHANGED <<fixture, blocker, locks, ranges, versions>>

-----------------------------------------------------------------------------
(* gc_safe_point_candidate and gc_safe_point_bound.                        *)
Candidate(ts) ==
  /\ phase = "preparing"
  /\ safePoint.candidate = None
  /\ ts > safePoint.published
  /\ safePoint' = [safePoint EXCEPT !.previous = safePoint.published, !.candidate = ts]
  /\ UNCHANGED <<fixture, phase, round, blocker, scanned, locks, ranges, stores, versions,
                 filterApplied, cleanup>>

(* The active reader fences every candidate that would pass it; no other   *)
(* reported start_ts may be called blocking.                               *)
(* Mutant: the reader is not consulted.                                    *)
NeverFences == FALSE
Fences == blocker = "active" /\ fixture.blockerTs - 1 < safePoint.candidate

Bound(service, minStartTs) ==
  /\ phase = "preparing"
  /\ safePoint.candidate # None
  /\ safePoint.service = None
  /\ safePoint.previous < service /\ service <= safePoint.candidate
  /\ minStartTs # None => service <= minStartTs - 1
  /\ LET blocked == minStartTs # None /\ minStartTs - 1 < safePoint.candidate
     IN  /\ blocked => minStartTs = fixture.blockerTs /\ blocker = "active"
         /\ Fences => minStartTs = fixture.blockerTs /\ blocked
         /\ safePoint' = [safePoint EXCEPT !.service = service, !.minStartTs = minStartTs,
                                           !.blocked = blocked]
  /\ UNCHANGED <<fixture, phase, round, blocker, scanned, locks, ranges, stores, versions,
                 filterApplied, cleanup>>

\* activeTransactionBound: the delta carries it with the oldest start_ts.
ActiveTransactionBound ==
  IF safePoint.minStartTs = None THEN None ELSE safePoint.minStartTs - 1

(* gc_blocker_state, only in the fixture's gap between the rounds.         *)
CompleteBlocker ==
  /\ phase = "between_rounds"
  /\ blocker = "active"
  /\ blocker' = "completed"
  /\ safePoint' = [safePoint EXCEPT !.minStartTs = None, !.blocked = FALSE]
  /\ UNCHANGED <<fixture, phase, round, scanned, locks, ranges, stores, versions,
                 filterApplied, cleanup>>

-----------------------------------------------------------------------------
(* gc_safe_point_stage, gc_visibility_safe_point_save and                  *)
(* gc_safe_point_publish.                                                  *)
Stage ==
  /\ phase = "safe_point_bounded"
  /\ safePoint.service >= safePoint.staged
  /\ safePoint' = [safePoint EXCEPT !.staged = safePoint.service]
  /\ UNCHANGED <<fixture, phase, round, blocker, scanned, locks, ranges, stores, versions,
                 filterApplied, cleanup>>

SaveVisibility ==
  /\ phase = "caching_safe_point"
  /\ FixtureRegions \subseteq scanned /\ OldLocksResolved
  /\ safePoint.service >= safePoint.visibility
  /\ safePoint' = [safePoint EXCEPT !.visibility = safePoint.service]
  /\ UNCHANGED <<fixture, phase, round, blocker, scanned, locks, ranges, stores, versions,
                 filterApplied, cleanup>>

Publish ==
  /\ phase = "publishing_safe_point"
  /\ OldRangesDeleted
  /\ safePoint.visibility >= safePoint.published
  /\ safePoint' = [safePoint EXCEPT !.published = safePoint.visibility]
  /\ UNCHANGED <<fixture, phase, round, blocker, scanned, locks, ranges, stores, versions,
                 filterApplied, cleanup>>

-----------------------------------------------------------------------------
(* gc_resolve_lock_scan and gc_resolve_lock.                               *)
ScanRegion(r) ==
  /\ phase = "resolving_locks"
  /\ r \notin scanned
  /\ scanned' = scanned \cup {r}
  /\ UNCHANGED <<fixture, phase, round, safePoint, blocker, locks, ranges, stores, versions,
                 filterApplied, cleanup>>

ResolveLock(l) ==
  /\ phase = "resolving_locks"
  /\ locks[l] = "pending"
  /\ OldLock(l)
  /\ fixture.lock[l].region \in scanned
  /\ locks' = [locks EXCEPT ![l] = IF fixture.lock[l].primary = "committed"
                                   THEN "resolved_commit" ELSE "resolved_rollback"]
  /\ UNCHANGED <<fixture, phase, round, safePoint, blocker, scanned, ranges, stores, versions,
                 filterApplied, cleanup>>

(* gc_delete_range                                                         *)
MarkRange(r) ==
  /\ phase = "deleting_ranges"
  /\ safePoint.visibility = safePoint.service
  /\ ranges[r] = "pending"
  /\ fixture.dropTs[r] < safePoint.service
  /\ ranges' = [ranges EXCEPT ![r] = "eligible"]
  /\ UNCHANGED <<fixture, phase, round, safePoint, blocker, scanned, locks, stores, versions,
                 filterApplied, cleanup>>

DeleteRange(r) ==
  /\ phase = "deleting_ranges"
  /\ safePoint.visibility = safePoint.service
  /\ ranges[r] = "eligible"
  /\ ranges' = [ranges EXCEPT ![r] = "deleted"]
  /\ UNCHANGED <<fixture, phase, round, safePoint, blocker, scanned, locks, stores, versions,
                 filterApplied, cleanup>>

-----------------------------------------------------------------------------
(* gc_store_safe_point and gc_compaction_state.                            *)
Observe(s) ==
  /\ phase = "tikv_observing"
  /\ stores[s].compaction = "idle"
  /\ safePoint.published > stores[s].detected
  /\ stores' = [stores EXCEPT ![s] = [detected |-> safePoint.published,
                                      compaction |-> "eligible"]]
  /\ UNCHANGED <<fixture, phase, round, safePoint, blocker, scanned, locks, ranges, versions,
                 filterApplied, cleanup>>

StartCompaction(s) ==
  /\ phase = "compacting"
  /\ stores[s].compaction = "eligible"
  /\ stores[s].detected = safePoint.published
  /\ stores' = [stores EXCEPT ![s].compaction = "running"]
  /\ UNCHANGED <<fixture, phase, round, safePoint, blocker, scanned, locks, ranges, versions,
                 filterApplied, cleanup>>

(* gc_compaction_filter: the one pass over the round's input.              *)
FilterVersions ==
  /\ phase = "compacting"
  /\ \A s \in Stores :
       stores[s].compaction = "running" /\ stores[s].detected = safePoint.published
  /\ ~filterApplied
  /\ LET ts == safePoint.published
         after(id) == IF id \in Filtered(ts) THEN "filtered"
                      ELSE IF id \in Anchors(ts) THEN "retained_anchor"
                      ELSE IF StateOf(id) = "retained_anchor" THEN "present"
                      ELSE StateOf(id)
     IN  /\ versions' = [k \in Keys |-> [i \in DOMAIN Chain(k) |-> after(<<k, i>>)]]
         /\ cleanup' = [cleanup EXCEPT !.eligible = EligibleMarkers(ts)]
  /\ filterApplied' = TRUE
  /\ UNCHANGED <<fixture, phase, round, safePoint, blocker, scanned, locks, ranges, stores>>

FinishCompaction(s) ==
  /\ phase = "compacting"
  /\ filterApplied
  /\ Filtered(safePoint.published) = {}
  /\ \A id \in Anchors(safePoint.published) : StateOf(id) = "retained_anchor"
  /\ cleanup.eligible \subseteq cleanup.scheduled
  /\ stores[s].compaction = "running"
  /\ stores[s].detected = safePoint.published
  /\ stores' = [stores EXCEPT ![s].compaction = "complete"]
  /\ UNCHANGED <<fixture, phase, round, safePoint, blocker, scanned, locks, ranges, versions,
                 filterApplied, cleanup>>

(* gc_key_cleanup: a marker is scheduled during the pass that found it and *)
(* deleted once the compaction is over.                                    *)
Cleanable(id) ==
  /\ id \in cleanup.eligible
  /\ TypeOf(id) = "delete"
  /\ StateOf(id) = "present"
  /\ TsOf(id) <= safePoint.published
  /\ \A o \in Older(id) : Removed(o)

ScheduleCleanup(ids) ==
  /\ phase = "compacting"
  /\ AllStores("running")
  /\ ids # {}
  /\ \A id \in ids : Cleanable(id) /\ id \notin cleanup.scheduled
  /\ cleanup' = [cleanup EXCEPT !.scheduled = @ \cup ids]
  /\ UNCHANGED <<fixture, phase, round, safePoint, blocker, scanned, locks, ranges, stores,
                 versions, filterApplied>>

DeleteMarkers(ids) ==
  /\ phase = "cleaning_delete_markers"
  /\ AllStores("complete")
  /\ ids # {}
  /\ \A id \in ids : Cleanable(id) /\ id \in cleanup.scheduled
  /\ cleanup' = [cleanup EXCEPT !.deleted = @ \cup ids]
  /\ versions' = [k \in Keys |-> [i \in DOMAIN Chain(k) |->
                    IF <<k, i>> \in ids THEN "gc_deleted" ELSE versions[k][i]]]
  /\ UNCHANGED <<fixture, phase, round, safePoint, blocker, scanned, locks, ranges, stores,
                 filterApplied>>

-----------------------------------------------------------------------------
CoordinatorStep ==
  \/ \E to \in DOMAIN Successors : Advance(to)
  \/ StartRound2
  \/ \E ts \in Timestamps : Candidate(ts)
  \/ \E ts \in Timestamps, minStartTs \in Timestamps \cup {None} : Bound(ts, minStartTs)
  \/ CompleteBlocker \/ Stage \/ SaveVisibility \/ Publish
  \/ \E r \in FixtureRegions : ScanRegion(r)
  \/ \E l \in Locks : ResolveLock(l)
  \/ \E r \in Ranges : MarkRange(r) \/ DeleteRange(r)

StorageStep ==
  \/ \E s \in Stores : Observe(s) \/ StartCompaction(s) \/ FinishCompaction(s)
  \/ FilterVersions
  \/ \E ids \in SUBSET cleanup.eligible : ScheduleCleanup(ids) \/ DeleteMarkers(ids)

Next == CoordinatorStep \/ StorageStep

Spec == Init /\ [][Next]_vars

-----------------------------------------------------------------------------
(* validateGcLab never throws after a delta whose own checks passed, apart *)
(* from what Bound and the last phase take from it: safe points in order,  *)
(* fenced by the reader, and no removal beyond what was published.         *)
SafePointsOrdered ==
  LET sp == safePoint
  IN  /\ sp.previous <= sp.published /\ sp.published <= sp.visibility
      /\ sp.visibility <= sp.staged
      /\ sp.service # None => sp.candidate # None /\ sp.service <= sp.candidate
      /\ sp.blocked => blocker = "active" /\ sp.service <= fixture.blockerTs - 1
      /\ \A s \in Stores : stores[s].detected <= sp.published

VersionsValid ==
  /\ \A id \in Ids :
       /\ Removed(id) \/ StateOf(id) = "retained_anchor" => TsOf(id) <= safePoint.published
       /\ StateOf(id) = "retained_anchor" => TypeOf(id) = "put"
       /\ StateOf(id) = "gc_deleted" =>
            TypeOf(id) = "delete" /\ \A o \in Older(id) : Removed(o)
  /\ \A k \in Keys :
       Cardinality({i \in DOMAIN Chain(k) : versions[k][i] = "retained_anchor"}) <= 1

CleanupValid ==
  /\ cleanup.deleted \subseteq cleanup.scheduled
  /\ cleanup.deleted = {id \in Ids : StateOf(id) = "gc_deleted"}
  /\ \A id \in cleanup.scheduled \cup cleanup.eligible : TypeOf(id) = "delete"
  /\ ~filterApplied => cleanup.eligible = {}

LabValid == safePoint \in SafePoint /\ SafePointsOrdered /\ VersionsValid /\ CleanupValid

(* GC never changes what a reader sees: at every timestamp that may still  *)
(* be read - the published safe point and above, and the active reader's   *)
(* own - each key has the value it had before anything was removed.        *)
VisibleAmong(ids, k, ts) ==
  LET data == {id \in ids : id[1] = k /\ TsOf(id) <= ts /\ TypeOf(id) \in {"put", "delete"}}
  IN  {id \in data : TypeOf(id) = "put" /\ \A o \in data : o[2] <= id[2]}

ReadsPreserved ==
  \A k \in Keys : \A ts \in Timestamps :
    ts >= safePoint.published \/ (blocker = "active" /\ ts = fixture.blockerTs) =>
      VisibleAmong({id \in Ids : ~Removed(id)}, k, ts) = VisibleAmong(Ids, k, ts)

(* Before a safe point is even cached for visibility, every transaction    *)
(* that began at or below it is resolved, so no lock outlives the versions *)
(* its outcome needs; a dropped range is deleted only below every reader.  *)
NothingNeededIsLost ==
  /\ \A l \in Locks :
       fixture.lock[l].startTs <= safePoint.visibility /\ safePoint.visibility > fixture.initial
         => locks[l] # "pending"
  /\ \A r \in Ranges : ranges[r] # "pending" =>
       /\ fixture.dropTs[r] < safePoint.visibility
       /\ blocker = "active" => fixture.dropTs[r] < fixture.blockerTs

(* Removal is final and so is the ground it rests on: a removed version    *)
(* never comes back or changes how it went (a second pass meets neither    *)
(* filtered versions nor cleaned markers), and no safe point, of TiDB or   *)
(* of a store, moves back across the rounds.                               *)
RemovalIsFinal ==
  [][/\ \A id \in Ids : Removed(id) => versions'[id[1]][id[2]] = StateOf(id)
     /\ safePoint'.staged >= safePoint.staged
     /\ safePoint'.visibility >= safePoint.visibility
     /\ safePoint'.published >= safePoint.published
     /\ \A s \in Stores : stores'[s].detected >= stores[s].detected]_vars
=============================================================================

---------------------------- MODULE GcLabProofs ----------------------------
(***************************************************************************)
(* Proofs about GcLab for any fixtures, that is any version chains, locks, *)
(* dropped ranges and safe points, any stores and any bound on timestamps. *)
(* What validateGcLab leaves open is which safe points of a round are in   *)
(* place in which phase (RoundShape), that none of them passes the active  *)
(* reader (Fenced), and why each removed version can be spared             *)
(* (VersionInv): another Put or Delete at or below the safe point is above *)
(* it, or it is a Delete marker with nothing left below.                   *)
(***************************************************************************)
EXTENDS GcLab, FiniteSetTheorems, WellFoundedInduction, TLAPS

Data == {"put", "delete"}
Phases == DOMAIN Successors

AfterPublish == {"tikv_observing", "compacting", "cleaning_delete_markers",
                 "between_rounds", "complete"}
AfterSave == {"deleting_ranges", "publishing_safe_point"} \cup AfterPublish
AfterStage == {"resolving_locks", "caching_safe_point"} \cup AfterSave
AfterBound == {"safe_point_bounded"} \cup AfterStage

LabTyped ==
  /\ fixture \in Fixtures
  /\ phase \in {"idle", "preparing"} \cup AfterBound
  /\ safePoint \in SafePoint
  /\ blocker \in {"active", "completed"}
  /\ locks \in [Locks -> {"pending", "resolved_commit", "resolved_rollback"}]
  /\ ranges \in [Ranges -> {"pending", "eligible", "deleted"}]
  /\ stores \in [Stores -> [detected : Nat,
                            compaction : {"idle", "eligible", "running", "complete"}]]
  /\ filterApplied \in BOOLEAN

RoundShape ==
  LET sp == safePoint
  IN  /\ phase \in {"idle", "preparing"} => sp.previous = sp.published
      /\ phase \in AfterBound => sp.service # None /\ sp.service > sp.previous
      /\ phase \in AfterStage => sp.staged = sp.service
      /\ phase \in AfterSave => sp.visibility = sp.service
      /\ phase \in AfterPublish => sp.published = sp.service

Fenced ==
  /\ safePoint.blocked => blocker = "active" /\ safePoint.service # None
  /\ blocker = "active" =>
       /\ safePoint.staged < fixture.blockerTs
       /\ safePoint.service # None => safePoint.service < fixture.blockerTs

(* Whether a version of the same key at or below ts hides this one.        *)
Superseded(id, ts) ==
  \E o \in Ids : /\ o[1] = id[1] /\ o[2] > id[2]
                 /\ TypeOf(o) \in Data /\ TsOf(o) <= ts

VersionInv ==
  /\ versions = [k \in Keys |-> versions[k]]
  /\ \A k \in Keys : versions[k] \in
       [DOMAIN Chain(k) -> {"present", "filtered", "retained_anchor", "gc_deleted"}]
  /\ \A id \in Ids :
       /\ StateOf(id) # "present" => TsOf(id) <= safePoint.published
       /\ StateOf(id) = "retained_anchor" => TypeOf(id) = "put"
       /\ StateOf(id) = "gc_deleted" =>
            TypeOf(id) = "delete" /\ \A o \in Older(id) : Removed(o)
       /\ StateOf(id) = "filtered" /\ TypeOf(id) \in Data =>
            Superseded(id, safePoint.published)
  /\ \A a, b \in Ids :
       a[1] = b[1] /\ StateOf(a) = "retained_anchor" /\ StateOf(b) = "retained_anchor" => a = b

CleanupInv ==
  /\ cleanup \in [eligible : SUBSET Ids, scheduled : SUBSET Ids, deleted : SUBSET Ids]
  /\ CleanupValid

IInv ==
  /\ LabTyped
  /\ SafePointsOrdered
  /\ RoundShape
  /\ Fenced
  /\ VersionInv
  /\ CleanupInv
  /\ NothingNeededIsLost
-----------------------------------------------------------------------------
LEMMA Basics ==
  ASSUME LabTyped
  PROVE  /\ fixture \in Fixture /\ 0 < fixture.initial /\ fixture.initial < fixture.blockerTs
         /\ fixture.initial \in Nat /\ fixture.blockerTs \in Nat
         /\ \A l \in Locks : fixture.lock[l].startTs \in Nat
         /\ \A r \in Ranges : fixture.dropTs[r] \in Nat
         /\ safePoint.previous \in Nat /\ safePoint.candidate \in Nat \cup {None}
         /\ safePoint.service \in Nat \cup {None} /\ safePoint.staged \in Nat
         /\ safePoint.visibility \in Nat /\ safePoint.published \in Nat
         /\ safePoint.blocked \in BOOLEAN
         /\ \A s \in Stores : stores[s].detected \in Nat
         /\ None \notin Nat
<1>1. /\ fixture \in Fixture /\ 0 < fixture.initial /\ fixture.initial < fixture.blockerTs
      /\ None \notin Nat
  BY GcLabAssumption DEF LabTyped
<1>2. /\ fixture.initial \in Nat /\ fixture.blockerTs \in Nat
      /\ \A l \in Locks : fixture.lock[l].startTs \in Nat
      /\ \A r \in Ranges : fixture.dropTs[r] \in Nat
  BY <1>1 DEF Fixture
<1>3. /\ safePoint.previous \in Nat /\ safePoint.candidate \in Nat \cup {None}
      /\ safePoint.service \in Nat \cup {None} /\ safePoint.staged \in Nat
      /\ safePoint.visibility \in Nat /\ safePoint.published \in Nat
      /\ safePoint.blocked \in BOOLEAN
  BY DEF LabTyped, SafePoint
<1>4. \A s \in Stores : stores[s].detected \in Nat
  BY DEF LabTyped
<1>5. QED BY <1>1, <1>2, <1>3, <1>4

LEMMA IdsShape ==
  ASSUME LabTyped
  PROVE  /\ \A k \in Keys : \A i \in DOMAIN Chain(k) : <<k, i>> \in Ids
         /\ \A id \in Ids : /\ id[1] \in Keys /\ id[2] \in DOMAIN Chain(id[1])
                            /\ id = <<id[1], id[2]>>
                            /\ id[2] \in Nat /\ id[2] <= Len(Chain(id[1]))
                            /\ TsOf(id) \in Nat /\ TypeOf(id) \in WriteTypes
         /\ \A k \in Keys : Len(Chain(k)) \in Nat
         /\ \A a, b \in Ids : a[1] = b[1] /\ a[2] < b[2] => TsOf(a) < TsOf(b)
<1>1. \A k \in Keys : Chain(k) \in Seq([ts : Nat, type : WriteTypes])
  BY Basics DEF Fixture, Chain
<1>2. \A k \in Keys : \A i \in DOMAIN Chain(k) : <<k, i>> \in Ids
  BY DEF Ids
<1>3. ASSUME NEW id \in Ids
      PROVE  /\ id[1] \in Keys /\ id[2] \in DOMAIN Chain(id[1])
             /\ id = <<id[1], id[2]>>
  BY DEF Ids
<1>4. ASSUME NEW id \in Ids
      PROVE  /\ id[2] \in Nat /\ id[2] <= Len(Chain(id[1]))
             /\ TsOf(id) \in Nat /\ TypeOf(id) \in WriteTypes
  <2>1. Chain(id[1])[id[2]] \in [ts : Nat, type : WriteTypes]
    <3> DEFINE V == [ts : Nat, type : WriteTypes]
    <3>1. Chain(id[1]) \in Seq(V) /\ id[2] \in DOMAIN Chain(id[1])
      BY <1>1, <1>3
    <3> HIDE DEF V
    <3>2. Chain(id[1])[id[2]] \in V
      BY <3>1
    <3>3. QED BY <3>2 DEF V
  <2>2. DOMAIN Chain(id[1]) = 1..Len(Chain(id[1])) /\ Len(Chain(id[1])) \in Nat
    BY <1>1, <1>3
  <2>3. QED BY <1>3, <2>1, <2>2 DEF TsOf, TypeOf
<1>5. ASSUME NEW a \in Ids, NEW b \in Ids, a[1] = b[1], a[2] < b[2]
      PROVE  TsOf(a) < TsOf(b)
  BY <1>3, <1>5, GcLabAssumption DEF LabTyped, TsOf, Chain
<1>6. QED BY <1>1, <1>2, <1>3, <1>4, <1>5

(* A bounded set of naturals has a greatest element.                       *)
LEMMA Greatest ==
  ASSUME NEW S \in SUBSET Nat, S # {}, NEW n \in Nat, \A x \in S : x <= n
  PROVE  \E m \in S : \A x \in S : x <= m
<1> DEFINE R == {p \in Nat \X Nat : p[1] < p[2]}
           T == {n - x : x \in S}
<1>1. IsWellFoundedOn(R, Nat)
  BY NatLessThanWellFounded DEF OpToRel
<1>2. T \subseteq Nat /\ T # {}
  <2>1. PICK x \in S : TRUE
    OBVIOUS
  <2>2. n - x \in T
    OBVIOUS
  <2>3. ASSUME NEW y \in S PROVE n - y \in Nat
    OBVIOUS
  <2>4. QED BY <2>2, <2>3
<1> HIDE DEF T, R
<1>3. \E x \in T : \A y \in T : ~ (<<y, x>> \in R)
  BY <1>1, <1>2, WFMin
<1>4. PICK x \in T : \A y \in T : ~ (<<y, x>> \in R)
  BY <1>3
<1>5. PICK m \in S : x = n - m
  BY DEF T
<1>6. ASSUME NEW y \in S PROVE y <= m
  <2>1. n - y \in T
    BY DEF T
  <2>2. ~ (<<n - y, n - m>> \in R)
    BY <1>4, <1>5, <2>1
  <2>3. n - y \in Nat /\ n - m \in Nat
    OBVIOUS
  <2>4. QED BY <2>2, <2>3 DEF R
<1>7. QED BY <1>6

-----------------------------------------------------------------------------
(* The definition a lab was created from never changes, and with it what   *)
(* the ids of versions stand for.                                          *)
LEMMA FixtureStays ==
  ASSUME UNCHANGED fixture
  PROVE  /\ Ids' = Ids
         /\ \A k : Chain(k)' = Chain(k)
         /\ \A id : /\ TsOf(id)' = TsOf(id) /\ TypeOf(id)' = TypeOf(id)
                    /\ Older(id)' = Older(id)
<1>1. \A k : Chain(k)' = Chain(k)
  BY DEF Chain
<1>2. Ids' = Ids
  BY <1>1 DEF Ids
<1>3. \A id : TsOf(id)' = TsOf(id) /\ TypeOf(id)' = TypeOf(id)
  BY <1>1 DEF TsOf, TypeOf
<1>4. \A id : Older(id)' = Older(id)
  BY <1>2 DEF Older
<1>5. QED BY <1>1, <1>2, <1>3, <1>4

LEMMA VersionsStay ==
  ASSUME LabTyped, VersionInv, UNCHANGED <<fixture, versions>>,
         safePoint'.published \in Nat, safePoint.published <= safePoint'.published
  PROVE  VersionInv'
<1>1. \A id : StateOf(id)' = StateOf(id) /\ (Removed(id)' <=> Removed(id))
  BY DEF StateOf, Removed
<1>2. ASSUME NEW id \in Ids
      PROVE  Superseded(id, safePoint.published) => Superseded(id, safePoint.published)'
  <2>1. \A o \in Ids : TsOf(o) \in Nat
    BY IdsShape
  <2>2. QED BY <2>1, FixtureStays, Basics DEF Superseded
<1>3. ASSUME NEW id \in Ids
      PROVE  /\ (StateOf(id) # "present" => TsOf(id) <= safePoint.published)'
             /\ (StateOf(id) = "retained_anchor" => TypeOf(id) = "put")'
             /\ (StateOf(id) = "gc_deleted" =>
                   TypeOf(id) = "delete" /\ \A o \in Older(id) : Removed(o))'
             /\ (StateOf(id) = "filtered" /\ TypeOf(id) \in Data =>
                   Superseded(id, safePoint.published))'
  <2>1. TsOf(id) \in Nat
    BY IdsShape
  <2>2. QED BY <1>1, <1>2, <2>1, FixtureStays, Basics DEF VersionInv
<1>4. /\ (versions = [k \in Keys |-> versions[k]])'
      /\ (\A k \in Keys : versions[k] \in
            [DOMAIN Chain(k) -> {"present", "filtered", "retained_anchor", "gc_deleted"}])'
  BY FixtureStays DEF VersionInv
<1>5. (\A a, b \in Ids :
         a[1] = b[1] /\ StateOf(a) = "retained_anchor" /\ StateOf(b) = "retained_anchor"
           => a = b)'
  BY <1>1, FixtureStays DEF VersionInv
<1>6. QED BY <1>3, <1>4, <1>5, FixtureStays DEF VersionInv

LEMMA CleanupStays ==
  ASSUME CleanupInv, UNCHANGED <<fixture, versions, cleanup, filterApplied>>
  PROVE  CleanupInv'
BY FixtureStays DEF CleanupInv, CleanupValid, StateOf

LEMMA NeededStays ==
  ASSUME NothingNeededIsLost, UNCHANGED <<fixture, locks, ranges, blocker>>,
         safePoint'.visibility = safePoint.visibility
  PROVE  NothingNeededIsLost'
BY DEF NothingNeededIsLost

-----------------------------------------------------------------------------
(* gc_phase                                                                *)
LEMMA AdvanceKeeps ==
  ASSUME IInv, NEW to \in DOMAIN Successors, Advance(to)
  PROVE  IInv'
<1>1. /\ phase' = to /\ Ready(to) /\ to \in Successors[phase]
      /\ UNCHANGED <<fixture, round, safePoint, blocker, scanned, locks, ranges, stores,
                     versions, filterApplied, cleanup>>
  BY DEF Advance
<1>2. to \in {"preparing"} \cup AfterBound
  BY <1>1 DEF IInv, LabTyped, Successors, AfterBound, AfterStage, AfterSave, AfterPublish
<1>3. LabTyped'
  BY <1>1, <1>2 DEF IInv, LabTyped
<1>4. SafePointsOrdered' /\ Fenced' /\ NothingNeededIsLost'
  BY <1>1 DEF IInv, SafePointsOrdered, Fenced, NothingNeededIsLost
<1>5. RoundShape'
  <2>1. /\ to = "preparing" => phase = "idle" \/ phase = "between_rounds"
        /\ to = "safe_point_bounded" => phase = "preparing"
        /\ to = "resolving_locks" => phase = "safe_point_bounded"
        /\ to = "caching_safe_point" => phase = "resolving_locks"
        /\ to = "deleting_ranges" => phase = "caching_safe_point"
        /\ to = "publishing_safe_point" => phase = "deleting_ranges"
        /\ to = "tikv_observing" => phase = "publishing_safe_point"
        /\ to \in AfterPublish \ {"tikv_observing"} => phase \in AfterPublish
    BY <1>1 DEF IInv, LabTyped, Successors, AfterBound, AfterStage, AfterSave, AfterPublish
  <2>2. phase # "between_rounds"
    BY DEF Advance
  <2>3. CASE to = "preparing"
    BY <1>1, <2>1, <2>2, <2>3 DEF IInv, RoundShape, AfterBound, AfterStage, AfterSave,
       AfterPublish
  <2>4. CASE to = "safe_point_bounded"
    BY <1>1, <2>1, <2>4 DEF IInv, RoundShape, Ready, AfterBound, AfterStage, AfterSave,
       AfterPublish
  <2>5. CASE to = "resolving_locks"
    BY <1>1, <2>1, <2>5 DEF IInv, RoundShape, Ready, Staged, AfterBound, AfterStage, AfterSave,
       AfterPublish
  <2>6. CASE to = "caching_safe_point"
    BY <1>1, <2>1, <2>6 DEF IInv, RoundShape, AfterBound, AfterStage, AfterSave, AfterPublish
  <2>7. CASE to = "deleting_ranges"
    BY <1>1, <2>1, <2>7 DEF IInv, RoundShape, Ready, AfterBound, AfterStage, AfterSave,
       AfterPublish
  <2>8. CASE to = "publishing_safe_point"
    BY <1>1, <2>1, <2>8 DEF IInv, RoundShape, AfterBound, AfterStage, AfterSave, AfterPublish
  <2>9. CASE to = "tikv_observing"
    BY <1>1, <2>1, <2>9 DEF IInv, RoundShape, Ready, AfterBound, AfterStage, AfterSave,
       AfterPublish
  <2>10. CASE to \in AfterPublish \ {"tikv_observing"}
    BY <1>1, <2>1, <2>10 DEF IInv, RoundShape, AfterBound, AfterStage, AfterSave, AfterPublish
  <2>11. QED BY <1>2, <2>3, <2>4, <2>5, <2>6, <2>7, <2>8, <2>9, <2>10
              DEF AfterBound, AfterStage, AfterSave
<1>6. VersionInv'
  BY <1>1, VersionsStay, Basics DEF IInv
<1>7. CleanupInv'
  BY <1>1, CleanupStays DEF IInv
<1>8. QED BY <1>3, <1>4, <1>5, <1>6, <1>7 DEF IInv

LEMMA StartRound2Keeps == IInv /\ StartRound2 => IInv'
<1> SUFFICES ASSUME IInv, StartRound2 PROVE IInv'
  OBVIOUS
<1>1. /\ phase' = "preparing" /\ safePoint' \in SafePoint
      /\ safePoint'.previous = safePoint.published /\ safePoint'.service = None
      /\ safePoint'.candidate = None
      /\ safePoint'.staged = safePoint.staged /\ safePoint'.visibility = safePoint.visibility
      /\ safePoint'.published = safePoint.published /\ safePoint'.blocked = FALSE
  <2>1. safePoint \in SafePoint
    BY DEF IInv, LabTyped
  <2>2. safePoint' = [safePoint EXCEPT !.previous = safePoint.published, !.candidate = None,
                                       !.minStartTs = None, !.service = None,
                                       !.blocked = FALSE]
    BY DEF StartRound2
  <2>3. QED BY <2>1, <2>2 DEF StartRound2, SafePoint
<1>2. /\ filterApplied' = FALSE /\ UNCHANGED <<fixture, blocker, locks, ranges, versions>>
      /\ cleanup' = [cleanup EXCEPT !.eligible = {}]
      /\ stores' = [s \in Stores |-> [stores[s] EXCEPT !.compaction = "idle"]]
  BY DEF StartRound2
<1>3. /\ stores' \in [Stores -> [detected : Nat,
                                 compaction : {"idle", "eligible", "running", "complete"}]]
      /\ \A s \in Stores : stores'[s].detected = stores[s].detected
  BY <1>2 DEF IInv, LabTyped
<1>4. LabTyped'
  BY <1>1, <1>2, <1>3 DEF IInv, LabTyped
<1>5. SafePointsOrdered'
  BY <1>1, <1>2, <1>3, Basics DEF IInv, SafePointsOrdered
<1>6. RoundShape' /\ Fenced'
  BY <1>1, <1>2 DEF IInv, RoundShape, Fenced, AfterBound, AfterStage, AfterSave, AfterPublish
<1>7. VersionInv' /\ NothingNeededIsLost'
  BY <1>1, <1>2, VersionsStay, NeededStays, Basics DEF IInv
<1>8. CleanupInv'
  <2>1. /\ cleanup'.eligible = {} /\ cleanup'.scheduled = cleanup.scheduled
        /\ cleanup'.deleted = cleanup.deleted
        /\ cleanup' \in [eligible : SUBSET Ids, scheduled : SUBSET Ids, deleted : SUBSET Ids]
    BY <1>2 DEF IInv, CleanupInv
  <2>2. QED BY <1>2, <2>1, FixtureStays DEF IInv, CleanupInv, CleanupValid, StateOf
<1>9. QED BY <1>4, <1>5, <1>6, <1>7, <1>8 DEF IInv

-----------------------------------------------------------------------------
(* gc_safe_point_candidate                                                 *)
LEMMA CandidateKeeps ==
  ASSUME IInv, NEW ts \in Timestamps, Candidate(ts)
  PROVE  IInv'
<1>1. /\ phase = "preparing" /\ ts > safePoint.published /\ ts \in Nat
      /\ UNCHANGED <<fixture, phase, round, blocker, scanned, locks, ranges, stores, versions,
                     filterApplied, cleanup>>
  BY GcLabAssumption DEF Candidate, Timestamps
<1>2. /\ safePoint' \in SafePoint
      /\ safePoint'.previous = safePoint.published /\ safePoint'.candidate = ts
      /\ safePoint'.service = safePoint.service /\ safePoint'.staged = safePoint.staged
      /\ safePoint'.visibility = safePoint.visibility
      /\ safePoint'.published = safePoint.published /\ safePoint'.blocked = safePoint.blocked
  BY <1>1 DEF Candidate, IInv, LabTyped, SafePoint
<1>3. safePoint.service # None => safePoint.candidate # None
  BY DEF IInv, SafePointsOrdered
<1>4. safePoint.service = None
  BY <1>3 DEF Candidate
<1>5. LabTyped'
  BY <1>1, <1>2 DEF IInv, LabTyped
<1>6. SafePointsOrdered'
  BY <1>1, <1>2, <1>4, Basics DEF IInv, SafePointsOrdered, Fenced
<1>7. RoundShape' /\ Fenced'
  BY <1>1, <1>2, <1>4
     DEF IInv, RoundShape, Fenced, AfterBound, AfterStage, AfterSave, AfterPublish
<1>8. VersionInv' /\ NothingNeededIsLost' /\ CleanupInv'
  BY <1>1, <1>2, VersionsStay, NeededStays, CleanupStays, Basics DEF IInv
<1>9. QED BY <1>5, <1>6, <1>7, <1>8 DEF IInv

(* gc_safe_point_bound: the reader is asked about every candidate it might *)
(* be passed by.                                                           *)
LEMMA BoundKeeps ==
  ASSUME IInv, NEW service \in Timestamps, NEW minStartTs \in Timestamps \cup {None},
         Bound(service, minStartTs)
  PROVE  IInv'
<1> DEFINE blocked == minStartTs # None /\ minStartTs - 1 < safePoint.candidate
<1>1. /\ phase = "preparing" /\ safePoint.candidate \in Nat /\ safePoint.service = None
      /\ service \in Nat /\ minStartTs \in Nat \cup {None}
      /\ safePoint.previous < service /\ service <= safePoint.candidate
      /\ minStartTs # None => service <= minStartTs - 1
      /\ blocked => minStartTs = fixture.blockerTs /\ blocker = "active"
      /\ Fences => minStartTs = fixture.blockerTs /\ blocked
      /\ safePoint' = [safePoint EXCEPT !.service = service, !.minStartTs = minStartTs,
                                        !.blocked = blocked]
      /\ UNCHANGED <<fixture, phase, round, blocker, scanned, locks, ranges, stores, versions,
                     filterApplied, cleanup>>
  BY GcLabAssumption, Basics DEF IInv, Bound, Timestamps
<1>2. blocked \in BOOLEAN
  OBVIOUS
<1>3. /\ safePoint' \in SafePoint
      /\ safePoint'.previous = safePoint.previous
      /\ safePoint'.candidate = safePoint.candidate
      /\ safePoint'.service = service /\ safePoint'.staged = safePoint.staged
      /\ safePoint'.visibility = safePoint.visibility
      /\ safePoint'.published = safePoint.published /\ safePoint'.blocked = blocked
  <2> HIDE DEF blocked
  <2>1. safePoint \in SafePoint
    BY DEF IInv, LabTyped
  <2>2. QED BY <1>1, <1>2, <2>1 DEF SafePoint
<1>4. blocker = "active" => service < fixture.blockerTs
  <2>1. CASE Fences
    BY <1>1, <2>1, Basics DEF IInv
  <2>2. CASE ~ Fences
    BY <1>1, <2>2, Basics DEF IInv, Fences
  <2>3. QED BY <2>1, <2>2
<1>5. LabTyped'
  BY <1>1, <1>3 DEF IInv, LabTyped
<1>6. SafePointsOrdered'
  <2>1. blocked => blocker = "active" /\ service <= fixture.blockerTs - 1
    BY <1>1, <1>4, Basics DEF IInv
  <2>2. service # None /\ safePoint.candidate # None
    BY <1>1, Basics DEF IInv
  <2> HIDE DEF blocked
  <2>3. QED BY <1>1, <1>3, <2>1, <2>2, Basics DEF IInv, SafePointsOrdered
<1>7. RoundShape'
  BY <1>1, <1>3 DEF IInv, RoundShape, AfterBound, AfterStage, AfterSave, AfterPublish
<1>8. Fenced'
  <2>1. blocked => blocker = "active" /\ service # None
    BY <1>1, Basics DEF IInv
  <2> HIDE DEF blocked
  <2>2. QED BY <1>1, <1>3, <1>4, <2>1 DEF IInv, Fenced
<1>9. VersionInv' /\ NothingNeededIsLost' /\ CleanupInv'
  BY <1>1, <1>3, VersionsStay, NeededStays, CleanupStays, Basics DEF IInv
<1>10. QED BY <1>5, <1>6, <1>7, <1>8, <1>9 DEF IInv

(* gc_blocker_state                                                        *)
LEMMA CompleteBlockerKeeps == IInv /\ CompleteBlocker => IInv'
<1> SUFFICES ASSUME IInv, CompleteBlocker PROVE IInv'
  OBVIOUS
<1>1. /\ blocker' = "completed"
      /\ UNCHANGED <<fixture, phase, round, scanned, locks, ranges, stores, versions,
                     filterApplied, cleanup>>
  BY DEF CompleteBlocker
<1>2. /\ safePoint' \in SafePoint
      /\ safePoint'.previous = safePoint.previous
      /\ safePoint'.candidate = safePoint.candidate
      /\ safePoint'.service = safePoint.service /\ safePoint'.staged = safePoint.staged
      /\ safePoint'.visibility = safePoint.visibility
      /\ safePoint'.published = safePoint.published /\ safePoint'.blocked = FALSE
  BY DEF CompleteBlocker, IInv, LabTyped, SafePoint
<1>3. LabTyped'
  BY <1>1, <1>2 DEF IInv, LabTyped
<1>4. SafePointsOrdered' /\ RoundShape' /\ Fenced'
  BY <1>1, <1>2 DEF IInv, SafePointsOrdered, RoundShape, Fenced
<1>5. NothingNeededIsLost'
  BY <1>1, <1>2 DEF IInv, NothingNeededIsLost
<1>6. VersionInv' /\ CleanupInv'
  BY <1>1, <1>2, VersionsStay, CleanupStays, Basics DEF IInv
<1>7. QED BY <1>3, <1>4, <1>5, <1>6 DEF IInv

(* gc_safe_point_stage, gc_visibility_safe_point_save and                  *)
(* gc_safe_point_publish                                                   *)
LEMMA StageKeeps == IInv /\ Stage => IInv'
<1> SUFFICES ASSUME IInv, Stage PROVE IInv'
  OBVIOUS
<1>1. /\ phase = "safe_point_bounded" /\ safePoint.service >= safePoint.staged
      /\ UNCHANGED <<fixture, phase, round, blocker, scanned, locks, ranges, stores, versions,
                     filterApplied, cleanup>>
  BY DEF Stage
<1>2. safePoint.service \in Nat /\ safePoint.service > safePoint.previous
  BY <1>1, Basics DEF IInv, RoundShape, AfterBound
<1>3. /\ safePoint' \in SafePoint
      /\ safePoint'.previous = safePoint.previous
      /\ safePoint'.candidate = safePoint.candidate
      /\ safePoint'.service = safePoint.service /\ safePoint'.staged = safePoint.service
      /\ safePoint'.visibility = safePoint.visibility
      /\ safePoint'.published = safePoint.published
      /\ safePoint'.blocked = safePoint.blocked
  <2>1. safePoint \in SafePoint
    BY DEF IInv, LabTyped
  <2>2. safePoint' = [safePoint EXCEPT !.staged = safePoint.service]
    BY DEF Stage
  <2>3. QED BY <1>2, <2>1, <2>2 DEF SafePoint
<1>4. LabTyped'
  BY <1>1, <1>3 DEF IInv, LabTyped
<1>5. SafePointsOrdered'
  BY <1>1, <1>2, <1>3, Basics DEF IInv, SafePointsOrdered
<1>6. RoundShape' /\ Fenced'
  BY <1>1, <1>2, <1>3, Basics
     DEF IInv, RoundShape, Fenced, AfterBound, AfterStage, AfterSave, AfterPublish
<1>7. VersionInv' /\ NothingNeededIsLost' /\ CleanupInv'
  BY <1>1, <1>3, VersionsStay, NeededStays, CleanupStays, Basics DEF IInv
<1>8. QED BY <1>4, <1>5, <1>6, <1>7 DEF IInv

LEMMA SaveVisibilityKeeps == IInv /\ SaveVisibility => IInv'
<1> SUFFICES ASSUME IInv, SaveVisibility PROVE IInv'
  OBVIOUS
<1>1. /\ phase = "caching_safe_point" /\ safePoint.service >= safePoint.visibility
      /\ OldLocksResolved
      /\ UNCHANGED <<fixture, phase, round, blocker, scanned, locks, ranges, stores, versions,
                     filterApplied, cleanup>>
  BY DEF SaveVisibility
<1>2. safePoint.service \in Nat /\ safePoint.service = safePoint.staged
  BY <1>1, Basics DEF IInv, RoundShape, AfterBound, AfterStage
<1>3. /\ safePoint' \in SafePoint
      /\ safePoint'.previous = safePoint.previous
      /\ safePoint'.candidate = safePoint.candidate
      /\ safePoint'.service = safePoint.service /\ safePoint'.staged = safePoint.staged
      /\ safePoint'.visibility = safePoint.service
      /\ safePoint'.published = safePoint.published
      /\ safePoint'.blocked = safePoint.blocked
  <2>1. safePoint \in SafePoint
    BY DEF IInv, LabTyped
  <2>2. safePoint' = [safePoint EXCEPT !.visibility = safePoint.service]
    BY DEF SaveVisibility
  <2>3. QED BY <1>2, <2>1, <2>2 DEF SafePoint
<1>4. LabTyped'
  BY <1>1, <1>3 DEF IInv, LabTyped
<1>5. SafePointsOrdered'
  BY <1>1, <1>2, <1>3, Basics DEF IInv, SafePointsOrdered
<1>6. RoundShape' /\ Fenced'
  BY <1>1, <1>2, <1>3
     DEF IInv, RoundShape, Fenced, AfterBound, AfterStage, AfterSave, AfterPublish
<1>7. NothingNeededIsLost'
  <2>1. \A l \in Locks : fixture.lock[l].startTs <= safePoint.service => locks[l] # "pending"
    BY <1>1 DEF OldLocksResolved, OldLock
  <2>2. \A r \in Ranges : ranges[r] # "pending" =>
          /\ fixture.dropTs[r] < safePoint.service
          /\ blocker = "active" => fixture.dropTs[r] < fixture.blockerTs
    BY <1>1, <1>2, Basics DEF IInv, NothingNeededIsLost
  <2>3. QED BY <1>1, <1>3, <2>1, <2>2 DEF NothingNeededIsLost
<1>8. VersionInv' /\ CleanupInv'
  BY <1>1, <1>3, VersionsStay, CleanupStays, Basics DEF IInv
<1>9. QED BY <1>4, <1>5, <1>6, <1>7, <1>8 DEF IInv

LEMMA PublishKeeps == IInv /\ Publish => IInv'
<1> SUFFICES ASSUME IInv, Publish PROVE IInv'
  OBVIOUS
<1>1. /\ phase = "publishing_safe_point" /\ safePoint.visibility >= safePoint.published
      /\ UNCHANGED <<fixture, phase, round, blocker, scanned, locks, ranges, stores, versions,
                     filterApplied, cleanup>>
  BY DEF Publish
<1>2. /\ safePoint' \in SafePoint
      /\ safePoint'.previous = safePoint.previous
      /\ safePoint'.candidate = safePoint.candidate
      /\ safePoint'.service = safePoint.service /\ safePoint'.staged = safePoint.staged
      /\ safePoint'.visibility = safePoint.visibility
      /\ safePoint'.published = safePoint.visibility
      /\ safePoint'.blocked = safePoint.blocked
  BY DEF Publish, IInv, LabTyped, SafePoint
<1>3. LabTyped'
  BY <1>1, <1>2 DEF IInv, LabTyped
<1>4. SafePointsOrdered'
  BY <1>1, <1>2, Basics DEF IInv, SafePointsOrdered
<1>5. RoundShape' /\ Fenced'
  BY <1>1, <1>2
     DEF IInv, RoundShape, Fenced, AfterBound, AfterStage, AfterSave, AfterPublish
<1>6. VersionInv' /\ NothingNeededIsLost' /\ CleanupInv'
  BY <1>1, <1>2, VersionsStay, NeededStays, CleanupStays, Basics DEF IInv
<1>7. QED BY <1>3, <1>4, <1>5, <1>6 DEF IInv

-----------------------------------------------------------------------------
(* gc_resolve_lock_scan, gc_resolve_lock and gc_delete_range               *)
LEMMA ScanRegionKeeps ==
  ASSUME IInv, NEW r, ScanRegion(r)
  PROVE  IInv'
<1>1. UNCHANGED <<fixture, phase, round, safePoint, blocker, locks, ranges, stores, versions,
                  filterApplied, cleanup>>
  BY DEF ScanRegion
<1>2. LabTyped' /\ SafePointsOrdered' /\ RoundShape' /\ Fenced'
  BY <1>1 DEF IInv, LabTyped, SafePointsOrdered, RoundShape, Fenced
<1>3. VersionInv' /\ NothingNeededIsLost' /\ CleanupInv'
  BY <1>1, VersionsStay, NeededStays, CleanupStays, Basics DEF IInv
<1>4. QED BY <1>2, <1>3 DEF IInv

LEMMA ResolveLockKeeps ==
  ASSUME IInv, NEW l \in Locks, ResolveLock(l)
  PROVE  IInv'
<1>1. UNCHANGED <<fixture, phase, round, safePoint, blocker, scanned, ranges, stores, versions,
                  filterApplied, cleanup>>
  BY DEF ResolveLock
<1>2. /\ locks' \in [Locks -> {"pending", "resolved_commit", "resolved_rollback"}]
      /\ \A k \in Locks : locks[k] # "pending" => locks'[k] # "pending"
  BY DEF ResolveLock, IInv, LabTyped
<1>3. LabTyped' /\ SafePointsOrdered' /\ RoundShape' /\ Fenced'
  BY <1>1, <1>2 DEF IInv, LabTyped, SafePointsOrdered, RoundShape, Fenced
<1>4. NothingNeededIsLost'
  BY <1>1, <1>2 DEF IInv, NothingNeededIsLost
<1>5. VersionInv' /\ CleanupInv'
  BY <1>1, VersionsStay, CleanupStays, Basics DEF IInv
<1>6. QED BY <1>3, <1>4, <1>5 DEF IInv

LEMMA RangeKeeps ==
  ASSUME IInv, NEW r \in Ranges, MarkRange(r) \/ DeleteRange(r)
  PROVE  IInv'
<1>1. /\ safePoint.visibility = safePoint.service
      /\ UNCHANGED <<fixture, phase, round, safePoint, blocker, scanned, locks, stores,
                     versions, filterApplied, cleanup>>
  BY DEF MarkRange, DeleteRange
<1>2. /\ ranges' \in [Ranges -> {"pending", "eligible", "deleted"}]
      /\ \A q \in Ranges : q # r => ranges'[q] = ranges[q]
  BY DEF MarkRange, DeleteRange, IInv, LabTyped
<1>3. LabTyped' /\ SafePointsOrdered' /\ RoundShape' /\ Fenced'
  BY <1>1, <1>2 DEF IInv, LabTyped, SafePointsOrdered, RoundShape, Fenced
<1>4. /\ fixture.dropTs[r] < safePoint.visibility
      /\ blocker = "active" => fixture.dropTs[r] < fixture.blockerTs
  <2>1. CASE MarkRange(r)
    BY <1>1, <2>1, Basics DEF MarkRange, IInv, Fenced
  <2>2. CASE DeleteRange(r)
    BY <2>2 DEF DeleteRange, IInv, NothingNeededIsLost
  <2>3. QED BY <2>1, <2>2
<1>5. NothingNeededIsLost'
  BY <1>1, <1>2, <1>4 DEF IInv, NothingNeededIsLost
<1>6. VersionInv' /\ CleanupInv'
  BY <1>1, VersionsStay, CleanupStays, Basics DEF IInv
<1>7. QED BY <1>3, <1>5, <1>6 DEF IInv

-----------------------------------------------------------------------------
(* gc_store_safe_point and gc_compaction_state                             *)
LEMMA StoreKeeps ==
  ASSUME IInv, NEW s \in Stores, Observe(s) \/ StartCompaction(s) \/ FinishCompaction(s)
  PROVE  IInv'
<1>1. UNCHANGED <<fixture, phase, round, safePoint, blocker, scanned, locks, ranges, versions,
                  filterApplied, cleanup>>
  BY DEF Observe, StartCompaction, FinishCompaction
<1>2. /\ stores' \in [Stores -> [detected : Nat,
                                 compaction : {"idle", "eligible", "running", "complete"}]]
      /\ \A q \in Stores : stores'[q].detected <= safePoint.published
  <2>1. /\ \A q \in Stores : stores[q].detected <= safePoint.published
        /\ safePoint.published \in Nat
    BY Basics DEF IInv, SafePointsOrdered
  <2>2. CASE Observe(s)
    BY <2>1, <2>2, Basics DEF Observe, IInv, LabTyped
  <2>3. CASE StartCompaction(s)
    BY <2>1, <2>3 DEF StartCompaction, IInv, LabTyped
  <2>4. CASE FinishCompaction(s)
    BY <2>1, <2>4 DEF FinishCompaction, IInv, LabTyped
  <2>5. QED BY <2>2, <2>3, <2>4
<1>3. LabTyped' /\ SafePointsOrdered' /\ RoundShape' /\ Fenced'
  BY <1>1, <1>2 DEF IInv, LabTyped, SafePointsOrdered, RoundShape, Fenced
<1>4. VersionInv' /\ NothingNeededIsLost' /\ CleanupInv'
  BY <1>1, VersionsStay, NeededStays, CleanupStays, Basics DEF IInv
<1>5. QED BY <1>3, <1>4 DEF IInv

(* gc_compaction_filter: what the pass removes is hidden by the boundary   *)
(* of its key, and what earlier passes removed it does not meet again.     *)
LEMMA FilterVersionsKeeps == IInv /\ FilterVersions => IInv'
<1> SUFFICES ASSUME IInv, FilterVersions PROVE IInv'
  OBVIOUS
<1> DEFINE ts == safePoint.published
           after(id) == IF id \in Filtered(ts) THEN "filtered"
                        ELSE IF id \in Anchors(ts) THEN "retained_anchor"
                        ELSE IF StateOf(id) = "retained_anchor" THEN "present"
                        ELSE StateOf(id)
<1>1. /\ versions' = [k \in Keys |-> [i \in DOMAIN Chain(k) |-> after(<<k, i>>)]]
      /\ cleanup' = [cleanup EXCEPT !.eligible = EligibleMarkers(ts)]
      /\ filterApplied' = TRUE
      /\ UNCHANGED <<fixture, phase, round, safePoint, blocker, scanned, locks, ranges, stores>>
  BY DEF FilterVersions
<1>2. \A id \in Ids : StateOf(id) \in {"present", "filtered", "retained_anchor", "gc_deleted"}
  BY IdsShape DEF IInv, VersionInv, StateOf
<1>3. /\ Input(ts) \subseteq Ids /\ Filtered(ts) \subseteq Input(ts)
      /\ Anchors(ts) \subseteq Input(ts) /\ EligibleMarkers(ts) \subseteq Ids
      /\ \A id \in Input(ts) : ~ Removed(id) /\ TsOf(id) <= ts
      /\ \A id \in Anchors(ts) : TypeOf(id) = "put" /\ id \in Boundary(ts)
      /\ \A id \in EligibleMarkers(ts) : TypeOf(id) = "delete"
      /\ Anchors(ts) \cap Filtered(ts) = {}
  BY DEF Input, Filtered, Anchors, EligibleMarkers, Boundary
<1>4. ASSUME NEW id \in Ids PROVE StateOf(id)' = after(id)
  <2>1. id[1] \in Keys /\ id[2] \in DOMAIN Chain(id[1]) /\ id = <<id[1], id[2]>>
    BY IdsShape DEF IInv
  <2> HIDE DEF after
  <2>2. versions'[id[1]][id[2]] = after(<<id[1], id[2]>>)
    BY <1>1, <2>1
  <2>3. QED BY <2>1, <2>2 DEF StateOf
<1>5. ASSUME NEW id \in Ids
      PROVE  /\ Removed(id) => StateOf(id)' = StateOf(id)
             /\ StateOf(id)' = "gc_deleted" <=> StateOf(id) = "gc_deleted"
             /\ StateOf(id)' = "retained_anchor" <=> id \in Anchors(ts)
             /\ StateOf(id)' = "filtered" <=> StateOf(id) = "filtered" \/ id \in Filtered(ts)
  BY <1>2, <1>3, <1>4 DEF Removed
<1>6. /\ versions' = [k \in Keys |-> versions'[k]]
      /\ \A k \in Keys : versions'[k] \in
           [DOMAIN Chain(k) -> {"present", "filtered", "retained_anchor", "gc_deleted"}]
  <2>1. \A k \in Keys : \A i \in DOMAIN Chain(k) :
          after(<<k, i>>) \in {"present", "filtered", "retained_anchor", "gc_deleted"}
    <3>1. \A k \in Keys : \A i \in DOMAIN Chain(k) : <<k, i>> \in Ids
      BY IdsShape DEF IInv
    <3>2. QED BY <1>2, <3>1
  <2> HIDE DEF after
  <2>2. QED BY <1>1, <2>1
<1>7. ASSUME NEW a \in Anchors(ts), NEW b \in Anchors(ts), a[1] = b[1] PROVE a = b
  <2>1. a \in Boundary(ts) /\ b \in Boundary(ts) /\ a \in Ids /\ b \in Ids
    BY <1>3
  <2>2. ~ (a[2] > b[2]) /\ ~ (b[2] > a[2])
    BY <1>3, <1>7, <2>1 DEF Boundary
  <2>3. a[2] = b[2]
    BY <2>1, <2>2, IdsShape DEF IInv
  <2>4. QED BY <1>7, <2>1, <2>3, IdsShape DEF IInv
<1>8. ASSUME NEW id \in Filtered(ts), TypeOf(id) \in Data PROVE Superseded(id, ts)
  <2>1. PICK o \in Input(ts) : o[1] = id[1] /\ o[2] > id[2] /\ TypeOf(o) \in Data
    BY <1>8 DEF Filtered, Boundary, Data
  <2>2. QED BY <1>3, <2>1 DEF Superseded
<1>9. VersionInv'
  <2>1. ASSUME NEW id \in Ids
        PROVE  /\ StateOf(id)' # "present" => TsOf(id) <= ts
               /\ StateOf(id)' = "retained_anchor" => TypeOf(id) = "put"
               /\ StateOf(id)' = "gc_deleted" =>
                    TypeOf(id) = "delete" /\ \A o \in Older(id) : Removed(o)'
               /\ StateOf(id)' = "filtered" /\ TypeOf(id) \in Data => Superseded(id, ts)
    <3>1. StateOf(id)' # "present" => TsOf(id) <= ts
      BY <1>2, <1>3, <1>4 DEF IInv, VersionInv
    <3>2. StateOf(id)' = "retained_anchor" => TypeOf(id) = "put"
      BY <1>3, <1>5
    <3>3. ASSUME StateOf(id)' = "gc_deleted"
          PROVE  TypeOf(id) = "delete" /\ \A o \in Older(id) : Removed(o)'
      <4>1. TypeOf(id) = "delete" /\ \A o \in Older(id) : Removed(o)
        BY <1>5, <3>3 DEF IInv, VersionInv
      <4>2. ASSUME NEW o \in Older(id) PROVE Removed(o)'
        <5>1. o \in Ids /\ Removed(o)
          BY <4>1 DEF Older
        <5>2. StateOf(o)' = StateOf(o)
          BY <1>5, <5>1
        <5>3. QED BY <5>1, <5>2 DEF Removed
      <4>3. QED BY <4>1, <4>2
    <3>4. StateOf(id)' = "filtered" /\ TypeOf(id) \in Data => Superseded(id, ts)
      BY <1>5, <1>8 DEF IInv, VersionInv
    <3>5. QED BY <3>1, <3>2, <3>3, <3>4
  <2>2. \A id \in Ids : Superseded(id, ts) => Superseded(id, safePoint.published)'
    BY <1>1, FixtureStays DEF Superseded
  <2>3. (\A id \in Ids :
           /\ StateOf(id) # "present" => TsOf(id) <= safePoint.published
           /\ StateOf(id) = "retained_anchor" => TypeOf(id) = "put"
           /\ StateOf(id) = "gc_deleted" =>
                TypeOf(id) = "delete" /\ \A o \in Older(id) : Removed(o)
           /\ StateOf(id) = "filtered" /\ TypeOf(id) \in Data =>
                Superseded(id, safePoint.published))'
    BY <1>1, <2>1, <2>2, FixtureStays
  <2>4. (\A a, b \in Ids :
           a[1] = b[1] /\ StateOf(a) = "retained_anchor" /\ StateOf(b) = "retained_anchor"
             => a = b)'
    BY <1>1, <1>5, <1>7, FixtureStays
  <2>5. QED BY <1>1, <1>6, <2>3, <2>4, FixtureStays DEF VersionInv
<1>10. CleanupInv'
  <2>1. /\ cleanup'.eligible = EligibleMarkers(ts)
        /\ cleanup'.scheduled = cleanup.scheduled /\ cleanup'.deleted = cleanup.deleted
        /\ cleanup' \in [eligible : SUBSET Ids, scheduled : SUBSET Ids, deleted : SUBSET Ids]
    BY <1>1, <1>3 DEF IInv, CleanupInv
  <2>2. {id \in Ids : StateOf(id)' = "gc_deleted"} = {id \in Ids : StateOf(id) = "gc_deleted"}
    BY <1>5
  <2>3. QED BY <1>1, <1>3, <2>1, <2>2, FixtureStays DEF IInv, CleanupInv, CleanupValid
<1>11. LabTyped' /\ SafePointsOrdered' /\ RoundShape' /\ Fenced'
  BY <1>1 DEF IInv, LabTyped, SafePointsOrdered, RoundShape, Fenced
<1>12. NothingNeededIsLost'
  BY <1>1, NeededStays DEF IInv
<1>13. QED BY <1>9, <1>10, <1>11, <1>12 DEF IInv

(* gc_key_cleanup                                                          *)
LEMMA ScheduleCleanupKeeps ==
  ASSUME IInv, NEW ids \in SUBSET cleanup.eligible, ScheduleCleanup(ids)
  PROVE  IInv'
<1>1. /\ cleanup' = [cleanup EXCEPT !.scheduled = @ \cup ids]
      /\ UNCHANGED <<fixture, phase, round, safePoint, blocker, scanned, locks, ranges, stores,
                     versions, filterApplied>>
  BY DEF ScheduleCleanup
<1>2. /\ cleanup'.eligible = cleanup.eligible /\ cleanup'.deleted = cleanup.deleted
      /\ cleanup'.scheduled = cleanup.scheduled \cup ids
      /\ cleanup' \in [eligible : SUBSET Ids, scheduled : SUBSET Ids, deleted : SUBSET Ids]
  BY <1>1 DEF IInv, CleanupInv
<1>3. CleanupInv'
  BY <1>1, <1>2, FixtureStays DEF IInv, CleanupInv, CleanupValid, StateOf
<1>4. LabTyped' /\ SafePointsOrdered' /\ RoundShape' /\ Fenced'
  BY <1>1 DEF IInv, LabTyped, SafePointsOrdered, RoundShape, Fenced
<1>5. VersionInv' /\ NothingNeededIsLost'
  BY <1>1, VersionsStay, NeededStays, Basics DEF IInv
<1>6. QED BY <1>3, <1>4, <1>5 DEF IInv

LEMMA DeleteMarkersKeeps ==
  ASSUME IInv, NEW ids \in SUBSET cleanup.eligible, DeleteMarkers(ids)
  PROVE  IInv'
<1>1. /\ cleanup' = [cleanup EXCEPT !.deleted = @ \cup ids]
      /\ versions' = [k \in Keys |-> [i \in DOMAIN Chain(k) |->
                        IF <<k, i>> \in ids THEN "gc_deleted" ELSE versions[k][i]]]
      /\ \A id \in ids : Cleanable(id) /\ id \in cleanup.scheduled
      /\ UNCHANGED <<fixture, phase, round, safePoint, blocker, scanned, locks, ranges, stores,
                     filterApplied>>
  BY DEF DeleteMarkers
<1>2. ids \subseteq Ids
  BY DEF IInv, CleanupInv
<1>3. ASSUME NEW id \in Ids
      PROVE  StateOf(id)' = IF id \in ids THEN "gc_deleted" ELSE StateOf(id)
  <2>1. id[1] \in Keys /\ id[2] \in DOMAIN Chain(id[1]) /\ id = <<id[1], id[2]>>
    BY IdsShape DEF IInv
  <2>2. QED BY <1>1, <2>1 DEF StateOf
<1>4. ASSUME NEW id \in Ids PROVE Removed(id) => Removed(id)'
  BY <1>3 DEF Removed
<1>5. /\ versions' = [k \in Keys |-> versions'[k]]
      /\ \A k \in Keys : versions'[k] \in
           [DOMAIN Chain(k) -> {"present", "filtered", "retained_anchor", "gc_deleted"}]
  BY <1>1 DEF IInv, VersionInv
<1>6. VersionInv'
  <2>1. ASSUME NEW id \in Ids
        PROVE  /\ StateOf(id)' # "present" => TsOf(id) <= safePoint.published
               /\ StateOf(id)' = "retained_anchor" => TypeOf(id) = "put"
               /\ StateOf(id)' = "gc_deleted" =>
                    TypeOf(id) = "delete" /\ \A o \in Older(id) : Removed(o)'
               /\ StateOf(id)' = "filtered" /\ TypeOf(id) \in Data =>
                    Superseded(id, safePoint.published)
    <3>1. /\ StateOf(id)' # "present" => TsOf(id) <= safePoint.published
          /\ StateOf(id)' = "retained_anchor" => TypeOf(id) = "put"
          /\ StateOf(id)' = "filtered" /\ TypeOf(id) \in Data =>
               Superseded(id, safePoint.published)
      BY <1>1, <1>3 DEF IInv, VersionInv, Cleanable
    <3>2. ASSUME StateOf(id)' = "gc_deleted"
          PROVE  TypeOf(id) = "delete" /\ \A o \in Older(id) : Removed(o)'
      <4>1. TypeOf(id) = "delete" /\ \A o \in Older(id) : Removed(o)
        BY <1>1, <1>3, <3>2 DEF IInv, VersionInv, Cleanable
      <4>2. \A o \in Older(id) : o \in Ids
        BY DEF Older
      <4>3. QED BY <1>4, <4>1, <4>2
    <3>3. QED BY <3>1, <3>2
  <2>2. \A id \in Ids :
          Superseded(id, safePoint.published) => Superseded(id, safePoint.published)'
    BY <1>1, FixtureStays DEF Superseded
  <2>3. (\A id \in Ids :
           /\ StateOf(id) # "present" => TsOf(id) <= safePoint.published
           /\ StateOf(id) = "retained_anchor" => TypeOf(id) = "put"
           /\ StateOf(id) = "gc_deleted" =>
                TypeOf(id) = "delete" /\ \A o \in Older(id) : Removed(o)
           /\ StateOf(id) = "filtered" /\ TypeOf(id) \in Data =>
                Superseded(id, safePoint.published))'
    BY <1>1, <2>1, <2>2, FixtureStays
  <2>4. (\A a, b \in Ids :
           a[1] = b[1] /\ StateOf(a) = "retained_anchor" /\ StateOf(b) = "retained_anchor"
             => a = b)'
    BY <1>1, <1>3, FixtureStays DEF IInv, VersionInv
  <2>5. QED BY <1>1, <1>5, <2>3, <2>4, FixtureStays DEF VersionInv
<1>7. CleanupInv'
  <2>1. /\ cleanup'.eligible = cleanup.eligible /\ cleanup'.scheduled = cleanup.scheduled
        /\ cleanup'.deleted = cleanup.deleted \cup ids
        /\ cleanup' \in [eligible : SUBSET Ids, scheduled : SUBSET Ids, deleted : SUBSET Ids]
    BY <1>1, <1>2 DEF IInv, CleanupInv
  <2>2. {id \in Ids : StateOf(id)' = "gc_deleted"}
          = {id \in Ids : StateOf(id) = "gc_deleted"} \cup ids
    BY <1>2, <1>3
  <2>3. QED BY <1>1, <2>1, <2>2, FixtureStays DEF IInv, CleanupInv, CleanupValid
<1>8. LabTyped' /\ SafePointsOrdered' /\ RoundShape' /\ Fenced'
  BY <1>1 DEF IInv, LabTyped, SafePointsOrdered, RoundShape, Fenced
<1>9. NothingNeededIsLost'
  BY <1>1, NeededStays DEF IInv
<1>10. QED BY <1>6, <1>7, <1>8, <1>9 DEF IInv

-----------------------------------------------------------------------------
LEMMA InitEstablishes == Init => IInv
<1> SUFFICES ASSUME Init PROVE IInv
  OBVIOUS
<1>1. /\ fixture \in Fixtures /\ phase = "idle" /\ blocker = "active" /\ filterApplied = FALSE
      /\ safePoint = [previous |-> fixture.initial, candidate |-> None, minStartTs |-> None,
                      service |-> None, staged |-> fixture.initial,
                      visibility |-> fixture.initial, published |-> fixture.initial,
                      blocked |-> FALSE]
      /\ cleanup = [eligible |-> {}, scheduled |-> {}, deleted |-> {}]
      /\ stores = [s \in Stores |-> [detected |-> fixture.initial, compaction |-> "idle"]]
      /\ locks = [l \in Locks |-> "pending"] /\ ranges = [r \in Ranges |-> "pending"]
  BY DEF Init
<1>2. fixture.initial \in Nat /\ fixture.blockerTs \in Nat /\ fixture.initial < fixture.blockerTs
  BY <1>1, GcLabAssumption DEF Fixture
<1>3. safePoint \in SafePoint
  BY <1>1, <1>2 DEF SafePoint
<1>4. stores \in [Stores -> [detected : Nat,
                             compaction : {"idle", "eligible", "running", "complete"}]]
  BY <1>1, <1>2
<1>5. LabTyped
  BY <1>1, <1>3, <1>4 DEF LabTyped
<1>6. SafePointsOrdered
  BY <1>1, <1>2 DEF SafePointsOrdered
<1>7. RoundShape /\ Fenced
  BY <1>1, <1>2 DEF RoundShape, Fenced, AfterBound, AfterStage, AfterSave, AfterPublish
<1>8. \A id \in Ids : StateOf(id) = "present"
  BY <1>5, IdsShape DEF Init, StateOf
<1>9. VersionInv
  <2>1. /\ versions = [k \in Keys |-> versions[k]]
        /\ \A k \in Keys : versions[k] \in
             [DOMAIN Chain(k) -> {"present", "filtered", "retained_anchor", "gc_deleted"}]
    BY DEF Init
  <2>2. QED BY <1>8, <2>1 DEF VersionInv
<1>10. CleanupInv
  BY <1>1, <1>8 DEF CleanupInv, CleanupValid
<1>11. NothingNeededIsLost
  BY <1>1, <1>2 DEF NothingNeededIsLost
<1>12. QED BY <1>5, <1>6, <1>7, <1>9, <1>10, <1>11 DEF IInv

LEMMA NextKeeps == IInv /\ [Next]_vars => IInv'
<1> SUFFICES ASSUME IInv, [Next]_vars PROVE IInv'
  OBVIOUS
<1>1. CASE CoordinatorStep
  BY <1>1, AdvanceKeeps, StartRound2Keeps, CandidateKeeps, BoundKeeps, CompleteBlockerKeeps,
     StageKeeps, SaveVisibilityKeeps, PublishKeeps, ScanRegionKeeps, ResolveLockKeeps,
     RangeKeeps DEF CoordinatorStep
<1>2. CASE StorageStep
  BY <1>2, StoreKeeps, FilterVersionsKeeps, ScheduleCleanupKeeps, DeleteMarkersKeeps
     DEF StorageStep
<1>3. CASE UNCHANGED vars
  <2>1. UNCHANGED <<fixture, phase, safePoint, blocker, locks, ranges, stores, versions,
                    filterApplied, cleanup>>
    BY <1>3 DEF vars
  <2>2. LabTyped' /\ SafePointsOrdered' /\ RoundShape' /\ Fenced'
    BY <2>1 DEF IInv, LabTyped, SafePointsOrdered, RoundShape, Fenced
  <2>3. VersionInv' /\ NothingNeededIsLost' /\ CleanupInv'
    BY <2>1, VersionsStay, NeededStays, CleanupStays, Basics DEF IInv
  <2>4. QED BY <2>2, <2>3 DEF IInv
<1>4. QED BY <1>1, <1>2, <1>3 DEF Next

LEMMA Invariance == Spec => []IInv
  BY InitEstablishes, NextKeeps, PTL DEF Spec

(* Whatever chains and locks GC is run on, safe points stay in order and   *)
(* below the active reader, and a version is removed or kept as an anchor  *)
(* only at or below what was published: validateGcLab has nothing to find. *)
THEOREM LabIsValid == Spec => []LabValid
<1>1. ASSUME IInv PROVE LabValid
  <2>1. SafePointsOrdered /\ CleanupValid /\ safePoint \in SafePoint
    BY <1>1 DEF IInv, CleanupInv, LabTyped
  <2>2. \A id \in Ids :
          /\ Removed(id) \/ StateOf(id) = "retained_anchor" => TsOf(id) <= safePoint.published
          /\ StateOf(id) = "retained_anchor" => TypeOf(id) = "put"
          /\ StateOf(id) = "gc_deleted" =>
               TypeOf(id) = "delete" /\ \A o \in Older(id) : Removed(o)
    BY <1>1 DEF IInv, VersionInv, Removed
  <2>3. ASSUME NEW k \in Keys
        PROVE  Cardinality({i \in DOMAIN Chain(k) : versions[k][i] = "retained_anchor"}) <= 1
    <3> DEFINE A == {i \in DOMAIN Chain(k) : versions[k][i] = "retained_anchor"}
    <3>1. \A i, j \in A : i = j
      <4>1. ASSUME NEW i \in A, NEW j \in A PROVE i = j
        <5>1. <<k, i>> \in Ids /\ <<k, j>> \in Ids
          BY <1>1, IdsShape DEF IInv
        <5>2. StateOf(<<k, i>>) = "retained_anchor" /\ StateOf(<<k, j>>) = "retained_anchor"
          BY DEF StateOf
        <5>3. <<k, i>> = <<k, j>>
          BY <1>1, <5>1, <5>2 DEF IInv, VersionInv
        <5>4. QED BY <5>3
      <4>2. QED BY <4>1
    <3>2. A = {} \/ \E i : A = {i}
      BY <3>1
    <3> HIDE DEF A
    <3>3. Cardinality(A) = 0 \/ Cardinality(A) = 1
      BY <3>2, FS_EmptySet, FS_Singleton
    <3>4. QED BY <3>3 DEF A
  <2>4. QED BY <2>1, <2>2, <2>3 DEF LabValid, VersionsValid
<1>2. QED BY <1>1, Invariance, PTL

(* No lock outlives the safe point its outcome needs, and no range dropped *)
(* after the active reader began is touched.                               *)
THEOREM NeededIsKept == Spec => []NothingNeededIsLost
<1>1. IInv => NothingNeededIsLost
  BY DEF IInv
<1>2. QED BY <1>1, Invariance, PTL

-----------------------------------------------------------------------------
(* The newest Put or Delete of a key at or below a timestamp.              *)
LEMMA NewestData ==
  ASSUME LabTyped, NEW k \in Keys, NEW ts, NEW d \in Ids,
         d[1] = k, TypeOf(d) \in Data, TsOf(d) <= ts
  PROVE  \E m \in Ids : /\ m[1] = k /\ TypeOf(m) \in Data /\ TsOf(m) <= ts
                        /\ \A o \in Ids : o[1] = k /\ TypeOf(o) \in Data /\ TsOf(o) <= ts
                                            => o[2] <= m[2]
<1> DEFINE D == {id \in Ids : id[1] = k /\ TypeOf(id) \in Data /\ TsOf(id) <= ts}
           S == {id[2] : id \in D}
<1>1. S \in SUBSET Nat /\ S # {} /\ \A x \in S : x <= Len(Chain(k))
  BY IdsShape
<1>2. Len(Chain(k)) \in Nat
  BY IdsShape
<1> HIDE DEF S
<1>3. PICK x \in S : \A y \in S : y <= x
  BY <1>1, <1>2, Greatest
<1>4. PICK m \in D : m[2] = x
  BY DEF S
<1>5. QED BY <1>3, <1>4 DEF S

(* At a timestamp the published safe point has not passed, the newest Put  *)
(* or Delete of a key is still there, or was a marker above nothing.       *)
LEMMA NewestSurvives ==
  ASSUME IInv, NEW ts \in Nat, ts >= safePoint.published,
         NEW m \in Ids, TypeOf(m) \in Data, TsOf(m) <= ts, Removed(m),
         \A o \in Ids : o[1] = m[1] /\ TypeOf(o) \in Data /\ TsOf(o) <= ts => o[2] <= m[2]
  PROVE  TypeOf(m) = "delete" /\ \A o \in Older(m) : Removed(o)
<1>1. StateOf(m) # "filtered"
  <2>1. ASSUME StateOf(m) = "filtered" PROVE FALSE
    <3>1. PICK o \in Ids : /\ o[1] = m[1] /\ o[2] > m[2]
                           /\ TypeOf(o) \in Data /\ TsOf(o) <= safePoint.published
      BY <2>1 DEF IInv, VersionInv, Superseded
    <3>2. TsOf(o) <= ts /\ o[2] \in Nat /\ m[2] \in Nat
      BY <3>1, IdsShape, Basics DEF IInv
    <3>3. QED BY <3>1, <3>2
  <2>2. QED BY <2>1
<1>2. StateOf(m) = "gc_deleted"
  BY <1>1 DEF Removed
<1>3. QED BY <1>2 DEF IInv, VersionInv

(* GC is invisible: every timestamp from the published safe point on, and  *)
(* the active reader's, reads from what is left the value it would have    *)
(* read had nothing been removed.                                          *)
THEOREM GcIsInvisible == Spec => []ReadsPreserved
<1>1. ASSUME IInv, NEW k \in Keys, NEW ts \in Timestamps, ts >= safePoint.published
      PROVE  VisibleAmong({id \in Ids : ~Removed(id)}, k, ts) = VisibleAmong(Ids, k, ts)
  <2> DEFINE here(id) == id[1] = k /\ TsOf(id) <= ts /\ TypeOf(id) \in Data
  <2>1. ts \in Nat /\ \A id \in Ids : TsOf(id) \in Nat /\ id[2] \in Nat
    BY <1>1, GcLabAssumption, IdsShape DEF IInv, Timestamps
  <2>2. ASSUME NEW v \in VisibleAmong(Ids, k, ts)
        PROVE  v \in VisibleAmong({id \in Ids : ~Removed(id)}, k, ts)
    <3>1. /\ v \in Ids /\ here(v) /\ TypeOf(v) = "put"
          /\ \A o \in Ids : here(o) => o[2] <= v[2]
      BY DEF VisibleAmong, Data
    <3>2. ~ Removed(v)
      BY <1>1, <2>1, <3>1, NewestSurvives DEF Data
    <3>3. QED BY <3>1, <3>2 DEF VisibleAmong, Data
  <2>3. ASSUME NEW v \in VisibleAmong({id \in Ids : ~Removed(id)}, k, ts)
        PROVE  v \in VisibleAmong(Ids, k, ts)
    <3>1. /\ v \in Ids /\ ~ Removed(v) /\ here(v) /\ TypeOf(v) = "put"
          /\ \A o \in Ids : ~ Removed(o) /\ here(o) => o[2] <= v[2]
      BY DEF VisibleAmong, Data
    <3>2. PICK m \in Ids : here(m) /\ \A o \in Ids : here(o) => o[2] <= m[2]
      BY <1>1, <3>1, NewestData DEF IInv
    <3>3. ~ Removed(m)
      <4>1. ASSUME Removed(m) PROVE FALSE
        <5>1. \A o \in Older(m) : Removed(o)
          BY <1>1, <2>1, <3>2, <4>1, NewestSurvives
        <5>2. v \notin Older(m)
          BY <3>1, <5>1
        <5>3. v[2] <= m[2] /\ ~ (v[2] < m[2])
          BY <3>1, <3>2, <5>2 DEF Older
        <5>4. v = m
          <6>1. v[2] = m[2] /\ v[1] = m[1]
            BY <2>1, <3>1, <3>2, <5>3
          <6>2. QED BY <1>1, <3>1, <6>1, IdsShape DEF IInv
        <5>5. QED BY <3>1, <4>1, <5>4
      <4>2. QED BY <4>1
    <3>4. m[2] <= v[2]
      BY <3>1, <3>2, <3>3
    <3>5. \A o \in Ids : here(o) => o[2] <= v[2]
      BY <2>1, <3>1, <3>2, <3>4
    <3>6. QED BY <3>1, <3>5 DEF VisibleAmong, Data
  <2>4. QED BY <2>2, <2>3
<1>2. ASSUME IInv, blocker = "active" PROVE fixture.blockerTs >= safePoint.published
  BY <1>2, Basics DEF IInv, Fenced, SafePointsOrdered
<1>3. IInv => ReadsPreserved
  BY <1>1, <1>2 DEF ReadsPreserved
<1>4. QED BY <1>3, Invariance, PTL

(* What GC removed stays removed the way it went, and no safe point of     *)
(* TiDB or of a store moves back, across both rounds.                      *)
THEOREM NothingComesBack == Spec => RemovalIsFinal
<1>1. ASSUME IInv, [Next]_vars, NEW id \in Ids, Removed(id)
      PROVE  versions'[id[1]][id[2]] = StateOf(id)
  <2>1. id[1] \in Keys /\ id[2] \in DOMAIN Chain(id[1]) /\ id = <<id[1], id[2]>>
    BY <1>1, IdsShape DEF IInv
  <2>2. CASE UNCHANGED versions
    BY <2>2 DEF StateOf
  <2>3. CASE FilterVersions
    <3>1. id \notin Filtered(safePoint.published) /\ id \notin Anchors(safePoint.published)
      BY <1>1 DEF Filtered, Anchors, Boundary, Input
    <3>2. StateOf(id) # "retained_anchor"
      BY <1>1 DEF Removed
    <3>3. QED BY <2>1, <2>3, <3>1, <3>2 DEF FilterVersions
  <2>4. ASSUME NEW ids \in SUBSET cleanup.eligible, DeleteMarkers(ids)
        PROVE  versions'[id[1]][id[2]] = StateOf(id)
    <3>1. id \notin ids
      BY <1>1, <2>4 DEF DeleteMarkers, Cleanable, Removed
    <3>2. QED BY <2>1, <2>4, <3>1 DEF DeleteMarkers, StateOf
  <2>5. UNCHANGED versions \/ FilterVersions \/ \E ids \in SUBSET cleanup.eligible : DeleteMarkers(ids)
    BY <1>1 DEF Next, vars, CoordinatorStep, StorageStep, Advance, StartRound2, Candidate,
       Bound, CompleteBlocker, Stage, SaveVisibility, Publish, ScanRegion, ResolveLock,
       MarkRange, DeleteRange, Observe, StartCompaction, FinishCompaction, ScheduleCleanup
  <2>6. QED BY <2>2, <2>3, <2>4, <2>5
<1>2. ASSUME IInv, [Next]_vars
      PROVE  /\ safePoint'.staged >= safePoint.staged
             /\ safePoint'.visibility >= safePoint.visibility
             /\ safePoint'.published >= safePoint.published
  <2>1. /\ safePoint.staged \in Nat /\ safePoint.visibility \in Nat
        /\ safePoint.published \in Nat /\ safePoint \in SafePoint
    BY <1>2, Basics DEF IInv, LabTyped
  <2>2. CASE UNCHANGED safePoint
    BY <2>1, <2>2
  <2>3. CASE Stage
    BY <2>1, <2>3 DEF Stage, SafePoint
  <2>4. CASE SaveVisibility
    BY <2>1, <2>4 DEF SaveVisibility, SafePoint
  <2>5. CASE Publish
    BY <2>1, <2>5 DEF Publish, SafePoint
  <2>6. CASE StartRound2 \/ CompleteBlocker \/ \E ts \in Timestamps : Candidate(ts)
    <3>1. CASE StartRound2
      BY <2>1, <3>1 DEF StartRound2, SafePoint
    <3>2. CASE CompleteBlocker
      BY <2>1, <3>2 DEF CompleteBlocker, SafePoint
    <3>3. ASSUME NEW ts \in Timestamps, Candidate(ts)
          PROVE  /\ safePoint'.staged = safePoint.staged
                 /\ safePoint'.visibility = safePoint.visibility
                 /\ safePoint'.published = safePoint.published
      BY <2>1, <3>3 DEF Candidate, SafePoint
    <3>4. QED BY <2>1, <2>6, <3>1, <3>2, <3>3
  <2>7. ASSUME NEW ts \in Timestamps, NEW least \in Timestamps \cup {None}, Bound(ts, least)
        PROVE  /\ safePoint'.staged = safePoint.staged
               /\ safePoint'.visibility = safePoint.visibility
               /\ safePoint'.published = safePoint.published
    BY <2>1, <2>7 DEF Bound, SafePoint
  <2>8. \/ UNCHANGED safePoint \/ Stage \/ SaveVisibility \/ Publish
        \/ StartRound2 \/ CompleteBlocker
        \/ \E ts \in Timestamps : Candidate(ts)
        \/ \E ts \in Timestamps : \E least \in Timestamps \cup {None} : Bound(ts, least)
    BY <1>2 DEF Next, vars, CoordinatorStep, StorageStep, Advance, ScanRegion, ResolveLock,
       MarkRange, DeleteRange, Observe, StartCompaction, FilterVersions, FinishCompaction,
       ScheduleCleanup, DeleteMarkers
  <2>9. QED BY <2>1, <2>2, <2>3, <2>4, <2>5, <2>6, <2>7, <2>8
<1>3. ASSUME IInv, [Next]_vars, NEW s \in Stores
      PROVE  stores'[s].detected >= stores[s].detected
  <2>1. /\ safePoint.published \in Nat /\ \A q \in Stores : stores[q].detected \in Nat
        /\ stores \in [Stores -> [detected : Nat,
                                  compaction : {"idle", "eligible", "running", "complete"}]]
    BY <1>3, Basics DEF IInv, LabTyped
  <2>2. CASE UNCHANGED stores
    BY <2>1, <2>2
  <2>3. CASE StartRound2
    BY <2>1, <2>3 DEF StartRound2
  <2>4. ASSUME NEW q \in Stores, Observe(q) \/ StartCompaction(q) \/ FinishCompaction(q)
        PROVE  stores'[s].detected >= stores[s].detected
    <3>1. CASE Observe(q)
      BY <2>1, <3>1 DEF Observe
    <3>2. CASE StartCompaction(q) \/ FinishCompaction(q)
      BY <2>1, <3>2 DEF StartCompaction, FinishCompaction
    <3>3. QED BY <2>4, <3>1, <3>2
  <2>5. \/ UNCHANGED stores \/ StartRound2
        \/ \E q \in Stores : Observe(q) \/ StartCompaction(q) \/ FinishCompaction(q)
    BY <1>3 DEF Next, vars, CoordinatorStep, StorageStep, Advance, Candidate, Bound,
       CompleteBlocker, Stage, SaveVisibility, Publish, ScanRegion, ResolveLock, MarkRange,
       DeleteRange, FilterVersions, ScheduleCleanup, DeleteMarkers
  <2>6. QED BY <2>2, <2>3, <2>4, <2>5
<1>4. IInv /\ [Next]_vars =>
        [/\ \A id \in Ids : Removed(id) => versions'[id[1]][id[2]] = StateOf(id)
         /\ safePoint'.staged >= safePoint.staged
         /\ safePoint'.visibility >= safePoint.visibility
         /\ safePoint'.published >= safePoint.published
         /\ \A s \in Stores : stores'[s].detected >= stores[s].detected]_vars
  BY <1>1, <1>2, <1>3
<1>5. QED BY <1>4, Invariance, PTL DEF Spec, RemovalIsFinal
=============================================================================

----------------------------- MODULE Simulation -----------------------------
(***************************************************************************)
(* The live engine of src/tidb/model/simulation.ts above the Raft groups:  *)
(* the timestamp oracle, transactions and their commit protocols, MVCC     *)
(* garbage collection, TiFlash replication, the metrics, and the clock     *)
(* that drives the background workload.  Every call runs to completion, so *)
(* one call is one action; a traced write has one action per way it ends.  *)
(*                                                                         *)
(* The controls (transaction mode, commit protocol, read policy, lag, GC   *)
(* lifetime) can be set freely between any two calls, so each action takes *)
(* the values it reads as parameters.                                      *)
(***************************************************************************)
EXTENDS RaftGroup, Sequences, FiniteSetsExt, SequencesExt

CONSTANTS InitialRegions,   \* 36 in the code
          RegionWidth,      \* keys per initial Region
          HotRegion,        \* the Region the hotspot scenario may split: 35
          MaxTransactions,  \* MAX_TRANSACTIONS, 64 in the code
          Baseline,         \* log index the failover fixture starts from: 42
          TickTs,           \* timestamps per clock step (fixedStepSeconds)
          GcDivisor,        \* timestamps per version a GC pass collects: 10 000
          Scopes,           \* bounds: the behaviours to look at, see Scope
          Unset             \* JavaScript's null

(* The guided scenarios ("reset" for none) that a behaviour may follow; the *)
(* values of the controls transactionMode, commitProtocol ("auto" or a      *)
(* protocol), tiflashLagSeconds and gcLifetimeSeconds (in clock steps, the  *)
(* lifetime never 0); the clock steps that issue a background statement;    *)
(* and how many clock steps, traced requests and Regions there are at most. *)
Scope ==
  [starts : SUBSET {"reset", "lock-deadlock", "commit-protocols", "gc-safe-point",
                    "tiflash-mpp", "tikv-failover", "cross-region-transaction"},
   modes : SUBSET {"optimistic", "pessimistic"},
   requested : SUBSET {"auto", "1pc", "async_commit", "2pc"},
   lags : SUBSET Nat, lifetimes : SUBSET (Nat \ {0}), busy : SUBSET Nat,
   ticks : Nat, calls : Nat, regions : Nat]

ASSUME SimulationAssumption ==
  /\ InitialRegions \in Nat \ {0, 1}
  /\ RegionWidth \in Nat \ {0}
  /\ HotRegion \in 0..(InitialRegions - 1)
  /\ Baseline \in Nat \ {0}
  /\ MaxTransactions \in Nat \ {0, 1}
  /\ TickTs \in Nat \ {0}
  /\ GcDivisor \in Nat \ {0}
  /\ Scopes \subseteq Scope
  /\ Unset \notin Nat

VARIABLES scope,         \* bounds of this behaviour
          regions,       \* state.regions
          now,           \* state.tick
          tso,           \* state.tso
          transactions,  \* state.transactions
          gc,            \* state.gc
          tiflash,       \* state.tiflash
          queue,         \* tiflashQueue
          metrics,       \* state.metrics
          calls,         \* receiptCounter
          lastTrace      \* state.lastTrace

vars == <<scope, regions, now, tso, transactions, gc, tiflash, queue, metrics, calls, lastTrace>>

Protocols == {"1pc", "async_commit", "2pc"}
Phases == {"active", "prewriting", "committing", "committed", "rolled_back"}
OpenPhases == {"active", "prewriting", "committing"}
Outcomes == {"succeeded", "failed", "committed", "rolled_back"}

-----------------------------------------------------------------------------
(* Regions by id.                                                          *)
RegionIds == {regions[i].id : i \in DOMAIN regions}
Get(rs, id) == rs[CHOOSE i \in DOMAIN rs : rs[i].id = id]

(* The Regions a loop over ids gets to before the first one without a      *)
(* leader stops it, that one included.                                     *)
Reached(rs, ids) ==
  {ids[k] : k \in {k \in DOMAIN ids :
                     \A m \in 1..(k - 1) : LeaderAvailable(Get(rs, ids[m]))}}

Leaderless(rs, ids) == {id \in Range(ids) : ~LeaderAvailable(Get(rs, id))}

Led(rs, S) == [i \in DOMAIN rs |-> IF rs[i].id \in S THEN EnsureLeader(rs[i]) ELSE rs[i]]
Proposed(rs, S) == [i \in DOMAIN rs |-> IF rs[i].id \in S THEN Replicate(rs[i]) ELSE rs[i]]

ServedFrom(rs, S, policy) ==
  [i \in DOMAIN rs |->
     IF rs[i].id \notin S THEN rs[i]
     ELSE IF LeaderAvailable(rs[i]) THEN ReadFrom(EnsureLeader(rs[i]), policy)
     ELSE EnsureLeader(rs[i])]

(* markStoreDown touches every Region.  Mutant: only the requested one.    *)
StoreDownInOne(rs, id) ==
  [i \in DOMAIN rs |-> IF rs[i].id = id THEN PeerDown(rs[i], rs[i].leader) ELSE rs[i]]

StoreDown(rs, id) == [i \in DOMAIN rs |-> PeerDown(rs[i], Get(rs, id).leader)]

Splittable(rs, id) ==
  LET r == Get(rs, id)
  IN  Midpoint(r) > r.startKey /\ Midpoint(r) < r.endKey

(* splitRegion: the sibling is spliced in before the Region.               *)
Split(rs, id) ==
  LET i == CHOOSE i \in DOMAIN rs : rs[i].id = id
      parent == Replicate(rs[i])
      fresh == Max({rs[j].id : j \in DOMAIN rs}) + 1
  IN  IF ~LeaderAvailable(rs[i]) THEN [rs EXCEPT ![i] = parent]
      ELSE InsertAt([rs EXCEPT ![i] = UpperHalf(parent)], i, LowerHalf(parent, fresh))

(* What replicating on r adds to the metrics: an election when a live      *)
(* quorum has no usable leader, its no-op entry, and the command itself.   *)
(* Mutant: the no-op of a new leader is not counted.                       *)
Elections(r) == IF LeaderAvailable(r) /\ ~LeaderUsable(r) THEN 1 ELSE 0
Commands(r) == IF LeaderAvailable(r) THEN 1 ELSE 0
NoOpsUncounted(r) == 0
NoOps(r) == Elections(r)

(* The Regions together with what the call has added to                    *)
(* metrics.raftEntries and metrics.leaderElections so far.                 *)
Counted(c, rs, f(_), S) ==
  LET at == {r \in Range(c.rs) : r.id \in S}
  IN  [rs        |-> rs,
       entries   |-> c.entries + MapThenSumSet(f, at),
       elections |-> c.elections + MapThenSumSet(Elections, at)]

Untouched == [rs |-> regions, entries |-> 0, elections |-> 0]

LeadAll(c, S) == Counted(c, Led(c.rs, S), NoOps, S)
ProposeAll(c, S) == Counted(c, Proposed(c.rs, S), LAMBDA r : NoOps(r) + Commands(r), S)
SplitAt(c, id) == Counted(c, Split(c.rs, id), LAMBDA r : NoOps(r) + Commands(r), {id})

-----------------------------------------------------------------------------
(* nextTs and allocateTs.  Mutant: the clock alone decides.                *)
Physical(t) == t * TickTs

NextTsByClock(t, last) == Physical(t) + 1

NextTs(t, last) == IF last + 1 >= Physical(t) THEN last + 1 ELSE Physical(t)

Allocated(n, last) == [last |-> last, allocations |-> tso.allocations + n]

(* advanceGc, given the transactions and versions a call leaves behind.    *)
(* Mutant: the safe point follows its target down again.                   *)
GcTarget(t, life) == IF t >= life THEN Physical(t - life) ELSE 0

OpenStarts(txns) == {txns[k].startTs : k \in {k \in DOMAIN txns : txns[k].phase \in OpenPhases}}

SafePointUnfenced(permitted) == permitted

SafePointAfter(permitted) == IF permitted > gc.safePoint THEN permitted ELSE gc.safePoint

Collected(obsolete, advance) == Min({obsolete, Max({1, advance \div GcDivisor})})

GcAdvanced(t, life, txns, obsolete) ==
  LET open      == OpenStarts(txns)
      oldest    == IF open = {} THEN Unset ELSE Min(open)
      permitted == IF open = {} THEN GcTarget(t, life)
                                ELSE Min({GcTarget(t, life), oldest - 1})
      safe      == SafePointAfter(permitted)
      ran       == safe > gc.safePoint /\ obsolete > 0
      taken     == IF ran THEN Collected(obsolete, safe - gc.safePoint) ELSE 0
  IN  [gc |-> [safePoint |-> safe,
               blockedByStartTs |-> oldest,
               obsolete |-> obsolete - taken,
               collected |-> gc.collected + taken,
               backlog |-> obsolete - taken],
       ran |-> IF ran THEN 1 ELSE 0]

(* applyTiFlashQueue consumes the ready entries at the head of the queue.  *)
(* Mutant: it applies every ready entry wherever it stands, and takes as   *)
(* many off the head.                                                      *)
Ready(t) == {k \in DOMAIN queue : queue[k].readyAt <= t}

AppliedOutOfOrder(t) == Ready(t)

AppliedBy(t) == {k \in Ready(t) : \A m \in 1..k : m \in Ready(t)}

QueueApplied(t) ==
  LET done == AppliedBy(t)
      resolved == Max({tiflash.resolvedTs} \cup {queue[k].ts : k \in done})
      pending == Max({0, tiflash.pending - MapThenSumSet(LAMBDA k : queue[k].versions, done)})
  IN  /\ queue' = SubSeq(queue, Cardinality(done) + 1, Len(queue))
      /\ tiflash' = [tiflash EXCEPT !.resolvedTs = resolved,
                                    !.pending = pending,
                                    !.lag = IF pending > 0
                                            THEN Max({0, tiflash.targetTs - resolved})
                                            ELSE 0]

(* enqueueTiFlash; TiFlash is available in every state of the code.        *)
Enqueued(ts, versions, lag) ==
  /\ tiflash' = [tiflash EXCEPT !.targetTs = Max({tiflash.targetTs, ts}),
                                !.pending = tiflash.pending + versions]
  /\ queue' = Append(queue, [readyAt |-> now + lag, ts |-> ts, versions |-> versions])

-----------------------------------------------------------------------------
(* Traced writes (executeTrace, traceWrite).                               *)

(* asRegionIds: distinct existing Regions; two stand for several.          *)
IdLists == {ids \in UNION {[1..n -> RegionIds] : n \in 1..2} :
              \A j, k \in DOMAIN ids : ids[j] = ids[k] => j = k}

(* forceConflict needs the optimistic mode; only the hot Region splits;    *)
(* only the events table has a TiFlash replica, so other writes have no lag. *)
Writes ==
  {w \in [ids : IdLists, mode : scope.modes, requested : scope.requested, conflict : BOOLEAN,
          split : BOOLEAN, lag : scope.lags \cup {Unset},
          life : scope.lifetimes] :
     /\ w.conflict => w.mode = "optimistic"
     /\ w.split => /\ HotRegion \in Range(w.ids)
                   /\ Splittable(regions, HotRegion)
                   /\ Len(regions) < scope.regions}

(* resolvedProtocol *)
Protocol(w) ==
  IF w.requested = "auto" THEN (IF Len(w.ids) = 1 THEN "1pc" ELSE "async_commit")
  ELSE IF w.requested = "1pc" /\ Len(w.ids) # 1 THEN "2pc"
  ELSE w.requested

Primary(w) == w.ids[1]
Targets(w) == Range(w.ids)

Routed(w) == IF w.split THEN SplitAt(Untouched, HotRegion) ELSE Untouched

(* The pessimistic locks live in the leaders' memory.                      *)
Unlocked(w) == IF w.mode = "pessimistic" THEN Leaderless(Routed(w).rs, w.ids) ELSE {}
AfterLocks(w) == IF w.mode = "pessimistic" THEN LeadAll(Routed(w), Targets(w)) ELSE Routed(w)

StartTs == NextTs(now, tso.last)

(* trimTransactions: one finished transaction makes room for the new one.  *)
(* A scenario records three at most, so one removal is all it needs too.   *)
Trimmed(txns) ==
  LET finished == {k \in DOMAIN txns : txns[k].phase \notin OpenPhases}
  IN  IF Len(txns) <= MaxTransactions \/ finished = {} THEN txns
      ELSE RemoveAt(txns, Min(finished))

(* Mutant: a failing exit forgets failTransaction.                         *)
EndPhaseForgotten(commitTs) == IF commitTs = Unset THEN "prewriting" ELSE "committed"

EndPhase(commitTs) == IF commitTs = Unset THEN "rolled_back" ELSE "committed"

(* Every exit of traceWrite: what the call leaves behind.  The new entry   *)
(* is still open when trimTransactions runs, so it is trimmed into place.  *)
End(w, c, ts, commitTs, collects, conflicts) ==
  LET begun     == [startTs |-> StartTs, commitTs |-> Unset, ids |-> w.ids, phase |-> "active"]
      kept      == Trimmed(Append(transactions, begun))
      ended     == [kept EXCEPT ![Len(kept)] =
                      [begun EXCEPT !.phase = EndPhase(commitTs), !.commitTs = commitTs]]
      committed == commitTs # Unset
      obsolete  == gc.obsolete + (IF committed THEN Max({1, Len(w.ids)}) ELSE 0)
      swept     == IF collects THEN GcAdvanced(now, w.life, ended, obsolete)
                               ELSE [gc |-> gc, ran |-> 0]
  IN  /\ regions' = c.rs
      /\ tso' = ts
      /\ transactions' = ended
      /\ gc' = swept.gc
      /\ metrics' = [metrics EXCEPT
            !.statements = @ + 1,
            !.writes = @ + 1,
            !.commits = @ + (IF committed THEN 1 ELSE 0),
            !.rollbacks = @ + (IF committed THEN 0 ELSE 1),
            !.conflicts = @ + conflicts,
            !.raftEntries = @ + c.entries,
            !.leaderElections = @ + c.elections,
            !.regionSplits = @ + (Len(c.rs) - Len(regions)),
            !.gcRuns = @ + swept.ran]
      /\ IF committed /\ w.lag # Unset THEN Enqueued(commitTs, Max({1, Len(w.ids)}), w.lag)
                                  ELSE UNCHANGED <<tiflash, queue>>
      /\ calls' = calls + 1
      /\ lastTrace' = [outcome |-> EndPhase(commitTs), startTs |-> StartTs,
                       commitTs |-> commitTs, ids |-> w.ids]
      /\ UNCHANGED now

OneTs == Allocated(1, StartTs)
TwoTs == Allocated(2, NextTs(now, StartTs))

(* A Region of a pessimistic transaction has no leader for its lock.       *)
LockFails(w) ==
  /\ Unlocked(w) # {}
  /\ End(w, LeadAll(Routed(w), Reached(Routed(w).rs, w.ids)), OneTs, Unset, FALSE, 0)

(* The optimistic conflict check, before any proposal.                     *)
Conflicts(w) ==
  /\ Unlocked(w) = {}
  /\ w.conflict
  /\ LET c == AfterLocks(w)
         found == IF LeaderAvailable(Get(c.rs, Primary(w))) THEN 1 ELSE 0
     IN  End(w, LeadAll(c, {Primary(w)}), OneTs, Unset, FALSE, found)

(* 1PC: PD's latest timestamp plus one commits, without being allocated.   *)
OnePhase(w) ==
  /\ Unlocked(w) = {}
  /\ ~w.conflict
  /\ Protocol(w) = "1pc"
  /\ LET c == AfterLocks(w)
         led == LeaderAvailable(Get(c.rs, Primary(w)))
     IN  End(w, ProposeAll(c, {Primary(w)}), TwoTs,
             IF led THEN TwoTs.last + 1 ELSE Unset, TRUE, 0)

PrewriteFails(w) ==
  /\ Unlocked(w) = {}
  /\ ~w.conflict
  /\ Protocol(w) # "1pc"
  /\ LET c == AfterLocks(w)
     IN  /\ Leaderless(c.rs, w.ids) # {}
         /\ End(w, ProposeAll(c, Reached(c.rs, w.ids)),
                IF Protocol(w) = "2pc" THEN OneTs ELSE TwoTs, Unset, FALSE, 0)

(* Async Commit: the prewrites commit, the background commit resolves.     *)
AsyncCommit(w) ==
  /\ Unlocked(w) = {}
  /\ ~w.conflict
  /\ Protocol(w) = "async_commit"
  /\ LET c == AfterLocks(w)
     IN  /\ Leaderless(c.rs, w.ids) = {}
         /\ End(w, ProposeAll(ProposeAll(c, Targets(w)), Targets(w)),
                TwoTs, TwoTs.last + 1, TRUE, 0)

(* 2PC: the primary decides, the secondaries follow.                       *)
TwoPhase(w) ==
  /\ Unlocked(w) = {}
  /\ ~w.conflict
  /\ Protocol(w) = "2pc"
  /\ LET c == AfterLocks(w)
         prewritten == ProposeAll(c, Targets(w))
         decided == ProposeAll(prewritten, {Primary(w)})
     IN  /\ Leaderless(c.rs, w.ids) = {}
         /\ IF Leaderless(prewritten.rs, <<Primary(w)>>) = {}
            THEN End(w, ProposeAll(decided, Targets(w) \ {Primary(w)}),
                     TwoTs, TwoTs.last, TRUE, 0)
            ELSE End(w, decided, TwoTs, Unset, TRUE, 0)

TraceWrite(w) ==
  \/ LockFails(w) \/ Conflicts(w) \/ OnePhase(w)
  \/ PrewriteFails(w) \/ AsyncCommit(w) \/ TwoPhase(w)

-----------------------------------------------------------------------------
(* Traced reads.  A failover request stops the leader's Store first.       *)
Answer(outcome, startTs, ids) ==
  [outcome |-> outcome, startTs |-> startTs, commitTs |-> Unset, ids |-> ids]

TraceRead(ids, path, failover) ==
  LET rs == IF failover THEN StoreDown(regions, ids[1]) ELSE regions
      c  == [Untouched EXCEPT !.rs = rs]
      done == IF path = "mpp" THEN LeadAll(c, Range(ids))
              ELSE Counted(c, ServedFrom(rs, Range(ids), path), NoOps, Range(ids))
  IN  /\ regions' = done.rs
      /\ tso' = OneTs
      /\ tiflash' = [tiflash EXCEPT !.mppQueries = @ + (IF path = "mpp" THEN 1 ELSE 0)]
      /\ metrics' = [metrics EXCEPT !.statements = @ + 1,
                                    !.reads = @ + 1,
                                    !.raftEntries = @ + done.entries,
                                    !.leaderElections = @ + done.elections]
      /\ lastTrace' = Answer(IF Leaderless(rs, ids) = {} THEN "succeeded" ELSE "failed", StartTs, ids)
      /\ calls' = calls + 1
      /\ UNCHANGED <<now, transactions, gc, queue>>

TraceExplain ==
  /\ metrics' = [metrics EXCEPT !.statements = @ + 1]
  /\ lastTrace' = Answer("succeeded", Unset, << >>)
  /\ calls' = calls + 1
  /\ UNCHANGED <<regions, now, tso, transactions, gc, tiflash, queue>>

(* None of the requested Region ids exists.                                *)
TraceNowhere ==
  /\ lastTrace' = Answer("failed", Unset, << >>)
  /\ calls' = calls + 1
  /\ UNCHANGED <<regions, now, tso, transactions, gc, tiflash, queue, metrics>>

-----------------------------------------------------------------------------
(* fixedStep: the clock, the TiFlash queue, the background workload, GC.   *)
(* The workload credit decides which steps issue a statement; at most one  *)
(* per step here.                                                          *)
Step(life, obsolete) ==
  LET swept == GcAdvanced(now + 1, life, transactions, obsolete)
  IN  /\ now' = now + 1
      /\ QueueApplied(now + 1)
      /\ gc' = swept.gc
      /\ UNCHANGED <<transactions, calls, lastTrace>>

Swept(life, obsolete) == GcAdvanced(now + 1, life, transactions, obsolete).ran

IdleStep(life) ==
  /\ Step(life, gc.obsolete)
  /\ metrics' = [metrics EXCEPT !.gcRuns = @ + Swept(life, gc.obsolete)]
  /\ UNCHANGED <<regions, tso>>

BackgroundRead(life) ==
  /\ Step(life, gc.obsolete)
  /\ metrics' = [metrics EXCEPT !.statements = @ + 1,
                                !.reads = @ + 1,
                                !.gcRuns = @ + Swept(life, gc.obsolete)]
  /\ UNCHANGED <<regions, tso>>

BackgroundWrite(life, id) ==
  LET c == ProposeAll(Untouched, {id})
      committed == IF LeaderAvailable(Get(regions, id)) THEN 1 ELSE 0
      obsolete == gc.obsolete + committed
  IN  /\ Step(life, obsolete)
      /\ regions' = c.rs
      /\ tso' = Allocated(2, NextTs(now + 1, NextTs(now + 1, tso.last)))
      /\ metrics' = [metrics EXCEPT !.statements = @ + 1,
                                    !.writes = @ + 1,
                                    !.commits = @ + committed,
                                    !.rollbacks = @ + (1 - committed),
                                    !.raftEntries = @ + c.entries,
                                    !.leaderElections = @ + c.elections,
                                    !.gcRuns = @ + Swept(life, obsolete)]

FixedStep ==
  /\ now < scope.ticks
  /\ \E life \in scope.lifetimes :
       \/ IdleStep(life)
       \/ /\ now + 1 \in scope.busy
          /\ \/ BackgroundRead(life)
             \/ \E id \in RegionIds : BackgroundWrite(life, id)

Request ==
  /\ calls < scope.calls
  /\ \/ \E w \in Writes : TraceWrite(w)
     \/ \E ids \in IdLists, path \in {"leader", "follower", "mpp"}, failover \in BOOLEAN :
           TraceRead(ids, path, failover)
     \/ TraceExplain
     \/ TraceNowhere

Next == (FixedStep \/ Request) /\ UNCHANGED scope

-----------------------------------------------------------------------------
(* What reset() and each guided scenario leave behind; both rebuild the    *)
(* whole state first, so a fixture is a start, not a step.                 *)
Start == INSTANCE RegionRaft WITH storeUp <- Store, served <- Unset, NoRead <- Unset,
                                  MaxIndex <- 0, MaxRegions <- 0

NoMetrics == [statements |-> 0, reads |-> 0, writes |-> 0, commits |-> 0,
              rollbacks |-> 0, conflicts |-> 0, raftEntries |-> 0,
              leaderElections |-> 0, regionSplits |-> 0, gcRuns |-> 0]

NoGc == [safePoint |-> 0, blockedByStartTs |-> Unset, obsolete |-> 0,
         collected |-> 0, backlog |-> 0]

Committed(start, commit, ids) ==
  [startTs |-> start, commitTs |-> commit, ids |-> ids, phase |-> "committed"]

Begins(rs, last, allocations, txns, collection, mpp, counted) ==
  /\ regions = rs
  /\ tso = [last |-> last, allocations |-> allocations]
  /\ transactions = Trimmed(txns)
  /\ gc = collection
  /\ tiflash = [resolvedTs |-> 0, targetTs |-> 0, pending |-> 0, lag |-> 0, mppQueries |-> mpp]
  /\ metrics = counted

Obsolete(n) == [NoGc EXCEPT !.obsolete = n, !.backlog = n]

Fresh == Begins(Start!FreshRegions, 0, 0, << >>, NoGc, 0, NoMetrics)

AfterFailover ==
  Begins(Start!FailoverFixture, 1, 1, << >>, NoGc, 0,
         [NoMetrics EXCEPT !.statements = 1, !.reads = 1, !.raftEntries = 1,
                           !.leaderElections = 1])

AfterCrossRegion(i, j) ==
  Begins(Start!CrossRegionFixture(i, j), 2, 2, <<Committed(1, 2, <<i - 1, j - 1>>)>>,
         Obsolete(2), 0,
         [NoMetrics EXCEPT !.statements = 1, !.writes = 1, !.commits = 1, !.raftEntries = 4])

(* The victim of the deadlock started second and never committed.          *)
AfterLockDeadlock(i, j) ==
  LET ids == <<i - 1, j - 1>>
      victim == [startTs |-> 2, commitTs |-> Unset, ids |-> ids, phase |-> "rolled_back"]
  IN  Begins(Start!FreshRegions, 5, 5,
             <<Committed(1, 3, ids), victim, Committed(4, 5, ids)>>, NoGc, 0,
             [NoMetrics EXCEPT !.statements = 3, !.writes = 3, !.commits = 2,
                               !.rollbacks = 1, !.conflicts = 1])

(* Commit timestamps of 1PC and Async Commit are one past PD's latest; the *)
(* comparison spaces its allocations apart.  It counts the Raft entries it *)
(* shows but leaves the Regions' groups alone.                             *)
AfterCommitProtocols ==
  Begins(Start!FreshRegions, 14, 7,
         <<Committed(2, 5, <<0>>), Committed(6, 9, <<0, 1>>), Committed(10, 14, <<0, 1>>)>>,
         Obsolete(5), 0,
         [NoMetrics EXCEPT !.statements = 3, !.writes = 3, !.commits = 3, !.raftEntries = 9])

(* The GC comparison publishes a safe point ahead of the clock's own       *)
(* target, and moves the oracle further ahead still.                       *)
AfterGcSafePoint ==
  Begins(Start!FreshRegions, TickTs + 2, 0, << >>,
         [NoGc EXCEPT !.safePoint = TickTs - 1, !.collected = 6], 0,
         [NoMetrics EXCEPT !.gcRuns = 2])

AfterTiFlashMpp ==
  Begins(Start!FreshRegions, 1, 1, << >>, NoGc, 1,
         [NoMetrics EXCEPT !.statements = 1, !.reads = 1])

Init ==
  /\ scope \in Scopes
  /\ now = 0
  /\ queue = << >>
  /\ \/ "reset" \in scope.starts /\ calls = 0 /\ lastTrace = Unset /\ Fresh
     \/ /\ calls = 1
        /\ lastTrace = Answer("succeeded", Unset, << >>)
        /\ \/ "tikv-failover" \in scope.starts /\ AfterFailover
           \/ \E i, j \in 1..InitialRegions :
                /\ Start!FreshRegion(i).leader # Start!FreshRegion(j).leader
                /\ \/ "cross-region-transaction" \in scope.starts /\ AfterCrossRegion(i, j)
                   \/ "lock-deadlock" \in scope.starts /\ AfterLockDeadlock(i, j)
           \/ "commit-protocols" \in scope.starts /\ AfterCommitProtocols
           \/ "gc-safe-point" \in scope.starts /\ AfterGcSafePoint
           \/ "tiflash-mpp" \in scope.starts /\ AfterTiFlashMpp

Spec == Init /\ [][Next]_vars

-----------------------------------------------------------------------------
Timestamps == Nat \cup {Unset}

Transaction == [startTs : Nat, commitTs : Timestamps, ids : Seq(Nat), phase : Phases]

Receipt == [outcome : Outcomes, startTs : Timestamps, commitTs : Timestamps, ids : Seq(Nat)]

TypeOK ==
  /\ regions \in Seq(Region)
  /\ now \in Nat
  /\ tso \in [last : Nat, allocations : Nat]
  /\ transactions \in Seq(Transaction)
  /\ gc \in [safePoint : Nat, blockedByStartTs : Timestamps, obsolete : Nat,
             collected : Nat, backlog : Nat]
  /\ tiflash \in [resolvedTs : Nat, targetTs : Nat, pending : Nat, lag : Nat, mppQueries : Nat]
  /\ queue \in Seq([readyAt : Nat, ts : Nat, versions : Nat])
  /\ metrics \in [DOMAIN NoMetrics -> Nat]
  /\ calls \in Nat
  /\ lastTrace \in Receipt \cup {Unset}

(* Every exit of traceWrite - lock failure, conflict, prewrite failure,    *)
(* lost 1PC, lost primary, success - closes its transaction, so none holds *)
(* the GC safe point between calls and the bounded list can always be      *)
(* trimmed.                                                                *)
NoTransactionLeftOpen ==
  /\ \A k \in DOMAIN transactions : transactions[k].phase \notin OpenPhases
  /\ gc.blockedByStartTs = Unset
  /\ Len(transactions) <= MaxTransactions

(* Between calls the engine is well-formed and nothing is left open.       *)
EngineValid == TypeOK /\ NoTransactionLeftOpen

(* The serial order of the recorded transactions is their timestamp order: *)
(* starts and commits both increase, although 1PC and Async Commit use a   *)
(* commit timestamp PD never allocated, and the oracle may run ahead of    *)
(* the clock or jump with it.                                              *)
CommitOrder ==
  LET commit(k) == transactions[k].commitTs
      start(k)  == transactions[k].startTs
  IN  /\ \A k \in DOMAIN transactions : commit(k) # Unset => commit(k) > start(k)
      /\ \A j, k \in DOMAIN transactions : j < k =>
           /\ start(j) < start(k)
           /\ commit(j) # Unset /\ commit(k) # Unset => commit(j) < commit(k)

(* The TiFlash resolved timestamp never passes a version that is still     *)
(* queued, however the lag control is moved while versions wait; the       *)
(* pending counter is what the queue holds, and an empty queue means the   *)
(* replica reached its target.                                             *)
ReplicaWatermark ==
  /\ \A k \in DOMAIN queue : tiflash.resolvedTs < queue[k].ts /\ queue[k].ts <= tiflash.targetTs
  /\ tiflash.pending = MapThenSumSet(LAMBDA k : queue[k].versions, DOMAIN queue)
  /\ queue = << >> => tiflash.resolvedTs = tiflash.targetTs

(* A traced statement starts on a timestamp PD never returned before, past *)
(* the GC safe point (its snapshot cannot be collected) and not below the  *)
(* commit of any transaction acknowledged earlier.  It stays readable: the *)
(* safe point moves forward only, whatever the lifetime is set to, and a   *)
(* GC run only moves versions from the backlog to the collected count.     *)
SnapshotsOutliveGc ==
  [][/\ calls' # calls /\ lastTrace'.startTs # Unset =>
       LET s == lastTrace'.startTs
       IN  /\ s > tso.last
           /\ s > gc'.safePoint
           /\ \A k \in DOMAIN transactions :
                transactions[k].commitTs # Unset => s >= transactions[k].commitTs
     /\ gc'.safePoint >= gc.safePoint
     /\ gc'.collected > gc.collected => gc'.safePoint > gc.safePoint
     /\ gc'.obsolete + gc'.collected >= gc.obsolete + gc.collected]_vars

(* Entries a Region's log gained apart from the no-ops of its elections:   *)
(* every election adds one entry and one term.                             *)
Mutations(rs, id) == Get(rs, id).commit - Get(rs, id).term

(* A traced write reaches all of its Regions or none, and no other: with   *)
(* two operations each (prewrite and commit) or one (1PC) when it commits, *)
(* with none when it rolls back.  A split adds its own admin command.      *)
AtomicAcrossRegions ==
  [][calls' # calls =>
       LET admin(id) == IF id = HotRegion THEN Len(regions') - Len(regions) ELSE 0
           gained(id) == Mutations(regions', id) - Mutations(regions, id) - admin(id)
           ids == Range(lastTrace'.ids)
       IN  IF lastTrace'.outcome = "committed"
           THEN /\ \E n \in 1..2 : \A id \in ids : gained(id) = n
                /\ \A id \in RegionIds \ ids : gained(id) = 0
           ELSE \A id \in RegionIds : gained(id) = 0]_vars

(* The Raft metrics count what happened to the logs: one entry per index a *)
(* Region's log moves, one election per term.                              *)
RaftMetricsMatchLogs ==
  [][LET moved(id) == Get(regions', id).commit - Get(regions, id).commit
         terms(id) == Get(regions', id).term - Get(regions, id).term
     IN  /\ metrics'.raftEntries - metrics.raftEntries = MapThenSumSet(moved, RegionIds)
         /\ metrics'.leaderElections - metrics.leaderElections
              = MapThenSumSet(terms, RegionIds)]_vars
=============================================================================

---------------------------- MODULE TiFlashMppLab ----------------------------
(***************************************************************************)
(* reduceTiFlashMppLabState of src/tidb/model/tiflash-mpp-lab.ts: every    *)
(* Region has a TiFlash learner that follows the Raft log, and one MPP     *)
(* query reads them all at one snapshot, exchanges partial aggregates and  *)
(* streams the result to TiDB.  One action per delta kind and action; a    *)
(* delta that fails a check throws and changes nothing, so the checks are  *)
(* the guards.  Deltas may arrive in any order.                            *)
(*                                                                         *)
(* Packet counts and the fixture's tokens are left out.  A task or tunnel  *)
(* that is not built yet is "absent".                                      *)
(***************************************************************************)
EXTENDS Integers, FiniteSets

CONSTANTS Stores,       \* the TiFlash stores
          RegionsOf,    \* store -> the Regions whose learner it holds
          Leaders,      \* Region -> the learner's view of time: [leader, self]
          Snapshots,    \* the timestamps PD may hand to the query
          Commits,      \* Region -> bound on the entries its leader commits
          MaxChunks,    \* bound on the chunks TiDB decodes
          None          \* JavaScript's null

Regions == UNION {RegionsOf[s] : s \in Stores}

ASSUME MppAssumption ==
  /\ IsFiniteSet(Stores)
  /\ \A s, t \in Stores : s # t => RegionsOf[s] \cap RegionsOf[t] = {}
  /\ \A r \in Regions :
       /\ Leaders[r] \in [leader : Nat, self : Nat]
       /\ Leaders[r].self <= Leaders[r].leader
  /\ Snapshots \subseteq Nat \ {0}
  /\ Commits \in [Regions -> Nat]
  /\ MaxChunks \in Nat
  /\ None \notin Nat \cup BOOLEAN \cup {"self_safe_ts", "read_index_applied"}

VARIABLES phase,      \* what the trace shows
          snapshotTs,
          plan,       \* what TiDB has prepared: a set of steps
          learners,   \* Region -> replication progress and read gate
          tasks,      \* stage of each MPP task
          tunnels,    \* status of each exchange tunnel
          result,     \* the root stream at TiDB
          atSnapshot  \* history: the commit indexes when PD gave the snapshot

vars == <<phase, snapshotTs, plan, learners, tasks, tunnels, result, atSnapshot>>

Scan(s) == <<"scan", s>>
Final(s) == <<"final", s>>
Tasks == {"scan", "final"} \X Stores
Owned(t) == IF t[1] = "scan" THEN RegionsOf[t[2]] ELSE {}
TidbRoot == <<"root", None>>

HashTunnels == {<<Scan(s), Final(t)>> : s, t \in Stores}
RootTunnels == {<<Final(s), TidbRoot>> : s \in Stores}
Tunnels == HashTunnels \cup RootTunnels
From(t) == {u \in Tunnels : u[1] = t}
Into(t) == {u \in Tunnels : u[2] = t}

Steps == {"provisioned", "path", "fragments", "scheduled"}

Phases == {"replicating", "planning", "dispatching", "snapshot_gating", "scanning",
           "exchanging", "streaming", "complete"}

Gates == {"unchecked", "safe_ts_checked", "read_index_requested", "read_index_returned",
          "waiting_applied", "ready", "mvcc_checked", "validated"}

Stages == {"absent", "built", "dispatched", "prepared", "snapshot_gating", "scanning",
           "partial_aggregated", "exchange_sending", "exchange_receiving",
           "final_aggregated", "root_streaming", "complete"}

Learner == [commit : Nat, received : Nat, command : Nat, flushed : Nat, applied : Nat,
            required : Nat \cup {None}, gate : Gates, skipped : BOOLEAN \cup {None},
            reason : {None, "self_safe_ts", "read_index_applied"}]

Result == [stage : {"idle", "chunks_decoded", "columns_sent", "rows_streaming",
                    "streams_eof", "client_complete"},
           roots : 0..Cardinality(Stores), chunks : 0..MaxChunks]

Init ==
  /\ phase = "replicating"
  /\ snapshotTs = None
  /\ plan = {}
  /\ learners = [r \in Regions |->
       [commit |-> 0, received |-> 0, command |-> 0, flushed |-> 0, applied |-> 0,
        required |-> None, gate |-> "unchecked", skipped |-> None, reason |-> None]]
  /\ tasks = [t \in Tasks |-> "absent"]
  /\ tunnels = [u \in Tunnels |-> "absent"]
  /\ result = [stage |-> "idle", roots |-> 0, chunks |-> 0]
  /\ atSnapshot = [r \in Regions |-> 0]

-----------------------------------------------------------------------------
(* tiflash_replica_*: the log reaches the learner, is applied as commands, *)
(* flushed into the column store and only then counts as applied.          *)
Replicate(r, next) ==
  /\ learners' = [learners EXCEPT ![r] = next]
  /\ UNCHANGED <<phase, snapshotTs, plan, tasks, tunnels, result, atSnapshot>>

RaftCommit(r) ==
  /\ learners[r].commit < Commits[r]
  /\ Replicate(r, [learners[r] EXCEPT !.commit = learners[r].commit + 1])

Receive(r, i) ==
  /\ learners[r].received < i /\ i <= learners[r].commit
  /\ Replicate(r, [learners[r] EXCEPT !.received = i])

ApplyCommand(r, i) ==
  /\ learners[r].command < i /\ i <= learners[r].received
  /\ Replicate(r, [learners[r] EXCEPT !.command = i])

Flush(r, i) ==
  /\ learners[r].flushed < i /\ i <= learners[r].command
  /\ Replicate(r, [learners[r] EXCEPT !.flushed = i])

(* Mutant: the applied index runs ahead of the flush, to the commands.     *)
AdvanceUnflushed(r, i) ==
  /\ learners[r].applied < i /\ i <= learners[r].command
  /\ Replicate(r, [learners[r] EXCEPT !.applied = i])

AdvanceApplied(r, i) ==
  /\ learners[r].applied < i /\ i <= learners[r].flushed
  /\ Replicate(r, [learners[r] EXCEPT !.applied = i])

-----------------------------------------------------------------------------
(* Planning.  tiflash_mpp_safe_ts_observed only compares, so has no action.*)
ReceiveQuery ==
  /\ phase = "replicating"
  /\ phase' = "planning"
  /\ UNCHANGED <<snapshotTs, plan, learners, tasks, tunnels, result, atSnapshot>>

AllocateSnapshot(ts) ==
  /\ snapshotTs = None
  /\ snapshotTs' = ts
  /\ atSnapshot' = [r \in Regions |-> learners[r].commit]
  /\ UNCHANGED <<phase, plan, learners, tasks, tunnels, result>>

Plan(step) ==
  /\ plan' = plan \cup {step}
  /\ UNCHANGED <<phase, snapshotTs, learners, tasks, tunnels, result, atSnapshot>>

ObserveProvisioning == "provisioned" \notin plan /\ Plan("provisioned")

SelectAccessPath ==
  /\ "provisioned" \in plan /\ snapshotTs # None /\ "path" \notin plan
  /\ Plan("path")

BuildFragments == "path" \in plan /\ "fragments" \notin plan /\ Plan("fragments")

ScheduleRegions == "fragments" \in plan /\ Plan("scheduled")

BuildTasks ==
  /\ "scheduled" \in plan
  /\ \A t \in Tasks : tasks[t] = "absent"
  /\ tasks' = [t \in Tasks |-> "built"]
  /\ UNCHANGED <<phase, snapshotTs, plan, learners, tunnels, result, atSnapshot>>

BuildTunnels ==
  /\ \A t \in Tasks : tasks[t] # "absent"
  /\ \A u \in Tunnels : tunnels[u] = "absent"
  /\ tunnels' = [u \in Tunnels |-> "planned"]
  /\ UNCHANGED <<phase, snapshotTs, plan, learners, tasks, result, atSnapshot>>

RegisterTunnels ==
  /\ \A u \in Tunnels : tunnels[u] = "planned"
  /\ \A t \in Tasks : tasks[t] = "dispatched"
  /\ tunnels' = [u \in Tunnels |-> "registered"]
  /\ UNCHANGED <<phase, snapshotTs, plan, learners, tasks, result, atSnapshot>>

-----------------------------------------------------------------------------
(* tiflash_mpp_task_stage: validTaskTransition, and what a stage requires. *)
Transitions(t) ==
  {<<"built", "dispatched">>, <<"dispatched", "prepared">>,
   <<"prepared", IF t[1] = "scan" THEN "snapshot_gating" ELSE "exchange_receiving">>,
   <<"snapshot_gating", "scanning">>, <<"scanning", "partial_aggregated">>,
   <<"partial_aggregated", "exchange_sending">>, <<"exchange_sending", "complete">>,
   <<"exchange_receiving", "final_aggregated">>,
   <<"final_aggregated", "root_streaming">>, <<"root_streaming", "complete">>}

(* Mutant: final aggregation needs one input partition, not all of them.   *)
AnyInput(t) == \E u \in Into(t) : tunnels[u] = "received"

AllInputs(t) == \A u \in Into(t) : tunnels[u] = "received"

EveryGate(t, gate) == \A r \in Owned(t) : learners[r].gate = gate

Required(t, to) ==
  /\ to = "dispatched" => \A u \in From(t) : tunnels[u] = "planned"
  /\ to = "prepared" => \A u \in From(t) : tunnels[u] = "registered"
  /\ to = "scanning" => Owned(t) # {} /\ EveryGate(t, "mvcc_checked")
  /\ to = "partial_aggregated" => EveryGate(t, "validated")
  /\ to = "final_aggregated" => AllInputs(t)

PhaseOf(to) ==
  CASE to \in {"dispatched", "prepared"} -> "dispatching"
    [] to = "snapshot_gating" -> "snapshot_gating"
    [] to \in {"scanning", "partial_aggregated"} -> "scanning"
    [] to \in {"exchange_sending", "exchange_receiving", "final_aggregated"} -> "exchanging"
    [] to = "root_streaming" -> "streaming"
    [] OTHER -> phase

MoveTask(t, to) ==
  /\ <<tasks[t], to>> \in Transitions(t)
  /\ Required(t, to)
  /\ tasks' = [tasks EXCEPT ![t] = to]
  /\ phase' = PhaseOf(to)
  /\ UNCHANGED <<snapshotTs, plan, learners, tunnels, result, atSnapshot>>

-----------------------------------------------------------------------------
(* tiflash_mpp_snapshot_gate: may the scan of this Region read at the      *)
(* snapshot?  The learner's own safe timestamp may say so; else the leader *)
(* is asked for its commit index and the learner waits to apply it.        *)
ScanOf(r) == Scan(CHOOSE s \in Stores : r \in RegionsOf[s])

Gate(r, from, next) ==
  /\ snapshotTs # None
  /\ tasks[ScanOf(r)] = IF next.gate = "validated" THEN "scanning" ELSE "snapshot_gating"
  /\ learners[r].gate \in from
  /\ learners' = [learners EXCEPT ![r] = next]
  /\ phase' = IF next.gate = "validated" THEN phase ELSE "snapshot_gating"
  /\ UNCHANGED <<snapshotTs, plan, tasks, tunnels, result, atSnapshot>>

SelfCovers(r) == snapshotTs <= Leaders[r].self

CheckSafeTs(r) ==
  Gate(r, {"unchecked"},
       [learners[r] EXCEPT !.gate = "safe_ts_checked", !.skipped = SelfCovers(r)])

ReadySafeTs(r) ==
  /\ learners[r].skipped = TRUE /\ snapshotTs <= Leaders[r].self
  /\ Gate(r, {"safe_ts_checked"},
          [learners[r] EXCEPT !.gate = "ready", !.reason = "self_safe_ts"])

RequestReadIndex(r) ==
  /\ learners[r].skipped = FALSE
  /\ Gate(r, {"safe_ts_checked"}, [learners[r] EXCEPT !.gate = "read_index_requested"])

(* Mutant: the learner answers from the entries it has itself received.    *)
ReceivedIndex(r) == learners[r].received

LeaderIndex(r) == learners[r].commit

ReturnReadIndex(r) ==
  Gate(r, {"read_index_requested"},
       [learners[r] EXCEPT !.gate = "read_index_returned", !.required = LeaderIndex(r)])

WaitApplied(r) ==
  /\ learners[r].required # None
  /\ learners[r].applied < learners[r].required
  /\ Gate(r, {"read_index_returned"}, [learners[r] EXCEPT !.gate = "waiting_applied"])

Applied(r) == learners[r].applied >= learners[r].required

ReadyReadIndex(r) ==
  /\ learners[r].required # None /\ Applied(r)
  /\ Gate(r, {"read_index_returned", "waiting_applied"},
          [learners[r] EXCEPT !.gate = "ready", !.reason = "read_index_applied"])

CheckLocks(r) == Gate(r, {"ready"}, [learners[r] EXCEPT !.gate = "mvcc_checked"])

Validate(r) == Gate(r, {"mvcc_checked"}, [learners[r] EXCEPT !.gate = "validated"])

-----------------------------------------------------------------------------
(* tiflash_mpp_tunnel_data *)
Move(u, from, to) ==
  /\ tunnels[u] = from
  /\ tunnels' = [tunnels EXCEPT ![u] = to]
  /\ phase' = IF u \in RootTunnels THEN "streaming" ELSE "exchanging"
  /\ UNCHANGED <<snapshotTs, plan, learners, tasks, result, atSnapshot>>

Send(u) ==
  /\ tasks[u[1]] = IF u \in HashTunnels THEN "exchange_sending" ELSE "root_streaming"
  /\ Move(u, "registered", "sent")

Deliver(u) ==
  /\ u \in HashTunnels => tasks[u[2]] = "exchange_receiving"
  /\ Move(u, "sent", "received")

(* tiflash_mpp_result_stage: every delta carries the number of root        *)
(* streams received so far and the chunks decoded so far.                  *)
ReceivedRoots == {u \in RootTunnels : tunnels[u] = "received"}

StreamsEnd == ReceivedRoots = RootTunnels

Advance(from, to, chunks) ==
  /\ result.stage = from
  /\ chunks >= result.chunks
  /\ result' = [stage |-> to, roots |-> Cardinality(ReceivedRoots), chunks |-> chunks]
  /\ phase' = IF to = "client_complete" THEN "complete" ELSE "streaming"
  /\ UNCHANGED <<snapshotTs, plan, learners, tasks, tunnels, atSnapshot>>

DecodeChunks(n) == ReceivedRoots # {} /\ n > 0 /\ Advance("idle", "chunks_decoded", n)
SendColumns(n) == Advance("chunks_decoded", "columns_sent", n)
StreamRows(n) == Advance("columns_sent", "rows_streaming", n)
StreamMoreRows(n) == n > result.chunks /\ Advance("rows_streaming", "rows_streaming", n)
EndStreams(n) == StreamsEnd /\ Advance("rows_streaming", "streams_eof", n)

(* validateTiFlashMppLab refuses completion while a task is unfinished.    *)
Complete(n) ==
  /\ \A t \in Tasks : tasks[t] = "complete"
  /\ Advance("streams_eof", "client_complete", n)

-----------------------------------------------------------------------------
ReplicaStep ==
  \E r \in Regions :
    \/ RaftCommit(r)
    \/ \E i \in 1..learners[r].commit :
         Receive(r, i) \/ ApplyCommand(r, i) \/ Flush(r, i) \/ AdvanceApplied(r, i)

PlanStep ==
  \/ ReceiveQuery
  \/ \E ts \in Snapshots : AllocateSnapshot(ts)
  \/ ObserveProvisioning \/ SelectAccessPath \/ BuildFragments \/ ScheduleRegions
  \/ BuildTasks \/ BuildTunnels \/ RegisterTunnels

TaskStep == \E t \in Tasks, to \in Stages : MoveTask(t, to)

GateStep ==
  \E r \in Regions :
    \/ CheckSafeTs(r) \/ ReadySafeTs(r) \/ RequestReadIndex(r) \/ ReturnReadIndex(r)
    \/ WaitApplied(r) \/ ReadyReadIndex(r) \/ CheckLocks(r) \/ Validate(r)

StreamStep ==
  \/ \E u \in Tunnels : Send(u) \/ Deliver(u)
  \/ \E n \in 0..MaxChunks :
       \/ DecodeChunks(n) \/ SendColumns(n) \/ StreamRows(n) \/ StreamMoreRows(n)
       \/ EndStreams(n) \/ Complete(n)

Next == ReplicaStep \/ PlanStep \/ TaskStep \/ GateStep \/ StreamStep

Spec == Init /\ [][Next]_vars

-----------------------------------------------------------------------------
TypeOK ==
  /\ phase \in Phases
  /\ snapshotTs \in Snapshots \cup {None}
  /\ plan \subseteq Steps
  /\ learners \in [Regions -> Learner]
  /\ tasks \in [Tasks -> Stages]
  /\ tunnels \in [Tunnels -> {"absent", "planned", "registered", "sent", "received"}]
  /\ result \in Result
  /\ atSnapshot \in [Regions -> Nat]

ReplicationOrdered ==
  \A r \in Regions :
    LET l == learners[r]
    IN  l.applied <= l.flushed /\ l.flushed <= l.command /\ l.command <= l.received
          /\ l.received <= l.commit

GatesAgree ==
  \A r \in Regions :
    LET l == learners[r]
    IN  /\ l.required # None => l.required <= l.commit
        /\ l.reason = "self_safe_ts" =>
             l.skipped = TRUE /\ snapshotTs # None /\ SelfCovers(r)
        /\ l.reason = "read_index_applied" =>
             l.skipped = FALSE /\ l.required # None /\ l.required <= l.applied
        /\ l.gate \in {"ready", "mvcc_checked", "validated"} => l.reason # None

ExchangeAgrees ==
  /\ \A t \in Tasks : tasks[t] # "absent" => "fragments" \in plan
  /\ \A u \in Tunnels :
       /\ tunnels[u] # "absent" => \A t \in Tasks : tasks[t] # "absent"
       /\ tunnels[u] # "planned" => tasks[u[1]] # "built" \/ tunnels[u] = "absent"
       /\ tunnels[u] = "planned" => tasks[u[1]] \in {"built", "dispatched"}
  /\ result.stage = "client_complete" =>
       /\ phase = "complete"
       /\ result.roots = Cardinality(Stores)
       /\ \A r \in Regions : learners[r].gate = "validated"
       /\ \A t \in Tasks : tasks[t] = "complete"
       /\ \A u \in Tunnels : tunnels[u] = "received"

(* validateTiFlashMppLab never throws, but where Complete says: the        *)
(* indexes of a learner stay in order, a gate has the reason it names,     *)
(* tunnels and tasks are registered in step, and a completed query has     *)
(* nothing left anywhere.                                                  *)
LabValid == TypeOK /\ ReplicationOrdered /\ GatesAgree /\ ExchangeAgrees

(* readFailurePolicy "wait_or_error_never_stale": a Region is read only    *)
(* when its learner's own safe timestamp covers the snapshot, or when the  *)
(* learner has applied everything its leader had committed at the moment   *)
(* PD handed out the snapshot.                                             *)
NeverStale ==
  \A r \in Regions :
    learners[r].gate \in {"ready", "mvcc_checked", "validated"} =>
      \/ snapshotTs <= Leaders[r].self
      \/ learners[r].applied >= atSnapshot[r] /\ learners[r].flushed >= atSnapshot[r]

(* TiDB sees no row of a final task before every scan passed the gates of  *)
(* all its Regions and validated them after reading, and it sees the end   *)
(* of the stream only when every partition and every root stream arrived.  *)
AnswerIsComplete ==
  /\ \A s \in Stores :
       tunnels[<<Final(s), TidbRoot>>] \in {"sent", "received"} =>
         /\ \A u \in Into(Final(s)) : tunnels[u] = "received"
         /\ \A r \in Regions : learners[r].gate = "validated"
  /\ result.stage # "idle" => \A r \in Regions : learners[r].gate = "validated"
  /\ result.stage \in {"streams_eof", "client_complete"} =>
       \A u \in Tunnels : tunnels[u] = "received"
=============================================================================

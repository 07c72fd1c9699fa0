------------------------ MODULE TiFlashMppLabProofs ------------------------
(***************************************************************************)
(* Proofs about TiFlashMppLab for any stores, Regions and learners.  The   *)
(* lab checks its deltas one at a time and against little of the rest of   *)
(* its state; the invariant collects what the checks of a delta's          *)
(* predecessors still guarantee: what a gate has compared (GateShape), what *)
(* a task's stage implies about its Regions and its inputs (TaskShape),    *)
(* what a tunnel's status implies about its sender (TunnelShape), and what *)
(* TiDB may conclude from the stream (ResultShape).                        *)
(***************************************************************************)
EXTENDS TiFlashMppLab, FiniteSetTheorems, TLAPS

Open == {"ready", "mvcc_checked", "validated"}

GateShape(r) ==
  LET l == learners[r]
  IN  /\ l.gate # "unchecked" => snapshotTs # None
      /\ l.gate = "unchecked" => l.skipped = None
      /\ l.gate \notin Open => l.reason = None
      /\ l.gate \in Open => l.reason # None
      /\ l.gate \in {"unchecked", "safe_ts_checked"} => l.required = None
      /\ l.gate = "read_index_requested" => l.skipped = FALSE
      /\ l.skipped = TRUE => SelfCovers(r)
      /\ l.required # None =>
           l.skipped = FALSE /\ atSnapshot[r] <= l.required /\ l.required <= l.commit
      /\ l.reason = "self_safe_ts" => l.skipped = TRUE
      /\ l.reason = "read_index_applied" => l.required # None /\ l.required <= l.applied
      /\ atSnapshot[r] <= l.commit

TaskStages(t) ==
  {"absent", "built", "dispatched", "prepared", "complete"} \cup
    IF t[1] = "scan" THEN {"snapshot_gating", "scanning", "partial_aggregated", "exchange_sending"}
    ELSE {"exchange_receiving", "final_aggregated", "root_streaming"}

TaskShape(t) ==
  /\ tasks[t] \in TaskStages(t)
  /\ tasks[t] = "absent" => \A other \in Tasks : tasks[other] = "absent"
  /\ tasks[t] # "absent" => "fragments" \in plan
  /\ tasks[t] \notin {"absent", "built"} => \A u \in From(t) : tunnels[u] # "absent"
  /\ tasks[t] \notin {"absent", "built", "dispatched"} =>
       \A u \in From(t) : tunnels[u] \notin {"absent", "planned"}
  /\ tasks[t] \in {"partial_aggregated", "exchange_sending", "complete"} =>
       EveryGate(t, "validated")
  /\ tasks[t] \in {"final_aggregated", "root_streaming", "complete"} => AllInputs(t)

Sending(u) == IF u \in HashTunnels THEN "exchange_sending" ELSE "root_streaming"

TunnelShape(u) ==
  /\ tunnels[u] # "absent" => \A t \in Tasks : tasks[t] # "absent"
  /\ tunnels[u] \in {"registered", "sent", "received"} => tasks[u[1]] # "built"
  /\ tunnels[u] \in {"sent", "received"} => tasks[u[1]] \in {Sending(u), "complete"}

ResultShape ==
  /\ result.stage # "idle" => \A r \in Regions : learners[r].gate = "validated"
  /\ result.stage \in {"streams_eof", "client_complete"} =>
       \A u \in Tunnels : tunnels[u] = "received"
  /\ result.stage = "client_complete" =>
       /\ phase = "complete"
       /\ result.roots = Cardinality(Stores)
       /\ \A t \in Tasks : tasks[t] = "complete"

IInv ==
  /\ TypeOK
  /\ ReplicationOrdered
  /\ "scheduled" \in plan => "fragments" \in plan
  /\ \A r \in Regions : GateShape(r)
  /\ \A t \in Tasks : TaskShape(t)
  /\ \A u \in Tunnels : TunnelShape(u)
  /\ ResultShape

-----------------------------------------------------------------------------
(* The shape of the plan: scans feed every final task, finals feed TiDB.   *)
LEMMA Plumbing ==
  /\ \A u \in HashTunnels : \E s, t \in Stores : u = <<Scan(s), Final(t)>>
  /\ \A u \in RootTunnels : \E s \in Stores : u = <<Final(s), TidbRoot>>
  /\ HashTunnels \cap RootTunnels = {}
  /\ \A u \in Tunnels : u[1] \in Tasks
  /\ \A u \in HashTunnels : u[1][1] = "scan"
  /\ \A u \in RootTunnels : u[1][1] # "scan"
  BY DEF HashTunnels, RootTunnels, Tunnels, Tasks, Scan, Final, TidbRoot

LEMMA TaskKinds ==
  ASSUME NEW t \in Tasks
  PROVE  /\ t[1] = "scan" => \E s \in Stores : t = Scan(s)
         /\ t[1] # "scan" => \E s \in Stores : t = Final(s)
         /\ t[1] = "scan" => Into(t) = {}
         /\ t[1] # "scan" => Owned(t) = {}
         /\ From(t) # {}
<1>1. PICK s \in Stores : t = Scan(s) \/ t = Final(s)
  BY DEF Tasks, Scan, Final
<1>2. Scan(s)[1] = "scan" /\ Final(s)[1] # "scan"
  BY DEF Scan, Final
<1>3. <<Scan(s), Final(s)>> \in From(Scan(s)) /\ <<Final(s), TidbRoot>> \in From(Final(s))
  BY DEF From, Tunnels, HashTunnels, RootTunnels
<1>4. Into(Scan(s)) = {}
  BY Plumbing DEF Into, Tunnels, Scan, Final, TidbRoot
<1>5. QED BY <1>1, <1>2, <1>3, <1>4 DEF Owned

LEMMA RootCount ==
  /\ Cardinality(Stores) \in Nat
  /\ IsFiniteSet(RootTunnels)
  /\ Cardinality(RootTunnels) = Cardinality(Stores)
<1> DEFINE f == [s \in Stores |-> <<Final(s), TidbRoot>>]
<1>1. f \in Bijection(Stores, RootTunnels)
  BY DEF Bijection, Injection, Surjection, IsInjective, RootTunnels, Final
<1>2. ExistsBijection(Stores, RootTunnels)
  BY <1>1 DEF ExistsBijection
<1>3. QED BY <1>2, FS_Bijection, FS_CardinalityType, MppAssumption

LEMMA ReceivedCount ==
  Cardinality(ReceivedRoots) \in 0..Cardinality(Stores)
<1>1. ReceivedRoots \in SUBSET RootTunnels
  BY DEF ReceivedRoots
<1>2. QED BY <1>1, RootCount, FS_Subset, FS_CardinalityType

(* Every Region is read by the scan of the store that holds its learner.   *)
LEMMA RegionsAreOwned ==
  ASSUME NEW r \in Regions
  PROVE  \E s \in Stores : r \in Owned(Scan(s)) /\ Scan(s) \in Tasks
  BY DEF Regions, Owned, Scan, Tasks

-----------------------------------------------------------------------------
(* tiflash_replica_*: an index moves up to the one it may not pass.        *)
LEMMA ReplicateKeeps ==
  ASSUME IInv, NEW r \in Regions, NEW next \in Learner, Replicate(r, next),
         next.applied <= next.flushed, next.flushed <= next.command,
         next.command <= next.received, next.received <= next.commit,
         next.gate = learners[r].gate, next.skipped = learners[r].skipped,
         next.reason = learners[r].reason, next.required = learners[r].required,
         learners[r].commit <= next.commit, learners[r].applied <= next.applied
  PROVE  IInv'
<1> USE DEF Replicate
<1>1. learners \in [Regions -> Learner] /\ atSnapshot \in [Regions -> Nat]
  BY DEF IInv, TypeOK
<1>2. TypeOK'
  BY <1>1 DEF IInv, TypeOK, Tasks, Tunnels, HashTunnels, RootTunnels
<1>3. ReplicationOrdered'
  BY <1>1 DEF IInv, ReplicationOrdered
<1>4. ASSUME NEW s \in Regions PROVE GateShape(s)'
  <2>1. GateShape(s) /\ learners[s] \in Learner /\ atSnapshot[s] \in Nat
    BY <1>1 DEF IInv
  <2>2. CASE s = r
    BY <1>1, <2>1, <2>2, MppAssumption DEF GateShape, SelfCovers, Learner
  <2>3. CASE s # r
    BY <1>1, <2>1, <2>3 DEF GateShape, SelfCovers
  <2>4. QED BY <2>2, <2>3
<1>5. \A s \in Regions : learners'[s].gate = learners[s].gate
  BY <1>1
<1>6. \A t \in Tasks : TaskShape(t)'
  <2>1. \A t \in Tasks : Owned(t) \subseteq Regions
    BY DEF Owned, Regions, Tasks
  <2>2. QED
    BY <1>5, <2>1 DEF IInv, TaskShape, EveryGate, AllInputs
<1>7. \A u \in Tunnels : TunnelShape(u)'
  BY DEF IInv, TunnelShape
<1>8. ResultShape'
  BY <1>5 DEF IInv, ResultShape
<1>9. QED BY <1>2, <1>3, <1>4, <1>6, <1>7, <1>8 DEF IInv

LEMMA ReplicaStepKeeps == IInv /\ ReplicaStep => IInv'
<1> SUFFICES ASSUME IInv, NEW r \in Regions,
                    \/ RaftCommit(r)
                    \/ \E i \in 1..learners[r].commit :
                         Receive(r, i) \/ ApplyCommand(r, i) \/ Flush(r, i)
                           \/ AdvanceApplied(r, i)
             PROVE  IInv'
  BY DEF ReplicaStep
<1> DEFINE l == learners[r]
<1>1. /\ l \in Learner
      /\ l.applied <= l.flushed /\ l.flushed <= l.command /\ l.command <= l.received
      /\ l.received <= l.commit
      /\ Commits[r] \in Nat
  BY MppAssumption DEF IInv, TypeOK, ReplicationOrdered
<1>2. CASE RaftCommit(r)
  <2> DEFINE next == [l EXCEPT !.commit = l.commit + 1]
  <2>1. next \in Learner
    BY <1>1 DEF Learner
  <2>2. QED BY <1>1, <1>2, <2>1, ReplicateKeeps DEF RaftCommit, Learner
<1>3. ASSUME NEW i \in 1..l.commit, Receive(r, i) PROVE IInv'
  <2> DEFINE next == [l EXCEPT !.received = i]
  <2>1. next \in Learner
    BY <1>1 DEF Learner
  <2>2. QED BY <1>1, <1>3, <2>1, ReplicateKeeps DEF Receive, Learner
<1>4. ASSUME NEW i \in 1..l.commit, ApplyCommand(r, i) PROVE IInv'
  <2> DEFINE next == [l EXCEPT !.command = i]
  <2>1. next \in Learner
    BY <1>1 DEF Learner
  <2>2. QED BY <1>1, <1>4, <2>1, ReplicateKeeps DEF ApplyCommand, Learner
<1>5. ASSUME NEW i \in 1..l.commit, Flush(r, i) PROVE IInv'
  <2> DEFINE next == [l EXCEPT !.flushed = i]
  <2>1. next \in Learner
    BY <1>1 DEF Learner
  <2>2. QED BY <1>1, <1>5, <2>1, ReplicateKeeps DEF Flush, Learner
<1>6. ASSUME NEW i \in 1..l.commit, AdvanceApplied(r, i) PROVE IInv'
  <2> DEFINE next == [l EXCEPT !.applied = i]
  <2>1. next \in Learner
    BY <1>1 DEF Learner
  <2>2. QED BY <1>1, <1>6, <2>1, ReplicateKeeps DEF AdvanceApplied, Learner
<1>7. QED BY <1>2, <1>3, <1>4, <1>5, <1>6

-----------------------------------------------------------------------------
(* The parts of the invariant that learners, tasks and tunnels carry.      *)
LEMMA LearnersUntouched ==
  ASSUME IInv, UNCHANGED <<learners, snapshotTs, atSnapshot>>
  PROVE  ReplicationOrdered' /\ \A r \in Regions : GateShape(r)'
  BY DEF IInv, ReplicationOrdered, GateShape, SelfCovers

LEMMA TasksUntouched ==
  ASSUME IInv, UNCHANGED <<learners, tasks, tunnels>>, plan \subseteq plan'
  PROVE  \A t \in Tasks : TaskShape(t)'
  BY DEF IInv, TaskShape, EveryGate, AllInputs

LEMMA TunnelsUntouched ==
  ASSUME IInv, UNCHANGED <<tasks, tunnels>>
  PROVE  \A u \in Tunnels : TunnelShape(u)'
  BY DEF IInv, TunnelShape

(* Planning changes the plan and the phase, and the phase only at first.   *)
LEMMA PlanKeeps ==
  ASSUME IInv, NEW step \in Steps, Plan(step), step = "scheduled" => "fragments" \in plan
  PROVE  IInv'
<1> USE DEF Plan
<1>1. TypeOK'
  BY DEF IInv, TypeOK, Steps
<1>2. ResultShape'
  BY DEF IInv, ResultShape
<1>3. QED
  BY <1>1, <1>2, LearnersUntouched, TasksUntouched, TunnelsUntouched DEF IInv

LEMMA ReceiveQueryKeeps ==
  ASSUME IInv, ReceiveQuery
  PROVE  IInv'
<1> USE DEF ReceiveQuery
<1>1. TypeOK'
  BY DEF IInv, TypeOK, Phases
<1>2. ResultShape'
  BY DEF IInv, ResultShape
<1>3. QED
  BY <1>1, <1>2, LearnersUntouched, TasksUntouched, TunnelsUntouched DEF IInv

(* PD hands out one snapshot, before any gate has compared it.             *)
LEMMA AllocateSnapshotKeeps ==
  ASSUME IInv, NEW ts \in Snapshots, AllocateSnapshot(ts)
  PROVE  IInv'
<1> USE DEF AllocateSnapshot
<1>1. learners \in [Regions -> Learner]
  BY DEF IInv, TypeOK
<1>2. TypeOK'
  BY <1>1 DEF IInv, TypeOK, Learner
<1>3. ReplicationOrdered'
  BY DEF IInv, ReplicationOrdered
<1>4. ASSUME NEW r \in Regions PROVE GateShape(r)'
  <2>1. GateShape(r) /\ learners[r].gate = "unchecked" /\ learners[r].commit \in Nat
    BY <1>1 DEF IInv, GateShape, Learner
  <2>2. ts # None /\ None \notin BOOLEAN \cup {"self_safe_ts", "read_index_applied"}
    BY MppAssumption
  <2>3. /\ learners'[r] = learners[r] /\ snapshotTs' = ts
        /\ atSnapshot'[r] = learners[r].commit
    OBVIOUS
  <2>4. learners[r].skipped # TRUE
    BY <2>1, <2>2 DEF GateShape
  <2>5. learners[r].gate \notin Open
    BY <2>1 DEF Open
  <2>6. learners[r].reason # "self_safe_ts" /\ learners[r].reason # "read_index_applied"
    BY <2>1, <2>2, <2>5 DEF GateShape
  <2>7. atSnapshot'[r] <= learners'[r].commit /\ learners[r].gate # "read_index_requested"
    BY <2>1, <2>3
  <2>8. QED BY <2>1, <2>2, <2>3, <2>4, <2>5, <2>6, <2>7 DEF GateShape
<1>5. ResultShape'
  BY DEF IInv, ResultShape
<1>6. QED
  BY <1>2, <1>3, <1>4, <1>5, TasksUntouched, TunnelsUntouched DEF IInv

LEMMA BuildTasksKeeps ==
  ASSUME IInv, BuildTasks
  PROVE  IInv'
<1> USE DEF BuildTasks
<1>1. TypeOK'
  BY DEF IInv, TypeOK, Stages
<1>2. \A t \in Tasks : TaskShape(t)'
  BY DEF IInv, TaskShape, TaskStages
<1>3. \A u \in Tunnels : TunnelShape(u)'
  BY Plumbing DEF IInv, TunnelShape, TypeOK
<1>4. ResultShape'
  BY DEF IInv, ResultShape
<1>5. QED BY <1>1, <1>2, <1>3, <1>4, LearnersUntouched DEF IInv

LEMMA BuildTunnelsKeeps ==
  ASSUME IInv, BuildTunnels
  PROVE  IInv'
<1> USE DEF BuildTunnels
<1>1. TypeOK'
  BY DEF IInv, TypeOK
<1>2. ASSUME NEW t \in Tasks PROVE TaskShape(t)'
  <2>1. TaskShape(t) /\ From(t) # {} /\ From(t) \subseteq Tunnels
    BY TaskKinds DEF IInv, From
  <2>2. tasks[t] \in {"absent", "built"}
    BY <2>1 DEF TaskShape
  <2>3. QED BY <2>1, <2>2 DEF TaskShape, EveryGate, AllInputs
<1>3. \A u \in Tunnels : TunnelShape(u)'
  BY DEF IInv, TunnelShape
<1>4. ResultShape'
  BY DEF IInv, ResultShape
<1>5. QED BY <1>1, <1>2, <1>3, <1>4, LearnersUntouched DEF IInv

LEMMA RegisterTunnelsKeeps ==
  ASSUME IInv, RegisterTunnels
  PROVE  IInv'
<1> USE DEF RegisterTunnels
<1>1. TypeOK'
  BY DEF IInv, TypeOK
<1>2. \A t \in Tasks : TaskShape(t)'
  BY DEF IInv, TaskShape, From
<1>3. \A u \in Tunnels : TunnelShape(u)'
  BY Plumbing DEF IInv, TunnelShape
<1>4. ResultShape'
  BY DEF IInv, ResultShape
<1>5. QED BY <1>1, <1>2, <1>3, <1>4, LearnersUntouched DEF IInv

LEMMA PlanStepKeeps == IInv /\ PlanStep => IInv'
  BY PlanKeeps, ReceiveQueryKeeps, AllocateSnapshotKeeps, BuildTasksKeeps, BuildTunnelsKeeps,
     RegisterTunnelsKeeps
  DEF PlanStep, ObserveProvisioning, SelectAccessPath, BuildFragments, ScheduleRegions, Steps

-----------------------------------------------------------------------------
(* tiflash_mpp_task_stage                                                  *)
LEMMA MoveTaskKeeps ==
  ASSUME IInv, NEW t \in Tasks, NEW to \in Stages, MoveTask(t, to)
  PROVE  IInv'
<1> DEFINE from == tasks[t]
<1>1. /\ tasks \in [Tasks -> Stages] /\ TaskShape(t)
      /\ tasks' = [tasks EXCEPT ![t] = to]
      /\ <<from, to>> \in Transitions(t)
      /\ Required(t, to)
      /\ UNCHANGED <<snapshotTs, plan, learners, tunnels, result, atSnapshot>>
  BY DEF IInv, TypeOK, MoveTask
<1>2. /\ from \notin {"absent", "complete"} /\ to \notin {"absent", "built"}
      /\ to = "dispatched" <=> from = "built"
  BY <1>1 DEF Transitions
<1>3. TypeOK'
  <2>1. phase' \in Phases
    BY DEF MoveTask, PhaseOf, Phases, IInv, TypeOK
  <2>2. QED BY <1>1, <2>1 DEF IInv, TypeOK
<1>4. TaskShape(t)'
  <2>1. to \in TaskStages(t)
    BY <1>1 DEF Transitions, TaskShape, TaskStages
  <2>2. \A u \in From(t) : tunnels[u] # "absent"
    BY <1>1, <1>2 DEF Required, TaskShape
  <2>3. to # "dispatched" => \A u \in From(t) : tunnels[u] \notin {"absent", "planned"}
    BY <1>1, <1>2 DEF Required, TaskShape, Transitions
  <2>4. to \in {"partial_aggregated", "exchange_sending", "complete"} => EveryGate(t, "validated")
    <3>1. CASE to = "partial_aggregated"
      BY <1>1, <3>1 DEF Required
    <3>2. CASE to \in {"exchange_sending", "complete"} /\ t[1] = "scan"
      BY <1>1, <3>2 DEF TaskShape, Transitions, TaskStages
    <3>3. CASE t[1] # "scan"
      BY <3>3, TaskKinds DEF EveryGate
    <3>4. QED BY <3>1, <3>2, <3>3
  <2>5. to \in {"final_aggregated", "root_streaming", "complete"} => AllInputs(t)
    <3>1. CASE to = "final_aggregated"
      BY <1>1, <3>1 DEF Required
    <3>2. CASE to \in {"root_streaming", "complete"} /\ t[1] # "scan"
      BY <1>1, <3>2 DEF TaskShape, Transitions, TaskStages
    <3>3. CASE t[1] = "scan"
      BY <3>3, TaskKinds DEF AllInputs
    <3>4. QED BY <3>1, <3>2, <3>3
  <2>6. QED
    BY <1>1, <1>2, <2>1, <2>2, <2>3, <2>4, <2>5 DEF TaskShape, EveryGate, AllInputs
<1>5. ASSUME NEW s \in Tasks, s # t PROVE TaskShape(s)'
  <2>1. TaskShape(s) /\ tasks'[s] = tasks[s]
    BY <1>1, <1>5 DEF IInv
  <2>2. tasks[s] # "absent"
    BY <1>2, <2>1 DEF TaskShape
  <2>3. QED BY <1>1, <2>1, <2>2 DEF TaskShape, EveryGate, AllInputs
<1>6. ASSUME NEW u \in Tunnels PROVE TunnelShape(u)'
  <2>1. TunnelShape(u) /\ u[1] \in Tasks
    BY Plumbing DEF IInv
  <2>2. CASE u[1] # t
    BY <1>1, <1>2, <2>1, <2>2 DEF TunnelShape, Sending
  <2>3. CASE u[1] = t
    BY <1>1, <1>2, <2>1, <2>3 DEF TunnelShape, Sending, Transitions
  <2>4. QED BY <2>2, <2>3
<1>7. ResultShape'
  BY <1>1, <1>2 DEF IInv, ResultShape
<1>8. QED BY <1>1, <1>3, <1>4, <1>5, <1>6, <1>7, LearnersUntouched DEF IInv

-----------------------------------------------------------------------------
(* tiflash_mpp_snapshot_gate: a gate that is not yet validated moves on.   *)
LEMMA GateKeeps ==
  ASSUME IInv, NEW r \in Regions, NEW from, NEW next \in Learner, Gate(r, from, next),
         "validated" \notin from,
         next.commit = learners[r].commit, next.received = learners[r].received,
         next.command = learners[r].command, next.flushed = learners[r].flushed,
         next.applied = learners[r].applied,
         GateShape(r)'
  PROVE  IInv'
<1>1. /\ learners \in [Regions -> Learner]
      /\ learners' = [learners EXCEPT ![r] = next]
      /\ learners[r].gate # "validated"
      /\ UNCHANGED <<snapshotTs, plan, tasks, tunnels, result, atSnapshot>>
  BY DEF IInv, TypeOK, Gate
<1>2. TypeOK'
  <2>1. phase' \in Phases
    BY DEF Gate, Phases, IInv, TypeOK
  <2>2. QED BY <1>1, <2>1 DEF IInv, TypeOK
<1>3. ReplicationOrdered'
  BY <1>1 DEF IInv, ReplicationOrdered
<1>4. ASSUME NEW s \in Regions, s # r PROVE GateShape(s)'
  <2>1. GateShape(s) /\ learners'[s] = learners[s]
    BY <1>1, <1>4 DEF IInv
  <2>2. QED BY <1>1, <2>1 DEF GateShape, SelfCovers
<1>5. ASSUME NEW t \in Tasks PROVE TaskShape(t)'
  <2>1. TaskShape(t) /\ Owned(t) \subseteq Regions
    BY DEF IInv, Owned, Regions, Tasks
  <2>2. \A s \in Regions : learners[s].gate = "validated" => learners'[s].gate = "validated"
    BY <1>1
  <2>3. QED BY <1>1, <2>1, <2>2 DEF TaskShape, EveryGate, AllInputs
<1>6. ResultShape'
  BY <1>1 DEF IInv, ResultShape
<1>7. QED BY <1>1, <1>2, <1>3, <1>4, <1>5, <1>6, TunnelsUntouched DEF IInv

LEMMA GateStepKeeps == IInv /\ GateStep => IInv'
<1> SUFFICES ASSUME IInv, NEW r \in Regions,
                    \/ CheckSafeTs(r) \/ ReadySafeTs(r) \/ RequestReadIndex(r)
                    \/ ReturnReadIndex(r) \/ WaitApplied(r) \/ ReadyReadIndex(r)
                    \/ CheckLocks(r) \/ Validate(r)
             PROVE  IInv'
  BY DEF GateStep
<1> DEFINE l == learners[r]
<1>1. /\ l \in Learner /\ GateShape(r)
      /\ learners \in [Regions -> Learner] /\ atSnapshot \in [Regions -> Nat]
  BY DEF IInv, TypeOK
<1>2. ASSUME NEW from, NEW next, Gate(r, from, next)
      PROVE  /\ learners'[r] = next /\ l.gate \in from /\ snapshotTs # None
             /\ UNCHANGED <<snapshotTs, atSnapshot>>
  BY <1>1, <1>2 DEF Gate
<1>3. CASE CheckSafeTs(r)
  <2> DEFINE next == [l EXCEPT !.gate = "safe_ts_checked", !.skipped = SelfCovers(r)]
  <2>1. SelfCovers(r) \in BOOLEAN
    BY DEF SelfCovers
  <2>2. /\ next \in Learner /\ next.gate = "safe_ts_checked" /\ next.skipped = SelfCovers(r)
        /\ next.required = l.required /\ next.reason = l.reason
        /\ next.commit = l.commit /\ next.applied = l.applied
    BY <1>1, <2>1 DEF Learner, Gates
  <2>3. Gate(r, {"unchecked"}, next)
    BY <1>3 DEF CheckSafeTs
  <2>4. /\ learners'[r] = next /\ l.gate = "unchecked" /\ snapshotTs # None
        /\ UNCHANGED <<snapshotTs, atSnapshot>>
    BY <1>2, <2>3
  <2>5. GateShape(r)'
    <3>1. SelfCovers(r)' <=> SelfCovers(r)
      BY <2>4 DEF SelfCovers
    <3>2. learners'[r].skipped = TRUE => SelfCovers(r)'
      BY <2>2, <2>4, <3>1
    <3>3. l.required = None /\ l.reason = None
      BY <1>1, <2>4 DEF GateShape, Open
    <3> HIDE DEF next
    <3>4. QED BY <1>1, <2>2, <2>4, <3>2, <3>3, MppAssumption DEF GateShape, Open
  <2>6. QED BY <1>1, <2>2, <2>3, <2>5, GateKeeps DEF Learner
<1>4. CASE ReadySafeTs(r)
  <2> DEFINE next == [l EXCEPT !.gate = "ready", !.reason = "self_safe_ts"]
  <2>1. next \in Learner
    BY <1>1 DEF Learner, Gates
  <2>2. Gate(r, {"safe_ts_checked"}, next) /\ l.skipped = TRUE /\ SelfCovers(r)
    BY <1>4 DEF ReadySafeTs, SelfCovers
  <2>3. /\ learners'[r] = next /\ l.gate \in {"safe_ts_checked"} /\ snapshotTs # None
        /\ UNCHANGED <<snapshotTs, atSnapshot>>
    BY <1>2, <2>2
  <2>4. /\ next.gate = "ready" /\ next.reason = "self_safe_ts" /\ next.skipped = l.skipped
        /\ next.required = l.required /\ next.commit = l.commit
    BY <1>1 DEF Learner
  <2>5. GateShape(r)'
    <3>1. SelfCovers(r)' <=> SelfCovers(r)
      BY <2>3 DEF SelfCovers
    <3>2. None \notin Nat \cup BOOLEAN \cup {"self_safe_ts", "read_index_applied"}
      BY MppAssumption
    <3> HIDE DEF next
    <3>3. QED BY <1>1, <2>2, <2>3, <2>4, <3>1, <3>2 DEF GateShape, Open, Learner
  <2>6. QED BY <1>1, <2>1, <2>2, <2>5, GateKeeps DEF Learner
<1>5. CASE RequestReadIndex(r)
  <2> DEFINE next == [l EXCEPT !.gate = "read_index_requested"]
  <2>1. next \in Learner
    BY <1>1 DEF Learner, Gates
  <2>2. Gate(r, {"safe_ts_checked"}, next) /\ l.skipped = FALSE
    BY <1>5 DEF RequestReadIndex
  <2>3. GateShape(r)'
    BY <1>1, <1>2, <2>1, <2>2, MppAssumption DEF GateShape, SelfCovers, Open, Learner
  <2>4. QED BY <1>1, <2>1, <2>2, <2>3, GateKeeps DEF Learner
<1>6. CASE ReturnReadIndex(r)
  <2> DEFINE next == [l EXCEPT !.gate = "read_index_returned", !.required = LeaderIndex(r)]
  <2>1. next \in Learner
    BY <1>1 DEF Learner, Gates, LeaderIndex
  <2>2. Gate(r, {"read_index_requested"}, next)
    BY <1>6 DEF ReturnReadIndex
  <2>3. /\ learners'[r] = next /\ l.gate \in {"read_index_requested"} /\ snapshotTs # None
        /\ UNCHANGED <<snapshotTs, atSnapshot>>
    BY <1>2, <2>2
  <2>4. /\ next.gate = "read_index_returned" /\ next.reason = l.reason /\ next.skipped = l.skipped
        /\ next.required = l.commit /\ next.commit = l.commit
    BY <1>1 DEF Learner, LeaderIndex
  <2>5. GateShape(r)'
    <3>1. SelfCovers(r)' <=> SelfCovers(r)
      BY <2>3 DEF SelfCovers
    <3>2. None \notin Nat \cup BOOLEAN \cup {"self_safe_ts", "read_index_applied"}
      BY MppAssumption
    <3> HIDE DEF next
    <3>3. QED BY <1>1, <2>2, <2>3, <2>4, <3>1, <3>2 DEF GateShape, Open, Learner, LeaderIndex
  <2>6. QED BY <1>1, <2>1, <2>2, <2>5, GateKeeps DEF Learner
<1>7. CASE WaitApplied(r)
  <2> DEFINE next == [l EXCEPT !.gate = "waiting_applied"]
  <2>1. next \in Learner
    BY <1>1 DEF Learner, Gates
  <2>2. Gate(r, {"read_index_returned"}, next)
    BY <1>7 DEF WaitApplied
  <2>3. GateShape(r)'
    BY <1>1, <1>2, <2>1, <2>2, MppAssumption DEF GateShape, SelfCovers, Open, Learner
  <2>4. QED BY <1>1, <2>1, <2>2, <2>3, GateKeeps DEF Learner
<1>8. CASE ReadyReadIndex(r)
  <2> DEFINE next == [l EXCEPT !.gate = "ready", !.reason = "read_index_applied"]
  <2>1. next \in Learner
    BY <1>1 DEF Learner, Gates
  <2>2. Gate(r, {"read_index_returned", "waiting_applied"}, next)
        /\ l.required # None /\ l.required <= l.applied
    BY <1>1, <1>8 DEF ReadyReadIndex, Applied, Learner
  <2>3. /\ learners'[r] = next /\ l.gate \in {"read_index_returned", "waiting_applied"} /\ snapshotTs # None
        /\ UNCHANGED <<snapshotTs, atSnapshot>>
    BY <1>2, <2>2
  <2>4. /\ next.gate = "ready" /\ next.reason = "read_index_applied" /\ next.skipped = l.skipped
        /\ next.required = l.required /\ next.commit = l.commit /\ next.applied = l.applied
    BY <1>1 DEF Learner
  <2>5. GateShape(r)'
    <3>1. SelfCovers(r)' <=> SelfCovers(r)
      BY <2>3 DEF SelfCovers
    <3>2. None \notin Nat \cup BOOLEAN \cup {"self_safe_ts", "read_index_applied"}
      BY MppAssumption
    <3> HIDE DEF next
    <3>3. QED BY <1>1, <2>2, <2>3, <2>4, <3>1, <3>2 DEF GateShape, Open, Learner
  <2>6. QED BY <1>1, <2>1, <2>2, <2>5, GateKeeps DEF Learner
<1>9. CASE CheckLocks(r)
  <2> DEFINE next == [l EXCEPT !.gate = "mvcc_checked"]
  <2>1. next \in Learner
    BY <1>1 DEF Learner, Gates
  <2>2. Gate(r, {"ready"}, next)
    BY <1>9 DEF CheckLocks
  <2>3. GateShape(r)'
    BY <1>1, <1>2, <2>1, <2>2, MppAssumption DEF GateShape, SelfCovers, Open, Learner
  <2>4. QED BY <1>1, <2>1, <2>2, <2>3, GateKeeps DEF Learner
<1>10. CASE Validate(r)
  <2> DEFINE next == [l EXCEPT !.gate = "validated"]
  <2>1. next \in Learner
    BY <1>1 DEF Learner, Gates
  <2>2. Gate(r, {"mvcc_checked"}, next)
    BY <1>10 DEF Validate
  <2>3. GateShape(r)'
    BY <1>1, <1>2, <2>1, <2>2, MppAssumption DEF GateShape, SelfCovers, Open, Learner
  <2>4. QED BY <1>1, <2>1, <2>2, <2>3, GateKeeps DEF Learner
<1>11. QED BY <1>3, <1>4, <1>5, <1>6, <1>7, <1>8, <1>9, <1>10

-----------------------------------------------------------------------------
(* tiflash_mpp_tunnel_data: a tunnel's data is sent, then received.        *)
LEMMA MoveKeeps ==
  ASSUME IInv, NEW u \in Tunnels,
         \/ Move(u, "registered", "sent") /\ tasks[u[1]] = Sending(u)
         \/ Move(u, "sent", "received")
  PROVE  IInv'
<1>1. /\ tunnels[u] \in {"registered", "sent"} /\ tunnels'[u] \in {"sent", "received"}
      /\ tunnels' = [tunnels EXCEPT ![u] = tunnels'[u]]
      /\ \A v \in Tunnels : v # u => tunnels'[v] = tunnels[v]
      /\ tunnels \in [Tunnels -> {"absent", "planned", "registered", "sent", "received"}]
      /\ UNCHANGED <<snapshotTs, plan, learners, tasks, result, atSnapshot>>
  BY DEF Move, IInv, TypeOK
<1>2. TypeOK'
  <2>1. phase' \in Phases
    BY DEF Move, Phases
  <2>2. QED BY <1>1, <2>1 DEF IInv, TypeOK
<1>3. ASSUME NEW t \in Tasks PROVE TaskShape(t)'
  <2>1. TaskShape(t) /\ From(t) \subseteq Tunnels /\ Into(t) \subseteq Tunnels
    BY DEF IInv, From, Into
  <2>2. \A v \in Tunnels : /\ tunnels[v] # "absent" => tunnels'[v] # "absent"
                           /\ tunnels[v] # "planned" => tunnels'[v] # "planned"
                           /\ tunnels[v] = "received" => tunnels'[v] = "received"
    BY <1>1
  <2>3. QED BY <1>1, <2>1, <2>2 DEF TaskShape, EveryGate, AllInputs
<1>4. TunnelShape(u)'
  BY <1>1 DEF IInv, TunnelShape, Move, Sending
<1>5. ASSUME NEW v \in Tunnels, v # u PROVE TunnelShape(v)'
  BY <1>1, <1>5 DEF IInv, TunnelShape, Sending
<1>6. ResultShape'
  BY <1>1 DEF IInv, ResultShape
<1>7. QED BY <1>1, <1>2, <1>3, <1>4, <1>5, <1>6, LearnersUntouched DEF IInv

(* A row of a final task reaches TiDB only after every input partition     *)
(* reached the task, and a partition is sent only after its scan has       *)
(* validated all its Regions.                                              *)
LEMMA RootsComeLast ==
  ASSUME IInv, NEW s \in Stores, tunnels[<<Final(s), TidbRoot>>] \in {"sent", "received"}
  PROVE  /\ \A u \in Into(Final(s)) : tunnels[u] = "received"
         /\ \A r \in Regions : learners[r].gate = "validated"
<1> DEFINE root == <<Final(s), TidbRoot>>
<1>1. root \in RootTunnels /\ root \in Tunnels /\ Final(s) \in Tasks /\ root \notin HashTunnels
  BY Plumbing DEF RootTunnels, Tunnels, Tasks, Final
<1>2. tasks[Final(s)] \in {"root_streaming", "complete"}
  BY <1>1 DEF IInv, TunnelShape, Sending
<1>3. AllInputs(Final(s))
  BY <1>1, <1>2 DEF IInv, TaskShape
<1>4. ASSUME NEW r \in Regions PROVE learners[r].gate = "validated"
  <2>1. PICK t \in Stores : r \in Owned(Scan(t)) /\ Scan(t) \in Tasks
    BY RegionsAreOwned
  <2> DEFINE u == <<Scan(t), Final(s)>>
  <2>2. u \in HashTunnels /\ u \in Tunnels /\ u \in Into(Final(s))
    BY DEF HashTunnels, Tunnels, Into
  <2>3. tunnels[u] = "received"
    BY <1>3, <2>2 DEF AllInputs
  <2>4. tasks[Scan(t)] \in {"exchange_sending", "complete"}
    BY <2>2, <2>3 DEF IInv, TunnelShape, Sending
  <2>5. QED BY <2>1, <2>4 DEF IInv, TaskShape, EveryGate
<1>5. QED BY <1>3, <1>4 DEF AllInputs

(* tiflash_mpp_result_stage                                                *)
LEMMA AdvanceKeeps ==
  ASSUME IInv, NEW n \in 0..MaxChunks, NEW from, NEW to, Advance(from, to, n),
         to \in {"chunks_decoded", "columns_sent", "rows_streaming", "streams_eof",
                "client_complete"},
         from # "client_complete",
         ResultShape'
  PROVE  IInv'
<1>1. UNCHANGED <<snapshotTs, plan, learners, tasks, tunnels, atSnapshot>>
  BY DEF Advance
<1>2. TypeOK'
  <2>1. phase' \in Phases
    BY DEF Advance, Phases
  <2>2. result' \in Result
    BY ReceivedCount DEF Advance, Result
  <2>3. QED BY <1>1, <2>1, <2>2 DEF IInv, TypeOK
<1>3. QED
  BY <1>1, <1>2, LearnersUntouched, TasksUntouched, TunnelsUntouched DEF IInv

LEMMA StreamStepKeeps == IInv /\ StreamStep => IInv'
<1> SUFFICES ASSUME IInv, StreamStep PROVE IInv'
  OBVIOUS
<1>1. ASSUME NEW u \in Tunnels, Send(u) \/ Deliver(u) PROVE IInv'
  BY <1>1, MoveKeeps DEF Send, Deliver, Sending
<1>2. ASSUME NEW n \in 0..MaxChunks, DecodeChunks(n) PROVE IInv'
  <2>1. PICK root \in RootTunnels : tunnels[root] = "received"
    BY <1>2 DEF DecodeChunks, ReceivedRoots
  <2>2. \A r \in Regions : learners[r].gate = "validated"
    BY <2>1, Plumbing, RootsComeLast
  <2>3. ResultShape'
    BY <1>2, <2>2 DEF DecodeChunks, Advance, ResultShape
  <2>4. QED BY <1>2, <2>3, AdvanceKeeps DEF DecodeChunks
<1>3. ASSUME NEW n \in 0..MaxChunks,
             SendColumns(n) \/ StreamRows(n) \/ StreamMoreRows(n)
      PROVE  IInv'
  <2>1. ResultShape'
    BY <1>3 DEF IInv, SendColumns, StreamRows, StreamMoreRows, Advance, ResultShape
  <2>2. QED BY <1>3, <2>1, AdvanceKeeps DEF SendColumns, StreamRows, StreamMoreRows
<1>4. ASSUME NEW n \in 0..MaxChunks, EndStreams(n) PROVE IInv'
  <2>1. \A u \in RootTunnels : tunnels[u] = "received"
    BY <1>4 DEF EndStreams, StreamsEnd, ReceivedRoots
  <2>2. ASSUME NEW u \in HashTunnels PROVE tunnels[u] = "received"
    <3>1. PICK s, t \in Stores : u = <<Scan(s), Final(t)>>
      BY Plumbing
    <3>2. tunnels[<<Final(t), TidbRoot>>] = "received"
      BY <2>1 DEF RootTunnels
    <3>3. u \in Into(Final(t))
      BY <3>1 DEF Into, Tunnels
    <3>4. QED BY <3>2, <3>3, RootsComeLast
  <2>3. ResultShape'
    BY <1>4, <2>1, <2>2 DEF IInv, EndStreams, Advance, ResultShape, Tunnels
  <2>4. QED BY <1>4, <2>3, AdvanceKeeps DEF EndStreams
<1>5. ASSUME NEW n \in 0..MaxChunks, Complete(n) PROVE IInv'
  <2>1. ReceivedRoots = RootTunnels
    BY <1>5 DEF IInv, Complete, Advance, ResultShape, ReceivedRoots, Tunnels
  <2>2. ResultShape'
    BY <1>5, <2>1, RootCount DEF IInv, Complete, Advance, ResultShape
  <2>3. QED BY <1>5, <2>2, AdvanceKeeps DEF Complete
<1>6. QED BY <1>1, <1>2, <1>3, <1>4, <1>5 DEF StreamStep

-----------------------------------------------------------------------------
LEMMA InitEstablishes == Init => IInv
<1> SUFFICES ASSUME Init PROVE IInv
  OBVIOUS
<1>1. TypeOK
  <2>1. learners \in [Regions -> Learner]
    BY DEF Init, Learner, Gates
  <2>2. result \in Result
    BY RootCount, MppAssumption DEF Init, Result
  <2>3. QED BY <2>1, <2>2 DEF Init, TypeOK, Phases, Stages
<1>2. ReplicationOrdered
  BY DEF Init, ReplicationOrdered
<1>3. ASSUME NEW r \in Regions PROVE GateShape(r)
  <2>1. /\ learners[r].gate = "unchecked" /\ learners[r].skipped = None
        /\ learners[r].reason = None /\ learners[r].required = None
        /\ learners[r].commit = 0 /\ atSnapshot[r] = 0
    BY DEF Init
  <2>2. None \notin BOOLEAN \cup {"self_safe_ts", "read_index_applied"}
    BY MppAssumption
  <2>3. learners[r].skipped # TRUE
    BY <2>1, <2>2
  <2>4. learners[r].gate \notin Open
    BY <2>1 DEF Open
  <2>5. learners[r].reason # "self_safe_ts" /\ learners[r].reason # "read_index_applied"
    BY <2>1, <2>2
  <2>6. atSnapshot[r] <= learners[r].commit /\ learners[r].gate # "read_index_requested"
    BY <2>1
  <2>7. QED BY <2>1, <2>3, <2>4, <2>5, <2>6 DEF GateShape
<1>4. \A t \in Tasks : TaskShape(t)
  BY DEF Init, TaskShape, TaskStages
<1>5. \A u \in Tunnels : TunnelShape(u)
  BY DEF Init, TunnelShape
<1>6. ResultShape
  BY DEF Init, ResultShape
<1>7. QED BY <1>1, <1>2, <1>3, <1>4, <1>5, <1>6 DEF IInv, Init

LEMMA NextKeeps == IInv /\ [Next]_vars => IInv'
<1> SUFFICES ASSUME IInv, [Next]_vars PROVE IInv'
  OBVIOUS
<1>1. CASE TaskStep
  BY <1>1, MoveTaskKeeps DEF TaskStep
<1>2. CASE UNCHANGED vars
  <2>1. TypeOK' /\ ResultShape'
    BY <1>2 DEF vars, IInv, TypeOK, ResultShape
  <2>2. QED
    BY <1>2, <2>1, LearnersUntouched, TasksUntouched, TunnelsUntouched DEF vars, IInv
<1>3. QED
  BY <1>1, <1>2, ReplicaStepKeeps, PlanStepKeeps, GateStepKeeps, StreamStepKeeps DEF Next

LEMMA Invariance == Spec => []IInv
  BY InitEstablishes, NextKeeps, PTL DEF Spec

(* The indexes of a learner stay in order, a gate has the reason it names, *)
(* tunnels and tasks are registered in step, and a completed query has     *)
(* nothing left anywhere: what validateTiFlashMppLab checks never fails.   *)
THEOREM LabIsValid == Spec => []LabValid
<1>1. IInv => GatesAgree
  <2> SUFFICES ASSUME IInv, NEW r \in Regions
               PROVE  LET l == learners[r]
                      IN  /\ l.required # None => l.required <= l.commit
                          /\ l.reason = "self_safe_ts" =>
                               l.skipped = TRUE /\ snapshotTs # None /\ SelfCovers(r)
                          /\ l.reason = "read_index_applied" =>
                               l.skipped = FALSE /\ l.required # None /\ l.required <= l.applied
                          /\ l.gate \in {"ready", "mvcc_checked", "validated"} => l.reason # None
    BY DEF GatesAgree
  <2>1. GateShape(r)
    BY DEF IInv
  <2>2. QED BY <2>1, MppAssumption DEF GateShape, Open
<1>2. IInv => ExchangeAgrees
  <2> SUFFICES ASSUME IInv PROVE ExchangeAgrees
    OBVIOUS
  <2>1. ASSUME NEW u \in Tunnels
        PROVE  /\ tunnels[u] # "absent" => \A t \in Tasks : tasks[t] # "absent"
               /\ tunnels[u] # "planned" => tasks[u[1]] # "built" \/ tunnels[u] = "absent"
               /\ tunnels[u] = "planned" => tasks[u[1]] \in {"built", "dispatched"}
    <3>1. u[1] \in Tasks /\ u \in From(u[1])
      BY Plumbing DEF From
    <3>2. TunnelShape(u) /\ TaskShape(u[1])
      BY <3>1 DEF IInv
    <3>3. tunnels[u] \in {"absent", "planned", "registered", "sent", "received"}
      BY DEF IInv, TypeOK
    <3>4. QED BY <3>1, <3>2, <3>3 DEF TunnelShape, TaskShape
  <2>2. \A t \in Tasks : tasks[t] # "absent" => "fragments" \in plan
    BY DEF IInv, TaskShape
  <2>3. QED BY <2>1, <2>2 DEF ExchangeAgrees, IInv, ResultShape
<1>3. IInv => LabValid
  BY <1>1, <1>2 DEF IInv, LabValid
<1>4. QED BY <1>3, Invariance, PTL

(* A learner is read only at a snapshot its own safe timestamp covers, or  *)
(* after it applied and flushed all that its leader had committed when PD  *)
(* handed the snapshot out.                                                *)
THEOREM NoStaleRead == Spec => []NeverStale
<1>1. ASSUME IInv, NEW r \in Regions, learners[r].gate \in Open
      PROVE  \/ snapshotTs <= Leaders[r].self
             \/ learners[r].applied >= atSnapshot[r] /\ learners[r].flushed >= atSnapshot[r]
  <2>1. GateShape(r) /\ learners[r] \in Learner /\ atSnapshot[r] \in Nat
    BY <1>1 DEF IInv, TypeOK
  <2>2. learners[r].applied <= learners[r].flushed
    BY <1>1 DEF IInv, ReplicationOrdered
  <2>3. learners[r].reason \in {"self_safe_ts", "read_index_applied"}
    BY <1>1, <2>1 DEF GateShape, Learner
  <2>4. CASE learners[r].reason = "self_safe_ts"
    BY <2>1, <2>4 DEF GateShape, SelfCovers
  <2>5. CASE learners[r].reason = "read_index_applied"
    BY <2>1, <2>2, <2>5 DEF GateShape, Learner
  <2>6. QED BY <2>3, <2>4, <2>5
<1>2. IInv => NeverStale
  BY <1>1 DEF NeverStale, Open
<1>3. QED BY <1>2, Invariance, PTL

(* TiDB sees no row of a final task before every scan has validated its    *)
(* Regions, and the end of the stream only when everything has arrived.    *)
THEOREM AnswerIsWhole == Spec => []AnswerIsComplete
<1>1. IInv => AnswerIsComplete
  BY RootsComeLast DEF IInv, AnswerIsComplete, ResultShape
<1>2. QED BY <1>1, Invariance, PTL
=============================================================================

--------------------------- MODULE LockLabProofs ---------------------------
(***************************************************************************)
(* Proofs about LockLab for any sets of transactions, resources and        *)
(* clients.  The invariants of LockLab are inductive together with two     *)
(* facts about what they leave open: a transaction that began has a        *)
(* client, and a chosen victim is the first transaction of its cycle.      *)
(*                                                                         *)
(* One lemma per action of the reducer; each has one step per part of the  *)
(* invariant that the action can disturb.                                  *)
(***************************************************************************)
EXTENDS LockLab, TLAPS

HasClient == \A t \in Begun : client[t] \in Clients

VictimHeadsCycle ==
  deadlock # None => deadlock.victim \in {None, deadlock.cycle[1]}

IInv ==
  /\ TypeOK
  /\ LockGraph
  /\ NoStrandedWaiter
  /\ RolledBackIsGone
  /\ RetryIsFresh
  /\ HasClient
  /\ VictimHeadsCycle

-----------------------------------------------------------------------------
(* A candidate cycle is a sequence of transactions.                        *)
LEMMA CyclesAreSequences == SimpleCycles \subseteq Seq(Transactions)
  BY DEF SimpleCycles

LEMMA AcquireKeeps ==
  ASSUME IInv, NEW t \in Transactions, NEW r \in Resources,
         Acquire(t, r)
  PROVE  IInv'
<1>1. TypeOK'
  BY DEF IInv, TypeOK, Acquire, MayLock, identity, queues
<1>2. LockGraph'
  BY LockLabAssumption DEF IInv, TypeOK, LockGraph, Acquire, MayLock, queues, Edge
<1>3. NoStrandedWaiter'
  BY DEF IInv, TypeOK, NoStrandedWaiter, Acquire, MayLock, queues
<1>4. RolledBackIsGone'
  BY DEF IInv, TypeOK, RolledBackIsGone, Acquire, MayLock, queues
<1>5. RetryIsFresh'
  BY DEF IInv, RetryIsFresh, Begun, Acquire, MayLock, identity
<1>6. HasClient'
  BY DEF IInv, HasClient, Begun, Acquire, MayLock, identity
<1>7. VictimHeadsCycle'
  BY DEF IInv, VictimHeadsCycle, Acquire, MayLock
<1>8. QED BY <1>1, <1>2, <1>3, <1>4, <1>5, <1>6, <1>7 DEF IInv

LEMMA ReleaseKeeps ==
  ASSUME IInv, NEW t \in Transactions, NEW r \in Resources,
         Release(t, r)
  PROVE  IInv'
<1>1. TypeOK'
  BY DEF IInv, TypeOK, Release, QueueResolved, NoEdgeToHolder, identity, queues
<1>2. LockGraph'
  BY LockLabAssumption DEF IInv, TypeOK, LockGraph, Release, QueueResolved,
         NoEdgeToHolder, queues, Edge
<1>3. NoStrandedWaiter'
  BY DEF IInv, TypeOK, NoStrandedWaiter, Release, QueueResolved, NoEdgeToHolder,
         queues
<1>4. RolledBackIsGone'
  BY DEF IInv, TypeOK, RolledBackIsGone, Release, QueueResolved, NoEdgeToHolder,
         queues
<1>5. RetryIsFresh'
  BY DEF IInv, RetryIsFresh, Begun, Release, QueueResolved, NoEdgeToHolder, identity
<1>6. HasClient'
  BY DEF IInv, HasClient, Begun, Release, QueueResolved, NoEdgeToHolder, identity
<1>7. VictimHeadsCycle'
  BY DEF IInv, VictimHeadsCycle, Release, QueueResolved, NoEdgeToHolder
<1>8. QED BY <1>1, <1>2, <1>3, <1>4, <1>5, <1>6, <1>7 DEF IInv

LEMMA EnqueueKeeps ==
  ASSUME IInv, NEW t \in Transactions, NEW r \in Resources,
         Enqueue(t, r)
  PROVE  IInv'
<1>1. TypeOK'
  BY DEF IInv, TypeOK, Enqueue, identity, locks, Statuses
<1>2. LockGraph'
  BY LockLabAssumption DEF IInv, TypeOK, LockGraph, Enqueue, locks, Edge
<1>3. NoStrandedWaiter'
  BY LockLabAssumption DEF IInv, TypeOK, NoStrandedWaiter, Enqueue, locks
<1>4. RolledBackIsGone'
  BY DEF IInv, TypeOK, RolledBackIsGone, Enqueue, locks
<1>5. RetryIsFresh'
  BY DEF IInv, TypeOK, RetryIsFresh, Begun, Enqueue, identity
<1>6. HasClient'
  BY DEF IInv, TypeOK, HasClient, Begun, Enqueue, identity
<1>7. VictimHeadsCycle'
  BY DEF IInv, VictimHeadsCycle, Enqueue
<1>8. QED BY <1>1, <1>2, <1>3, <1>4, <1>5, <1>6, <1>7 DEF IInv

LEMMA DequeueKeeps ==
  ASSUME IInv, NEW t \in Transactions, NEW r \in Resources,
         Dequeue(t, r)
  PROVE  IInv'
<1>1. TypeOK'
  BY DEF IInv, TypeOK, Dequeue, EdgeGone, identity, locks, Statuses
<1>2. LockGraph'
  BY LockLabAssumption DEF IInv, TypeOK, LockGraph, Dequeue, EdgeGone, locks, Edge
<1>3. NoStrandedWaiter'
  BY DEF IInv, TypeOK, NoStrandedWaiter, Dequeue, EdgeGone, locks
<1>4. RolledBackIsGone'
  BY DEF IInv, TypeOK, RolledBackIsGone, Dequeue, EdgeGone, locks
<1>5. RetryIsFresh'
  BY DEF IInv, TypeOK, RetryIsFresh, Begun, Dequeue, EdgeGone, identity
<1>6. HasClient'
  BY DEF IInv, TypeOK, HasClient, Begun, Dequeue, EdgeGone, identity
<1>7. VictimHeadsCycle'
  BY DEF IInv, VictimHeadsCycle, Dequeue, EdgeGone
<1>8. QED BY <1>1, <1>2, <1>3, <1>4, <1>5, <1>6, <1>7 DEF IInv

LEMMA AddEdgeKeeps ==
  ASSUME IInv, NEW t \in Transactions, NEW h \in Transactions, NEW r \in Resources,
         AddEdge(t, h, r)
  PROVE  IInv'
<1>1. TypeOK'
  BY DEF IInv, TypeOK, AddEdge, identity, locks, queues, Edge
<1>2. LockGraph'
  BY DEF IInv, TypeOK, LockGraph, AddEdge, locks, queues
<1>3. NoStrandedWaiter'
  BY DEF IInv, NoStrandedWaiter, AddEdge, locks, queues
<1>4. RolledBackIsGone'
  BY LockLabAssumption DEF IInv, TypeOK, LockGraph, RolledBackIsGone, AddEdge,
         locks, queues, Edge
<1>5. RetryIsFresh'
  BY DEF IInv, RetryIsFresh, Begun, AddEdge, identity
<1>6. HasClient'
  BY DEF IInv, HasClient, Begun, AddEdge, identity
<1>7. VictimHeadsCycle'
  BY DEF IInv, VictimHeadsCycle, AddEdge
<1>8. QED BY <1>1, <1>2, <1>3, <1>4, <1>5, <1>6, <1>7 DEF IInv

LEMMA RemoveEdgeKeeps ==
  ASSUME IInv, NEW e \in edges,
         RemoveEdge(e)
  PROVE  IInv'
<1>1. TypeOK'
  BY DEF IInv, TypeOK, RemoveEdge, identity, locks, queues, Edge
<1>2. LockGraph'
  BY DEF IInv, TypeOK, LockGraph, RemoveEdge, locks, queues
<1>3. NoStrandedWaiter'
  BY DEF IInv, NoStrandedWaiter, RemoveEdge, locks, queues
<1>4. RolledBackIsGone'
  BY DEF IInv, TypeOK, RolledBackIsGone, RemoveEdge, locks, queues
<1>5. RetryIsFresh'
  BY DEF IInv, RetryIsFresh, Begun, RemoveEdge, identity
<1>6. HasClient'
  BY DEF IInv, HasClient, Begun, RemoveEdge, identity
<1>7. VictimHeadsCycle'
  BY DEF IInv, VictimHeadsCycle, RemoveEdge
<1>8. QED BY <1>1, <1>2, <1>3, <1>4, <1>5, <1>6, <1>7 DEF IInv

LEMMA BeginKeeps ==
  ASSUME IInv, NEW t \in Transactions, NEW c \in Clients, NEW ts \in Timestamps,
         Begin(t, c, ts)
  PROVE  IInv'
<1>1. TypeOK'
  BY DEF IInv, TypeOK, Begin, Enter, locks, queues, Statuses
<1>2. LockGraph'
  BY DEF IInv, TypeOK, LockGraph, Begin, Enter, locks, queues
<1>3. NoStrandedWaiter'
  BY DEF IInv, TypeOK, NoStrandedWaiter, Begin, Enter, locks, queues
<1>4. RolledBackIsGone'
  BY DEF IInv, TypeOK, RolledBackIsGone, Begin, Enter, locks, queues
<1>5. RetryIsFresh'
  BY DEF IInv, TypeOK, RetryIsFresh, Begun, Begin, Enter
<1>6. HasClient'
  BY DEF IInv, TypeOK, HasClient, Begun, Begin, Enter
<1>7. VictimHeadsCycle'
  BY DEF IInv, VictimHeadsCycle, Begin, Enter
<1>8. QED BY <1>1, <1>2, <1>3, <1>4, <1>5, <1>6, <1>7 DEF IInv

LEMMA BeginRetryKeeps ==
  ASSUME IInv, NEW t \in Transactions, NEW p \in Transactions, NEW ts \in Timestamps,
         BeginRetry(t, p, ts)
  PROVE  IInv'
<1>1. TypeOK'
  BY DEF IInv, TypeOK, BeginRetry, Enter, LaterThan, locks, queues, Statuses
<1>2. LockGraph'
  BY DEF IInv, TypeOK, LockGraph, BeginRetry, Enter, LaterThan, locks, queues
<1>3. NoStrandedWaiter'
  BY DEF IInv, TypeOK, NoStrandedWaiter, BeginRetry, Enter, LaterThan, locks, queues
<1>4. RolledBackIsGone'
  BY DEF IInv, TypeOK, RolledBackIsGone, BeginRetry, Enter, LaterThan, locks, queues
<1>5. RetryIsFresh'
  BY DEF IInv, TypeOK, RetryIsFresh, Begun, BeginRetry, Enter, LaterThan
<1>6. HasClient'
  BY DEF IInv, TypeOK, HasClient, Begun, BeginRetry, Enter, LaterThan
<1>7. VictimHeadsCycle'
  BY DEF IInv, VictimHeadsCycle, BeginRetry, Enter, LaterThan
<1>8. QED BY <1>1, <1>2, <1>3, <1>4, <1>5, <1>6, <1>7 DEF IInv

LEMMA VictimizeKeeps ==
  ASSUME IInv, NEW t \in Transactions,
         Victimize(t)
  PROVE  IInv'
<1>1. TypeOK'
  BY DEF IInv, TypeOK, Victimize, MoveTo, identity, locks, queues, Statuses
<1>2. LockGraph'
  BY DEF IInv, TypeOK, LockGraph, Victimize, MoveTo, locks, queues
<1>3. NoStrandedWaiter'
  BY DEF IInv, TypeOK, NoStrandedWaiter, Victimize, MoveTo, locks, queues
<1>4. RolledBackIsGone'
  BY DEF IInv, TypeOK, RolledBackIsGone, Victimize, MoveTo, locks, queues
<1>5. RetryIsFresh'
  BY DEF IInv, TypeOK, RetryIsFresh, Begun, Victimize, MoveTo, identity
<1>6. HasClient'
  BY DEF IInv, TypeOK, HasClient, Begun, Victimize, MoveTo, identity
<1>7. VictimHeadsCycle'
  BY DEF IInv, VictimHeadsCycle, Victimize, MoveTo
<1>8. QED BY <1>1, <1>2, <1>3, <1>4, <1>5, <1>6, <1>7 DEF IInv

LEMMA RollBackKeeps ==
  ASSUME IInv, NEW t \in Transactions,
         RollBack(t)
  PROVE  IInv'
<1>1. TypeOK'
  BY DEF IInv, TypeOK, RollBack, MoveTo, LocksGone, identity, locks, queues,
         Statuses
<1>2. LockGraph'
  BY DEF IInv, TypeOK, LockGraph, RollBack, MoveTo, LocksGone, locks, queues
<1>3. NoStrandedWaiter'
  BY DEF IInv, TypeOK, NoStrandedWaiter, RollBack, MoveTo, LocksGone, locks, queues
<1>4. RolledBackIsGone'
  BY LockLabAssumption DEF IInv, TypeOK, LockGraph, RolledBackIsGone, RollBack,
         MoveTo, LocksGone, locks, queues, Edge
<1>5. RetryIsFresh'
  BY DEF IInv, TypeOK, RetryIsFresh, Begun, RollBack, MoveTo, LocksGone, identity
<1>6. HasClient'
  BY DEF IInv, TypeOK, HasClient, Begun, RollBack, MoveTo, LocksGone, identity
<1>7. VictimHeadsCycle'
  BY DEF IInv, VictimHeadsCycle, RollBack, MoveTo, LocksGone
<1>8. QED BY <1>1, <1>2, <1>3, <1>4, <1>5, <1>6, <1>7 DEF IInv

LEMMA HandOffKeeps ==
  ASSUME IInv, NEW t \in Transactions,
         HandOff(t)
  PROVE  IInv'
<1>1. TypeOK'
  BY DEF IInv, TypeOK, HandOff, MoveTo, identity, locks, queues, Statuses
<1>2. LockGraph'
  BY DEF IInv, TypeOK, LockGraph, HandOff, MoveTo, locks, queues
<1>3. NoStrandedWaiter'
  BY DEF IInv, TypeOK, NoStrandedWaiter, HandOff, MoveTo, locks, queues
<1>4. RolledBackIsGone'
  BY DEF IInv, TypeOK, RolledBackIsGone, HandOff, MoveTo, locks, queues
<1>5. RetryIsFresh'
  BY DEF IInv, TypeOK, RetryIsFresh, Begun, HandOff, MoveTo, identity
<1>6. HasClient'
  BY DEF IInv, TypeOK, HasClient, Begun, HandOff, MoveTo, identity
<1>7. VictimHeadsCycle'
  BY DEF IInv, VictimHeadsCycle, HandOff, MoveTo
<1>8. QED BY <1>1, <1>2, <1>3, <1>4, <1>5, <1>6, <1>7 DEF IInv

LEMMA CompleteKeeps ==
  ASSUME IInv, NEW t \in Transactions, NEW ts \in Timestamps,
         Complete(t, ts)
  PROVE  IInv'
<1>1. TypeOK'
  BY LockLabAssumption DEF IInv, TypeOK, Complete, MoveTo, identity, locks, queues,
         Statuses, Timestamps
<1>2. LockGraph'
  BY DEF IInv, TypeOK, LockGraph, Complete, MoveTo, locks, queues
<1>3. NoStrandedWaiter'
  BY DEF IInv, TypeOK, NoStrandedWaiter, Complete, MoveTo, locks, queues
<1>4. RolledBackIsGone'
  BY DEF IInv, TypeOK, RolledBackIsGone, Complete, MoveTo, locks, queues
<1>5. RetryIsFresh'
  BY DEF IInv, TypeOK, RetryIsFresh, Begun, Complete, MoveTo, identity
<1>6. HasClient'
  BY DEF IInv, TypeOK, HasClient, Begun, Complete, MoveTo, identity
<1>7. VictimHeadsCycle'
  BY DEF IInv, VictimHeadsCycle, Complete, MoveTo
<1>8. QED BY <1>1, <1>2, <1>3, <1>4, <1>5, <1>6, <1>7 DEF IInv

LEMMA DetectKeeps ==
  ASSUME IInv, NEW cycle \in SimpleCycles,
         Detect(cycle)
  PROVE  IInv'
<1>1. TypeOK'
  BY CyclesAreSequences DEF IInv, TypeOK, Detect, identity, locks, queues, Deadlock
<1>2. LockGraph'
  BY DEF IInv, LockGraph, Detect, locks, queues
<1>3. NoStrandedWaiter'
  BY DEF IInv, NoStrandedWaiter, Detect, locks, queues
<1>4. RolledBackIsGone'
  BY DEF IInv, TypeOK, RolledBackIsGone, Detect, locks, queues
<1>5. RetryIsFresh'
  BY DEF IInv, RetryIsFresh, Begun, Detect, identity
<1>6. HasClient'
  BY DEF IInv, HasClient, Begun, Detect, identity
<1>7. VictimHeadsCycle'
  BY DEF IInv, TypeOK, VictimHeadsCycle, Detect
<1>8. QED BY <1>1, <1>2, <1>3, <1>4, <1>5, <1>6, <1>7 DEF IInv

LEMMA SelectVictimKeeps ==
  ASSUME IInv, NEW t \in Transactions,
         SelectVictim(t)
  PROVE  IInv'
<1>1. TypeOK'
  BY DEF IInv, TypeOK, SelectVictim, identity, locks, queues, Deadlock
<1>2. LockGraph'
  BY DEF IInv, LockGraph, SelectVictim, locks, queues
<1>3. NoStrandedWaiter'
  BY DEF IInv, NoStrandedWaiter, SelectVictim, locks, queues
<1>4. RolledBackIsGone'
  BY DEF IInv, TypeOK, RolledBackIsGone, VictimHeadsCycle, SelectVictim, locks,
         queues, Deadlock
<1>5. RetryIsFresh'
  BY DEF IInv, RetryIsFresh, Begun, SelectVictim, identity
<1>6. HasClient'
  BY DEF IInv, HasClient, Begun, SelectVictim, identity
<1>7. VictimHeadsCycle'
  BY DEF IInv, TypeOK, VictimHeadsCycle, SelectVictim
<1>8. QED BY <1>1, <1>2, <1>3, <1>4, <1>5, <1>6, <1>7 DEF IInv

LEMMA ClientErrorKeeps ==
  ASSUME IInv, NEW t \in Transactions,
         ClientError(t)
  PROVE  IInv'
<1>1. TypeOK'
  BY DEF IInv, TypeOK, ClientError, identity, locks, queues, Deadlock
<1>2. LockGraph'
  BY DEF IInv, LockGraph, ClientError, locks, queues
<1>3. NoStrandedWaiter'
  BY DEF IInv, NoStrandedWaiter, ClientError, locks, queues
<1>4. RolledBackIsGone'
  BY DEF IInv, TypeOK, RolledBackIsGone, ClientError, locks, queues
<1>5. RetryIsFresh'
  BY DEF IInv, RetryIsFresh, Begun, ClientError, identity
<1>6. HasClient'
  BY DEF IInv, HasClient, Begun, ClientError, identity
<1>7. VictimHeadsCycle'
  BY DEF IInv, TypeOK, VictimHeadsCycle, ClientError
<1>8. QED BY <1>1, <1>2, <1>3, <1>4, <1>5, <1>6, <1>7 DEF IInv

LEMMA ResolveKeeps ==
  ASSUME IInv,
         Resolve
  PROVE  IInv'
<1>1. TypeOK'
  BY DEF IInv, TypeOK, Resolve, identity, locks, queues, Deadlock
<1>2. LockGraph'
  BY DEF IInv, LockGraph, Resolve, locks, queues
<1>3. NoStrandedWaiter'
  BY DEF IInv, NoStrandedWaiter, Resolve, locks, queues
<1>4. RolledBackIsGone'
  BY DEF IInv, TypeOK, RolledBackIsGone, Resolve, locks, queues
<1>5. RetryIsFresh'
  BY DEF IInv, RetryIsFresh, Begun, Resolve, identity
<1>6. HasClient'
  BY DEF IInv, HasClient, Begun, Resolve, identity
<1>7. VictimHeadsCycle'
  BY DEF IInv, TypeOK, VictimHeadsCycle, Resolve
<1>8. QED BY <1>1, <1>2, <1>3, <1>4, <1>5, <1>6, <1>7 DEF IInv

LEMMA ScheduleKeeps ==
  ASSUME IInv, NEW t \in Transactions,
         Schedule(t)
  PROVE  IInv'
<1>1. TypeOK'
  BY DEF IInv, TypeOK, HasClient, Begun, Schedule, identity, locks, queues, Retry
<1>2. LockGraph'
  BY DEF IInv, LockGraph, Schedule, locks, queues
<1>3. NoStrandedWaiter'
  BY DEF IInv, NoStrandedWaiter, Schedule, locks, queues
<1>4. RolledBackIsGone'
  BY DEF IInv, RolledBackIsGone, Schedule, locks, queues
<1>5. RetryIsFresh'
  BY DEF IInv, RetryIsFresh, Begun, Schedule, identity
<1>6. HasClient'
  BY DEF IInv, HasClient, Begun, Schedule, identity
<1>7. VictimHeadsCycle'
  BY DEF IInv, VictimHeadsCycle, Schedule
<1>8. QED BY <1>1, <1>2, <1>3, <1>4, <1>5, <1>6, <1>7 DEF IInv

LEMMA StartRetryKeeps ==
  ASSUME IInv, NEW t \in Transactions,
         StartRetry(t)
  PROVE  IInv'
<1>1. TypeOK'
  BY DEF IInv, TypeOK, StartRetry, identity, locks, queues, Retry
<1>2. LockGraph'
  BY DEF IInv, LockGraph, StartRetry, locks, queues
<1>3. NoStrandedWaiter'
  BY DEF IInv, NoStrandedWaiter, StartRetry, locks, queues
<1>4. RolledBackIsGone'
  BY DEF IInv, RolledBackIsGone, StartRetry, locks, queues
<1>5. RetryIsFresh'
  BY DEF IInv, RetryIsFresh, Begun, StartRetry, identity
<1>6. HasClient'
  BY DEF IInv, HasClient, Begun, StartRetry, identity
<1>7. VictimHeadsCycle'
  BY DEF IInv, VictimHeadsCycle, StartRetry
<1>8. QED BY <1>1, <1>2, <1>3, <1>4, <1>5, <1>6, <1>7 DEF IInv

LEMMA FinishRetryKeeps ==
  ASSUME IInv,
         FinishRetry
  PROVE  IInv'
<1>1. TypeOK'
  BY DEF IInv, TypeOK, FinishRetry, identity, locks, queues, Retry
<1>2. LockGraph'
  BY DEF IInv, LockGraph, FinishRetry, locks, queues
<1>3. NoStrandedWaiter'
  BY DEF IInv, NoStrandedWaiter, FinishRetry, locks, queues
<1>4. RolledBackIsGone'
  BY DEF IInv, RolledBackIsGone, FinishRetry, locks, queues
<1>5. RetryIsFresh'
  BY DEF IInv, RetryIsFresh, Begun, FinishRetry, identity
<1>6. HasClient'
  BY DEF IInv, HasClient, Begun, FinishRetry, identity
<1>7. VictimHeadsCycle'
  BY DEF IInv, VictimHeadsCycle, FinishRetry
<1>8. QED BY <1>1, <1>2, <1>3, <1>4, <1>5, <1>6, <1>7 DEF IInv

-----------------------------------------------------------------------------
LEMMA Initially == Init => IInv
  BY LockLabAssumption
  DEF Init, IInv, TypeOK, Statuses, LockGraph, NoStrandedWaiter, RolledBackIsGone,
      RetryIsFresh, HasClient, VictimHeadsCycle, Begun

LEMMA StutterKeeps == ASSUME IInv, UNCHANGED vars PROVE IInv'
  BY DEF IInv, vars, identity, locks, queues, TypeOK, LockGraph, NoStrandedWaiter,
         RolledBackIsGone, RetryIsFresh, HasClient, VictimHeadsCycle, Begun

LEMMA NextKeeps == IInv /\ [Next]_vars => IInv'
<1> SUFFICES ASSUME IInv, [Next]_vars PROVE IInv'
  OBVIOUS
<1>1. CASE LockStep
  BY <1>1, AcquireKeeps, ReleaseKeeps, EnqueueKeeps, DequeueKeeps, AddEdgeKeeps
  DEF LockStep
<1>2. CASE TransactionStep
  BY <1>2, BeginKeeps, BeginRetryKeeps, CompleteKeeps, VictimizeKeeps, RollBackKeeps,
     HandOffKeeps
  DEF TransactionStep
<1>3. CASE DeadlockStep
  BY <1>3, RemoveEdgeKeeps, DetectKeeps, SelectVictimKeeps, ClientErrorKeeps, ResolveKeeps
  DEF DeadlockStep
<1>4. CASE RetryStep
  BY <1>4, ScheduleKeeps, StartRetryKeeps, FinishRetryKeeps DEF RetryStep
<1>5. CASE UNCHANGED vars
  BY <1>5, StutterKeeps
<1>6. QED BY <1>1, <1>2, <1>3, <1>4, <1>5 DEF Next

(* Every state of the reducer satisfies the inductive invariant.           *)
THEOREM Inductive == Spec => []IInv
  BY Initially, NextKeeps, PTL DEF Spec

(* Types, and a commit timestamp exactly when the status says completed.   *)
THEOREM TypeCorrect == Spec => []TypeOK
<1>1. IInv => TypeOK BY DEF IInv
<1>2. QED BY <1>1, Inductive, PTL

(* validateLockGraph never throws, for any number of transactions and      *)
(* resources.                                                              *)
THEOREM GraphIsValid == Spec => []LockGraph
<1>1. IInv => LockGraph BY DEF IInv
<1>2. QED BY <1>1, Inductive, PTL

(* The state reduceLockLabState returns is always one it would accept.     *)
THEOREM LabIsValid == Spec => []LabValid
<1>1. TypeOK /\ LockGraph => LabValid BY DEF LabValid
<1>2. QED BY <1>1, TypeCorrect, GraphIsValid, PTL

(* Nobody waits for a resource that is free or that it holds itself.       *)
THEOREM WaitersAreServed == Spec => []NoStrandedWaiter
<1>1. IInv => NoStrandedWaiter BY DEF IInv
<1>2. QED BY <1>1, Inductive, PTL

(* A rolled-back transaction has left locks, queues and graph, and the     *)
(* client error names a victim of which that is true.                      *)
THEOREM VictimsAreGone == Spec => []RolledBackIsGone
<1>1. IInv => RolledBackIsGone BY DEF IInv
<1>2. QED BY <1>1, Inductive, PTL

(* Releases and rollbacks leave neither stranded waiters nor locks of the  *)
(* dead behind.                                                            *)
THEOREM ReleasesAreWhole == Spec => []NothingLeftBehind
<1>1. NoStrandedWaiter /\ RolledBackIsGone => NothingLeftBehind
  BY DEF NothingLeftBehind
<1>2. QED BY <1>1, WaitersAreServed, VictimsAreGone, PTL

(* A retry is the same client's next attempt on a later timestamp.         *)
THEOREM RetriesAreFresh == Spec => []RetryIsFresh
<1>1. IInv => RetryIsFresh BY DEF IInv
<1>2. QED BY <1>1, Inductive, PTL

-----------------------------------------------------------------------------
(* The commit boundary.  HandedOff says what one step may do to a          *)
(* transaction that is past it.                                            *)
HandedOff(t) ==
  /\ status[t] \in {"commit_handoff", "completed", "rolled_back"} =>
       held'[t] \subseteq held[t] /\ waiting'[t] = None
  /\ status[t] \in {"completed", "rolled_back"} => status'[t] = status[t]

(* Only Acquire adds a lock and only Enqueue starts a wait, and both need  *)
(* an active transaction.                                                  *)
LEMMA LockStepHandsOff ==
  ASSUME IInv, LockStep, NEW u \in Transactions
  PROVE  HandedOff(u)
<1>1. waiting[u] # None => status[u] \in {"waiting", "victim"}
  BY DEF IInv, LockGraph
<1> USE <1>1 DEF HandedOff
<1>2. ASSUME NEW t \in Transactions, NEW r \in Resources, Acquire(t, r)
      PROVE  HandedOff(u)
  BY <1>2 DEF IInv, TypeOK, Acquire, MayLock, queues
<1>3. ASSUME NEW t \in Transactions, NEW r \in Resources, Release(t, r)
      PROVE  HandedOff(u)
  BY <1>3 DEF IInv, TypeOK, Release, queues
<1>4. ASSUME NEW t \in Transactions, NEW r \in Resources, Enqueue(t, r)
      PROVE  HandedOff(u)
  BY <1>4 DEF IInv, TypeOK, Enqueue, locks
<1>5. ASSUME NEW t \in Transactions, NEW r \in Resources, Dequeue(t, r)
      PROVE  HandedOff(u)
  BY <1>5 DEF IInv, TypeOK, Dequeue, locks
<1>6. ASSUME NEW t \in Transactions, NEW h \in Transactions, NEW r \in Resources,
             AddEdge(t, h, r)
      PROVE  HandedOff(u)
  BY <1>6 DEF AddEdge, locks, queues
<1>7. QED
  BY <1>2, <1>3, <1>4, <1>5, <1>6 DEF LockStep

LEMMA OtherStepHandsOff ==
  ASSUME IInv, TransactionStep \/ DeadlockStep \/ RetryStep, NEW u \in Transactions
  PROVE  HandedOff(u)
<1>1. waiting[u] # None => status[u] \in {"waiting", "victim"}
  BY DEF IInv, LockGraph
<1>2. CASE TransactionStep
  <2>1. UNCHANGED <<held, waiting>>
    BY <1>2 DEF TransactionStep, Begin, BeginRetry, Enter, Victimize, RollBack, HandOff,
                Complete, MoveTo, locks, queues
  <2>2. status[u] \in {"completed", "rolled_back"} => status'[u] = status[u]
    BY <1>2 DEF IInv, TypeOK, TransactionStep, Begin, BeginRetry, Enter, Victimize,
                RollBack, HandOff, Complete, MoveTo
  <2>3. QED
    BY <1>1, <2>1, <2>2 DEF HandedOff
<1>3. CASE DeadlockStep \/ RetryStep
  <2>1. UNCHANGED <<status, held, waiting>>
    BY <1>3 DEF DeadlockStep, RemoveEdge, Detect, SelectVictim, ClientError, Resolve,
                RetryStep, Schedule, StartRetry, FinishRetry, locks, queues
  <2>2. QED
    BY <1>1, <2>1 DEF HandedOff
<1>4. QED
  BY <1>2, <1>3

(* After the commit handoff a transaction neither locks nor waits, and     *)
(* completed and rolled-back transactions stay so.                         *)
THEOREM HandOffHolds == Spec => HandOffIsFinal
<1> DEFINE F == \A t \in Transactions :
       /\ status[t] \in {"commit_handoff", "completed", "rolled_back"} =>
            /\ held'[t] \subseteq held[t]
            /\ waiting'[t] = None
       /\ status[t] \in {"completed", "rolled_back"} => status'[t] = status[t]
<1>1. IInv /\ [Next]_vars => [F]_vars
  BY LockStepHandsOff, OtherStepHandsOff DEF Next, HandedOff
<1> HIDE DEF F
<1>2. Spec => [][F]_vars
  BY <1>1, Inductive, PTL DEF Spec
<1>3. QED
  BY <1>2 DEF HandOffIsFinal, F
============================================================================

------------------------------ MODULE LockLab ------------------------------
(***************************************************************************)
(* reduceLockLabState of src/tidb/model/lock-lab.ts: pessimistic locks in  *)
(* leader memory, their wait queues, the wait-for graph, one deadlock and  *)
(* one application retry.  Each delta kind and action of the reducer is an *)
(* action here; a delta that fails one of the reducer's checks throws and  *)
(* changes nothing, so the checks are the guards.                          *)
(*                                                                         *)
(* After every delta the code runs validateLockGraph over the whole state. *)
(* Only one of its clauses is a guard here (one outgoing edge per waiter,  *)
(* in AddEdge): that the others never fire is the invariant LockGraph.     *)
(*                                                                         *)
(* A wait queue is a set: its order decides nothing, because the reducer   *)
(* is told whom to dequeue and the caller picks the smallest start_ts.     *)
(***************************************************************************)
EXTENDS Integers, Sequences

CONSTANTS Transactions,  \* transaction ids
          Resources,     \* resource ids, each with a fixed Region and leader
          Clients,
          MaxTs,         \* bound on timestamps
          None           \* JavaScript's null

ASSUME LockLabAssumption ==
  /\ MaxTs \in Nat
  /\ None \notin Transactions \cup Resources \cup Clients \cup Nat

VARIABLES status,    \* transaction status, "absent" before it begins
          client,
          attempt,
          retryOf,
          startTs,
          commitTs,
          held,      \* heldResourceIds
          waiting,   \* waitingForResourceId
          holder,    \* holderTransactionId of a resource
          waiters,   \* waiterTransactionIds of a resource
          edges,     \* waitForEdges
          deadlock,
          retry      \* applicationRetry

identity == <<client, attempt, retryOf, startTs>>
locks == <<held, holder>>
queues == <<waiting, waiters>>
vars == <<status, commitTs, identity, locks, queues, edges, deadlock, retry>>

Statuses == {"absent", "active", "waiting", "victim", "rolled_back",
             "commit_handoff", "completed"}
Edge == [waiter : Transactions, holder : Transactions, resource : Resources]
Timestamps == 1..MaxTs

Deadlock == [cycle : Seq(Transactions),
             victim : Transactions \cup {None},
             resolution : {"detected", "rolling_back", "resolved"},
             error : Transactions \cup {None}]

Retry == [client : Clients,
          retryOf : Transactions,
          status : {"backoff", "started", "completed"},
          new : Transactions \cup {None}]

Begun == {t \in Transactions : status[t] # "absent"}

-----------------------------------------------------------------------------
(* createLockLabState *)
Init ==
  /\ status = [t \in Transactions |-> "absent"]
  /\ client = [t \in Transactions |-> None]
  /\ attempt = [t \in Transactions |-> 0]
  /\ retryOf = [t \in Transactions |-> None]
  /\ startTs = [t \in Transactions |-> None]
  /\ commitTs = [t \in Transactions |-> None]
  /\ held = [t \in Transactions |-> {}]
  /\ waiting = [t \in Transactions |-> None]
  /\ holder = [r \in Resources |-> None]
  /\ waiters = [r \in Resources |-> {}]
  /\ edges = {}
  /\ deadlock = None
  /\ retry = None

-----------------------------------------------------------------------------
(* lock_transaction_begin *)
Enter(t, c, n, previous, ts) ==
  /\ status[t] = "absent"
  /\ status' = [status EXCEPT ![t] = "active"]
  /\ client' = [client EXCEPT ![t] = c]
  /\ attempt' = [attempt EXCEPT ![t] = n]
  /\ retryOf' = [retryOf EXCEPT ![t] = previous]
  /\ startTs' = [startTs EXCEPT ![t] = ts]
  /\ UNCHANGED <<commitTs, locks, queues, edges, deadlock, retry>>

Begin(t, c, ts) == Enter(t, c, 1, None, ts)

LaterThan(ts, previous) == ts > startTs[previous]

BeginRetry(t, previous, ts) ==
  /\ status[previous] = "rolled_back"
  /\ LaterThan(ts, previous)
  /\ retry # None
  /\ retry.status = "started"
  /\ retry.new = t
  /\ Enter(t, client[previous], attempt[previous] + 1, previous, ts)

(* lock_transaction_status, one action per transition it supports.         *)
MoveTo(t, from, to) ==
  /\ status[t] = from
  /\ status' = [status EXCEPT ![t] = to]
  /\ UNCHANGED <<identity, locks, queues, edges, deadlock, retry>>

Victimize(t) == MoveTo(t, "waiting", "victim") /\ UNCHANGED commitTs

LocksGone(t) == held[t] = {} /\ waiting[t] = None

RollBack(t) ==
  /\ LocksGone(t)
  /\ MoveTo(t, "victim", "rolled_back")
  /\ UNCHANGED commitTs

HandOff(t) == MoveTo(t, "active", "commit_handoff") /\ UNCHANGED commitTs

Complete(t, ts) ==
  /\ status[t] = "commit_handoff"
  /\ ts > startTs[t]
  /\ commitTs' = [commitTs EXCEPT ![t] = ts]
  /\ MoveTo(t, "commit_handoff", "completed")

-----------------------------------------------------------------------------
(* lock_owner.  Mutant: a handed-off transaction still takes locks.        *)
MayLockUntilCommit(t) == status[t] \in {"active", "commit_handoff"}

MayLock(t) == status[t] = "active"

Acquire(t, r) ==
  /\ MayLock(t)
  /\ holder[r] = None
  /\ waiters[r] = {}
  /\ r \notin held[t]
  /\ holder' = [holder EXCEPT ![r] = t]
  /\ held' = [held EXCEPT ![t] = held[t] \cup {r}]
  /\ UNCHANGED <<status, commitTs, identity, queues, edges, deadlock, retry>>

(* Mutants: the release leaves the queue, or the graph, for later.         *)
NoEdgeToHolder(t, r) == \A e \in edges : ~(e.resource = r /\ e.holder = t)
QueueLeft(t, r) == NoEdgeToHolder(t, r)

QueueResolved(t, r) == waiters[r] = {} /\ NoEdgeToHolder(t, r)

Release(t, r) ==
  /\ holder[r] = t
  /\ QueueResolved(t, r)
  /\ holder' = [holder EXCEPT ![r] = None]
  /\ held' = [held EXCEPT ![t] = held[t] \ {r}]
  /\ UNCHANGED <<status, commitTs, identity, queues, edges, deadlock, retry>>

(* lock_wait_queue *)
Enqueue(t, r) ==
  /\ status[t] = "active"
  /\ holder[r] \notin {None, t}
  /\ waiting[t] = None
  /\ t \notin waiters[r]
  /\ waiters' = [waiters EXCEPT ![r] = waiters[r] \cup {t}]
  /\ waiting' = [waiting EXCEPT ![t] = r]
  /\ status' = [status EXCEPT ![t] = "waiting"]
  /\ UNCHANGED <<commitTs, identity, locks, edges, deadlock, retry>>

(* Mutant: the waiter leaves the queue before its edge leaves the graph.   *)
EdgeKept(t, r) == TRUE

EdgeGone(t, r) == \A e \in edges : ~(e.resource = r /\ e.waiter = t)

Dequeue(t, r) ==
  /\ t \in waiters[r]
  /\ EdgeGone(t, r)
  /\ waiters' = [waiters EXCEPT ![r] = waiters[r] \ {t}]
  /\ waiting' = [waiting EXCEPT ![t] = None]
  /\ status' = [status EXCEPT ![t] = IF status[t] = "waiting" THEN "active" ELSE status[t]]
  /\ UNCHANGED <<commitTs, identity, locks, edges, deadlock, retry>>

(* wait_for_edge; the last guard of AddEdge is validateLockGraph's.        *)
AddEdge(t, h, r) ==
  /\ holder[r] = h
  /\ t \in waiters[r]
  /\ \A e \in edges : e.waiter # t
  /\ edges' = edges \cup {[waiter |-> t, holder |-> h, resource |-> r]}
  /\ UNCHANGED <<status, commitTs, identity, locks, queues, deadlock, retry>>

RemoveEdge(e) ==
  /\ edges' = edges \ {e}
  /\ UNCHANGED <<status, commitTs, identity, locks, queues, deadlock, retry>>

-----------------------------------------------------------------------------
(* deadlock_state: detect takes the cycle detectWaitForCycle found, which  *)
(* is simple and repeats its first transaction at the end.                 *)
WaitsFor(t, h) == \E e \in edges : e.waiter = t /\ e.holder = h

Detect(cycle) ==
  /\ deadlock = None
  /\ Len(cycle) >= 3
  /\ cycle[1] = cycle[Len(cycle)]
  /\ \A k \in 1..(Len(cycle) - 1) : WaitsFor(cycle[k], cycle[k + 1])
  /\ deadlock' = [cycle |-> cycle, victim |-> None, resolution |-> "detected", error |-> None]
  /\ UNCHANGED <<status, commitTs, identity, locks, queues, edges, retry>>

SelectVictim(t) ==
  /\ deadlock # None
  /\ t = deadlock.cycle[1]
  /\ deadlock' = [deadlock EXCEPT !.victim = t, !.resolution = "rolling_back"]
  /\ UNCHANGED <<status, commitTs, identity, locks, queues, edges, retry>>

Resolve ==
  /\ deadlock # None
  /\ deadlock' = [deadlock EXCEPT !.resolution = "resolved"]
  /\ UNCHANGED <<status, commitTs, identity, locks, queues, edges, retry>>

(* deadlock_client_error *)
ClientError(t) ==
  /\ deadlock # None
  /\ deadlock.resolution = "resolved"
  /\ deadlock.error = None
  /\ deadlock.victim = t
  /\ status[t] = "rolled_back"
  /\ deadlock' = [deadlock EXCEPT !.error = t]
  /\ UNCHANGED <<status, commitTs, identity, locks, queues, edges, retry>>

-----------------------------------------------------------------------------
(* application_retry *)
Schedule(t) ==
  /\ retry = None
  /\ status[t] = "rolled_back"
  /\ retry' = [client |-> client[t], retryOf |-> t, status |-> "backoff", new |-> None]
  /\ UNCHANGED <<status, commitTs, identity, locks, queues, edges, deadlock>>

(* The reducer does not ask for the backoff status: a retry whose new      *)
(* transaction never began may be begun again under another id.            *)
StartRetry(t) ==
  /\ retry # None
  /\ t # retry.retryOf
  /\ status[t] = "absent"
  /\ retry' = [retry EXCEPT !.status = "started", !.new = t]
  /\ UNCHANGED <<status, commitTs, identity, locks, queues, edges, deadlock>>

FinishRetry ==
  /\ retry # None
  /\ retry.new # None
  /\ status[retry.new] = "completed"
  /\ retry' = [retry EXCEPT !.status = "completed"]
  /\ UNCHANGED <<status, commitTs, identity, locks, queues, edges, deadlock>>

-----------------------------------------------------------------------------
SimpleCycles ==
  {c \in UNION {[1..n -> Transactions] : n \in 3..4} :
     /\ c[1] = c[Len(c)]
     /\ \A j, k \in 1..(Len(c) - 1) : c[j] = c[k] => j = k}

LockStep ==
  \E t \in Transactions, r \in Resources :
     \/ Acquire(t, r)
     \/ Release(t, r)
     \/ Enqueue(t, r)
     \/ Dequeue(t, r)
     \/ \E h \in Transactions : AddEdge(t, h, r)

TransactionStep ==
  \E t \in Transactions :
     \/ \E ts \in Timestamps :
          \/ \E c \in Clients : Begin(t, c, ts)
          \/ \E previous \in Transactions : BeginRetry(t, previous, ts)
          \/ Complete(t, ts)
     \/ Victimize(t)
     \/ RollBack(t)
     \/ HandOff(t)

DeadlockStep ==
  \/ \E e \in edges : RemoveEdge(e)
  \/ \E c \in SimpleCycles : Detect(c)
  \/ \E t \in Transactions : SelectVictim(t) \/ ClientError(t)
  \/ Resolve

RetryStep ==
  \/ \E t \in Transactions : Schedule(t) \/ StartRetry(t)
  \/ FinishRetry

Next == LockStep \/ TransactionStep \/ DeadlockStep \/ RetryStep

Spec == Init /\ [][Next]_vars

-----------------------------------------------------------------------------
TypeOK ==
  /\ status \in [Transactions -> Statuses]
  /\ client \in [Transactions -> Clients \cup {None}]
  /\ attempt \in [Transactions -> Nat]
  /\ retryOf \in [Transactions -> Transactions \cup {None}]
  /\ startTs \in [Transactions -> Timestamps \cup {None}]
  /\ commitTs \in [Transactions -> Timestamps \cup {None}]
  /\ \A t \in Transactions : commitTs[t] # None <=> status[t] = "completed"
  /\ held \in [Transactions -> SUBSET Resources]
  /\ waiting \in [Transactions -> Resources \cup {None}]
  /\ holder \in [Resources -> Transactions \cup {None}]
  /\ waiters \in [Resources -> SUBSET Transactions]
  /\ edges \subseteq Edge
  /\ deadlock \in Deadlock \cup {None}
  /\ retry \in Retry \cup {None}

(* validateLockGraph never throws: the two copies of ownership agree, the  *)
(* two copies of waiting agree, only a waiting or a chosen victim waits,   *)
(* and every wait-for edge leads from a queued waiter to the transaction   *)
(* that holds the resource right now, so a detected cycle is a real one.   *)
LockGraph ==
  /\ \A t \in Transactions, r \in Resources : r \in held[t] <=> holder[r] = t
  /\ \A t \in Transactions, r \in Resources : t \in waiters[r] <=> waiting[t] = r
  /\ \A t \in Transactions : waiting[t] # None => status[t] \in {"waiting", "victim"}
  /\ \A e \in edges : holder[e.resource] = e.holder /\ e.waiter \in waiters[e.resource]
  /\ \A e, f \in edges : e.waiter = f.waiter => e = f

(* What every delta leaves behind: fields of their types, a graph that     *)
(* validateLockGraph accepts.                                              *)
LabValid == TypeOK /\ LockGraph

(* No waiter is stranded: whoever is queued, or merely has the waiting     *)
(* status, waits for a resource that another transaction holds, however    *)
(* releases, wake-ups and rollbacks interleave.                            *)
NoStrandedWaiter ==
  /\ \A r \in Resources : waiters[r] # {} => holder[r] # None /\ holder[r] \notin waiters[r]
  /\ \A t \in Transactions : status[t] = "waiting" => waiting[t] # None

(* A transaction that has rolled back, or told its client so, left nothing *)
(* behind: no lock, no queue entry, no edge in or out.                     *)
RolledBackIsGone ==
  /\ \A t \in Transactions : status[t] = "rolled_back" =>
       /\ held[t] = {} /\ waiting[t] = None
       /\ \A e \in edges : e.waiter # t /\ e.holder # t
  /\ deadlock # None /\ deadlock.error # None =>
       deadlock.error = deadlock.victim /\ status[deadlock.error] = "rolled_back"

(* However locks change hands or are given up, nobody is left waiting for  *)
(* nothing, and whoever gave up is nowhere in the way.                     *)
NothingLeftBehind == NoStrandedWaiter /\ RolledBackIsGone

(* A retry is a new attempt of the same client on a later timestamp, and   *)
(* what it retries stays rolled back.                                      *)
RetryIsFresh ==
  \A t \in Begun : retryOf[t] # None =>
     /\ status[retryOf[t]] = "rolled_back"
     /\ client[t] = client[retryOf[t]]
     /\ attempt[t] = attempt[retryOf[t]] + 1
     /\ startTs[t] > startTs[retryOf[t]]

(* Locking is two-phase around the commit boundary: after the handoff a    *)
(* transaction never takes another lock or waits, and the terminal states  *)
(* are never left.                                                         *)
HandOffIsFinal ==
  [][\A t \in Transactions :
       /\ status[t] \in {"commit_handoff", "completed", "rolled_back"} =>
            /\ held'[t] \subseteq held[t]
            /\ waiting'[t] = None
       /\ status[t] \in {"completed", "rolled_back"} => status'[t] = status[t]]_vars
=============================================================================

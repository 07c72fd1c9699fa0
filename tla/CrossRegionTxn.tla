---------------------------- MODULE CrossRegionTxn ----------------------------
(***************************************************************************)
(* What the snapshots of the cross-region-transaction scenario show of one *)
(* pessimistic 2PC transaction over two Regions (projection in             *)
(* traceDetailedCrossRegionTransaction of src/tidb/model/simulation.ts):   *)
(* its stage and timestamps, and for each Region the newest Raft entry and *)
(* the locks and records of the transaction.  One action per event.  The   *)
(* code checks nothing here: only a stage names the one it comes from.     *)
(* Entries are counted from the start of the scenario.                     *)
(***************************************************************************)
EXTENDS Integers

CONSTANT None   \* JavaScript's null

VARIABLES stage, startTs, commitTs,
          responded,    \* clientResponded
          entry,        \* the Raft group of each Region
          pessimistic,  \* the Regions whose leader holds the lock in memory
          prewritten,   \* ... with a lock in lock CF
          committed     \* ... with a record in write CF

vars == <<stage, startTs, commitTs, responded, entry, pessimistic, prewritten, committed>>

Primary == 1
Secondary == 2
Regions == {Primary, Secondary}

Init ==
  /\ stage = "none" /\ startTs = None /\ commitTs = None /\ responded = FALSE
  /\ entry = [r \in Regions |->
                [proposed |-> 0, acknowledgements |-> 0, commitIndex |-> 0, appliedIndex |-> 0]]
  /\ pessimistic = {} /\ prewritten = {} /\ committed = {}

Stage(from, to) ==
  /\ stage = from /\ stage' = to
  /\ UNCHANGED <<startTs, commitTs, responded, entry, pessimistic, prewritten, committed>>

Start(ts) ==
  /\ stage = "none" /\ stage' = "active" /\ startTs' = ts
  /\ UNCHANGED <<commitTs, responded, entry, pessimistic, prewritten, committed>>

\* Leader memory only: no Raft entry.  The first lock moves the stage.
PessimisticLock(r) ==
  /\ stage \in {"active", "locking"} /\ stage' = "locking"
  /\ pessimistic' = pessimistic \cup {r}
  /\ UNCHANGED <<startTs, commitTs, responded, entry, prewritten, committed>>

-----------------------------------------------------------------------------
(* One Raft entry of a Region, at two of its three voters.                 *)
Entry(r, new) ==
  /\ entry' = [entry EXCEPT ![r] = new]
  /\ UNCHANGED <<stage, startTs, commitTs, responded, pessimistic, prewritten, committed>>

RaftPropose(r, index) ==
  Entry(r, [entry[r] EXCEPT !.proposed = index, !.acknowledgements = 0])

RaftPersist(r) == Entry(r, [entry[r] EXCEPT !.acknowledgements = 2])

RaftCommit(r, index) == Entry(r, [entry[r] EXCEPT !.commitIndex = index])

RaftApply(r, index) == Entry(r, [entry[r] EXCEPT !.appliedIndex = index])

-----------------------------------------------------------------------------
\* The lock in memory gives way to the lock in lock CF.
MvccPrewrite(r) ==
  /\ pessimistic' = pessimistic \ {r}
  /\ prewritten' = prewritten \cup {r}
  /\ UNCHANGED <<stage, startTs, commitTs, responded, entry, committed>>

CommitTimestamp(ts) ==
  /\ stage = "prewritten" /\ stage' = "committing_primary" /\ commitTs' = ts
  /\ UNCHANGED <<startTs, responded, entry, pessimistic, prewritten, committed>>

MvccCommit(r) ==
  /\ prewritten' = prewritten \ {r}
  /\ committed' = committed \cup {r}
  /\ UNCHANGED <<stage, startTs, commitTs, responded, entry, pessimistic>>

Respond ==
  /\ stage = "committing_primary" /\ stage' = "client_acknowledged" /\ responded' = TRUE
  /\ UNCHANGED <<startTs, commitTs, entry, pessimistic, prewritten, committed>>

-----------------------------------------------------------------------------
(* What 2PC over Raft promises of every state a trace shows: a record is   *)
(* there only once its entry went through quorum and apply, PD is asked    *)
(* for a commit timestamp only once every Region is prewritten, nothing is *)
(* committed before that, the client hears of it after the primary, the    *)
(* secondary follows the client, and from its first lock to its commit     *)
(* record no Region is ever left unprotected.                              *)
CommitFollowsPrewrites ==
  /\ \A r \in Regions :
       /\ entry[r].appliedIndex <= entry[r].commitIndex
       /\ entry[r].commitIndex <= entry[r].proposed
       /\ entry[r].commitIndex = entry[r].proposed /\ entry[r].proposed > 0
            => entry[r].acknowledgements = 2
       /\ r \in prewritten => entry[r].appliedIndex >= 1
       /\ r \in committed => entry[r].appliedIndex >= 2
  /\ commitTs # None => startTs < commitTs /\ prewritten \cup committed = Regions
  /\ committed # {} => commitTs # None
  /\ responded => Primary \in committed
  /\ Secondary \in committed => responded
  /\ stage \notin {"none", "active", "locking"} =>
       pessimistic \cup prewritten \cup committed = Regions
  /\ stage = "complete" => committed = Regions /\ prewritten = {}
=============================================================================

---------------------------- MODULE Commitment ----------------------------
(***************************************************************************)
(* What committing transactions over several Regions promises, whatever    *)
(* the protocol: no Region commits, and the client hears nothing, before   *)
(* every Region has prepared; and nothing of it is ever taken back.        *)
(***************************************************************************)
CONSTANTS Transactions,
          Regions        \* the set of Regions of each transaction

VARIABLES prepared,   \* Regions that hold the transaction's locks, or did
          committed,  \* Regions whose data carries its commit record
          answered    \* the transactions whose client was told

vars == <<prepared, committed, answered>>

Init ==
  /\ prepared = [t \in Transactions |-> {}]
  /\ committed = [t \in Transactions |-> {}]
  /\ answered = {}

Prepare(t, r) ==
  /\ prepared' = [prepared EXCEPT ![t] = @ \cup {r}]
  /\ UNCHANGED <<committed, answered>>

CommitAt(t, r) ==
  /\ prepared[t] = Regions[t]
  /\ committed' = [committed EXCEPT ![t] = @ \cup {r}]
  /\ UNCHANGED <<prepared, answered>>

(* A transaction with one Region may prepare and commit in one step.       *)
OnePhase(t) ==
  /\ \E r \in Regions[t] : Regions[t] = {r}
  /\ prepared' = [prepared EXCEPT ![t] = Regions[t]]
  /\ committed' = [committed EXCEPT ![t] = Regions[t]]
  /\ UNCHANGED answered

Answer(t) ==
  /\ prepared[t] = Regions[t]
  /\ answered' = answered \cup {t}
  /\ UNCHANGED <<prepared, committed>>

Next ==
  \E t \in Transactions :
     \/ Answer(t)
     \/ OnePhase(t)
     \/ \E r \in Regions[t] : Prepare(t, r) \/ CommitAt(t, r)

Spec == Init /\ [][Next]_vars
=============================================================================

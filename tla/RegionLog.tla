----------------------------- MODULE RegionLog -----------------------------
(***************************************************************************)
(* What a Region promises its callers, with no replicas in sight: a        *)
(* committed prefix that only grows, reads that see all of it, and a split *)
(* that starts the new Region from its parent's prefix.                    *)
(***************************************************************************)
EXTENDS Integers

CONSTANT NoRead             \* no read has just been served

VARIABLES committed,        \* Region id -> length of its committed prefix
          observed          \* what the last read saw, or NoRead

logVars == <<committed, observed>>

(* Any history may precede the first step: the guided fixtures start with  *)
(* commands already committed.                                             *)
Init ==
  /\ DOMAIN committed # {}
  /\ \A id \in DOMAIN committed : id \in Nat /\ committed[id] \in Nat
  /\ observed = NoRead

(* The prefix before and after one command of Region id: the command, and  *)
(* before it the no-op of a new leader if one had to be elected.           *)
Grown(id) == {committed[id] + 1, committed[id] + 2}

(* A command, or a new leader's no-op alone, extends one Region's prefix.  *)
Extend(id) ==
  /\ \E n \in Grown(id) : committed' = [committed EXCEPT ![id] = n]
  /\ observed' = NoRead

(* A read may first have to elect a leader, whose no-op extends the prefix; *)
(* it then observes the whole prefix.                                      *)
Read(id) ==
  /\ \/ committed' = committed
     \/ committed' = [committed EXCEPT ![id] = committed[id] + 1]
  /\ observed' = [region |-> id, index |-> committed'[id]]

(* A split commits in the parent before the child appears, with the        *)
(* parent's prefix as its own.                                             *)
Fork(id) ==
  /\ \E child \in DOMAIN committed' \ DOMAIN committed, n \in Grown(id) :
        committed' = [x \in DOMAIN committed \cup {child} |->
                        IF x \in {id, child} THEN n ELSE committed[x]]
  /\ observed' = NoRead

(* Nothing is served any more, but nothing is lost either.                 *)
Idle == committed' = committed /\ observed' = NoRead

Next ==
  \/ \E id \in DOMAIN committed : Extend(id) \/ Read(id) \/ Fork(id)
  \/ Idle

Spec == Init /\ [][Next]_logVars
=============================================================================

-------------------------- MODULE SimulationProofs --------------------------
(***************************************************************************)
(* The engine for every value of the constants, in four parts: the         *)
(* timestamp oracle against the recorded transactions and the GC safe      *)
(* point, whichever exit a traced write takes; what its calls do to the    *)
(* Regions' logs, where the proofs of RegionRaft carry the group; the      *)
(* TiFlash queue against the oracle, after what a sum over a set is; and   *)
(* the Raft counters of a call against what the logs gained.  What is left *)
(* of the type invariant closes the module.                                *)
(***************************************************************************)
EXTENDS Simulation, SequenceTheorems, FiniteSetTheorems, WellFoundedInduction, TLAPS

IsClosed(e) == e.phase \in {"committed", "rolled_back"}

(* A list of finished transactions whose timestamps are behind an oracle   *)
(* at last: 1PC and Async Commit may be one ahead of it.                   *)
Recorded(T, last) ==
  /\ \E S : T \in Seq(S)
  /\ \A k \in 1..Len(T) :
       /\ IsClosed(T[k])
       /\ T[k].startTs \in Nat /\ T[k].startTs <= last
       /\ T[k].commitTs # Unset => /\ T[k].commitTs \in Nat
                                   /\ T[k].startTs < T[k].commitTs
                                   /\ T[k].commitTs <= last + 1
  /\ \A j, k \in 1..Len(T) : j < k =>
       /\ T[j].startTs < T[k].startTs
       /\ T[j].commitTs # Unset /\ T[k].commitTs # Unset => T[j].commitTs < T[k].commitTs

(* The safe point is behind the next timestamp, whichever of the clock and *)
(* the oracle is ahead.                                                    *)
Behind(g, t, last) ==
  /\ g.safePoint \in Nat /\ g.obsolete \in Nat /\ g.collected \in Nat
  /\ g.blockedByStartTs = Unset
  /\ g.safePoint < NextTs(t, last)

IInv ==
  /\ scope \in Scope
  /\ now \in Nat
  /\ tso.last \in Nat
  /\ Recorded(transactions, tso.last)
  /\ Len(transactions) <= MaxTransactions
  /\ Behind(gc, now, tso.last)

(* What a call may do to the collector.                                    *)
Advances(g, n) ==
  /\ n.safePoint >= g.safePoint
  /\ n.collected > g.collected => n.safePoint > g.safePoint
  /\ n.obsolete + n.collected >= g.obsolete + g.collected

-----------------------------------------------------------------------------
(* Timestamps.                                                             *)
LEMMA PhysicalMonotone ==
  ASSUME NEW a \in Nat, NEW b \in Nat, a < b
  PROVE  /\ Physical(a) \in Nat /\ Physical(b) \in Nat
         /\ Physical(a) < Physical(b)
<1>1. TickTs \in Nat /\ TickTs >= 1
  BY SimulationAssumption
<1>2. PICK d \in Nat : b = a + d /\ d >= 1
  <2>1. b - a \in Nat /\ b = a + (b - a) /\ b - a >= 1
    OBVIOUS
  <2>2. QED
    BY <2>1
<1>3. a * TickTs \in Nat /\ d * TickTs \in Nat /\ b * TickTs = a * TickTs + d * TickTs
  BY <1>1, <1>2
<1>4. d * TickTs >= 1
  BY <1>1, <1>2
<1>5. QED
  BY <1>3, <1>4 DEF Physical

LEMMA NextTsType ==
  ASSUME NEW t \in Nat, NEW last \in Nat
  PROVE  /\ NextTs(t, last) \in Nat
         /\ NextTs(t, last) > last
         /\ NextTs(t, last) >= Physical(t)
         /\ Physical(t) \in Nat
<1>1. Physical(t) \in Nat
  BY SimulationAssumption DEF Physical
<1>2. QED
  BY <1>1 DEF NextTs

(* The target of the safe point is behind the clock, and behind every      *)
(* timestamp the oracle may still return.                                  *)
LEMMA TargetIsBehind ==
  ASSUME NEW t \in Nat, NEW life \in Nat \ {0}, NEW last \in Nat
  PROVE  GcTarget(t, life) \in Nat /\ GcTarget(t, life) < NextTs(t, last)
<1>1. CASE t >= life
  <2>1. t - life \in Nat /\ t - life < t
    BY <1>1
  <2>2. Physical(t - life) \in Nat /\ Physical(t - life) < Physical(t) /\ Physical(t) \in Nat
    BY <2>1, PhysicalMonotone
  <2>3. QED
    BY <1>1, <2>2, NextTsType DEF GcTarget
<1>2. CASE ~(t >= life)
  BY <1>2, NextTsType DEF GcTarget
<1>3. QED
  BY <1>1, <1>2

LEMMA MinOfTwo ==
  ASSUME NEW a \in Int, NEW b \in Int
  PROVE  Min({a, b}) \in {a, b} /\ Min({a, b}) <= a /\ Min({a, b}) <= b
<1>1. \E x \in {a, b} : \A y \in {a, b} : x =< y
  <2>1. CASE a <= b
    BY <2>1
  <2>2. CASE b <= a
    BY <2>2
  <2>3. QED
    BY <2>1, <2>2
<1>2. QED
  BY <1>1 DEF Min

LEMMA MaxOfTwo ==
  ASSUME NEW a \in Int, NEW b \in Int
  PROVE  Max({a, b}) \in {a, b} /\ Max({a, b}) >= a /\ Max({a, b}) >= b
<1>1. \E x \in {a, b} : \A y \in {a, b} : x >= y
  <2>1. CASE a >= b
    BY <2>1
  <2>2. CASE b >= a
    BY <2>2
  <2>3. QED
    BY <2>1, <2>2
<1>2. QED
  BY <1>1 DEF Max

LEMMA CollectedBounded ==
  ASSUME NEW obsolete \in Nat, NEW advance \in Nat
  PROVE  Collected(obsolete, advance) \in Nat /\ Collected(obsolete, advance) <= obsolete
<1> DEFINE share == advance \div GcDivisor
<1>1. share \in Nat
  BY SimulationAssumption
<1> HIDE DEF share
<1>2. Max({1, share}) \in Nat
  BY <1>1, MaxOfTwo
<1>3. Min({obsolete, Max({1, share})}) \in Nat /\ Min({obsolete, Max({1, share})}) <= obsolete
  BY <1>2, MinOfTwo
<1>4. QED
  BY <1>3 DEF Collected, share

(* With nothing open, advanceGc moves the safe point forward to a target   *)
(* that is behind the clock, and only moves versions to the collected.     *)
LEMMA GcAdvancedOK ==
  ASSUME NEW g, gc = g, NEW t \in Nat, NEW last \in Nat, NEW u \in Nat, NEW v \in Nat,
         Behind(g, u, v), NextTs(u, v) <= NextTs(t, last),
         NEW life \in Nat \ {0}, NEW obsolete \in Nat, obsolete >= g.obsolete,
         NEW T, OpenStarts(T) = {}
  PROVE  /\ Behind(GcAdvanced(t, life, T, obsolete).gc, t, last)
         /\ Advances(g, GcAdvanced(t, life, T, obsolete).gc)
<1> DEFINE target == GcTarget(t, life)
           safe == IF target > g.safePoint THEN target ELSE g.safePoint
           ran == safe > g.safePoint /\ obsolete > 0
           taken == IF ran THEN Collected(obsolete, safe - g.safePoint) ELSE 0
           n == [safePoint |-> safe, blockedByStartTs |-> Unset, obsolete |-> obsolete - taken,
                 collected |-> g.collected + taken, backlog |-> obsolete - taken]
<1>1. GcAdvanced(t, life, T, obsolete).gc = n
  BY DEF GcAdvanced, SafePointAfter
<1>2. target \in Nat /\ target < NextTs(t, last)
  BY TargetIsBehind
<1>3. g.safePoint \in Nat /\ g.obsolete \in Nat /\ g.collected \in Nat /\ g.safePoint < NextTs(u, v)
  BY DEF Behind
<1> HIDE DEF target
<1>4. /\ safe \in Nat /\ safe >= g.safePoint
      /\ safe < NextTs(t, last)
  <2>1. NextTs(u, v) \in Nat /\ NextTs(t, last) \in Nat
    BY NextTsType
  <2>2. QED
    BY <1>2, <1>3, <2>1
<1> HIDE DEF safe
<1>5. taken \in Nat /\ taken <= obsolete /\ (taken > 0 => safe > g.safePoint)
  <2>1. CASE ran
    <3>1. safe - g.safePoint \in Nat /\ safe > g.safePoint
      BY <1>3, <1>4, <2>1
    <3>2. Collected(obsolete, safe - g.safePoint) \in Nat
          /\ Collected(obsolete, safe - g.safePoint) <= obsolete
      BY <3>1, CollectedBounded
    <3>3. QED
      BY <2>1, <3>1, <3>2
  <2>2. CASE ~ran
    BY <2>2
  <2>3. QED
    BY <2>1, <2>2
<1> HIDE DEF taken
<1>6. /\ n.safePoint = safe /\ n.blockedByStartTs = Unset
      /\ n.obsolete = obsolete - taken /\ n.collected = g.collected + taken
  OBVIOUS
<1> HIDE DEF n
<1>7. QED
  BY <1>1, <1>3, <1>4, <1>5, <1>6 DEF Behind, Advances

-----------------------------------------------------------------------------
(* The recorded transactions.                                              *)
LEMMA RecordedLater ==
  ASSUME NEW T, NEW a \in Nat, NEW b \in Nat, a <= b, Recorded(T, a)
  PROVE  Recorded(T, b)
BY DEF Recorded

LEMMA RecordedHasNothingOpen ==
  ASSUME NEW T, NEW last, Recorded(T, last)
  PROVE  OpenStarts(T) = {}
<1>1. DOMAIN T = 1..Len(T)
  BY DEF Recorded
<1>2. QED
  BY <1>1 DEF Recorded, OpenStarts, OpenPhases, IsClosed

(* What is left of a list of recorded transactions when the first is gone. *)
LEMMA TailRecorded ==
  ASSUME NEW T, NEW last \in Nat, Recorded(T, last), Len(T) >= 1
  PROVE  Recorded(Tail(T), last) /\ Len(Tail(T)) = Len(T) - 1
<1>1. PICK S : T \in Seq(S)
  BY DEF Recorded
<1>2. /\ Tail(T) \in Seq(S) /\ Len(Tail(T)) = Len(T) - 1
      /\ \A k \in 1..Len(Tail(T)) : Tail(T)[k] = T[k + 1] /\ k + 1 \in 1..Len(T)
  BY <1>1
<1>3. QED
  BY <1>1, <1>2 DEF Recorded

LEMMA AppendRecorded ==
  ASSUME NEW T, NEW last \in Nat, Recorded(T, last), NEW n \in Nat, n > last,
         NEW e, IsClosed(e), e.startTs \in Nat, e.startTs > last, e.startTs <= n,
         e.commitTs # Unset => /\ e.commitTs \in Nat
                               /\ e.startTs < e.commitTs /\ e.commitTs <= n + 1
  PROVE  Recorded(Append(T, e), n) /\ Len(Append(T, e)) = Len(T) + 1
<1>1. PICK S : T \in Seq(S)
  BY DEF Recorded
<1> DEFINE A == Append(T, e)
<1>2. /\ A \in Seq(S \cup {e}) /\ Len(A) = Len(T) + 1 /\ Len(T) \in Nat
      /\ A[Len(A)] = e
      /\ \A k \in 1..Len(T) : A[k] = T[k]
  BY <1>1
<1> HIDE DEF A
<1>3. \A k \in 1..Len(A) : k \in 1..Len(T) \/ k = Len(A)
  BY <1>2
<1>4. \A k \in 1..Len(A) :
       /\ IsClosed(A[k])
       /\ A[k].startTs \in Nat /\ A[k].startTs <= n
       /\ A[k].commitTs # Unset => /\ A[k].commitTs \in Nat
                                   /\ A[k].startTs < A[k].commitTs
                                   /\ A[k].commitTs <= n + 1
  BY <1>2, <1>3 DEF Recorded
<1>5. ASSUME NEW j \in 1..Len(A), NEW k \in 1..Len(A), j < k
      PROVE  /\ A[j].startTs < A[k].startTs
             /\ A[j].commitTs # Unset /\ A[k].commitTs # Unset => A[j].commitTs < A[k].commitTs
  <2>1. j \in 1..Len(T)
    BY <1>2, <1>3, <1>5
  <2>2. CASE k \in 1..Len(T)
    BY <1>2, <1>5, <2>1, <2>2 DEF Recorded
  <2>3. CASE k = Len(A)
    <3>1. A[k] = e /\ A[j] = T[j]
      BY <1>2, <2>1, <2>3
    <3>2. /\ T[j].startTs \in Nat /\ T[j].startTs <= last
          /\ T[j].commitTs # Unset => T[j].commitTs \in Nat /\ T[j].commitTs <= last + 1
      BY <2>1 DEF Recorded
    <3> DEFINE start == T[j].startTs
               commit == T[j].commitTs
               next == e.startTs
    <3> HIDE DEF start, commit, next
    <3>3. start \in Nat /\ next \in Nat /\ start <= last /\ last < next => start < next
      OBVIOUS
    <3>4. T[j].startTs < e.startTs
      BY <3>2, <3>3 DEF start, next
    <3>5. ASSUME T[j].commitTs # Unset, e.commitTs # Unset
          PROVE  T[j].commitTs < e.commitTs
      <4> DEFINE ends == e.commitTs
      <4>1. /\ commit \in Nat /\ commit <= last + 1 /\ next \in Nat /\ last < next
            /\ ends \in Nat /\ next < ends
        BY <3>2, <3>5 DEF commit, next
      <4> HIDE DEF ends
      <4>2. commit < ends
        BY <4>1
      <4>3. QED
        BY <4>2 DEF commit, ends
    <3>6. QED
      BY <3>1, <3>4, <3>5
  <2>4. QED
    BY <1>3, <2>2, <2>3
<1>6. Recorded(A, n)
  BY <1>2, <1>4, <1>5 DEF Recorded
<1>7. QED
  BY <1>2, <1>6 DEF A

LEMMA AppendBegun ==
  ASSUME NEW T, NEW last, Recorded(T, last), NEW e
  PROVE  /\ \E S : Append(T, e) \in Seq(S)
         /\ Len(Append(T, e)) = Len(T) + 1 /\ Len(T) \in Nat
         /\ Append(T, e)[Len(T) + 1] = e
         /\ \A k \in 1..Len(T) : Append(T, e)[k] = T[k]
<1>1. PICK S : T \in Seq(S)
  BY DEF Recorded
<1>2. Append(T, e) \in Seq(S \cup {e})
  BY <1>1
<1>3. QED
  BY <1>1, <1>2

(* trimTransactions drops the first entry when there are too many, as long *)
(* as all but the newest are finished.                                     *)
LEMMA TrimmedOK ==
  ASSUME NEW A, NEW S, A \in Seq(S), Len(A) <= MaxTransactions + 1,
         \A k \in 1..Len(A) : k < Len(A) => IsClosed(A[k])
  PROVE  Trimmed(A) = IF Len(A) <= MaxTransactions THEN A ELSE Tail(A)
<1> DEFINE finished == {k \in DOMAIN A : A[k].phase \notin OpenPhases}
<1>1. CASE Len(A) <= MaxTransactions
  BY <1>1 DEF Trimmed
<1>2. CASE Len(A) > MaxTransactions
  <2>1. Len(A) \in Nat /\ Len(A) >= 2 /\ DOMAIN A = 1..Len(A)
    BY <1>2, SimulationAssumption
  <2>2. 1 \in finished /\ \A k \in finished : k \in Nat /\ 1 <= k
    BY <2>1 DEF IsClosed, OpenPhases
  <2>3. Min(finished) = 1
    BY <2>2 DEF Min
  <2>4. RemoveAt(A, 1) = Tail(A)
    <3>1. SubSeq(A, 1, 0) = << >>
      BY <2>1
    <3>2. SubSeq(A, 2, Len(A)) = Tail(A)
      BY <2>1
    <3>3. Tail(A) \in Seq(S)
      BY <2>1
    <3>4. << >> \o Tail(A) = Tail(A)
      BY <3>3
    <3>5. 1 - 1 = 0 /\ 1 + 1 = 2
      OBVIOUS
    <3>6. QED
      BY <3>1, <3>2, <3>4, <3>5 DEF RemoveAt
  <2>5. QED
    BY <1>2, <2>1, <2>2, <2>3, <2>4, SimulationAssumption DEF Trimmed
<1>3. Len(A) \in Nat /\ MaxTransactions \in Nat
  BY SimulationAssumption
<1>4. QED
  BY <1>1, <1>2, <1>3

(* The entry of a call: open while the list is trimmed, closed in place.   *)
LEMMA RecordedByCall ==
  ASSUME NEW T, NEW last \in Nat, Recorded(T, last), Len(T) <= MaxTransactions,
         NEW n \in Nat, n > last, NEW b,
         NEW e, IsClosed(e), e.startTs \in Nat, e.startTs > last, e.startTs <= n,
         e.commitTs # Unset => /\ e.commitTs \in Nat
                               /\ e.startTs < e.commitTs /\ e.commitTs <= n + 1
  PROVE  LET kept == Trimmed(Append(T, b))
             ended == [kept EXCEPT ![Len(kept)] = e]
         IN  Recorded(ended, n) /\ Len(ended) <= MaxTransactions
<1> DEFINE B == Append(T, b)
           A == Append(T, e)
           kept == Trimmed(B)
           ended == [kept EXCEPT ![Len(kept)] = e]
<1>1. PICK S : B \in Seq(S) /\ A \in Seq(S)
  <2>1. PICK S : T \in Seq(S)
    BY DEF Recorded
  <2>2. B \in Seq(S \cup {b, e}) /\ A \in Seq(S \cup {b, e})
    BY <2>1
  <2>3. QED
    BY <2>2
<1>2. /\ Len(B) = Len(T) + 1 /\ Len(A) = Len(T) + 1 /\ Len(T) \in Nat
      /\ B[Len(T) + 1] = b /\ A[Len(T) + 1] = e
      /\ \A k \in 1..Len(T) : B[k] = T[k] /\ A[k] = T[k] /\ IsClosed(T[k])
  BY AppendBegun DEF Recorded
<1>3. Recorded(A, n)
  BY AppendRecorded
<1> HIDE DEF A, B
<1>4. kept = IF Len(B) <= MaxTransactions THEN B ELSE Tail(B)
  <2>1. \A k \in 1..Len(B) : k < Len(B) => IsClosed(B[k])
    BY <1>2
  <2>2. Len(B) <= MaxTransactions + 1
    BY <1>2, SimulationAssumption
  <2>3. QED
    BY <1>1, <2>1, <2>2, TrimmedOK
<1>5. ended = IF Len(A) <= MaxTransactions THEN A ELSE Tail(A)
  <2>1. CASE Len(B) <= MaxTransactions
    <3>1. kept = B /\ Len(kept) = Len(A)
      BY <1>2, <1>4, <2>1
    <3>2. DOMAIN A = DOMAIN B /\ \A k \in DOMAIN A : A[k] = IF k = Len(B) THEN e ELSE B[k]
      BY <1>1, <1>2
    <3>3. A = [B EXCEPT ![Len(B)] = e]
      BY <1>1, <3>2
    <3>4. QED
      BY <1>2, <2>1, <3>1, <3>3
  <2>2. CASE ~(Len(B) <= MaxTransactions)
    <3>1. kept = Tail(B)
      BY <1>4, <2>2
    <3>2. Len(B) >= 2
      BY <1>2, <2>2, SimulationAssumption
    <3>3. /\ Tail(A) \in Seq(S) /\ Tail(B) \in Seq(S)
          /\ Len(Tail(A)) = Len(T) /\ Len(Tail(B)) = Len(T)
          /\ \A k \in 1..Len(T) : Tail(A)[k] = A[k + 1] /\ Tail(B)[k] = B[k + 1]
      BY <1>1, <1>2
    <3>4. \A k \in 1..Len(T) : Tail(A)[k] = IF k = Len(T) THEN e ELSE Tail(B)[k]
      BY <1>2, <3>3
    <3>5. Tail(A) = [Tail(B) EXCEPT ![Len(T)] = e]
      <4> DEFINE X == Tail(A)
                 Y == Tail(B)
      <4>1. X \in Seq(S) /\ Y \in Seq(S) /\ Len(X) = Len(T) /\ Len(Y) = Len(T)
            /\ \A k \in 1..Len(T) : X[k] = IF k = Len(T) THEN e ELSE Y[k]
        BY <3>3, <3>4
      <4> HIDE DEF X, Y
      <4>2. X = [Y EXCEPT ![Len(T)] = e]
        BY <4>1
      <4>3. QED
        BY <4>2 DEF X, Y
    <3>6. QED
      BY <1>2, <2>2, <3>1, <3>3, <3>5
  <2>3. QED
    BY <2>1, <2>2
<1>6. Len(A) > MaxTransactions => Recorded(Tail(A), n) /\ Len(Tail(A)) = Len(A) - 1
  BY <1>2, <1>3, TailRecorded, SimulationAssumption
<1> HIDE DEF kept, ended
<1>7. Recorded(ended, n) /\ Len(ended) <= MaxTransactions
  BY <1>2, <1>3, <1>5, <1>6, SimulationAssumption
<1>8. QED
  BY <1>7 DEF B, kept, ended

-----------------------------------------------------------------------------
(* The steps.                                                              *)
SnapshotStep ==
  /\ calls' # calls /\ lastTrace'.startTs # Unset =>
       LET s == lastTrace'.startTs
       IN  /\ s > tso.last
           /\ s > gc'.safePoint
           /\ \A k \in DOMAIN transactions :
                transactions[k].commitTs # Unset => s >= transactions[k].commitTs
  /\ gc'.safePoint >= gc.safePoint
  /\ gc'.collected > gc.collected => gc'.safePoint > gc.safePoint
  /\ gc'.obsolete + gc'.collected >= gc.obsolete + gc.collected

LEMMA StartTsIsFresh ==
  ASSUME IInv
  PROVE  /\ StartTs \in Nat /\ StartTs > tso.last /\ StartTs > gc.safePoint
         /\ OneTs.last = StartTs
         /\ TwoTs.last \in Nat /\ TwoTs.last > StartTs
         /\ \A k \in DOMAIN transactions :
              transactions[k].commitTs # Unset => StartTs >= transactions[k].commitTs
<1>1. StartTs \in Nat /\ StartTs > tso.last /\ StartTs > gc.safePoint
  BY NextTsType DEF StartTs, IInv, Behind
<1>2. TwoTs.last = NextTs(now, StartTs) /\ OneTs.last = StartTs
  BY DEF TwoTs, OneTs, Allocated
<1>3. NextTs(now, StartTs) \in Nat /\ NextTs(now, StartTs) > StartTs
  BY <1>1, NextTsType DEF IInv
<1>4. DOMAIN transactions = 1..Len(transactions)
  BY DEF IInv, Recorded
<1>5. ASSUME NEW k \in 1..Len(transactions), transactions[k].commitTs # Unset
      PROVE  StartTs >= transactions[k].commitTs
  <2>1. transactions[k].commitTs \in Nat /\ transactions[k].commitTs <= tso.last + 1
    BY <1>5 DEF IInv, Recorded
  <2>2. tso.last \in Nat
    BY DEF IInv
  <2>3. QED
    BY <1>1, <2>1, <2>2
<1>6. QED
  BY <1>1, <1>2, <1>3, <1>4, <1>5

LEMMA WriteTyped ==
  ASSUME IInv, NEW w \in Writes
  PROVE  w.life \in Nat \ {0} /\ Max({1, Len(w.ids)}) \in Nat
<1>1. w.ids \in IdLists /\ w.life \in scope.lifetimes
  BY DEF Writes
<1>2. w.life \in Nat \ {0}
  BY <1>1 DEF IInv, Scope
<1>3. PICK n \in 1..2 : w.ids \in [1..n -> RegionIds]
  BY <1>1 DEF IdLists
<1>4. w.ids \in Seq(RegionIds)
  BY <1>3, SeqDef
<1>5. Len(w.ids) \in Nat
  BY <1>4
<1> DEFINE l == Len(w.ids)
<1>6. Max({1, l}) \in {1, l}
  <2>1. l \in Int
    BY <1>5
  <2> HIDE DEF l
  <2>2. QED
    BY <2>1, MaxOfTwo
<1>7. QED
  BY <1>2, <1>5, <1>6

(* Later timestamps leave the safe point behind.                           *)
LEMMA BehindLater ==
  ASSUME NEW g, NEW t \in Nat, NEW u \in Nat, NEW a \in Nat, NEW b \in Nat,
         Behind(g, t, a), NextTs(t, a) <= NextTs(u, b)
  PROVE  Behind(g, u, b)
<1>1. NextTs(t, a) \in Nat /\ NextTs(u, b) \in Nat
  BY NextTsType
<1>2. QED
  BY <1>1 DEF Behind

LEMMA NextTsMonotone ==
  ASSUME NEW t \in Nat, NEW u \in Nat, t <= u, NEW a \in Nat, NEW b \in Nat, a <= b
  PROVE  NextTs(t, a) <= NextTs(u, b)
<1>1. Physical(t) \in Nat /\ Physical(u) \in Nat /\ Physical(t) <= Physical(u)
  <2>1. CASE t = u
    BY <2>1, NextTsType
  <2>2. CASE t < u
    BY <2>2, PhysicalMonotone
  <2>3. QED
    BY <2>1, <2>2
<1>2. QED
  BY <1>1 DEF NextTs

(* Every exit of a traced write: the start is fresh, and a commit is past  *)
(* the start and at most one past the last allocation.                     *)
LEMMA EndOK ==
  ASSUME IInv, UNCHANGED scope, NEW w \in Writes, NEW c, NEW ts, NEW commitTs,
         NEW collects \in BOOLEAN, NEW conflicts,
         ts.last \in Nat, ts.last >= StartTs,
         commitTs # Unset => /\ commitTs \in Nat
                             /\ StartTs < commitTs /\ commitTs <= ts.last + 1,
         End(w, c, ts, commitTs, collects, conflicts)
  PROVE  IInv' /\ SnapshotStep
<1> DEFINE begun == [startTs |-> StartTs, commitTs |-> Unset, ids |-> w.ids, phase |-> "active"]
           e == [begun EXCEPT !.phase = EndPhase(commitTs), !.commitTs = commitTs]
           kept == Trimmed(Append(transactions, begun))
           ended == [kept EXCEPT ![Len(kept)] = e]
           obsolete == gc.obsolete + (IF commitTs # Unset THEN Max({1, Len(w.ids)}) ELSE 0)
           swept == GcAdvanced(now, w.life, ended, obsolete)
<1>1. /\ tso' = ts /\ transactions' = ended /\ now' = now
      /\ gc' = (IF collects THEN swept.gc ELSE gc)
      /\ lastTrace' = [outcome |-> EndPhase(commitTs), startTs |-> StartTs,
                       commitTs |-> commitTs, ids |-> w.ids]
  BY Zenon DEF End
<1>2. /\ StartTs \in Nat /\ StartTs > tso.last /\ StartTs > gc.safePoint
      /\ now \in Nat /\ tso.last \in Nat /\ gc.obsolete \in Nat /\ gc.collected \in Nat
      /\ gc.safePoint \in Nat
  BY StartTsIsFresh DEF IInv, Behind
<1>3. e.startTs = StartTs /\ e.commitTs = commitTs /\ IsClosed(e)
  BY DEF EndPhase, IsClosed
<1>4. Recorded(ended, ts.last) /\ Len(ended) <= MaxTransactions
  <2> HIDE DEF begun, e
  <2>1. Recorded(transactions, tso.last) /\ Len(transactions) <= MaxTransactions
    BY DEF IInv
  <2>2. /\ e.startTs \in Nat /\ e.startTs > tso.last /\ e.startTs <= ts.last
        /\ e.commitTs # Unset => /\ e.commitTs \in Nat /\ e.startTs < e.commitTs
                                 /\ e.commitTs <= ts.last + 1
        /\ ts.last > tso.last /\ ts.last \in Nat
    BY <1>2, <1>3
  <2>3. QED
    BY <1>2, <1>3, <2>1, <2>2, RecordedByCall
<1> HIDE DEF begun, e, kept, ended
<1>5. obsolete \in Nat /\ obsolete >= gc.obsolete
  BY <1>2, WriteTyped
<1> HIDE DEF obsolete
<1>6. NextTs(now, tso.last) <= NextTs(now, ts.last)
  BY <1>2, NextTsMonotone
<1>7. Behind(gc, now, tso.last)
  BY DEF IInv
<1>8. Behind(gc', now, ts.last) /\ Advances(gc, gc')
  <2>1. CASE collects
    <3>1. OpenStarts(ended) = {}
      BY <1>4, RecordedHasNothingOpen
    <3>2. w.life \in Nat \ {0}
      BY WriteTyped
    <3>3. Behind(swept.gc, now, ts.last) /\ Advances(gc, swept.gc)
      BY <1>2, <1>5, <1>6, <1>7, <3>1, <3>2, GcAdvancedOK
    <3>4. gc' = swept.gc
      BY <1>1, <2>1
    <3>5. QED
      BY <3>3, <3>4
  <2>2. CASE ~collects
    <3>1. gc' = gc
      BY <1>1, <2>2
    <3>2. Behind(gc, now, ts.last)
      BY <1>2, <1>6, <1>7, BehindLater
    <3>3. Advances(gc, gc)
      BY <1>2 DEF Advances
    <3>4. QED
      BY <3>1, <3>2, <3>3
  <2>3. QED
    BY <2>1, <2>2
<1>9. StartTs > gc'.safePoint
  <2>1. gc'.safePoint = gc.safePoint \/ gc'.safePoint = GcTarget(now, w.life)
    <3>1. swept.gc.safePoint = gc.safePoint \/ swept.gc.safePoint = GcTarget(now, w.life)
      <4>1. OpenStarts(ended) = {}
        BY <1>4, RecordedHasNothingOpen
      <4>2. QED
        BY <4>1 DEF GcAdvanced, SafePointAfter
    <3>2. QED
      BY <1>1, <3>1
  <2>2. GcTarget(now, w.life) < StartTs
    BY <1>2, WriteTyped, TargetIsBehind DEF StartTs
  <2>3. QED
    BY <1>2, <2>1, <2>2
<1>10. IInv'
  BY <1>1, <1>2, <1>4, <1>8 DEF IInv, Recorded, IsClosed, Behind, NextTs, Physical
<1>11. SnapshotStep
  <2>1. lastTrace'.startTs = StartTs
    BY <1>1
  <2>2. QED
    BY <1>2, <1>8, <1>9, <2>1, StartTsIsFresh DEF SnapshotStep, Advances
<1>12. QED
  BY <1>10, <1>11

(* The timestamps of an exit of traceWrite: a commit is past the start and *)
(* at most one past the last allocation.                                   *)
InTime(ts, commitTs) ==
  /\ ts \in {OneTs, TwoTs} /\ ts.last \in Nat /\ ts.last >= StartTs
  /\ commitTs # Unset => /\ commitTs \in Nat
                         /\ StartTs < commitTs /\ commitTs <= ts.last + 1

(* Each way a traced write ends is such an exit.                           *)
LEMMA WriteExits ==
  ASSUME IInv, NEW w \in Writes, TraceWrite(w)
  PROVE  \E c, ts, commitTs : \E collects \in BOOLEAN, conflicts \in {0, 1} :
           InTime(ts, commitTs) /\ End(w, c, ts, commitTs, collects, conflicts)
<1>1. /\ StartTs \in Nat /\ OneTs.last = StartTs
      /\ TwoTs.last \in Nat /\ TwoTs.last > StartTs
  BY StartTsIsFresh
<1>2. /\ InTime(OneTs, Unset) /\ InTime(TwoTs, Unset)
      /\ InTime(TwoTs, TwoTs.last) /\ InTime(TwoTs, TwoTs.last + 1)
  BY <1>1 DEF InTime
<1>4. CASE LockFails(w)
  <2>1. End(w, LeadAll(Routed(w), Reached(Routed(w).rs, w.ids)), OneTs, Unset, FALSE, 0)
    BY <1>4, Zenon DEF LockFails
  <2>2. QED
    BY <1>2, <2>1, Zenon
<1>5. CASE Conflicts(w)
  <2>1. \E c : \E found \in {0, 1} : End(w, c, OneTs, Unset, FALSE, found)
    BY <1>5 DEF Conflicts
  <2>2. QED
    BY <1>2, <2>1, Zenon
<1>6. CASE OnePhase(w)
  <2>1. \E c : \E commitTs \in {Unset, TwoTs.last + 1} : End(w, c, TwoTs, commitTs, TRUE, 0)
    BY <1>6 DEF OnePhase
  <2>2. QED
    BY <1>2, <2>1, Zenon
<1>7. CASE PrewriteFails(w)
  <2>1. \E c : \E ts \in {OneTs, TwoTs} : End(w, c, ts, Unset, FALSE, 0)
    BY <1>7 DEF PrewriteFails
  <2>2. QED
    BY <1>2, <2>1, Zenon
<1>8. CASE AsyncCommit(w)
  <2>1. \E c : End(w, c, TwoTs, TwoTs.last + 1, TRUE, 0)
    BY <1>8, Zenon DEF AsyncCommit
  <2>2. QED
    BY <1>2, <2>1, Zenon
<1>9. CASE TwoPhase(w)
  <2>1. \E c : \E commitTs \in {Unset, TwoTs.last} : End(w, c, TwoTs, commitTs, TRUE, 0)
    BY <1>9, Zenon DEF TwoPhase
  <2>2. QED
    BY <1>2, <2>1, Zenon
<1>10. QED
  BY <1>4, <1>5, <1>6, <1>7, <1>8, <1>9 DEF TraceWrite

LEMMA TraceWriteOK ==
  ASSUME IInv, UNCHANGED scope, NEW w \in Writes, TraceWrite(w)
  PROVE  IInv' /\ SnapshotStep
BY WriteExits, EndOK DEF InTime

LEMMA AdvancesNowhere ==
  ASSUME NEW g, g.safePoint \in Nat, g.collected \in Nat, g.obsolete \in Nat
  PROVE  Advances(g, g)
BY DEF Advances

(* A read starts on a fresh timestamp and records nothing.                 *)
LEMMA TraceReadOK ==
  ASSUME IInv, UNCHANGED scope, NEW ids, NEW path, NEW failover,
         TraceRead(ids, path, failover)
  PROVE  IInv' /\ SnapshotStep
<1>1. /\ tso' = OneTs /\ lastTrace'.startTs = StartTs
      /\ transactions' = transactions /\ gc' = gc /\ now' = now
  BY DEF TraceRead, Answer
<1>2. /\ now \in Nat /\ tso.last \in Nat /\ StartTs \in Nat /\ StartTs > tso.last
      /\ OneTs.last = StartTs /\ StartTs > gc.safePoint
  BY StartTsIsFresh DEF IInv
<1>3. Recorded(transactions, StartTs)
  BY <1>2, RecordedLater DEF IInv
<1>4. Behind(gc, now, StartTs)
  BY <1>2, NextTsMonotone, BehindLater DEF IInv
<1>5. IInv'
  BY <1>1, <1>2, <1>3, <1>4 DEF IInv, Recorded, IsClosed, Behind, NextTs, Physical
<1>6. SnapshotStep
  <2>1. gc.safePoint \in Nat /\ gc.collected \in Nat /\ gc.obsolete \in Nat
    BY DEF IInv, Behind
  <2>2. QED
    BY <1>1, <1>2, <2>1, StartTsIsFresh DEF SnapshotStep
<1>7. QED
  BY <1>5, <1>6

(* A call that allocates no timestamp.                                     *)
LEMMA NoTimestampOK ==
  ASSUME IInv, UNCHANGED <<scope, now, tso, transactions, gc>>,
         calls' = calls \/ lastTrace'.startTs = Unset
  PROVE  IInv' /\ SnapshotStep
<1>1. IInv'
  BY DEF IInv, Recorded, IsClosed, Behind, NextTs, Physical
<1>2. gc.safePoint \in Nat /\ gc.collected \in Nat /\ gc.obsolete \in Nat
  BY DEF IInv, Behind
<1>3. SnapshotStep
  BY <1>2 DEF SnapshotStep
<1>4. QED
  BY <1>1, <1>3

(* A clock step moves the safe point behind the next tick at most.         *)
LEMMA StepOK ==
  ASSUME IInv, UNCHANGED scope, NEW life \in scope.lifetimes,
         NEW obsolete \in Nat, obsolete >= gc.obsolete, Step(life, obsolete),
         tso'.last \in Nat, tso'.last >= tso.last
  PROVE  IInv' /\ SnapshotStep
<1>1. /\ now' = now + 1 /\ transactions' = transactions /\ calls' = calls
      /\ gc' = GcAdvanced(now + 1, life, transactions, obsolete).gc
  BY Zenon DEF Step
<1>2. /\ now \in Nat /\ now + 1 \in Nat /\ tso.last \in Nat /\ Behind(gc, now, tso.last)
      /\ life \in Nat \ {0} /\ Recorded(transactions, tso.last)
  BY DEF IInv, Scope
<1>3. NextTs(now, tso.last) <= NextTs(now + 1, tso'.last)
  BY <1>2, NextTsMonotone
<1>4. Recorded(transactions, tso'.last)
  BY <1>2, RecordedLater
<1>5. OpenStarts(transactions) = {}
  BY <1>2, RecordedHasNothingOpen
<1>6. Behind(gc', now + 1, tso'.last) /\ Advances(gc, gc')
  <2> DEFINE last == tso'.last
  <2>1. last \in Nat /\ NextTs(now, tso.last) <= NextTs(now + 1, last)
    BY <1>3
  <2> HIDE DEF last
  <2>2. /\ Behind(GcAdvanced(now + 1, life, transactions, obsolete).gc, now + 1, last)
        /\ Advances(gc, GcAdvanced(now + 1, life, transactions, obsolete).gc)
    BY <1>2, <1>5, <2>1, GcAdvancedOK
  <2>3. QED
    BY <1>1, <2>2 DEF last
<1>7. IInv'
  BY <1>1, <1>2, <1>4, <1>6 DEF IInv, Recorded, IsClosed, Behind, NextTs, Physical
<1>8. SnapshotStep
  BY <1>1, <1>6 DEF SnapshotStep, Advances
<1>9. QED
  BY <1>7, <1>8

(* Each clock step is a call of step whose timestamps stay ahead.          *)
LEMMA StepExits ==
  ASSUME IInv, FixedStep
  PROVE  /\ \E life \in scope.lifetimes, obsolete \in Nat :
              obsolete >= gc.obsolete /\ Step(life, obsolete)
         /\ \/ tso' = tso
            \/ tso' = Allocated(2, NextTs(now + 1, NextTs(now + 1, tso.last)))
         /\ tso'.last \in Nat /\ tso'.last >= tso.last
<1>1. PICK life \in scope.lifetimes :
        \/ IdleStep(life) \/ BackgroundRead(life)
        \/ \E id \in RegionIds : BackgroundWrite(life, id)
  BY DEF FixedStep
<1>2. gc.obsolete \in Nat /\ tso.last \in Nat /\ now \in Nat
  BY DEF IInv, Behind
<1>3. CASE IdleStep(life) \/ BackgroundRead(life)
  <2>1. Step(life, gc.obsolete) /\ tso' = tso
    BY <1>3, Zenon DEF IdleStep, BackgroundRead
  <2>2. QED
    BY <1>2, <2>1
<1>4. CASE \E id \in RegionIds : BackgroundWrite(life, id)
  <2>1. PICK id \in RegionIds : BackgroundWrite(life, id)
    BY <1>4
  <2> DEFINE committed == IF LeaderAvailable(Get(regions, id)) THEN 1 ELSE 0
             next == NextTs(now + 1, NextTs(now + 1, tso.last))
  <2>2. Step(life, gc.obsolete + committed) /\ tso' = Allocated(2, next)
    BY <2>1, Zenon DEF BackgroundWrite
  <2>3. next \in Nat /\ next >= tso.last
    <3>1. now + 1 \in Nat
      BY <1>2
    <3>2. NextTs(now + 1, tso.last) \in Nat /\ NextTs(now + 1, tso.last) > tso.last
      BY <1>2, <3>1, NextTsType
    <3>3. next \in Nat /\ next > NextTs(now + 1, tso.last)
      BY <3>1, <3>2, NextTsType
    <3>4. QED
      BY <1>2, <3>2, <3>3
  <2>4. gc.obsolete + committed \in Nat /\ gc.obsolete + committed >= gc.obsolete
    BY <1>2
  <2>5. tso'.last = next
    BY <2>2 DEF Allocated
  <2>6. QED
    BY <2>2, <2>3, <2>4, <2>5
<1>5. QED
  BY <1>1, <1>3, <1>4

LEMMA FixedStepOK ==
  ASSUME IInv, UNCHANGED scope, FixedStep
  PROVE  IInv' /\ SnapshotStep
BY StepExits, StepOK

LEMMA NextOK ==
  ASSUME IInv, [Next]_vars
  PROVE  IInv' /\ SnapshotStep
<1>1. CASE UNCHANGED vars
  BY <1>1, NoTimestampOK DEF vars
<1>2. CASE FixedStep /\ UNCHANGED scope
  BY <1>2, FixedStepOK
<1>3. CASE Request /\ UNCHANGED scope
  <2>1. CASE \E w \in Writes : TraceWrite(w)
    BY <1>3, <2>1, TraceWriteOK
  <2>2. CASE \E ids \in IdLists, path \in {"leader", "follower", "mpp"}, failover \in BOOLEAN :
                TraceRead(ids, path, failover)
    BY <1>3, <2>2, TraceReadOK
  <2>3. CASE TraceExplain
    BY <1>3, <2>3, NoTimestampOK DEF TraceExplain, Answer
  <2>4. CASE TraceNowhere
    BY <1>3, <2>4, NoTimestampOK DEF TraceNowhere, Answer
  <2>5. QED
    BY <1>3, <2>1, <2>2, <2>3, <2>4 DEF Request
<1>4. QED
  BY <1>1, <1>2, <1>3 DEF Next

-----------------------------------------------------------------------------
(* The starts.                                                             *)
LEMMA FixtureRecorded ==
  ASSUME NEW T, NEW last \in Nat, Recorded(T, last), Len(T) <= 3
  PROVE  Recorded(Trimmed(T), last) /\ Len(Trimmed(T)) <= MaxTransactions
<1>1. PICK S : T \in Seq(S)
  BY DEF Recorded
<1>2. Len(T) \in Nat /\ MaxTransactions \in Nat /\ MaxTransactions >= 2
  BY <1>1, SimulationAssumption
<1>3. Trimmed(T) = IF Len(T) <= MaxTransactions THEN T ELSE Tail(T)
  <2>1. \A k \in 1..Len(T) : k < Len(T) => IsClosed(T[k])
    BY DEF Recorded
  <2>2. QED
    BY <1>1, <1>2, <2>1, TrimmedOK
<1>4. Len(T) > MaxTransactions => Recorded(Tail(T), last) /\ Len(Tail(T)) = Len(T) - 1
  BY <1>2, TailRecorded
<1>5. QED
  BY <1>2, <1>3, <1>4

(* A fixture's history and safe point are behind its oracle.               *)
LEMMA BeginsOK ==
  ASSUME scope \in Scopes, now = 0, NEW rs, NEW last \in Nat, NEW n, NEW T, NEW g,
         NEW mpp, NEW counted, Begins(rs, last, n, T, g, mpp, counted),
         Recorded(T, last), Len(T) <= 3,
         g.safePoint \in 0..last, g.obsolete \in Nat, g.collected \in Nat,
         g.blockedByStartTs = Unset
  PROVE  IInv
<1>1. tso.last = last /\ transactions = Trimmed(T) /\ gc = g
  BY DEF Begins
<1>2. Recorded(Trimmed(T), last) /\ Len(Trimmed(T)) <= MaxTransactions
  BY FixtureRecorded
<1>3. Behind(g, 0, last)
  <2>1. NextTs(0, last) \in Nat /\ NextTs(0, last) > last
    BY NextTsType
  <2>2. QED
    BY <2>1 DEF Behind
<1>4. QED
  BY <1>1, <1>2, <1>3, SimulationAssumption DEF IInv

LEMMA HistoryOK ==
  /\ Recorded(<< >>, 0) /\ Recorded(<< >>, 1) /\ Recorded(<< >>, TickTs + 2)
  /\ \A ids : Recorded(<<Committed(1, 2, ids)>>, 2)
  /\ \A ids : Recorded(<<Committed(1, 3, ids),
                         [startTs |-> 2, commitTs |-> Unset, ids |-> ids, phase |-> "rolled_back"],
                         Committed(4, 5, ids)>>, 5)
  /\ \A a, b : Recorded(<<Committed(2, 5, a), Committed(6, 9, b), Committed(10, 14, b)>>, 14)
<1>1. \A last : Recorded(<< >>, last)
  <2>1. << >> \in Seq({}) /\ Len(<< >>) = 0
    OBVIOUS
  <2>2. QED
    BY <2>1 DEF Recorded
<1>2. ASSUME NEW ids PROVE Recorded(<<Committed(1, 2, ids)>>, 2)
  <2> DEFINE a == Committed(1, 2, ids)
  <2>1. a.startTs = 1 /\ a.commitTs = 2 /\ IsClosed(a)
    BY DEF Committed, IsClosed
  <2> HIDE DEF a
  <2>2. <<a>> \in Seq({a}) /\ Len(<<a>>) = 1 /\ <<a>>[1] = a
    OBVIOUS
  <2> DEFINE T == <<a>>
  <2>3. T \in Seq({a}) /\ Len(T) = 1 /\ T[1] = a
    BY <2>2
  <2> HIDE DEF T
  <2>4. Recorded(T, 2)
    <3>1. \E S : T \in Seq(S)
      BY <2>3
    <3>2. \A k \in 1..Len(T) : k = 1
      BY <2>3
    <3>3. QED
      BY <2>1, <2>3, <3>1, <3>2 DEF Recorded
  <2>5. QED
    BY <2>4 DEF T, a
<1>3. ASSUME NEW ids
      PROVE  Recorded(<<Committed(1, 3, ids),
                        [startTs |-> 2, commitTs |-> Unset, ids |-> ids, phase |-> "rolled_back"],
                        Committed(4, 5, ids)>>, 5)
  <2> DEFINE a == Committed(1, 3, ids)
             b == [startTs |-> 2, commitTs |-> Unset, ids |-> ids, phase |-> "rolled_back"]
             c == Committed(4, 5, ids)
  <2>1. /\ a.startTs = 1 /\ a.commitTs = 3 /\ IsClosed(a)
        /\ b.startTs = 2 /\ b.commitTs = Unset /\ IsClosed(b)
        /\ c.startTs = 4 /\ c.commitTs = 5 /\ IsClosed(c)
    BY DEF Committed, IsClosed
  <2> HIDE DEF a, b, c
  <2>2. /\ <<a, b, c>> \in Seq({a, b, c}) /\ Len(<<a, b, c>>) = 3
        /\ <<a, b, c>>[1] = a /\ <<a, b, c>>[2] = b /\ <<a, b, c>>[3] = c
    OBVIOUS
  <2> DEFINE T == <<a, b, c>>
  <2>3. T \in Seq({a, b, c}) /\ Len(T) = 3 /\ T[1] = a /\ T[2] = b /\ T[3] = c
    BY <2>2
  <2> HIDE DEF T
  <2>4. Recorded(T, 5)
    <3>1. \E S : T \in Seq(S)
      BY <2>3
    <3>2. \A k \in 1..Len(T) : k = 1 \/ k = 2 \/ k = 3
      BY <2>3
    <3>3. QED
      BY <2>1, <2>3, <3>1, <3>2 DEF Recorded
  <2>5. QED
    BY <2>4 DEF T, a, b, c
<1>4. ASSUME NEW x, NEW y
      PROVE  Recorded(<<Committed(2, 5, x), Committed(6, 9, y), Committed(10, 14, y)>>, 14)
  <2> DEFINE a == Committed(2, 5, x)
             b == Committed(6, 9, y)
             c == Committed(10, 14, y)
  <2>1. /\ a.startTs = 2 /\ a.commitTs = 5 /\ IsClosed(a)
        /\ b.startTs = 6 /\ b.commitTs = 9 /\ IsClosed(b)
        /\ c.startTs = 10 /\ c.commitTs = 14 /\ IsClosed(c)
    BY DEF Committed, IsClosed
  <2> HIDE DEF a, b, c
  <2>2. /\ <<a, b, c>> \in Seq({a, b, c}) /\ Len(<<a, b, c>>) = 3
        /\ <<a, b, c>>[1] = a /\ <<a, b, c>>[2] = b /\ <<a, b, c>>[3] = c
    OBVIOUS
  <2> DEFINE T == <<a, b, c>>
  <2>3. T \in Seq({a, b, c}) /\ Len(T) = 3 /\ T[1] = a /\ T[2] = b /\ T[3] = c
    BY <2>2
  <2> HIDE DEF T
  <2>4. Recorded(T, 14)
    <3>1. \E S : T \in Seq(S)
      BY <2>3
    <3>2. \A k \in 1..Len(T) : k = 1 \/ k = 2 \/ k = 3
      BY <2>3
    <3>3. QED
      BY <2>1, <2>3, <3>1, <3>2 DEF Recorded
  <2>5. QED
    BY <2>4 DEF T, a, b, c
<1>5. QED
  BY <1>1, <1>2, <1>3, <1>4

LEMMA InitOK == Init => IInv
<1> SUFFICES ASSUME Init PROVE IInv
  OBVIOUS
<1>1. scope \in Scopes /\ now = 0 /\ TickTs \in Nat /\ TickTs >= 1
  BY SimulationAssumption DEF Init
<1>2. /\ NoGc.safePoint = 0 /\ NoGc.obsolete = 0 /\ NoGc.collected = 0
      /\ NoGc.blockedByStartTs = Unset
      /\ \A n : /\ Obsolete(n).safePoint = 0 /\ Obsolete(n).obsolete = n
                /\ Obsolete(n).collected = 0 /\ Obsolete(n).blockedByStartTs = Unset
  BY DEF NoGc, Obsolete
<1>3. Len(<< >>) = 0
  OBVIOUS
<1>4. CASE Fresh
  BY <1>1, <1>2, <1>3, <1>4, HistoryOK, BeginsOK DEF Fresh
<1>5. CASE AfterFailover
  BY <1>1, <1>2, <1>3, <1>5, HistoryOK, BeginsOK DEF AfterFailover
<1>6. CASE \E i, j \in 1..InitialRegions : AfterCrossRegion(i, j)
  <2>1. PICK i \in 1..InitialRegions, j \in 1..InitialRegions : AfterCrossRegion(i, j)
    BY <1>6
  <2> DEFINE T == <<Committed(1, 2, <<i - 1, j - 1>>)>>
  <2>2. Recorded(T, 2) /\ Len(T) <= 3
    BY HistoryOK
  <2> HIDE DEF T
  <2>3. \E rs, counted : Begins(rs, 2, 2, T, Obsolete(2), 0, counted)
    BY <2>1, Zenon DEF AfterCrossRegion, T
  <2>4. QED
    BY <1>1, <1>2, <2>2, <2>3, BeginsOK
<1>7. CASE \E i, j \in 1..InitialRegions : AfterLockDeadlock(i, j)
  <2>1. PICK i \in 1..InitialRegions, j \in 1..InitialRegions : AfterLockDeadlock(i, j)
    BY <1>7
  <2> DEFINE ids == <<i - 1, j - 1>>
             T == <<Committed(1, 3, ids),
                    [startTs |-> 2, commitTs |-> Unset, ids |-> ids, phase |-> "rolled_back"],
                    Committed(4, 5, ids)>>
  <2>2. Recorded(T, 5) /\ Len(T) <= 3
    BY HistoryOK
  <2> HIDE DEF T
  <2>3. \E rs, counted : Begins(rs, 5, 5, T, NoGc, 0, counted)
    BY <2>1, Zenon DEF AfterLockDeadlock, T
  <2>4. QED
    BY <1>1, <1>2, <2>2, <2>3, BeginsOK
<1>8. CASE AfterCommitProtocols
  <2> DEFINE T == <<Committed(2, 5, <<0>>), Committed(6, 9, <<0, 1>>),
                    Committed(10, 14, <<0, 1>>)>>
  <2>1. Recorded(T, 14) /\ Len(T) <= 3
    BY HistoryOK
  <2> HIDE DEF T
  <2>2. \E rs, counted : Begins(rs, 14, 7, T, Obsolete(5), 0, counted)
    BY <1>8, Zenon DEF AfterCommitProtocols, T
  <2>3. QED
    BY <1>1, <1>2, <2>1, <2>2, BeginsOK
<1>9. CASE AfterGcSafePoint
  <2> DEFINE g == [NoGc EXCEPT !.safePoint = TickTs - 1, !.collected = 6]
  <2>1. /\ g.safePoint = TickTs - 1 /\ g.obsolete = 0 /\ g.collected = 6
        /\ g.blockedByStartTs = Unset
    BY DEF NoGc
  <2> HIDE DEF g
  <2>2. \E rs, counted : Begins(rs, TickTs + 2, 0, << >>, g, 0, counted)
    BY <1>9, Zenon DEF AfterGcSafePoint, g
  <2>3. TickTs + 2 \in Nat /\ TickTs - 1 \in 0..(TickTs + 2)
    BY <1>1
  <2>4. QED
    BY <1>1, <1>3, <2>1, <2>2, <2>3, HistoryOK, BeginsOK
<1>10. CASE AfterTiFlashMpp
  BY <1>1, <1>2, <1>3, <1>10, HistoryOK, BeginsOK DEF AfterTiFlashMpp
<1>11. QED
  BY <1>4, <1>5, <1>6, <1>7, <1>8, <1>9, <1>10 DEF Init

-----------------------------------------------------------------------------
LEMMA Invariance == Spec => []IInv
<1>1. IInv /\ [Next]_vars => IInv'
  BY NextOK
<1>2. QED
  BY <1>1, InitOK, PTL DEF Spec

(* The recorded transactions are ordered by their timestamps, starts and   *)
(* commits alike, under every interleaving of clock steps, traced calls,   *)
(* controls and guided scenarios.                                          *)
THEOREM OrderOfCommits == Spec => []CommitOrder
<1>1. IInv => CommitOrder
  <2> SUFFICES ASSUME IInv PROVE CommitOrder
    OBVIOUS
  <2>1. DOMAIN transactions = 1..Len(transactions)
    BY DEF IInv, Recorded
  <2>2. QED
    BY <2>1 DEF IInv, Recorded, CommitOrder
<1>2. QED
  BY <1>1, Invariance, PTL

(* Every exit of traceWrite closes its transaction, so nothing holds the   *)
(* safe point between calls and the history stays within its bound.        *)
THEOREM CallsCloseTransactions == Spec => []NoTransactionLeftOpen
<1>1. IInv => NoTransactionLeftOpen
  <2> SUFFICES ASSUME IInv PROVE NoTransactionLeftOpen
    OBVIOUS
  <2>1. DOMAIN transactions = 1..Len(transactions)
    BY DEF IInv, Recorded
  <2>2. QED
    BY <2>1 DEF IInv, Recorded, Behind, IsClosed, OpenPhases, NoTransactionLeftOpen
<1>2. QED
  BY <1>1, Invariance, PTL

(* A statement reads at a timestamp that is new, that GC cannot have       *)
(* passed, and that covers every commit acknowledged before it; the safe   *)
(* point only moves forward and GC loses no version from the count.        *)
THEOREM SnapshotsAreKept == Spec => SnapshotsOutliveGc
<1>1. IInv /\ [Next]_vars => [SnapshotStep]_vars
  BY NextOK
<1>2. SnapshotsOutliveGc <=> [][SnapshotStep]_vars
  BY PTL DEF SnapshotsOutliveGc, SnapshotStep
<1>3. QED
  BY <1>1, <1>2, Invariance, PTL DEF Spec

-----------------------------------------------------------------------------
(***************************************************************************)
(* The Regions of the engine.  The proofs of RegionRaft about one Region   *)
(* and about the array of them hold here as they stand: the engine's array *)
(* takes the place of theirs, and the Stores that are up are the ones the  *)
(* first Region sees, as all Regions see the same.                         *)
(***************************************************************************)
NoReading == [region |-> -1]

Group == INSTANCE RegionRaftProofs WITH storeUp <- Live(regions[1]), served <- NoReading,
                                        NoRead <- NoReading, MaxIndex <- 0, MaxRegions <- 0

GroupOK(r) == r \in Region /\ Durable(r) /\ LeaderCurrent(r) /\ HealthLabelled(r)

SameKeys(r, n) == n.id = r.id /\ n.startKey = r.startKey /\ n.endKey = r.endKey

(* The array: sound Regions that see the same Stores and partition the     *)
(* key space under the ids 0..n-1.                                         *)
Sound(rs, up) ==
  /\ rs \in Seq(Region) /\ Len(rs) >= 1
  /\ \A i \in 1..Len(rs) : GroupOK(rs[i]) /\ Live(rs[i]) = up
  /\ Group!Partition(rs)

Ids(rs) == {rs[i].id : i \in 1..Len(rs)}

LEMMA GroupApplies ==
  /\ InitialRegions \in Nat \ {0}
  /\ RegionWidth \in Nat \ {0}
  /\ HotRegion \in 0..InitialRegions - 1
  /\ Baseline \in Nat \ {0}
  /\ 0 \in Nat
  /\ 0 \in Nat
  /\ NoReading \notin [region : Nat, index : Nat, store : Group!Store]
<1>1. \A x \in [region : Nat, index : Nat, store : Group!Store] : x.region \in Nat
  OBVIOUS
<1>2. NoReading.region \notin Nat
  BY DEF NoReading
<1>3. QED
  BY <1>1, <1>2, SimulationAssumption

LEMMA SameGroups ==
  ASSUME NEW r
  PROVE  /\ Group!Region = Region /\ Group!Store = Store
         /\ Group!HasQuorum(r) = HasQuorum(r)
         /\ Group!Live(r) = Live(r)
         /\ Group!GroupOK(r) = GroupOK(r)
         /\ Group!Durable(r) = Durable(r)
         /\ Group!LeaderCurrent(r) = LeaderCurrent(r)
         /\ Group!HealthLabelled(r) = HealthLabelled(r)
BY DEF Region, Group!Region, Store, Group!Store, Health, Group!Health, HasQuorum, Group!HasQuorum,
       Live, Group!Live, GroupOK, Group!GroupOK, Durable, Group!Durable,
       LeaderCurrent, Group!LeaderCurrent, HealthLabelled, Group!HealthLabelled,
       HealthOf, Group!HealthOf

LEMMA SameSteps ==
  ASSUME NEW r
  PROVE  /\ Group!LeaderUsable(r) = LeaderUsable(r)
         /\ Group!LeaderAvailable(r) = LeaderAvailable(r)
         /\ Group!Candidates(r) = Candidates(r)
         /\ Group!Replacement(r) = Replacement(r)
         /\ Group!EnsureLeader(r) = EnsureLeader(r)
         /\ Group!AppendEntry(r) = AppendEntry(r)
         /\ Group!Midpoint(r) = Midpoint(r)
         /\ Group!UpperHalf(r) = UpperHalf(r)
         /\ \A p : Group!ReadFrom(r, p) = ReadFrom(r, p)
         /\ \A s : Group!PeerDown(r, s) = PeerDown(r, s)
         /\ \A i : Group!LowerHalf(r, i) = LowerHalf(r, i)
<1> USE DEF Store, Group!Store, HasQuorum, Group!HasQuorum, Live, Group!Live,
            HealthOf, Group!HealthOf, LeaderUsable, Group!LeaderUsable,
            LeaderAvailable, Group!LeaderAvailable, Candidates, Group!Candidates,
            UpdateRegionHealth, Group!UpdateRegionHealth
<1>1. /\ Group!LeaderUsable(r) = LeaderUsable(r)
      /\ Group!LeaderAvailable(r) = LeaderAvailable(r)
      /\ Group!Candidates(r) = Candidates(r)
  OBVIOUS
<1>2. Group!AppendEntry(r) = AppendEntry(r)
  BY DEF AppendEntry, Group!AppendEntry
<1>3. Group!Midpoint(r) = Midpoint(r) /\ Group!UpperHalf(r) = UpperHalf(r)
  BY DEF UpperHalf, Group!UpperHalf, Midpoint, Group!Midpoint
<1>4. \A p : Group!ReadFrom(r, p) = ReadFrom(r, p)
  BY DEF ReadFrom, Group!ReadFrom, ServingStore, Group!ServingStore,
         FirstFollower, Group!FirstFollower, CatchUp, Group!CatchUp
<1>5. \A s : Group!PeerDown(r, s) = PeerDown(r, s)
  BY DEF PeerDown, Group!PeerDown
<1>6. \A i : Group!LowerHalf(r, i) = LowerHalf(r, i)
  BY DEF LowerHalf, Group!LowerHalf, UpperHalf, Group!UpperHalf, Midpoint, Group!Midpoint
<1> USE DEF Replacement, Group!Replacement, Precedes, Group!Precedes
<1>7. Group!Replacement(r) = Replacement(r)
  OBVIOUS
<1>8. Group!EnsureLeader(r) = EnsureLeader(r)
  BY DEF EnsureLeader, Group!EnsureLeader, Elect, Group!Elect
<1>9. QED
  BY <1>1, <1>2, <1>3, <1>4, <1>5, <1>6, <1>7, <1>8

(* With sound groups a living quorum and an available leader are the same. *)
LEMMA LedByQuorum ==
  ASSUME NEW r \in Region, GroupOK(r)
  PROVE  LeaderAvailable(r) <=> HasQuorum(Live(r))
<1>1. r \in Group!Region /\ Group!Durable(r)
  BY SameGroups DEF GroupOK
<1>2. Group!LeaderAvailable(r) <=> Group!HasQuorum(Group!Live(r))
  BY <1>1, GroupApplies, Group!LeaderAvailableIffQuorum
<1>3. QED
  BY <1>2, SameGroups, SameSteps

(* An election adds a term and its no-op, nothing else adds anything.      *)
LEMMA EnsureLeaderSteps ==
  ASSUME NEW r \in Region, GroupOK(r)
  PROVE  /\ GroupOK(EnsureLeader(r)) /\ SameKeys(r, EnsureLeader(r))
         /\ Live(EnsureLeader(r)) = Live(r)
         /\ EnsureLeader(r).commit = r.commit + NoOps(r)
         /\ EnsureLeader(r).term = r.term + Elections(r)
         /\ Elections(r) \in Nat /\ NoOps(r) = Elections(r)
         /\ LeaderAvailable(r) => EnsureLeader(r).healthy[EnsureLeader(r).leader]
<1> DEFINE e == EnsureLeader(r)
<1>1. r \in Group!Region /\ Group!GroupOK(r) /\ Group!EnsureLeader(r) = e
  BY SameGroups, SameSteps DEF GroupOK
<1>2. /\ Group!GroupOK(e) /\ Group!SameShape(r, e)
      /\ Group!LeaderAvailable(r) => e.healthy[e.leader]
  BY <1>1, GroupApplies, Group!EnsureLeaderOK
<1>3. GroupOK(e) /\ SameKeys(r, e) /\ Live(e) = Live(r)
  BY <1>2, SameGroups DEF SameKeys, Group!SameShape, Live
<1>4. e.commit = r.commit + NoOps(r) /\ e.term = r.term + Elections(r)
  <2>1. r.commit \in Nat /\ r.term \in Nat
    BY DEF Region
  <2>2. CASE ~LeaderAvailable(r) \/ LeaderUsable(r)
    BY <2>1, <2>2 DEF EnsureLeader, UpdateRegionHealth, Region, NoOps, Elections
  <2>3. CASE LeaderAvailable(r) /\ ~LeaderUsable(r)
    <3> DEFINE w == Replacement(r)
    <3>1. w \in Candidates(r)
      <4>1. Group!Candidates(r) # {}
        BY <2>3, SameSteps DEF LeaderAvailable
      <4>2. Group!Replacement(r) \in Group!Candidates(r)
        BY <1>1, <4>1, GroupApplies, Group!ReplacementIsCandidate
      <4>3. QED
        BY <4>2, SameSteps
    <3>2. r.match[w] = r.commit
      BY <3>1 DEF Candidates, Live, GroupOK, Durable, Region
    <3>3. e = Elect(r, w)
      BY <2>3 DEF EnsureLeader
    <3> HIDE DEF w, e
    <3>4. e.commit = r.commit + 1 /\ e.term = r.term + 1
      BY <3>2, <3>3 DEF Elect, UpdateRegionHealth, Region
    <3>5. QED
      BY <2>3, <3>4 DEF NoOps, Elections
  <2>4. QED
    BY <2>2, <2>3
<1>5. QED
  BY <1>2, <1>3, <1>4, SameSteps DEF NoOps, Elections

LEMMA ReplicateSteps ==
  ASSUME NEW r \in Region, GroupOK(r)
  PROVE  /\ GroupOK(Replicate(r)) /\ SameKeys(r, Replicate(r))
         /\ Live(Replicate(r)) = Live(r)
         /\ Replicate(r).commit = r.commit + (NoOps(r) + Commands(r))
         /\ Replicate(r).term = r.term + Elections(r)
<1> DEFINE e == EnsureLeader(r)
<1>1. /\ GroupOK(e) /\ SameKeys(r, e) /\ Live(e) = Live(r) /\ e \in Region
      /\ e.commit = r.commit + NoOps(r) /\ e.term = r.term + Elections(r)
      /\ NoOps(r) \in Nat /\ r.commit \in Nat
      /\ LeaderAvailable(r) => e.healthy[e.leader]
  BY EnsureLeaderSteps DEF GroupOK, Region
<1>2. CASE ~LeaderAvailable(r)
  BY <1>1, <1>2 DEF Replicate, Commands
<1>3. CASE LeaderAvailable(r)
  <2> DEFINE a == AppendEntry(e)
  <2>1. Replicate(r) = a
    BY <1>3 DEF Replicate
  <2> HIDE DEF e
  <2>2. HasQuorum(Live(e)) /\ e.healthy[e.leader]
    BY <1>1, <1>3, LedByQuorum
  <2>3. /\ e \in Group!Region /\ Group!GroupOK(e) /\ Group!HasQuorum(Group!Live(e))
        /\ Group!AppendEntry(e) = a
    BY <1>1, <2>2, SameGroups, SameSteps
  <2>4. Group!GroupOK(a) /\ Group!SameShape(e, a) /\ a.commit = e.commit + 1
    BY <2>2, <2>3, GroupApplies, Group!AppendEntryOK
  <2>5. GroupOK(a) /\ SameKeys(e, a) /\ Live(a) = Live(e)
    BY <2>4, SameGroups DEF SameKeys, Group!SameShape, Live
  <2>6. a.term = e.term
    BY <1>1, <2>2 DEF AppendEntry, UpdateRegionHealth, Region
  <2> HIDE DEF a
  <2>7. QED
    BY <1>1, <1>3, <2>1, <2>4, <2>5, <2>6 DEF SameKeys, Commands
<1>4. QED
  BY <1>2, <1>3

LEMMA ReadFromSteps ==
  ASSUME NEW r \in Region, GroupOK(r), NEW policy
  PROVE  /\ GroupOK(ReadFrom(r, policy)) /\ SameKeys(r, ReadFrom(r, policy))
         /\ Live(ReadFrom(r, policy)) = Live(r)
         /\ ReadFrom(r, policy).commit = r.commit /\ ReadFrom(r, policy).term = r.term
<1> DEFINE n == ReadFrom(r, policy)
<1>1. r \in Group!Region /\ Group!GroupOK(r) /\ Group!ReadFrom(r, policy) = n
  BY SameGroups, SameSteps DEF GroupOK
<1>2. Group!GroupOK(n) /\ Group!SameShape(r, n)
  BY <1>1, GroupApplies, Group!ReadFromOK
<1>3. GroupOK(n) /\ SameKeys(r, n) /\ Live(n) = Live(r)
  BY <1>2, SameGroups DEF SameKeys, Group!SameShape, Live
<1>4. n.commit = r.commit /\ n.term = r.term
  BY DEF ReadFrom, CatchUp, Region
<1>5. QED
  BY <1>3, <1>4

LEMMA PeerDownSteps ==
  ASSUME NEW r \in Region, GroupOK(r), NEW s \in Store
  PROVE  /\ GroupOK(PeerDown(r, s)) /\ SameKeys(r, PeerDown(r, s))
         /\ Live(PeerDown(r, s)) = Live(r) \ {s}
         /\ PeerDown(r, s).commit = r.commit /\ PeerDown(r, s).term = r.term
<1> DEFINE n == PeerDown(r, s)
<1>1. /\ r \in Group!Region /\ Group!Durable(r) /\ Group!LeaderCurrent(r) /\ s \in Group!Store
      /\ Group!PeerDown(r, s) = n
  BY SameGroups, SameSteps DEF GroupOK
<1>2. /\ Group!GroupOK(n) /\ Group!Live(n) = Group!Live(r) \ {s} /\ n.id = r.id
      /\ n.startKey = r.startKey /\ n.endKey = r.endKey
  BY <1>1, GroupApplies, Group!PeerDownOK
<1>3. n.commit = r.commit /\ n.term = r.term
  BY DEF PeerDown, UpdateRegionHealth, Region
<1>4. QED
  BY <1>2, <1>3, SameGroups DEF SameKeys

-----------------------------------------------------------------------------
(* What a call did to the array: the ids stay, and the Regions of S each   *)
(* gained n entries that are not the no-op of an election.                 *)
Adds(rs, ns, up, S, n) ==
  /\ Sound(ns, up) /\ Ids(ns) = Ids(rs) /\ Len(ns) = Len(rs)
  /\ \A id \in Ids(rs) : Mutations(ns, id) = Mutations(rs, id) + (IF id \in S THEN n ELSE 0)

(* Ids are distinct, so a Region is found where it stands.                 *)
LEMMA GetAt ==
  ASSUME NEW rs, NEW up, Sound(rs, up), NEW i \in 1..Len(rs)
  PROVE  /\ Get(rs, rs[i].id) = rs[i] /\ rs[i].id \in Ids(rs)
         /\ \A j \in DOMAIN rs : rs[j].id = rs[i].id => j = i
         /\ i \in DOMAIN rs
<1>1. DOMAIN rs = 1..Len(rs)
  BY DEF Sound
<1>2. \A j \in 1..Len(rs) : rs[j].id = rs[i].id => j = i
  BY DEF Sound, Group!Partition
<1> DEFINE c == CHOOSE j \in DOMAIN rs : rs[j].id = rs[i].id
<1>3. c \in DOMAIN rs /\ rs[c].id = rs[i].id
  BY <1>1
<1>4. c = i
  BY <1>1, <1>2, <1>3
<1>5. QED
  BY <1>1, <1>2, <1>4 DEF Get, Ids

LEMMA SoundAt ==
  ASSUME NEW rs, NEW up, Sound(rs, up), NEW id \in Ids(rs)
  PROVE  /\ \E i \in 1..Len(rs) : rs[i].id = id /\ Get(rs, id) = rs[i]
         /\ Get(rs, id) \in Region /\ GroupOK(Get(rs, id)) /\ Live(Get(rs, id)) = up
         /\ Get(rs, id).id = id
         /\ Mutations(rs, id) = Get(rs, id).commit - Get(rs, id).term
         /\ Mutations(rs, id) \in Int
<1>1. PICK i \in 1..Len(rs) : rs[i].id = id
  BY DEF Ids
<1>2. Get(rs, id) = rs[i]
  BY <1>1, GetAt
<1>3. GroupOK(rs[i]) /\ Live(rs[i]) = up /\ rs[i] \in Region
  BY DEF Sound, GroupOK
<1>4. Mutations(rs, id) = rs[i].commit - rs[i].term /\ Mutations(rs, id) \in Int
  BY <1>2, <1>3 DEF Mutations, Region
<1>5. QED
  BY <1>1, <1>2, <1>3, <1>4

(* Replacing every Region by a sound one with the same keys.               *)
LEMMA ReplacedSound ==
  ASSUME NEW rs, NEW up, Sound(rs, up), NEW ns, NEW vp,
         ns \in [1..Len(rs) -> Region],
         \A i \in 1..Len(rs) : GroupOK(ns[i]) /\ SameKeys(rs[i], ns[i]) /\ Live(ns[i]) = vp
  PROVE  /\ Sound(ns, vp) /\ Len(ns) = Len(rs) /\ Ids(ns) = Ids(rs)
<1> DEFINE L == Len(rs)
<1>1. rs \in Seq(Region) /\ L \in Nat /\ L >= 1 /\ DOMAIN rs = 1..L
  BY DEF Sound
<1>2. \A i \in 1..L : ns[i] \in Region
  BY DEF GroupOK
<1>3. ns \in Seq(Region) /\ Len(ns) = L
  <2>1. ns \in [1..L -> Region]
    OBVIOUS
  <2>2. ns \in Seq(Region)
    BY <1>1, <2>1, SeqDef
  <2>3. DOMAIN ns = 1..L
    BY <2>1
  <2>4. QED
    BY <1>1, <2>2, <2>3, LenProperties
<1>4. \A i \in 1..L : /\ ns[i].id = rs[i].id /\ ns[i].startKey = rs[i].startKey
                      /\ ns[i].endKey = rs[i].endKey
  BY DEF SameKeys
<1>5. Group!Partition(rs)
  BY DEF Sound
<1> HIDE DEF L
<1>6. Group!Partition(ns)
  <2>1. 1 \in 1..L /\ L \in 1..L /\ \A j \in 1..L : j > 1 => j - 1 \in 1..L
    BY <1>1
  <2>2. ns[1].startKey = 0 /\ ns[L].endKey = Group!KeyspaceEnd
    BY <1>4, <1>5, <2>1 DEF Group!Partition, L
  <2>3. \A j \in 1..L : ns[j].startKey < ns[j].endKey
    BY <1>4, <1>5 DEF Group!Partition, L
  <2>4. \A j \in 1..L : j > 1 => ns[j - 1].endKey = ns[j].startKey
    BY <1>4, <1>5, <2>1 DEF Group!Partition, L
  <2>5. \A j \in 1..L : ns[j].id < L
    BY <1>4, <1>5 DEF Group!Partition, L
  <2>6. \A j, k \in 1..L : ns[j].id = ns[k].id => j = k
    BY <1>4, <1>5 DEF Group!Partition, L
  <2>7. \A m \in 0..(L - 1) : \E j \in 1..L : ns[j].id = m
    <3>1. \A m \in 0..(L - 1) : \E j \in 1..L : rs[j].id = m
      BY <1>5 DEF Group!Partition, L
    <3>2. QED
      BY <1>4, <3>1
  <2>8. QED
    BY <1>1, <1>3, <2>2, <2>3, <2>4, <2>5, <2>6, <2>7 DEF Group!Partition
<1>7. Ids(ns) = Ids(rs)
  BY <1>3, <1>4 DEF Ids, L
<1>8. QED
  BY <1>1, <1>3, <1>6, <1>7 DEF Sound, L

(* The same with what each Region's log gained.                            *)
LEMMA ReplacedAdds ==
  ASSUME NEW rs, NEW up, Sound(rs, up), NEW ns, NEW vp, NEW S, NEW n \in Int,
         ns \in [1..Len(rs) -> Region],
         \A i \in 1..Len(rs) :
           /\ GroupOK(ns[i]) /\ SameKeys(rs[i], ns[i]) /\ Live(ns[i]) = vp
           /\ ns[i].commit - ns[i].term
                = (rs[i].commit - rs[i].term) + (IF rs[i].id \in S THEN n ELSE 0)
  PROVE  Adds(rs, ns, vp, S, n)
<1>0. \A i \in 1..Len(rs) : GroupOK(ns[i]) /\ SameKeys(rs[i], ns[i]) /\ Live(ns[i]) = vp
  OBVIOUS
<1>1. Sound(ns, vp) /\ Len(ns) = Len(rs) /\ Ids(ns) = Ids(rs)
  BY <1>0, ReplacedSound
<1>2. ASSUME NEW id \in Ids(rs)
      PROVE  Mutations(ns, id) = Mutations(rs, id) + (IF id \in S THEN n ELSE 0)
  <2>1. PICK i \in 1..Len(rs) : rs[i].id = id
    BY DEF Ids
  <2>2. Get(rs, id) = rs[i]
    BY <2>1, GetAt
  <2>3. ns[i].id = id
    BY <2>1 DEF SameKeys
  <2>4. Get(ns, id) = ns[i]
    BY <1>1, <2>3, GetAt
  <2>5. QED
    BY <2>1, <2>2, <2>4 DEF Mutations
<1>3. QED
  BY <1>1, <1>2 DEF Adds

LEMMA LedAdds ==
  ASSUME NEW rs, NEW up, Sound(rs, up), NEW S
  PROVE  Adds(rs, Led(rs, S), up, S, 0)
<1> DEFINE ns == Led(rs, S)
<1>1. DOMAIN rs = 1..Len(rs)
  BY DEF Sound
<1>2. ns = [i \in 1..Len(rs) |-> ns[i]]
  BY <1>1 DEF Led
<1>3. ASSUME NEW i \in 1..Len(rs)
      PROVE  /\ GroupOK(ns[i]) /\ SameKeys(rs[i], ns[i]) /\ Live(ns[i]) = up
             /\ ns[i].commit - ns[i].term
                  = (rs[i].commit - rs[i].term) + (IF rs[i].id \in S THEN 0 ELSE 0)
  <2>1. rs[i] \in Region /\ GroupOK(rs[i]) /\ Live(rs[i]) = up
    BY DEF Sound, GroupOK
  <2>2. rs[i].commit \in Nat /\ rs[i].term \in Nat
    BY <2>1 DEF Region
  <2>3. CASE rs[i].id \in S
    <3>1. ns[i] = EnsureLeader(rs[i])
      BY <1>1, <2>3 DEF Led
    <3> HIDE DEF ns
    <3>2. QED
      BY <2>1, <2>2, <3>1, EnsureLeaderSteps
  <2>4. CASE rs[i].id \notin S
    <3>1. ns[i] = rs[i]
      BY <1>1, <2>4 DEF Led
    <3> HIDE DEF ns
    <3>2. QED
      BY <2>1, <2>2, <3>1 DEF SameKeys
  <2>5. QED
    BY <2>3, <2>4
<1> HIDE DEF ns
<1>f. ns \in [1..Len(rs) -> Region]
  BY <1>2, <1>3 DEF GroupOK
<1>4. Adds(rs, ns, up, S, 0)
  BY <1>f, <1>3, ReplacedAdds
<1>5. QED
  BY <1>4 DEF ns

(* A command commits in a Region exactly when a quorum of Stores is up.    *)
LEMMA ProposedAdds ==
  ASSUME NEW rs, NEW up, Sound(rs, up), NEW S
  PROVE  Adds(rs, Proposed(rs, S), up, S, IF HasQuorum(up) THEN 1 ELSE 0)
<1> DEFINE ns == Proposed(rs, S)
           n == IF HasQuorum(up) THEN 1 ELSE 0
<1>1. DOMAIN rs = 1..Len(rs)
  BY DEF Sound
<1>2. ns = [i \in 1..Len(rs) |-> ns[i]]
  BY <1>1 DEF Proposed
<1>3. ASSUME NEW i \in 1..Len(rs)
      PROVE  /\ GroupOK(ns[i]) /\ SameKeys(rs[i], ns[i]) /\ Live(ns[i]) = up
             /\ ns[i].commit - ns[i].term
                  = (rs[i].commit - rs[i].term) + (IF rs[i].id \in S THEN n ELSE 0)
  <2>1. rs[i] \in Region /\ GroupOK(rs[i]) /\ Live(rs[i]) = up
    BY DEF Sound, GroupOK
  <2>2. rs[i].commit \in Nat /\ rs[i].term \in Nat
    BY <2>1 DEF Region
  <2>3. CASE rs[i].id \in S
    <3>1. ns[i] = Replicate(rs[i])
      BY <1>1, <2>3 DEF Proposed
    <3> HIDE DEF ns
    <3>2. Commands(rs[i]) = n
      BY <2>1, LedByQuorum DEF Commands
    <3>3. NoOps(rs[i]) = Elections(rs[i]) /\ Elections(rs[i]) \in Nat
      BY DEF NoOps, Elections
    <3>4. n \in Nat
      OBVIOUS
    <3> HIDE DEF n
    <3>5. /\ GroupOK(ns[i]) /\ SameKeys(rs[i], ns[i]) /\ Live(ns[i]) = up
          /\ ns[i].commit = rs[i].commit + (NoOps(rs[i]) + Commands(rs[i]))
          /\ ns[i].term = rs[i].term + Elections(rs[i])
      BY <2>1, <3>1, ReplicateSteps
    <3> DEFINE after == ns[i]
               before == rs[i]
               won == Elections(before)
    <3>6. /\ after.commit = before.commit + (won + n) /\ after.term = before.term + won
          /\ won \in Nat /\ before.commit \in Nat /\ before.term \in Nat
      BY <2>2, <3>2, <3>3, <3>5
    <3> HIDE DEF after, before, won
    <3>7. after.commit - after.term = (before.commit - before.term) + n
      BY <3>4, <3>6
    <3>8. QED
      BY <2>3, <3>5, <3>7 DEF after, before
  <2>4. CASE rs[i].id \notin S
    <3>1. ns[i] = rs[i]
      BY <1>1, <2>4 DEF Proposed
    <3> HIDE DEF ns, n
    <3>2. QED
      BY <2>1, <2>2, <2>4, <3>1 DEF SameKeys
  <2>5. QED
    BY <2>3, <2>4
<1>4. n \in Int
  OBVIOUS
<1> HIDE DEF ns, n
<1>f. ns \in [1..Len(rs) -> Region]
  BY <1>2, <1>3 DEF GroupOK
<1>5. Adds(rs, ns, up, S, n)
  BY <1>f, <1>3, <1>4, ReplacedAdds
<1>6. QED
  BY <1>5 DEF ns, n

LEMMA ServedAdds ==
  ASSUME NEW rs, NEW up, Sound(rs, up), NEW S, NEW policy
  PROVE  Adds(rs, ServedFrom(rs, S, policy), up, S, 0)
<1> DEFINE ns == ServedFrom(rs, S, policy)
<1>1. DOMAIN rs = 1..Len(rs)
  BY DEF Sound
<1>2. ns = [i \in 1..Len(rs) |-> ns[i]]
  BY <1>1 DEF ServedFrom
<1>3. ASSUME NEW i \in 1..Len(rs)
      PROVE  /\ GroupOK(ns[i]) /\ SameKeys(rs[i], ns[i]) /\ Live(ns[i]) = up
             /\ ns[i].commit - ns[i].term
                  = (rs[i].commit - rs[i].term) + (IF rs[i].id \in S THEN 0 ELSE 0)
  <2>1. rs[i] \in Region /\ GroupOK(rs[i]) /\ Live(rs[i]) = up
    BY DEF Sound, GroupOK
  <2>2. rs[i].commit \in Nat /\ rs[i].term \in Nat
    BY <2>1 DEF Region
  <2> DEFINE e == EnsureLeader(rs[i])
             f == ReadFrom(e, policy)
  <2>3. ns[i] \in {rs[i], e, f}
    BY <1>1 DEF ServedFrom
  <2>4. /\ GroupOK(e) /\ SameKeys(rs[i], e) /\ Live(e) = up /\ e \in Region
        /\ e.commit - e.term = rs[i].commit - rs[i].term
    <3>1. /\ GroupOK(e) /\ SameKeys(rs[i], e) /\ Live(e) = up
          /\ e.commit = rs[i].commit + NoOps(rs[i]) /\ e.term = rs[i].term + Elections(rs[i])
          /\ NoOps(rs[i]) = Elections(rs[i]) /\ Elections(rs[i]) \in Nat
      BY <2>1, EnsureLeaderSteps
    <3> HIDE DEF e
    <3>2. QED
      BY <2>2, <3>1 DEF GroupOK
  <2> HIDE DEF e
  <2>5. /\ GroupOK(f) /\ SameKeys(e, f) /\ Live(f) = up
        /\ f.commit = e.commit /\ f.term = e.term
    BY <2>4, ReadFromSteps
  <2> HIDE DEF f, ns
  <2>6. QED
    BY <2>1, <2>2, <2>3, <2>4, <2>5 DEF SameKeys
<1> HIDE DEF ns
<1>f. ns \in [1..Len(rs) -> Region]
  BY <1>2, <1>3 DEF GroupOK
<1>4. Adds(rs, ns, up, S, 0)
  BY <1>f, <1>3, ReplacedAdds
<1>5. QED
  BY <1>4 DEF ns

(* markStoreDown takes the Store away from every Region alike.             *)
LEMMA StoreDownAdds ==
  ASSUME NEW rs, NEW up, Sound(rs, up), NEW id \in Ids(rs)
  PROVE  Adds(rs, StoreDown(rs, id), up \ {Get(rs, id).leader}, {}, 0)
<1> DEFINE ns == StoreDown(rs, id)
           s == Get(rs, id).leader
           vp == up \ {s}
           none == {}
<1>1. DOMAIN rs = 1..Len(rs)
  BY DEF Sound
<1>2. ns = [i \in 1..Len(rs) |-> ns[i]]
  BY <1>1 DEF StoreDown
<1>s. s \in Store
  BY SoundAt DEF Region
<1>3. ASSUME NEW i \in 1..Len(rs)
      PROVE  /\ GroupOK(ns[i]) /\ SameKeys(rs[i], ns[i]) /\ Live(ns[i]) = vp
             /\ ns[i].commit - ns[i].term
                  = (rs[i].commit - rs[i].term) + (IF rs[i].id \in none THEN 0 ELSE 0)
  <2>1. rs[i] \in Region /\ GroupOK(rs[i]) /\ Live(rs[i]) = up
    BY DEF Sound, GroupOK
  <2>2. rs[i].commit \in Nat /\ rs[i].term \in Nat
    BY <2>1 DEF Region
  <2>3. ns[i] = PeerDown(rs[i], s)
    BY <1>1 DEF StoreDown
  <2> HIDE DEF ns, s
  <2>4. QED
    BY <1>s, <2>1, <2>2, <2>3, PeerDownSteps
<1> HIDE DEF ns, s, vp, none
<1>f. ns \in [1..Len(rs) -> Region]
  BY <1>2, <1>3 DEF GroupOK
<1>4. Adds(rs, ns, vp, none, 0)
  BY <1>f, <1>3, ReplacedAdds
<1>5. QED
  BY <1>4 DEF ns, s, vp, none

-----------------------------------------------------------------------------
(* Inserting before position i shifts the rest by one.                     *)
LEMMA InsertAtOK ==
  ASSUME NEW X, NEW s \in Seq(X), NEW i \in 1..Len(s), NEW e \in X
  PROVE  /\ InsertAt(s, i, e) \in Seq(X)
         /\ Len(InsertAt(s, i, e)) = Len(s) + 1
         /\ \A j \in 1..(Len(s) + 1) :
              InsertAt(s, i, e)[j] = IF j < i THEN s[j] ELSE IF j = i THEN e ELSE s[j - 1]
<1> DEFINE a == SubSeq(s, 1, i - 1)
           b == SubSeq(s, i, Len(s))
           L == Len(s)
<1>1. L \in Nat /\ i \in 1..L
  OBVIOUS
<1>2. a \in Seq(X) /\ Len(a) = i - 1 /\ \A j \in 1..(i - 1) : a[j] = s[j]
  BY <1>1
<1>3. b \in Seq(X) /\ Len(b) = L - i + 1 /\ \A j \in 1..(L - i + 1) : b[j] = s[i + j - 1]
  BY <1>1
<1>4. <<e>> \in Seq(X) /\ Len(<<e>>) = 1 /\ <<e>>[1] = e
  OBVIOUS
<1> DEFINE c == <<e>>
<1>5. c \in Seq(X) /\ Len(c) = 1 /\ c[1] = e
  BY <1>4
<1>6. InsertAt(s, i, e) = a \o c \o b
  BY DEF InsertAt
<1> HIDE DEF a, b, c
<1> DEFINE ac == a \o c
<1>7. ac \in Seq(X) /\ Len(ac) = i /\ \A j \in 1..i : ac[j] = IF j < i THEN s[j] ELSE e
  <2>0. /\ ac \in Seq(X) /\ Len(ac) = Len(a) + Len(c)
        /\ \A j \in 1..Len(a) + Len(c) : ac[j] = IF j <= Len(a) THEN a[j] ELSE c[j - Len(a)]
    BY <1>2, <1>5, ConcatProperties
  <2> HIDE DEF ac
  <2>1. ac \in Seq(X) /\ Len(ac) = i
    BY <1>1, <1>2, <1>5, <2>0
  <2>2. ASSUME NEW j \in 1..i PROVE ac[j] = IF j < i THEN s[j] ELSE e
    <3>1. CASE j < i
      <4>1. j \in 1..(i - 1) /\ j <= Len(a) /\ j \in 1..(Len(a) + Len(c))
        BY <1>1, <1>2, <1>5, <3>1
      <4>2. ac[j] = a[j] /\ a[j] = s[j]
        BY <1>2, <2>0, <4>1
      <4>3. QED
        BY <3>1, <4>2
    <3>2. CASE j = i
      BY <1>1, <1>2, <1>5, <2>0, <3>2
    <3>3. QED
      BY <1>1, <3>1, <3>2
  <2>3. QED
    BY <2>1, <2>2
<1> HIDE DEF ac
<1> DEFINE t == ac \o b
<1>t. /\ t \in Seq(X) /\ Len(t) = Len(ac) + Len(b)
      /\ \A j \in 1..Len(ac) + Len(b) : t[j] = IF j <= Len(ac) THEN ac[j] ELSE b[j - Len(ac)]
  BY <1>3, <1>7, ConcatProperties
<1> HIDE DEF t
<1>8. t \in Seq(X) /\ Len(t) = L + 1
  BY <1>1, <1>3, <1>7, <1>t
<1>9. ASSUME NEW j \in 1..(L + 1)
      PROVE  t[j] = IF j < i THEN s[j] ELSE IF j = i THEN e ELSE s[j - 1]
  <2>1. CASE j <= i
    BY <1>1, <1>3, <1>7, <1>t, <2>1
  <2>2. CASE j > i
    <3>1. t[j] = b[j - i] /\ j - i \in 1..(L - i + 1)
      BY <1>1, <1>3, <1>7, <1>t, <2>2
    <3>2. b[j - i] = s[i + (j - i) - 1] /\ i + (j - i) - 1 = j - 1
      BY <1>1, <1>3, <3>1
    <3>3. QED
      BY <1>1, <2>2, <3>1, <3>2
  <2>3. QED
    BY <1>1, <2>1, <2>2
<1>10. InsertAt(s, i, e) = t
  BY <1>6 DEF t, ac
<1>11. QED
  BY <1>8, <1>9, <1>10

LEMMA HalfLogs ==
  ASSUME NEW r \in Region
  PROVE  UpperHalf(r).commit = r.commit /\ UpperHalf(r).term = r.term
BY DEF UpperHalf, Region

(* How far a Region's log and term are.                                    *)
LogOf(r) == [commit |-> r.commit, term |-> r.term]

(* A split adds its admin command to the Region, and one Region to the     *)
(* array, when a quorum commits it.                                        *)
LEMMA SplitAdds ==
  ASSUME NEW up, Sound(regions, up), HotRegion \in Ids(regions), Splittable(regions, HotRegion)
  PROVE  LET ns == Split(regions, HotRegion)
             n == IF HasQuorum(up) THEN 1 ELSE 0
         IN  /\ Sound(ns, up)
             /\ Ids(regions) \subseteq Ids(ns)
             /\ Len(ns) = Len(regions) + n
             /\ \A id \in Ids(regions) :
                  /\ Mutations(ns, id) = Mutations(regions, id) + (IF id = HotRegion THEN n ELSE 0)
                  /\ LogOf(Get(ns, id))
                       = LogOf(IF id = HotRegion THEN Replicate(Get(regions, id)) ELSE Get(regions, id))
<1> DEFINE L == Len(regions)
           ns == Split(regions, HotRegion)
           n == IF HasQuorum(up) THEN 1 ELSE 0
           i == CHOOSE i \in DOMAIN regions : regions[i].id = HotRegion
           r == regions[i]
           p == Replicate(r)
           fresh == Max({regions[j].id : j \in DOMAIN regions}) + 1
           lo == LowerHalf(p, fresh)
           hi == UpperHalf(p)
<1>1. /\ regions \in Seq(Region) /\ L \in Nat /\ L >= 1 /\ DOMAIN regions = 1..L
      /\ \A j \in 1..L : regions[j] \in Region /\ GroupOK(regions[j]) /\ Live(regions[j]) = up
      /\ Group!Partition(regions)
  BY DEF Sound, GroupOK
<1>2. i \in 1..L /\ r.id = HotRegion
  <2>1. \E j \in DOMAIN regions : regions[j].id = HotRegion
    BY <1>1 DEF Ids
  <2>2. QED
    BY <1>1, <2>1
<1>3. Get(regions, HotRegion) = r
  BY DEF Get
<1>4. ns = IF ~LeaderAvailable(r) THEN [regions EXCEPT ![i] = p]
           ELSE InsertAt([regions EXCEPT ![i] = hi], i, lo)
  BY DEF Split
<1>5. fresh = Group!NextRegionId
  <2>1. Group!RegionIds = {regions[j].id : j \in DOMAIN regions}
    BY <1>1 DEF Group!RegionIds, Group!Positions
  <2>2. \A S : Group!Max(S) = Max(S)
    BY DEF Max, Group!Max
  <2>3. QED
    BY <2>1, <2>2 DEF Group!NextRegionId
<1>6. fresh = L /\ fresh \in Nat
  <2>1. regions \in Seq(Group!Region)
    BY <1>1, SameGroups
  <2>2. Group!NextRegionId = L
    BY <1>1, <2>1, GroupApplies, Group!NextIdFresh
  <2>3. QED
    BY <1>1, <1>5, <2>2
<1> HIDE DEF i, fresh, ns
<1>7. r \in Region /\ GroupOK(r) /\ Live(r) = up /\ r.commit \in Nat /\ r.term \in Nat
  BY <1>1, <1>2 DEF Region
<1>8. LeaderAvailable(r) <=> HasQuorum(up)
  BY <1>7, LedByQuorum
<1>9. /\ GroupOK(p) /\ SameKeys(r, p) /\ Live(p) = up /\ p \in Region
      /\ p.commit - p.term = (r.commit - r.term) + n
  <2>1. /\ GroupOK(p) /\ SameKeys(r, p) /\ Live(p) = Live(r)
        /\ p.commit = r.commit + (NoOps(r) + Commands(r)) /\ p.term = r.term + Elections(r)
    BY <1>7, ReplicateSteps
  <2>2. Commands(r) = n /\ NoOps(r) = Elections(r) /\ Elections(r) \in Nat /\ n \in Nat
    BY <1>8 DEF Commands, NoOps, Elections
  <2> HIDE DEF p, n
  <2>3. QED
    BY <1>7, <2>1, <2>2 DEF GroupOK
<1>10. CASE ~LeaderAvailable(r)
  <2>1. ns = [regions EXCEPT ![i] = p] /\ n = 0
    BY <1>4, <1>8, <1>10
  <2> HIDE DEF p, n
  <2>2. ns \in [1..L -> Region] /\ \A j \in 1..L : ns[j] = IF j = i THEN p ELSE regions[j]
    BY <1>1, <1>2, <1>9, <2>1
  <2>3. ASSUME NEW j \in 1..L
        PROVE  /\ GroupOK(ns[j]) /\ SameKeys(regions[j], ns[j]) /\ Live(ns[j]) = up
               /\ ns[j].commit - ns[j].term
                    = (regions[j].commit - regions[j].term)
                        + (IF regions[j].id \in {HotRegion} THEN n ELSE 0)
    <3>1. CASE j = i
      BY <1>2, <1>9, <2>2, <3>1
    <3>2. CASE j # i
      <4>1. ns[j] = regions[j] /\ regions[j].commit \in Nat /\ regions[j].term \in Nat
        BY <1>1, <2>2, <3>2 DEF Region
      <4>2. QED
        BY <1>1, <2>1, <4>1 DEF SameKeys
    <3>3. QED
      BY <3>1, <3>2
  <2> DEFINE S == {HotRegion}
  <2>4. \A j \in 1..L :
               /\ GroupOK(ns[j]) /\ SameKeys(regions[j], ns[j]) /\ Live(ns[j]) = up
               /\ ns[j].commit - ns[j].term
                    = (regions[j].commit - regions[j].term) + (IF regions[j].id \in S THEN n ELSE 0)
    BY <2>3
  <2>5. n \in Int
    BY <2>1
  <2> HIDE DEF S
  <2>6. Adds(regions, ns, up, S, n)
    BY <2>2, <2>4, <2>5, ReplacedAdds
  <2>7. /\ Sound(ns, up) /\ Ids(ns) = Ids(regions) /\ Len(ns) = L + n
        /\ \A id \in Ids(regions) :
              Mutations(ns, id) = Mutations(regions, id) + (IF id = HotRegion THEN n ELSE 0)
    <3>1. \A id : id \in S <=> id = HotRegion
      BY DEF S
    <3>2. Sound(ns, up) /\ Ids(ns) = Ids(regions) /\ Len(ns) = L
      BY <2>6 DEF Adds
    <3>3. \A id \in Ids(regions) :
            Mutations(ns, id) = Mutations(regions, id) + (IF id \in S THEN n ELSE 0)
      BY <2>6 DEF Adds
    <3>4. Len(ns) = L + n
      BY <1>1, <2>1, <3>2
    <3>5. ASSUME NEW id \in Ids(regions)
          PROVE  Mutations(ns, id) = Mutations(regions, id) + (IF id = HotRegion THEN n ELSE 0)
      <4>1. (IF id \in S THEN n ELSE 0) = (IF id = HotRegion THEN n ELSE 0)
        BY <3>1
      <4>2. QED
        BY <3>3, <4>1
    <3>6. QED
      BY <3>2, <3>4, <3>5
  <2>8. ASSUME NEW id \in Ids(regions)
        PROVE  Get(ns, id) = IF id = HotRegion THEN p ELSE Get(regions, id)
    <3>1. PICK k \in 1..L : regions[k].id = id
      BY DEF Ids
    <3>2. Get(regions, id) = regions[k] /\ k \in 1..Len(ns) /\ ns[k].id = id
      BY <1>1, <2>3, <2>6, <3>1, GetAt DEF SameKeys, Adds
    <3>3. Get(ns, id) = ns[k]
      BY <2>7, <3>2, GetAt
    <3>4. id = HotRegion <=> k = i
      BY <1>1, <1>2, <3>1 DEF Group!Partition
    <3>5. QED
      BY <2>2, <3>2, <3>3, <3>4
  <2>9. QED
    BY <1>3, <2>7, <2>8 DEF ns, n, p
<1>11. CASE LeaderAvailable(r)
  <2>1. n = 1
    BY <1>8, <1>11
  <2> DEFINE mid == Midpoint(p)
  <2>2. /\ mid \in Nat /\ p.startKey < mid /\ mid < p.endKey
        /\ GroupOK(hi) /\ GroupOK(lo) /\ Live(hi) = up /\ Live(lo) = up
        /\ lo.startKey = p.startKey /\ lo.endKey = mid
        /\ hi.startKey = mid /\ hi.endKey = p.endKey
        /\ lo.id = fresh /\ hi.id = p.id
    <3>1. Group!Midpoint(p) = mid /\ Group!UpperHalf(p) = hi /\ Group!LowerHalf(p, fresh) = lo
      BY SameSteps
    <3>2. Midpoint(r) = mid
      BY <1>9 DEF SameKeys, Midpoint
    <3>3. r.startKey < mid /\ mid < r.endKey
      BY <1>3, <1>7, <3>2 DEF Splittable, Region, Midpoint
    <3>4. Group!Splittable(p)
      BY <1>7, <1>9, <3>1, <3>3 DEF Group!Splittable, SameKeys, Region, Midpoint
    <3>5. p \in Group!Region /\ Group!GroupOK(p)
      BY <1>9, SameGroups
    <3> HIDE DEF p, mid, lo, hi
    <3>6. /\ mid \in Nat /\ p.startKey < mid /\ mid < p.endKey
          /\ Group!GroupOK(hi) /\ Group!GroupOK(lo)
          /\ Group!Live(hi) = Group!Live(p) /\ Group!Live(lo) = Group!Live(p)
          /\ lo.startKey = p.startKey /\ lo.endKey = mid
          /\ hi.startKey = mid /\ hi.endKey = p.endKey
          /\ lo.id = fresh /\ hi.id = p.id
      BY <1>6, <3>1, <3>4, <3>5, GroupApplies, Group!HalvesOK
    <3>7. QED
      BY <1>9, <3>6, SameGroups
  <2>3. hi.commit = p.commit /\ hi.term = p.term
    BY <1>9, HalfLogs
  <2> HIDE DEF p, lo, hi, mid, n
  <2> DEFINE us == [regions EXCEPT ![i] = hi]
  <2>4. /\ us \in Seq(Region) /\ Len(us) = L
        /\ \A j \in 1..L : us[j] = IF j = i THEN hi ELSE regions[j]
    BY <1>1, <1>2, <2>2 DEF GroupOK
  <2>5. ns = InsertAt(us, i, lo)
    BY <1>4, <1>11
  <2> HIDE DEF us
  <2>6. /\ ns \in Seq(Region) /\ Len(ns) = L + 1
        /\ \A j \in 1..(L + 1) : ns[j] = IF j < i THEN us[j] ELSE IF j = i THEN lo ELSE us[j - 1]
    <3>1. us \in Seq(Region) /\ i \in 1..Len(us) /\ lo \in Region
      BY <1>2, <2>2, <2>4 DEF GroupOK
    <3>2. /\ InsertAt(us, i, lo) \in Seq(Region) /\ Len(InsertAt(us, i, lo)) = Len(us) + 1
          /\ \A j \in 1..(Len(us) + 1) :
               InsertAt(us, i, lo)[j] = IF j < i THEN us[j] ELSE IF j = i THEN lo ELSE us[j - 1]
      BY <3>1, InsertAtOK
    <3>3. QED
      BY <2>4, <2>5, <3>2
  <2>7. \A j \in 1..(L + 1) : ns[j] = IF j < i THEN regions[j] ELSE IF j = i THEN lo
                                      ELSE IF j = i + 1 THEN hi ELSE regions[j - 1]
    <3>1. ASSUME NEW j \in 1..(L + 1)
          PROVE  ns[j] = IF j < i THEN regions[j] ELSE IF j = i THEN lo
                         ELSE IF j = i + 1 THEN hi ELSE regions[j - 1]
      <4>1. CASE j < i
        BY <1>1, <1>2, <2>4, <2>6, <4>1
      <4>2. CASE j = i
        BY <2>6, <4>2, <1>2
      <4>3. CASE j > i
        <5>1. j - 1 \in 1..L /\ (j = i + 1 <=> j - 1 = i) /\ ~(j < i) /\ j # i
          BY <1>1, <1>2, <4>3
        <5>2. QED
          BY <2>4, <2>6, <5>1
      <4>4. QED
        BY <1>1, <1>2, <4>1, <4>2, <4>3
    <3>2. QED
      BY <3>1
  <2>8. ns = Group!Splice(i, lo, hi)
    <3>1. DOMAIN ns = 1..(L + 1) /\ ns = [j \in 1..(L + 1) |-> ns[j]]
      BY <2>6
    <3>2. QED
      BY <2>7, <3>1 DEF Group!Splice
  <2>9. Sound(ns, up)
    <3>1. Live(regions[1]) = up
      BY <1>1
    <3>2. Group!RegionsOK(regions, Live(regions[1])) /\ i \in Group!Positions
      BY <1>1, <1>2, <3>1, SameGroups DEF Group!RegionsOK, Group!Positions
    <3>3. /\ Group!GroupOK(lo) /\ Group!GroupOK(hi)
          /\ Group!Live(lo) = Live(regions[1]) /\ Group!Live(hi) = Live(regions[1])
      BY <2>2, <3>1, SameGroups
    <3>4. /\ lo.startKey = regions[i].startKey /\ hi.endKey = regions[i].endKey
          /\ hi.id = regions[i].id /\ lo.id = Len(regions)
          /\ regions[i].startKey < mid /\ mid < regions[i].endKey
          /\ mid \in Nat /\ lo.endKey = mid /\ hi.startKey = mid
      BY <1>6, <1>9, <2>2 DEF SameKeys
    <3>5. /\ Group!RegionsOK(Group!Splice(i, lo, hi), Live(regions[1]))
          /\ Group!Partition(Group!Splice(i, lo, hi))
      BY <1>1, <3>2, <3>3, <3>4, GroupApplies, Group!SpliceOK
    <3>6. QED
      BY <1>1, <2>6, <2>8, <3>1, <3>5, SameGroups DEF Group!RegionsOK, Sound
  <2>10. ASSUME NEW id \in Ids(regions)
         PROVE  /\ id \in Ids(ns)
                /\ Mutations(ns, id) = Mutations(regions, id) + (IF id = HotRegion THEN n ELSE 0)
                /\ LogOf(Get(ns, id)) = LogOf(IF id = HotRegion THEN p ELSE Get(regions, id))
    <3>1. PICK k \in 1..L : regions[k].id = id
      BY DEF Ids
    <3>2. Get(regions, id) = regions[k] /\ regions[k].commit \in Nat /\ regions[k].term \in Nat
      BY <1>1, <3>1, GetAt DEF Region
    <3>3. CASE k = i
      <4>1. i + 1 \in 1..(L + 1) /\ ns[i + 1] = hi
        BY <1>1, <1>2, <2>7
      <4>2. hi.id = id /\ id = HotRegion
        BY <1>2, <1>9, <2>2, <3>1, <3>3 DEF SameKeys
      <4>3. Get(ns, id) = hi /\ id \in Ids(ns)
        BY <2>6, <2>9, <4>1, <4>2, GetAt
      <4>4. QED
        BY <1>9, <2>3, <3>2, <3>3, <4>2, <4>3 DEF Mutations, LogOf
    <3>4. CASE k # i
      <4>1. id # HotRegion
        BY <1>1, <1>2, <3>1, <3>4 DEF Group!Partition
      <4>2. \E m \in 1..(L + 1) : ns[m] = regions[k]
        <5>1. CASE k < i
          <6>1. k \in 1..(L + 1) /\ ns[k] = regions[k]
            BY <1>1, <2>7, <5>1
          <6>2. QED
            BY <6>1
        <5>2. CASE k > i
          <6>1. /\ k + 1 \in 1..(L + 1) /\ ~(k + 1 < i) /\ k + 1 # i /\ k + 1 # i + 1
                /\ (k + 1) - 1 = k
            BY <1>1, <1>2, <5>2
          <6>2. ns[k + 1] = regions[k]
            BY <2>7, <6>1
          <6>3. QED
            BY <6>1, <6>2
        <5>3. QED
          BY <1>1, <1>2, <3>4, <5>1, <5>2
      <4>3. Get(ns, id) = regions[k] /\ id \in Ids(ns)
        BY <2>6, <2>9, <3>1, <4>2, GetAt
      <4>4. QED
        BY <3>2, <4>1, <4>3 DEF Mutations
    <3>5. QED
      BY <3>3, <3>4
  <2>11. QED
    BY <1>3, <2>1, <2>6, <2>9, <2>10 DEF ns, n, p
<1>12. QED
  BY <1>10, <1>11

-----------------------------------------------------------------------------
(* Between calls the engine's Regions are sound.                           *)
RegionsSound == \E up : Sound(regions, up)

(* Where a call leaves the array: the Regions of S have n entries more,    *)
(* and the Region that split has its admin command.                        *)
Reaches(ns, up, S, n) ==
  /\ Sound(ns, up)
  /\ Ids(regions) \subseteq Ids(ns)
  /\ \A id \in Ids(regions) :
       Mutations(ns, id) = Mutations(regions, id)
                             + (IF id = HotRegion THEN Len(ns) - Len(regions) ELSE 0)
                             + (IF id \in S THEN n ELSE 0)

AtomicStep ==
  calls' # calls =>
    LET admin(id) == IF id = HotRegion THEN Len(regions') - Len(regions) ELSE 0
        gained(id) == Mutations(regions', id) - Mutations(regions, id) - admin(id)
        ids == Range(lastTrace'.ids)
    IN  IF lastTrace'.outcome = "committed"
        THEN /\ \E n \in 1..2 : \A id \in ids : gained(id) = n
             /\ \A id \in RegionIds \ ids : gained(id) = 0
        ELSE \A id \in RegionIds : gained(id) = 0

LEMMA SoundLen ==
  ASSUME NEW rs, NEW up, Sound(rs, up)
  PROVE  DOMAIN rs = 1..Len(rs) /\ Len(rs) \in Nat
BY DEF Sound

LEMMA IdsOfRegions == RegionsSound => RegionIds = Ids(regions)
BY SoundLen DEF RegionsSound, RegionIds, Ids

(* The record of a call, as far as the Regions go.                         *)
LEMMA CallsOnRegions ==
  ASSUME NEW c, NEW S, NEW id
  PROVE  /\ LeadAll(c, S).rs = Led(c.rs, S)
         /\ ProposeAll(c, S).rs = Proposed(c.rs, S)
         /\ SplitAt(c, id).rs = Split(c.rs, id)
         /\ Untouched.rs = regions
BY Zenon DEF LeadAll, ProposeAll, SplitAt, Counted, Untouched

LEMMA ReachesAgain ==
  ASSUME NEW ns, NEW up, NEW S, NEW n \in Int, Reaches(ns, up, S, n),
         NEW ms, NEW vp, NEW m \in Int, Adds(ns, ms, vp, S, m), RegionsSound
  PROVE  Reaches(ms, vp, S, n + m)
<1>1. Sound(ms, vp) /\ Ids(ms) = Ids(ns) /\ Len(ms) = Len(ns) /\ Ids(regions) \subseteq Ids(ms)
  BY DEF Adds, Reaches
<1>2. ASSUME NEW id \in Ids(regions)
      PROVE  Mutations(ms, id) = Mutations(regions, id)
                                   + (IF id = HotRegion THEN Len(ms) - Len(regions) ELSE 0)
                                   + (IF id \in S THEN n + m ELSE 0)
  <2>1. id \in Ids(ns)
    BY DEF Reaches
  <2>2. Mutations(ms, id) = Mutations(ns, id) + (IF id \in S THEN m ELSE 0)
    BY <2>1 DEF Adds
  <2>3. Mutations(ns, id) = Mutations(regions, id)
                              + (IF id = HotRegion THEN Len(ns) - Len(regions) ELSE 0)
                              + (IF id \in S THEN n ELSE 0)
    BY DEF Reaches
  <2>4. Mutations(regions, id) \in Int /\ Len(ns) \in Nat /\ Len(regions) \in Nat
    BY SoundAt, SoundLen DEF RegionsSound, Reaches
  <2>5. QED
    BY <1>1, <2>2, <2>3, <2>4
<1>3. QED
  BY <1>1, <1>2 DEF Reaches

LEMMA ReachesNoFurther ==
  ASSUME NEW ns, NEW up, NEW S, NEW n \in Int, Reaches(ns, up, S, n),
         NEW ms, NEW T, NEW vp, Adds(ns, ms, vp, T, 0), RegionsSound
  PROVE  Reaches(ms, vp, S, n)
<1> DEFINE m == 0
<1>1. Sound(ms, vp) /\ Ids(ms) = Ids(ns) /\ Len(ms) = Len(ns)
  BY DEF Adds
<1>2. ASSUME NEW id \in Ids(ns)
      PROVE  Mutations(ms, id) = Mutations(ns, id) + (IF id \in S THEN m ELSE 0)
  <2>1. Mutations(ms, id) = Mutations(ns, id) + (IF id \in T THEN 0 ELSE 0)
    BY DEF Adds
  <2>2. QED
    BY <2>1
<1>3. m \in Int /\ n + m = n
  OBVIOUS
<1> HIDE DEF m
<1>4. Adds(ns, ms, vp, S, m)
  BY <1>1, <1>2 DEF Adds
<1>5. Reaches(ms, vp, S, n + m)
  BY <1>3, <1>4, ReachesAgain
<1>6. QED
  BY <1>3, <1>5

(* The primary and then the secondaries: all of them once.                 *)
LEMMA AddsInTurn ==
  ASSUME NEW a, NEW b, NEW c, NEW up, NEW S, NEW p \in S, NEW n \in Int,
         Sound(a, up), Adds(a, b, up, {p}, n), Adds(b, c, up, S \ {p}, n)
  PROVE  Adds(a, c, up, S, n)
<1>1. Sound(c, up) /\ Ids(c) = Ids(a) /\ Len(c) = Len(a) /\ Ids(b) = Ids(a)
  BY DEF Adds
<1>2. ASSUME NEW id \in Ids(a)
      PROVE  Mutations(c, id) = Mutations(a, id) + (IF id \in S THEN n ELSE 0)
  <2>1. Mutations(a, id) \in Int
    BY SoundAt
  <2>2. Mutations(b, id) = Mutations(a, id) + (IF id = p THEN n ELSE 0)
    <3>1. Mutations(b, id) = Mutations(a, id) + (IF id \in {p} THEN n ELSE 0)
      BY DEF Adds
    <3>2. QED
      BY <3>1
  <2>3. Mutations(c, id) = Mutations(b, id) + (IF id \in S /\ id # p THEN n ELSE 0)
    <3>1. Mutations(c, id) = Mutations(b, id) + (IF id \in S \ {p} THEN n ELSE 0)
      BY <1>1 DEF Adds
    <3>2. QED
      BY <3>1
  <2>4. QED
    BY <2>1, <2>2, <2>3
<1>3. QED
  BY <1>1, <1>2 DEF Adds

LEMMA ReachesAtomic ==
  ASSUME RegionsSound, NEW up, NEW n \in Int, NEW S, Reaches(regions', up, S, n),
         \/ /\ n \in 1..2 /\ lastTrace'.outcome = "committed"
            /\ S = Range(lastTrace'.ids) /\ S \subseteq RegionIds
         \/ n = 0 /\ lastTrace'.outcome # "committed"
  PROVE  RegionsSound' /\ AtomicStep
<1>1. RegionsSound'
  BY DEF RegionsSound, Reaches, Sound, Group!Partition, Group!KeyspaceEnd
<1> DEFINE admin(id) == IF id = HotRegion THEN Len(regions') - Len(regions) ELSE 0
           gained(id) == Mutations(regions', id) - Mutations(regions, id) - admin(id)
<1>2. RegionIds = Ids(regions)
  BY IdsOfRegions
<1>3. ASSUME NEW id \in RegionIds
      PROVE  gained(id) = IF id \in S THEN n ELSE 0
  <2>1. id \in Ids(regions)
    BY <1>2
  <2>2. Mutations(regions, id) \in Int /\ Len(regions) \in Nat /\ Len(regions') \in Nat
    BY <2>1, SoundAt, SoundLen DEF RegionsSound, Reaches
  <2>3. Mutations(regions', id) = Mutations(regions, id)
                                    + admin(id) + (IF id \in S THEN n ELSE 0)
    BY <2>1 DEF Reaches
  <2>4. QED
    BY <2>2, <2>3
<1> HIDE DEF gained
<1>4. IF lastTrace'.outcome = "committed"
      THEN /\ \E k \in 1..2 : \A id \in Range(lastTrace'.ids) : gained(id) = k
           /\ \A id \in RegionIds \ Range(lastTrace'.ids) : gained(id) = 0
      ELSE \A id \in RegionIds : gained(id) = 0
  <2>1. CASE n = 0
    BY <1>3, <2>1
  <2>2. CASE /\ n \in 1..2 /\ lastTrace'.outcome = "committed"
             /\ S = Range(lastTrace'.ids) /\ S \subseteq RegionIds
    BY <1>3, <2>2
  <2>3. QED
    BY <2>1, <2>2
<1>5. AtomicStep
  BY <1>4 DEF AtomicStep, gained, admin
<1>6. QED
  BY <1>1, <1>5

-----------------------------------------------------------------------------
LEMMA IdListOK ==
  ASSUME NEW ids \in IdLists
  PROVE  /\ ids[1] \in Range(ids) /\ Range(ids) \subseteq RegionIds
         /\ Len(ids) = 1 => Range(ids) = {ids[1]}
         /\ DOMAIN ids = 1..Len(ids) /\ Len(ids) \in 1..2
<1>1. PICK n \in 1..2 : ids \in [1..n -> RegionIds]
  BY DEF IdLists
<1>2. n \in Nat /\ DOMAIN ids = 1..n /\ ids \in Seq(RegionIds)
  BY <1>1, SeqDef
<1>3. Len(ids) = n
  BY <1>2, LenProperties
<1>4. QED
  BY <1>1, <1>2, <1>3 DEF Range

(* All Regions lose their leaders together, as all see the same Stores.    *)
LEMMA LeaderlessTogether ==
  ASSUME NEW rs, NEW up, Sound(rs, up), NEW ids, Range(ids) \subseteq Ids(rs)
  PROVE  /\ HasQuorum(up) => Leaderless(rs, ids) = {}
         /\ ~HasQuorum(up) => Leaderless(rs, ids) = Range(ids)
<1>1. ASSUME NEW id \in Range(ids)
      PROVE  LeaderAvailable(Get(rs, id)) <=> HasQuorum(up)
  BY <1>1, SoundAt, LedByQuorum
<1>2. QED
  BY <1>1 DEF Leaderless

LEMMA RoutedReaches ==
  ASSUME NEW up, Sound(regions, up), NEW w \in Writes, NEW S
  PROVE  Reaches(Routed(w).rs, up, S, 0)
<1>1. RegionIds = Ids(regions)
  BY IdsOfRegions DEF RegionsSound
<1>2. \A id \in Ids(regions) : Mutations(regions, id) \in Int
  BY SoundAt
<1>3. Len(regions) \in Nat
  BY SoundLen
<1>4. CASE w.split
  <2> DEFINE n == IF HasQuorum(up) THEN 1 ELSE 0
             ns == Split(regions, HotRegion)
  <2>1. HotRegion \in Range(w.ids) /\ Splittable(regions, HotRegion) /\ w.ids \in IdLists
    BY <1>4 DEF Writes
  <2>2. HotRegion \in Ids(regions)
    BY <1>1, <2>1, IdListOK
  <2>3. /\ Sound(ns, up)
        /\ Ids(regions) \subseteq Ids(ns)
        /\ Len(ns) = Len(regions) + n
        /\ \A id \in Ids(regions) :
             Mutations(ns, id) = Mutations(regions, id) + (IF id = HotRegion THEN n ELSE 0)
    BY <2>1, <2>2, SplitAdds, Zenon
  <2>4. Routed(w).rs = ns
    BY <1>4, CallsOnRegions DEF Routed
  <2>5. n \in Nat
    OBVIOUS
  <2> HIDE DEF n, ns
  <2>6. Len(ns) - Len(regions) = n
    BY <1>3, <2>3, <2>5
  <2>7. \A id \in Ids(regions) :
          Mutations(ns, id) = Mutations(regions, id)
                                + (IF id = HotRegion THEN Len(ns) - Len(regions) ELSE 0)
                                + (IF id \in S THEN 0 ELSE 0)
    BY <1>2, <2>3, <2>5, <2>6
  <2>8. QED
    BY <2>3, <2>4, <2>7 DEF Reaches
<1>5. CASE ~w.split
  <2>1. Routed(w).rs = regions
    BY <1>5, CallsOnRegions DEF Routed
  <2>2. Len(regions) - Len(regions) = 0
    BY <1>3
  <2>3. QED
    BY <1>2, <2>1, <2>2 DEF Reaches
<1>6. QED
  BY <1>4, <1>5

(* Locks add nothing to the logs but elections.                            *)
LEMMA LocksReach ==
  ASSUME NEW up, Sound(regions, up), NEW w \in Writes, NEW S
  PROVE  /\ Reaches(AfterLocks(w).rs, up, S, 0)
         /\ Unlocked(w) = {} \/ ~HasQuorum(up)
<1>1. Reaches(Routed(w).rs, up, S, 0)
  BY RoutedReaches
<1>2. RegionsSound /\ RegionIds = Ids(regions) /\ w.ids \in IdLists
  BY IdsOfRegions DEF RegionsSound, Writes
<1>3. Sound(Routed(w).rs, up) /\ Range(w.ids) \subseteq Ids(Routed(w).rs)
  BY <1>1, <1>2, IdListOK DEF Reaches
<1>4. Adds(Routed(w).rs, Led(Routed(w).rs, Targets(w)), up, Targets(w), 0)
  BY <1>3, LedAdds
<1>5. Reaches(Led(Routed(w).rs, Targets(w)), up, S, 0)
  BY <1>1, <1>2, <1>4, ReachesNoFurther
<1>6. Reaches(AfterLocks(w).rs, up, S, 0)
  BY <1>1, <1>5, CallsOnRegions DEF AfterLocks
<1>7. Unlocked(w) = {} \/ ~HasQuorum(up)
  BY <1>3, LeaderlessTogether DEF Unlocked
<1>8. QED
  BY <1>6, <1>7

LEMMA Proposes ==
  ASSUME NEW c, NEW up, NEW S, NEW n \in Int, Reaches(c.rs, up, S, n), RegionsSound,
         HasQuorum(up)
  PROVE  Reaches(ProposeAll(c, S).rs, up, S, n + 1)
<1> DEFINE one == 1
<1>1. Sound(c.rs, up)
  BY DEF Reaches
<1>2. Adds(c.rs, Proposed(c.rs, S), up, S, one) /\ one \in Int
  BY <1>1, ProposedAdds
<1> HIDE DEF one
<1>3. Reaches(Proposed(c.rs, S), up, S, n + one)
  BY <1>2, ReachesAgain
<1>4. QED
  BY <1>3, CallsOnRegions DEF one

LEMMA ProposesInVain ==
  ASSUME NEW c, NEW up, NEW S, NEW T, Reaches(c.rs, up, S, 0), RegionsSound,
         ~HasQuorum(up)
  PROVE  Reaches(ProposeAll(c, T).rs, up, S, 0)
<1> DEFINE n == 0
<1>1. Sound(c.rs, up) /\ n \in Int /\ Reaches(c.rs, up, S, n)
  BY DEF Reaches
<1>2. Adds(c.rs, Proposed(c.rs, T), up, T, 0)
  BY <1>1, ProposedAdds
<1> HIDE DEF n
<1>3. Reaches(Proposed(c.rs, T), up, S, n)
  BY <1>1, <1>2, ReachesNoFurther
<1>4. QED
  BY <1>3, CallsOnRegions DEF n

LEMMA TraceWriteReaches ==
  ASSUME IInv, RegionsSound, NEW w \in Writes, TraceWrite(w)
  PROVE  RegionsSound' /\ AtomicStep
<1> DEFINE S == Targets(w)
           Ends(c, commitTs) ==
             /\ regions' = c.rs
             /\ lastTrace'.outcome = EndPhase(commitTs) /\ lastTrace'.ids = w.ids
<1>1. PICK up : Sound(regions, up)
  BY DEF RegionsSound
<1>2. /\ w.ids \in IdLists /\ S = Range(w.ids) /\ Primary(w) \in S /\ S \subseteq RegionIds
      /\ S # {} /\ Len(w.ids) = 1 => S = {Primary(w)}
      /\ RegionIds = Ids(regions)
  BY IdListOK, IdsOfRegions DEF Writes, Targets, Primary
<1>3. ASSUME NEW c, NEW ts, NEW commitTs, NEW collects, NEW conflicts,
             End(w, c, ts, commitTs, collects, conflicts)
      PROVE  Ends(c, commitTs)
  BY <1>3, Zenon DEF End
<1>4. /\ EndPhase(Unset) # "committed"
      /\ EndPhase(TwoTs.last) = "committed" /\ EndPhase(TwoTs.last + 1) = "committed"
  BY StartTsIsFresh, SimulationAssumption DEF EndPhase
<1>5. Reaches(Routed(w).rs, up, S, 0) /\ Reaches(AfterLocks(w).rs, up, S, 0)
  BY <1>1, RoutedReaches, LocksReach
<1>6. Sound(AfterLocks(w).rs, up) /\ S \subseteq Ids(AfterLocks(w).rs)
  BY <1>2, <1>5 DEF Reaches
(* Nothing but elections happened, and the transaction rolled back.        *)
<1>7. ASSUME NEW c, Ends(c, Unset), Reaches(c.rs, up, S, 0)
      PROVE  RegionsSound' /\ AtomicStep
  <2> DEFINE n == 0
  <2>1. n \in Int /\ n = 0 /\ Reaches(regions', up, S, n) /\ lastTrace'.outcome # "committed"
    BY <1>4, <1>7
  <2> HIDE DEF n
  <2>2. QED
    BY <2>1, ReachesAtomic
(* Every target got the same entries, and the transaction committed.       *)
<1>8. ASSUME NEW c, NEW commitTs \in {TwoTs.last, TwoTs.last + 1}, Ends(c, commitTs),
             NEW n \in 1..2, Reaches(c.rs, up, S, n)
      PROVE  RegionsSound' /\ AtomicStep
  <2>1. /\ n \in Int /\ Reaches(regions', up, S, n) /\ lastTrace'.outcome = "committed"
        /\ S = Range(lastTrace'.ids)
    BY <1>2, <1>4, <1>8
  <2> HIDE DEF S
  <2>2. QED
    BY <1>2, <2>1, ReachesAtomic
<1> HIDE DEF S, Ends
<1>9. CASE LockFails(w)
  <2> DEFINE c == LeadAll(Routed(w), Reached(Routed(w).rs, w.ids))
  <2>1. Ends(c, Unset)
    BY <1>3, <1>9, Zenon DEF LockFails
  <2>2. Reaches(c.rs, up, S, 0)
    <3>1. Sound(Routed(w).rs, up)
      BY <1>5 DEF Reaches
    <3>2. \A T : Adds(Routed(w).rs, Led(Routed(w).rs, T), up, T, 0)
      BY <3>1, LedAdds
    <3>3. \A T : Reaches(Led(Routed(w).rs, T), up, S, 0)
      BY <1>5, <3>2, ReachesNoFurther
    <3>4. QED
      BY <3>3, CallsOnRegions
  <2> HIDE DEF c
  <2>3. QED
    BY <1>7, <2>1, <2>2
<1>10. CASE Conflicts(w)
  <2> DEFINE c == LeadAll(AfterLocks(w), {Primary(w)})
  <2>1. Ends(c, Unset)
    BY <1>3, <1>10, Zenon DEF Conflicts
  <2>2. Reaches(c.rs, up, S, 0)
    <3>1. \A T : Adds(AfterLocks(w).rs, Led(AfterLocks(w).rs, T), up, T, 0)
      BY <1>6, LedAdds
    <3>2. \A T : Reaches(Led(AfterLocks(w).rs, T), up, S, 0)
      BY <1>5, <3>1, ReachesNoFurther
    <3>3. QED
      BY <3>2, CallsOnRegions
  <2> HIDE DEF c
  <2>3. QED
    BY <1>7, <2>1, <2>2
<1>11. CASE OnePhase(w)
  <2> DEFINE l == AfterLocks(w)
             c == ProposeAll(l, {Primary(w)})
             led == LeaderAvailable(Get(l.rs, Primary(w)))
  <2>1. Ends(c, IF led THEN TwoTs.last + 1 ELSE Unset)
    BY <1>3, <1>11, Zenon DEF OnePhase
  <2>2. S = {Primary(w)}
    <3>1. Protocol(w) = "1pc"
      BY <1>11 DEF OnePhase
    <3>2. Len(w.ids) = 1
      BY <3>1 DEF Protocol
    <3>3. QED
      BY <1>2, <3>2
  <2>3. led <=> HasQuorum(up)
    BY <1>2, <1>6, SoundAt, LedByQuorum
  <2>4. CASE HasQuorum(up)
    <3>1. Reaches(c.rs, up, S, 0 + 1)
      BY <1>5, <2>2, <2>4, Proposes
    <3>2. Ends(c, TwoTs.last + 1)
      BY <2>1, <2>3, <2>4
    <3> HIDE DEF c
    <3> DEFINE n == 0 + 1
    <3>3. n \in 1..2 /\ Reaches(c.rs, up, S, n)
      BY <3>1
    <3> HIDE DEF n
    <3>4. QED
      BY <1>8, <3>2, <3>3
  <2>5. CASE ~HasQuorum(up)
    <3>1. Reaches(c.rs, up, S, 0)
      BY <1>5, <2>5, ProposesInVain
    <3>2. Ends(c, Unset)
      BY <2>1, <2>3, <2>5
    <3> HIDE DEF c
    <3>3. QED
      BY <1>7, <3>1, <3>2
  <2>6. QED
    BY <2>4, <2>5
<1>12. CASE PrewriteFails(w)
  <2> DEFINE l == AfterLocks(w)
             c == ProposeAll(l, Reached(l.rs, w.ids))
  <2>1. Ends(c, Unset) /\ Leaderless(l.rs, w.ids) # {}
    BY <1>3, <1>12, Zenon DEF PrewriteFails
  <2>2. ~HasQuorum(up)
    BY <1>2, <1>6, <2>1, LeaderlessTogether
  <2>3. Reaches(c.rs, up, S, 0)
    BY <1>5, <2>2, ProposesInVain
  <2> HIDE DEF c
  <2>4. QED
    BY <1>7, <2>1, <2>3
<1>13. CASE AsyncCommit(w)
  <2> DEFINE l == AfterLocks(w)
             b == ProposeAll(l, S)
             c == ProposeAll(b, S)
  <2>1. Ends(c, TwoTs.last + 1) /\ Leaderless(l.rs, w.ids) = {}
    BY <1>3, <1>13, Zenon DEF AsyncCommit, S
  <2>2. HasQuorum(up)
    BY <1>2, <1>6, <2>1, LeaderlessTogether
  <2>3. Reaches(b.rs, up, S, 0 + 1)
    BY <1>5, <2>2, Proposes
  <2> HIDE DEF b
  <2>4. Reaches(c.rs, up, S, 1 + 1)
    BY <2>2, <2>3, Proposes
  <2> HIDE DEF c
  <2> DEFINE n == 1 + 1
  <2>5. n \in 1..2 /\ Reaches(c.rs, up, S, n)
    BY <2>4
  <2> HIDE DEF n
  <2>6. QED
    BY <1>8, <2>1, <2>5
<1>14. CASE TwoPhase(w)
  <2> DEFINE l == AfterLocks(w)
             b == ProposeAll(l, S)
             d == ProposeAll(b, {Primary(w)})
             c == ProposeAll(d, S \ {Primary(w)})
  <2>1. Leaderless(l.rs, w.ids) = {}
    BY <1>14 DEF TwoPhase
  <2>2. HasQuorum(up)
    BY <1>2, <1>6, <2>1, LeaderlessTogether
  <2>3. Reaches(b.rs, up, S, 0 + 1)
    BY <1>5, <2>2, Proposes
  <2> HIDE DEF b
  <2>4. Sound(b.rs, up) /\ S \subseteq Ids(b.rs)
    BY <1>2, <2>3 DEF Reaches
  <2>5. Leaderless(b.rs, <<Primary(w)>>) = {}
    <3>1. Range(<<Primary(w)>>) = {Primary(w)}
      BY DEF Range
    <3>2. QED
      BY <1>2, <2>2, <2>4, <3>1, LeaderlessTogether
  <2>6. Ends(c, TwoTs.last)
    <3>1. End(w, c, TwoTs, TwoTs.last, TRUE, 0)
      BY <1>14, <2>5 DEF TwoPhase, S, b
    <3>2. QED
      BY <1>3, <3>1, Zenon
  <2> DEFINE one == 1
  <2>7. one \in Int /\ Adds(b.rs, d.rs, up, {Primary(w)}, one)
    BY <2>2, <2>4, ProposedAdds, CallsOnRegions
  <2> HIDE DEF d
  <2>8. Adds(d.rs, c.rs, up, S \ {Primary(w)}, one)
    <3>1. Sound(d.rs, up)
      BY <2>7 DEF Adds
    <3>2. QED
      BY <2>2, <3>1, ProposedAdds, CallsOnRegions
  <2> HIDE DEF c, one
  <2>9. Adds(b.rs, c.rs, up, S, one)
    BY <1>2, <2>4, <2>7, <2>8, AddsInTurn
  <2> DEFINE n == 0 + 1
  <2>10. n \in Int /\ Reaches(b.rs, up, S, n)
    BY <2>3
  <2> HIDE DEF n
  <2>11. Reaches(c.rs, up, S, n + one)
    BY <2>7, <2>9, <2>10, ReachesAgain
  <2> DEFINE k == n + one
  <2>12. k \in 1..2 /\ Reaches(c.rs, up, S, k)
    BY <2>11 DEF n, one
  <2> HIDE DEF k
  <2>13. QED
    BY <1>8, <2>6, <2>12
<1>15. QED
  BY <1>9, <1>10, <1>11, <1>12, <1>13, <1>14 DEF TraceWrite

-----------------------------------------------------------------------------
LEMMA TraceReadReaches ==
  ASSUME RegionsSound, NEW ids \in IdLists, NEW path, NEW failover,
         TraceRead(ids, path, failover)
  PROVE  RegionsSound' /\ AtomicStep
<1> DEFINE rs == IF failover THEN StoreDown(regions, ids[1]) ELSE regions
           c == [Untouched EXCEPT !.rs = rs]
           done == IF path = "mpp" THEN LeadAll(c, Range(ids))
                   ELSE Counted(c, ServedFrom(rs, Range(ids), path), NoOps, Range(ids))
           none == {}
           n == 0
<1>1. PICK up : Sound(regions, up)
  BY DEF RegionsSound
<1>2. ids[1] \in Ids(regions)
  BY IdListOK, IdsOfRegions
<1>3. n \in Int /\ n = 0
  OBVIOUS
<1>4. Reaches(regions, up, none, n)
  <2>1. Len(regions) - Len(regions) = 0
    BY <1>1, SoundLen
  <2>2. \A id \in Ids(regions) : Mutations(regions, id) \in Int
    BY <1>1, SoundAt
  <2>3. QED
    BY <1>1, <2>1, <2>2 DEF Reaches
<1>5. regions' = done.rs /\ lastTrace'.outcome # "committed"
  BY DEF TraceRead, Answer
<1>6. \/ regions' = Led(rs, Range(ids))
      \/ regions' = ServedFrom(rs, Range(ids), path)
  <2>1. c.rs = rs
    BY DEF Untouched
  <2>2. LeadAll(c, Range(ids)).rs = Led(rs, Range(ids))
    <3> HIDE DEF c, rs
    <3>1. QED
      BY <2>1, CallsOnRegions
  <2>3. Counted(c, ServedFrom(rs, Range(ids), path), NoOps, Range(ids)).rs
          = ServedFrom(rs, Range(ids), path)
    BY Zenon DEF Counted
  <2>4. QED
    BY <1>5, <2>2, <2>3
<1> HIDE DEF n, none, done
<1>7. \E vp : Reaches(rs, vp, none, n)
  <2>1. CASE failover
    <3>1. rs = StoreDown(regions, ids[1])
      BY <2>1
    <3>2. \E vp, T : Adds(regions, rs, vp, T, 0)
      BY <1>1, <1>2, <3>1, StoreDownAdds
    <3> HIDE DEF rs
    <3>3. QED
      BY <1>3, <1>4, <3>2, ReachesNoFurther
  <2>2. CASE ~failover
    BY <1>4, <2>2
  <2>3. QED
    BY <2>1, <2>2
<1> HIDE DEF rs
<1>8. PICK vp : Reaches(rs, vp, none, n)
  BY <1>7
<1>9. Sound(rs, vp)
  BY <1>8 DEF Reaches
<1>10. \E T : Adds(rs, regions', vp, T, 0)
  <2>1. \A T : Adds(rs, Led(rs, T), vp, T, 0) /\ Adds(rs, ServedFrom(rs, T, path), vp, T, 0)
    BY <1>9, LedAdds, ServedAdds
  <2>2. QED
    BY <1>6, <2>1
<1>11. Reaches(regions', vp, none, n)
  BY <1>3, <1>8, <1>10, ReachesNoFurther
<1>12. QED
  BY <1>3, <1>5, <1>11, ReachesAtomic

LEMMA UntouchedReaches ==
  ASSUME RegionsSound, regions' = regions, calls' = calls \/ lastTrace'.outcome # "committed"
  PROVE  RegionsSound' /\ AtomicStep
<1>1. RegionsSound'
  BY DEF RegionsSound, Sound, Group!Partition, Group!KeyspaceEnd
<1>2. \A id \in RegionIds : Mutations(regions, id) \in Int
  BY SoundAt, IdsOfRegions DEF RegionsSound
<1>3. Len(regions) - Len(regions) = 0
  BY SoundLen DEF RegionsSound
<1>4. AtomicStep
  <2>1. CASE calls' = calls
    BY <2>1 DEF AtomicStep
  <2>2. CASE lastTrace'.outcome # "committed"
    BY <1>2, <1>3, <2>2 DEF AtomicStep
  <2>3. QED
    BY <2>1, <2>2
<1>5. QED
  BY <1>1, <1>4

LEMMA FixedStepReaches ==
  ASSUME RegionsSound, FixedStep
  PROVE  RegionsSound' /\ AtomicStep
<1>1. PICK life \in scope.lifetimes :
        \/ IdleStep(life) \/ BackgroundRead(life)
        \/ \E id \in RegionIds : BackgroundWrite(life, id)
  BY DEF FixedStep
<1>2. calls' = calls
  BY <1>1, Zenon DEF IdleStep, BackgroundRead, BackgroundWrite, Step
<1>3. AtomicStep
  BY <1>2 DEF AtomicStep
<1>4. CASE IdleStep(life) \/ BackgroundRead(life)
  <2>1. regions' = regions
    BY <1>4, Zenon DEF IdleStep, BackgroundRead
  <2>2. QED
    BY <1>2, <2>1, UntouchedReaches
<1>5. CASE \E id \in RegionIds : BackgroundWrite(life, id)
  <2>1. PICK id : regions' = ProposeAll(Untouched, {id}).rs
    BY <1>5, Zenon DEF BackgroundWrite
  <2>2. regions' = Proposed(regions, {id})
    BY <2>1, CallsOnRegions
  <2>3. PICK up : Sound(regions, up)
    BY DEF RegionsSound
  <2>4. Sound(Proposed(regions, {id}), up)
    BY <2>3, ProposedAdds DEF Adds
  <2>5. Sound(regions', up)
    BY <2>2, <2>4
  <2>6. RegionsSound'
    BY <2>5 DEF RegionsSound, Sound, Group!Partition, Group!KeyspaceEnd
  <2>7. QED
    BY <1>3, <2>6
<1>6. QED
  BY <1>1, <1>4, <1>5

LEMMA NextReaches ==
  ASSUME IInv, RegionsSound, [Next]_vars
  PROVE  RegionsSound' /\ [AtomicStep]_vars
<1>1. CASE UNCHANGED vars
  BY <1>1, UntouchedReaches DEF vars
<1>2. CASE FixedStep
  BY <1>2, FixedStepReaches
<1>3. CASE Request
  <2>1. CASE \E w \in Writes : TraceWrite(w)
    BY <2>1, TraceWriteReaches
  <2>2. CASE \E ids \in IdLists, path \in {"leader", "follower", "mpp"}, failover \in BOOLEAN :
                TraceRead(ids, path, failover)
    BY <2>2, TraceReadReaches
  <2>3. CASE TraceExplain \/ TraceNowhere
    <3>1. regions' = regions /\ lastTrace'.outcome # "committed"
      BY <2>3 DEF TraceExplain, TraceNowhere, Answer
    <3>2. QED
      BY <3>1, UntouchedReaches
  <2>4. QED
    BY <1>3, <2>1, <2>2, <2>3 DEF Request
<1>4. QED
  BY <1>1, <1>2, <1>3 DEF Next

-----------------------------------------------------------------------------
(* The starts are those of RegionRaft.                                     *)
LEMMA SameStarts ==
  /\ Start!FreshRegions = Group!FreshRegions
  /\ \A i : Start!FreshRegion(i) = Group!FreshRegion(i)
  /\ \A i, j : Start!CrossRegionFixture(i, j) = Group!CrossRegionFixture(i, j)
  /\ Start!FailoverFixture = Group!FailoverFixture
<1> USE DEF Start!Store, Group!Store
<1>1. \A i : Start!FreshRegion(i) = Group!FreshRegion(i)
  BY DEF Start!FreshRegion, Group!FreshRegion
<1>2. \A r : Start!TwoVoterAppend(r) = Group!TwoVoterAppend(r)
  BY DEF Start!TwoVoterAppend, Group!TwoVoterAppend, Start!FirstFollower, Group!FirstFollower,
         Start!Live, Group!Live
<1>3. \A r, s : Start!PeerDown(r, s) = Group!PeerDown(r, s)
  BY DEF Start!PeerDown, Group!PeerDown, Start!UpdateRegionHealth, Group!UpdateRegionHealth,
         Start!HealthOf, Group!HealthOf, Start!HasQuorum, Group!HasQuorum, Start!Live, Group!Live
<1>4. \A r : Start!FailedOver(r) = Group!FailedOver(r)
  BY <1>3 DEF Start!FailedOver, Group!FailedOver
<1>5. QED
  BY <1>1, <1>2, <1>3, <1>4
  DEF Start!FreshRegions, Group!FreshRegions, Start!CrossRegionFixture, Group!CrossRegionFixture,
      Start!FailoverFixture, Group!FailoverFixture

LEMMA GroupStarts ==
  ASSUME Group!Init
  PROVE  RegionsSound
<1>1. Group!IInv
  BY GroupApplies, Group!InitOK
<1>2. Group!RegionsOK(regions, Live(regions[1])) /\ Group!Partition(regions)
  BY <1>1, GroupApplies, Group!IInvByRegion
<1>3. Sound(regions, Live(regions[1]))
  BY <1>2, SameGroups DEF Sound, Group!RegionsOK, Group!Partition
<1>4. QED
  BY <1>3 DEF RegionsSound

LEMMA BeginSound == Init => RegionsSound
<1> SUFFICES ASSUME Init PROVE RegionsSound
  OBVIOUS
<1>1. 1 \in 1..InitialRegions /\ InitialRegions \in Nat /\ InitialRegions >= 1
  BY SimulationAssumption
<1>2. \A i \in 1..InitialRegions :
        /\ Group!GroupOK(Group!FreshRegion(i)) /\ Live(Group!FreshRegion(i)) = Store
        /\ Group!FreshRegion(i) \in Group!Region
  BY GroupApplies, Group!FreshRegionOK, SameGroups DEF Group!GroupOK
<1>3. CASE regions = Group!FreshRegions
  <2>1. regions[1] = Group!FreshRegion(1)
    BY <1>1, <1>3 DEF Group!FreshRegions
  <2>2. Live(regions[1]) = Group!Store
    BY <1>1, <1>2, <2>1, SameGroups
  <2>3. QED
    BY <1>3, <2>2, GroupStarts DEF Group!Init
<1>4. ASSUME NEW i \in 1..InitialRegions, NEW j \in 1..InitialRegions,
             Group!FreshRegion(i).leader # Group!FreshRegion(j).leader,
             regions = Group!CrossRegionFixture(i, j)
      PROVE  RegionsSound
  <2> DEFINE f == Group!FreshRegion(1)
             g == Group!TwoVoterAppend(f)
             h == Group!TwoVoterAppend(g)
  <2>1. \A r \in Group!Region : Group!Live(r) = Group!Store => Group!Live(r) \ {r.leader} # {}
    BY DEF Group!Store
  <2>2. f \in Group!Region /\ Group!GroupOK(f) /\ Group!Live(f) = Group!Store
    BY <1>1, <1>2, SameGroups
  <2>3. regions[1] \in {f, h}
    BY <1>1, <1>4 DEF Group!CrossRegionFixture
  <2> HIDE DEF f
  <2>4. /\ Group!GroupOK(g) /\ Group!SameShape(f, g) /\ g \in Group!Region
    BY <2>1, <2>2, GroupApplies, Group!TwoVoterAppendOK DEF Group!GroupOK
  <2>5. Group!Live(g) = Group!Store
    BY <2>2, <2>4 DEF Group!SameShape, Group!Live
  <2> HIDE DEF g
  <2>6. Group!SameShape(g, h)
    BY <2>1, <2>4, <2>5, GroupApplies, Group!TwoVoterAppendOK
  <2> HIDE DEF h
  <2>7. Group!Live(h) = Group!Store
    BY <2>5, <2>6 DEF Group!SameShape, Group!Live
  <2>8. Live(regions[1]) = Group!Store
    BY <2>2, <2>3, <2>7, SameGroups
  <2>9. QED
    BY <1>4, <2>8, GroupStarts DEF Group!Init
<1>5. CASE regions = Group!FailoverFixture
  <2> DEFINE f == Group!FreshRegion(1)
  <2>1. f \in Group!Region /\ Live(f) = Store
    BY <1>1, <1>2
  <2>2. regions[1] = Group!FailedOver(f)
    BY <1>1, <1>5 DEF Group!FailoverFixture
  <2>3. f.term \in Nat
    BY <2>1 DEF Group!Region
  <2> HIDE DEF f
  <2>4. Group!Live(Group!FailedOver(f)) = Group!Live(f) \ {f.leader}
    BY <2>1, <2>3, GroupApplies, Group!FailedOverOK
  <2>5. Live(regions[1]) = Group!Store \ {f.leader}
    BY <2>1, <2>2, <2>4, SameGroups
  <2>6. QED
    BY <1>5, <2>5, GroupStarts DEF Group!Init, f
<1>6. QED
  <2>1. CASE Fresh
    BY <1>3, <2>1, SameStarts DEF Fresh, Begins
  <2>2. CASE AfterFailover
    BY <1>5, <2>2, SameStarts DEF AfterFailover, Begins
  <2>3. CASE \E i, j \in 1..InitialRegions :
               /\ Start!FreshRegion(i).leader # Start!FreshRegion(j).leader
               /\ AfterCrossRegion(i, j) \/ AfterLockDeadlock(i, j)
    <3>1. PICK i \in 1..InitialRegions, j \in 1..InitialRegions :
               /\ Start!FreshRegion(i).leader # Start!FreshRegion(j).leader
               /\ AfterCrossRegion(i, j) \/ AfterLockDeadlock(i, j)
      BY <2>3
    <3>2. regions = Group!CrossRegionFixture(i, j) \/ regions = Group!FreshRegions
      BY <3>1, SameStarts DEF AfterCrossRegion, AfterLockDeadlock, Begins
    <3>3. Group!FreshRegion(i).leader # Group!FreshRegion(j).leader
      BY <3>1, SameStarts
    <3>4. QED
      BY <1>3, <1>4, <3>2, <3>3
  <2>4. CASE AfterCommitProtocols \/ AfterGcSafePoint \/ AfterTiFlashMpp
    BY <1>3, <2>4, SameStarts DEF AfterCommitProtocols, AfterGcSafePoint, AfterTiFlashMpp, Begins
  <2>5. QED
    BY <2>1, <2>2, <2>3, <2>4 DEF Init

LEMMA AlwaysSound == Spec => []RegionsSound
<1>1. IInv /\ RegionsSound /\ [Next]_vars => RegionsSound'
  BY NextReaches
<1>2. QED
  BY <1>1, BeginSound, Invariance, PTL DEF Spec

(* A traced write reaches all of its Regions or none, and no other: what   *)
(* each log gains beyond elections and the split's own command is the same *)
(* in all of them, one entry for 1PC, two for the other protocols, and     *)
(* nothing when the write rolls back, whichever Stores are down.           *)
THEOREM WritesAreAtomic == Spec => AtomicAcrossRegions
<1>1. IInv /\ RegionsSound /\ [Next]_vars => [AtomicStep]_vars
  BY NextReaches
<1>2. AtomicAcrossRegions <=> [][AtomicStep]_vars
  BY PTL DEF AtomicAcrossRegions, AtomicStep
<1>3. QED
  BY <1>1, <1>2, Invariance, AlwaysSound, PTL DEF Spec

-----------------------------------------------------------------------------
(* Sums over a set.  MapThenSumSet takes an operator, which no lemma can   *)
(* be about; Totals gives the sums of a function over all subsets of its   *)
(* domain, as the one function that adds up.                               *)
Pick(s) == CHOOSE x \in s : TRUE

(* h sums g up over the subsets of its domain, one element after another.  *)
SumsUp(h, g) ==
  \A s \in SUBSET DOMAIN g : h[s] = IF s = {} THEN 0 ELSE g[Pick(s)] + h[s \ {Pick(s)}]

Totals(g) == CHOOSE h \in [SUBSET DOMAIN g -> Int] : SumsUp(h, g)

(* Induction over the subsets of a finite set, for a set of subsets.       *)
LEMMA SetByElements ==
  ASSUME NEW D, IsFiniteSet(D), NEW P,
         \A s \in SUBSET D : (\A x \in s : s \ {x} \in P) => s \in P
  PROVE  \A s \in SUBSET D : s \in P
<1> DEFINE R == {p \in Nat \X Nat : p[1] < p[2]}
           Bad == {s \in SUBSET D : s \notin P}
           T == {Cardinality(s) : s \in Bad}
<1>1. IsWellFoundedOn(R, Nat)
  BY NatLessThanWellFounded DEF OpToRel
<1>2. ASSUME NEW s \in SUBSET D PROVE IsFiniteSet(s) /\ Cardinality(s) \in Nat
  BY FS_Subset, FS_CardinalityType
<1>3. SUFFICES ASSUME Bad # {} PROVE FALSE
  OBVIOUS
<1>4. T \subseteq Nat /\ T # {}
  BY <1>2, <1>3
<1> HIDE DEF R, T
<1>5. PICK n \in T : \A m \in T : ~ (<<m, n>> \in R)
  BY <1>1, <1>4, WFMin
<1>6. PICK s \in Bad : n = Cardinality(s)
  BY DEF T
<1>7. PICK x \in s : s \ {x} \in Bad
  BY <1>6
<1>8. Cardinality(s \ {x}) = Cardinality(s) - 1 /\ Cardinality(s) \in Nat
  BY <1>2, <1>6, <1>7, FS_RemoveElement
<1>9. Cardinality(s \ {x}) \in T
  BY <1>7 DEF T
<1>10. <<Cardinality(s \ {x}), n>> \in R
  <2>1. n \in Nat /\ Cardinality(s \ {x}) \in Nat
    BY <1>4, <1>5, <1>9
  <2>2. Cardinality(s \ {x}) < n
    BY <1>6, <1>8
  <2>3. QED
    BY <2>1, <2>2 DEF R
<1>11. QED
  BY <1>5, <1>9, <1>10

(* Induction over the natural numbers, for a set.                          *)
LEMMA CountsUp ==
  ASSUME NEW P, 0 \in P, \A n \in Nat : n \in P => n + 1 \in P
  PROVE  \A n \in Nat : n \in P
<1> DEFINE R == {p \in Nat \X Nat : p[1] < p[2]}
           Bad == Nat \ P
<1>1. IsWellFoundedOn(R, Nat)
  BY NatLessThanWellFounded DEF OpToRel
<1>2. SUFFICES ASSUME Bad # {} PROVE FALSE
  OBVIOUS
<1> HIDE DEF R
<1>3. PICK n \in Bad : \A m \in Bad : ~ (<<m, n>> \in R)
  BY <1>1, <1>2, WFMin
<1>4. n - 1 \in Nat /\ n - 1 < n /\ n \in Nat /\ (n - 1) + 1 = n
  BY <1>3
<1>5. n - 1 \in Bad
  BY <1>3, <1>4
<1>6. <<n - 1, n>> \in R
  BY <1>4 DEF R
<1>7. QED
  BY <1>3, <1>5, <1>6

(* The totals of a function exist ...                                      *)
LEMMA TotalsExist ==
  ASSUME NEW D, IsFiniteSet(D), NEW g \in [D -> Int]
  PROVE  \E h \in [SUBSET D -> Int] : SumsUp(h, g)
<1> DEFINE Below(n) == {s \in SUBSET D : Cardinality(s) < n}
           Next1(h, s) == IF s = {} THEN 0 ELSE g[Pick(s)] + h[s \ {Pick(s)}]
           Good(n) == \E h \in [Below(n) -> Int] : \A s \in Below(n) : h[s] = Next1(h, s)
           Sizes == {n \in Nat : Good(n)}
<1>1. ASSUME NEW s \in SUBSET D
      PROVE  /\ Cardinality(s) \in Nat /\ Cardinality(s) <= Cardinality(D)
             /\ s # {} => /\ Pick(s) \in s
                         /\ Cardinality(s \ {Pick(s)}) = Cardinality(s) - 1
  <2>1. IsFiniteSet(s)
    BY FS_Subset
  <2>2. s # {} => Pick(s) \in s
    BY DEF Pick
  <2>3. QED
    BY <2>1, <2>2, FS_Subset, FS_CardinalityType, FS_RemoveElement
<1>2. Good(0)
  <2>1. ASSUME NEW s \in SUBSET D PROVE ~ (Cardinality(s) < 0)
    <3>1. Cardinality(s) \in Nat
      BY <1>1
    <3>2. QED
      BY <3>1
  <2>2. Below(0) = {}
    BY <2>1
  <2>3. [s \in {} |-> 0] \in [{} -> Int]
    OBVIOUS
  <2>4. QED
    BY <2>2, <2>3
<1>3. ASSUME NEW n \in Nat, Good(n) PROVE Good(n + 1)
  <2>1. PICK h \in [Below(n) -> Int] : \A s \in Below(n) : h[s] = Next1(h, s)
    BY <1>3
  <2> DEFINE k == [s \in Below(n + 1) |-> Next1(h, s)]
  <2>2. ASSUME NEW s \in Below(n + 1), s # {}
        PROVE  /\ Pick(s) \in D /\ s \ {Pick(s)} \in Below(n)
               /\ h[s \ {Pick(s)}] \in Int
    <3>1. /\ Pick(s) \in s /\ Cardinality(s \ {Pick(s)}) = Cardinality(s) - 1
          /\ Cardinality(s) \in Nat
      BY <1>1, <2>2
    <3>2. s \ {Pick(s)} \in SUBSET D /\ Cardinality(s) < n + 1
      OBVIOUS
    <3>3. s \ {Pick(s)} \in Below(n)
      BY <3>1, <3>2
    <3>4. QED
      BY <2>1, <3>1, <3>3
  <2>3. \A s \in Below(n + 1) : k[s] \in Int
    BY <2>2
  <2>4. \A s \in Below(n) : s \in Below(n + 1) /\ k[s] = h[s]
    <3>1. ASSUME NEW s \in Below(n) PROVE s \in Below(n + 1)
      <4>1. Cardinality(s) \in Nat
        BY <1>1
      <4>2. QED
        BY <4>1
    <3>2. QED
      BY <2>1, <3>1
  <2>5. \A s \in Below(n + 1) : k[s] = Next1(k, s)
    BY <2>2, <2>4
  <2>6. k \in [Below(n + 1) -> Int]
    BY <2>3
  <2>7. QED
    BY <2>5, <2>6
<1>4. Cardinality(D) \in Nat
  BY FS_CardinalityType
<1>5. Good(Cardinality(D) + 1)
  <2> HIDE DEF Good
  <2>1. 0 \in Sizes
    BY <1>2
  <2>2. \A n \in Nat : n \in Sizes => n + 1 \in Sizes
    BY <1>3
  <2> HIDE DEF Sizes
  <2>3. \A n \in Nat : n \in Sizes
    BY <2>1, <2>2, CountsUp
  <2>4. Cardinality(D) + 1 \in Sizes
    BY <1>4, <2>3
  <2>5. QED
    BY <2>4 DEF Sizes
<1>6. PICK h \in [Below(Cardinality(D) + 1) -> Int] :
         \A s \in Below(Cardinality(D) + 1) : h[s] = Next1(h, s)
  BY <1>5
<1>7. Below(Cardinality(D) + 1) = SUBSET D
  <2>1. ASSUME NEW s \in SUBSET D PROVE Cardinality(s) < Cardinality(D) + 1
    <3>1. Cardinality(s) \in Nat /\ Cardinality(s) <= Cardinality(D)
      BY <1>1
    <3>2. QED
      BY <1>4, <3>1
  <2>2. QED
    BY <2>1
<1>8. h \in [SUBSET D -> Int] /\ \A s \in SUBSET D : h[s] = Next1(h, s)
  BY <1>6, <1>7
<1>9. QED
  BY <1>8 DEF SumsUp

(* ... and are unique: there is only one way to add up.                    *)
LEMMA TotalsUnique ==
  ASSUME NEW D, IsFiniteSet(D), NEW g \in [D -> Int],
         NEW h, SumsUp(h, g), NEW k, SumsUp(k, g), NEW s \in SUBSET D
  PROVE  h[s] = k[s]
<1> DEFINE P == {t \in SUBSET D : h[t] = k[t]}
<1>1. ASSUME NEW t \in SUBSET D, \A x \in t : t \ {x} \in P PROVE t \in P
  <2>1. CASE t = {}
    BY <2>1 DEF SumsUp
  <2>2. CASE t # {}
    <3>1. Pick(t) \in t
      BY <2>2 DEF Pick
    <3>2. h[t \ {Pick(t)}] = k[t \ {Pick(t)}]
      BY <1>1, <3>1
    <3>3. h[t] = g[Pick(t)] + h[t \ {Pick(t)}] /\ k[t] = g[Pick(t)] + k[t \ {Pick(t)}]
      BY <2>2 DEF SumsUp
    <3>4. QED
      BY <3>2, <3>3
  <2>3. QED
    BY <2>1, <2>2
<1> HIDE DEF P
<1>2. s \in P
  BY <1>1, SetByElements
<1>3. QED
  BY <1>2 DEF P

LEMMA TotalsSumUp ==
  ASSUME NEW D, IsFiniteSet(D), NEW g \in [D -> Int]
  PROVE  /\ Totals(g) \in [SUBSET D -> Int] /\ SumsUp(Totals(g), g)
         /\ Totals(g)[{}] = 0
<1>1. \E h \in [SUBSET DOMAIN g -> Int] : SumsUp(h, g)
  BY TotalsExist
<1>2. Totals(g) \in [SUBSET D -> Int] /\ SumsUp(Totals(g), g)
  BY <1>1 DEF Totals
<1>3. QED
  BY <1>2 DEF SumsUp

(* Any element may be added last.                                          *)
LEMMA TotalsAt ==
  ASSUME NEW D, IsFiniteSet(D), NEW g \in [D -> Int], NEW s \in SUBSET D, NEW x \in s
  PROVE  Totals(g)[s] = g[x] + Totals(g)[s \ {x}]
<1> DEFINE h == Totals(g)
           P == {t \in SUBSET D : \A y \in t : h[t] = g[y] + h[t \ {y}]}
<1>1. h \in [SUBSET D -> Int] /\ SumsUp(h, g)
  BY TotalsSumUp
<1> HIDE DEF h
<1>2. ASSUME NEW t \in SUBSET D, \A y \in t : t \ {y} \in P, NEW y \in t
      PROVE  h[t] = g[y] + h[t \ {y}]
  <2> DEFINE p == Pick(t)
  <2>1. p \in t
    BY DEF Pick
  <2>2. h[t] = g[p] + h[t \ {p}]
    BY <1>1 DEF SumsUp
  <2> HIDE DEF p
  <2>3. CASE p = y
    BY <2>2, <2>3
  <2>4. CASE p # y
    <3> DEFINE rest == h[(t \ {p}) \ {y}]
    <3>1. h[t \ {p}] = g[y] + rest
      BY <1>2, <2>1, <2>4
    <3>2. h[t \ {y}] = g[p] + h[(t \ {y}) \ {p}]
      BY <1>2, <2>1, <2>4
    <3>3. (t \ {p}) \ {y} = (t \ {y}) \ {p}
      OBVIOUS
    <3>4. h[t \ {y}] = g[p] + rest
      BY <3>2, <3>3
    <3>5. g[p] \in Int /\ g[y] \in Int /\ rest \in Int
      BY <1>1, <2>1
    <3> HIDE DEF rest
    <3>6. h[t] = g[p] + (g[y] + rest)
      BY <2>2, <3>1
    <3>7. QED
      BY <3>4, <3>5, <3>6
  <2>5. QED
    BY <2>3, <2>4
<1>3. \A t \in SUBSET D : (\A y \in t : t \ {y} \in P) => t \in P
  BY <1>2
<1> HIDE DEF P
<1>4. s \in P
  BY <1>3, SetByElements
<1>5. QED
  BY <1>4 DEF P, h

LEMMA TotalsNat ==
  ASSUME NEW D, IsFiniteSet(D), NEW g \in [D -> Nat], NEW s \in SUBSET D
  PROVE  Totals(g)[s] \in Nat
<1> DEFINE P == {t \in SUBSET D : Totals(g)[t] \in Nat}
<1>1. g \in [D -> Int]
  OBVIOUS
<1>0. Totals(g)[{}] = 0
  BY <1>1, TotalsSumUp
<1>2. ASSUME NEW t \in SUBSET D, \A x \in t : t \ {x} \in P PROVE t \in P
  <2>1. CASE t = {}
    BY <1>0, <2>1
  <2>2. ASSUME NEW x \in t PROVE t \in P
    <3>1. Totals(g)[t] = g[x] + Totals(g)[t \ {x}]
      BY <1>1, TotalsAt
    <3>2. g[x] \in Nat /\ Totals(g)[t \ {x}] \in Nat
      BY <1>2
    <3>3. QED
      BY <3>1, <3>2
  <2>3. QED
    BY <2>1, <2>2
<1> HIDE DEF P
<1>3. s \in P
  BY <1>2, SetByElements
<1>4. QED
  BY <1>3 DEF P

(* What adds nothing may be left out.                                      *)
LEMMA TotalsZero ==
  ASSUME NEW D, IsFiniteSet(D), NEW g \in [D -> Int], NEW s \in SUBSET D,
         \A x \in D \ s : g[x] = 0
  PROVE  Totals(g)[D] = Totals(g)[s]
<1> DEFINE P == {t \in SUBSET D : Totals(g)[t] = Totals(g)[t \cap s]}
<1>0. Totals(g) \in [SUBSET D -> Int]
  BY TotalsSumUp
<1>1. ASSUME NEW t \in SUBSET D, \A x \in t : t \ {x} \in P PROVE t \in P
  <2>1. CASE t \subseteq s
    <3>1. t \cap s = t
      BY <2>1
    <3>2. QED
      BY <3>1
  <2>2. ASSUME NEW x \in t, x \notin s PROVE t \in P
    <3>1. Totals(g)[t] = g[x] + Totals(g)[t \ {x}]
      BY TotalsAt
    <3>2. Totals(g)[t \ {x}] = Totals(g)[(t \ {x}) \cap s]
      BY <1>1
    <3>3. (t \ {x}) \cap s = t \cap s
      BY <2>2
    <3>4. g[x] = 0 /\ Totals(g)[t \cap s] \in Int
      BY <1>0, <2>2
    <3>5. QED
      BY <3>1, <3>2, <3>3, <3>4
  <2>3. QED
    BY <2>1, <2>2
<1> HIDE DEF P
<1>2. D \in P
  BY <1>1, SetByElements
<1>3. D \cap s = s
  OBVIOUS
<1>4. QED
  BY <1>2, <1>3 DEF P

LEMMA TotalsParts ==
  ASSUME NEW D, IsFiniteSet(D), NEW g \in [D -> Int], NEW s \in SUBSET D
  PROVE  Totals(g)[D] = Totals(g)[s] + Totals(g)[D \ s]
<1> DEFINE h == Totals(g)
           P == {u \in SUBSET D : h[u] = h[u \cap s] + h[u \ s]}
<1>1. h \in [SUBSET D -> Int] /\ h[{}] = 0
  BY TotalsSumUp
<1>2. ASSUME NEW u \in SUBSET D, NEW x \in u PROVE h[u] = g[x] + h[u \ {x}]
  BY TotalsAt
<1> HIDE DEF h
<1>3. ASSUME NEW u \in SUBSET D, \A x \in u : u \ {x} \in P PROVE u \in P
  <2>1. CASE u = {}
    <3>1. u \cap s = {} /\ u \ s = {}
      BY <2>1
    <3>2. QED
      BY <1>1, <2>1, <3>1
  <2>2. ASSUME NEW x \in u PROVE u \in P
    <3> DEFINE v == u \ {x}
    <3>1. h[u] = g[x] + h[v]
      BY <1>2
    <3>2. h[v] = h[v \cap s] + h[v \ s]
      BY <1>3
    <3>3. g[x] \in Int /\ h[v \cap s] \in Int /\ h[v \ s] \in Int
      BY <1>1
    <3>4. CASE x \in s
      <4>1. x \in u \cap s /\ (u \cap s) \ {x} = v \cap s /\ u \ s = v \ s
        BY <3>4
      <4>2. h[u \cap s] = g[x] + h[(u \cap s) \ {x}]
        BY <1>2, <4>1
      <4>3. h[u \cap s] = g[x] + h[v \cap s] /\ h[u \ s] = h[v \ s]
        BY <4>1, <4>2
      <4> HIDE DEF v
      <4>4. h[u] = h[u \cap s] + h[u \ s]
        BY <3>1, <3>2, <3>3, <4>3
      <4>5. QED
        BY <4>4
    <3>5. CASE x \notin s
      <4>1. x \in u \ s /\ (u \ s) \ {x} = v \ s /\ u \cap s = v \cap s
        BY <3>5
      <4>2. h[u \ s] = g[x] + h[(u \ s) \ {x}]
        BY <1>2, <4>1
      <4>3. h[u \ s] = g[x] + h[v \ s] /\ h[u \cap s] = h[v \cap s]
        BY <4>1, <4>2
      <4> HIDE DEF v
      <4>4. h[u] = h[u \cap s] + h[u \ s]
        BY <3>1, <3>2, <3>3, <4>3
      <4>5. QED
        BY <4>4
    <3>6. QED
      BY <3>4, <3>5
  <2>3. QED
    BY <2>1, <2>2
<1> HIDE DEF P
<1>4. D \in P
  BY <1>3, SetByElements
<1>5. D \cap s = s
  OBVIOUS
<1>6. QED
  BY <1>4, <1>5 DEF P, h

LEMMA TotalsAdd ==
  ASSUME NEW D, IsFiniteSet(D), NEW f \in [D -> Int], NEW g \in [D -> Int],
         NEW h \in [D -> Int], \A x \in D : h[x] = f[x] + g[x]
  PROVE  Totals(h)[D] = Totals(f)[D] + Totals(g)[D]
<1> DEFINE F == Totals(f)
           G == Totals(g)
           H == Totals(h)
           P == {u \in SUBSET D : H[u] = F[u] + G[u]}
<1>1. /\ F \in [SUBSET D -> Int] /\ G \in [SUBSET D -> Int] /\ H \in [SUBSET D -> Int]
      /\ F[{}] = 0 /\ G[{}] = 0 /\ H[{}] = 0
  BY TotalsSumUp
<1>2. ASSUME NEW u \in SUBSET D, NEW x \in u
      PROVE  /\ F[u] = f[x] + F[u \ {x}] /\ G[u] = g[x] + G[u \ {x}]
             /\ H[u] = h[x] + H[u \ {x}]
  <2>1. F[u] = f[x] + F[u \ {x}]
    BY TotalsAt
  <2>2. G[u] = g[x] + G[u \ {x}]
    BY TotalsAt
  <2>3. H[u] = h[x] + H[u \ {x}]
    BY TotalsAt
  <2>4. QED
    BY <2>1, <2>2, <2>3
<1> HIDE DEF F, G, H
<1>3. ASSUME NEW u \in SUBSET D, \A x \in u : u \ {x} \in P PROVE u \in P
  <2>1. CASE u = {}
    BY <1>1, <2>1
  <2>2. ASSUME NEW x \in u PROVE u \in P
    <3>1. H[u \ {x}] = F[u \ {x}] + G[u \ {x}]
      BY <1>3
    <3>2. /\ F[u \ {x}] \in Int /\ G[u \ {x}] \in Int
          /\ f[x] \in Int /\ g[x] \in Int /\ h[x] = f[x] + g[x]
      BY <1>1
    <3>3. /\ F[u] = f[x] + F[u \ {x}] /\ G[u] = g[x] + G[u \ {x}]
          /\ H[u] = h[x] + H[u \ {x}]
      BY <1>2
    <3>4. H[u] = F[u] + G[u]
      BY <3>1, <3>2, <3>3
    <3>5. QED
      BY <3>4
  <2>3. QED
    BY <2>1, <2>2
<1> HIDE DEF P
<1>4. \A u \in SUBSET D : u \in P
  BY <1>3, SetByElements
<1>5. D \in P
  BY <1>4
<1>6. QED
  BY <1>5 DEF P, F, G, H

(* Elements may be renamed.                                                *)
Renames(f, g, D, h, s) ==
  /\ \A x \in D : f[x] \in s /\ h[f[x]] = g[x]
  /\ \A x, y \in D : f[x] = f[y] => x = y
  /\ \A y \in s : \E x \in D : f[x] = y

LEMMA TotalsRenamed ==
  ASSUME NEW D, IsFiniteSet(D), NEW g \in [D -> Int],
         NEW E, IsFiniteSet(E), NEW h \in [E -> Int], NEW r \in SUBSET E,
         NEW f, Renames(f, g, D, h, r)
  PROVE  Totals(g)[D] = Totals(h)[r]
<1> DEFINE image(u) == {f[x] : x \in u}
           P == {u \in SUBSET D : Totals(g)[u] = Totals(h)[image(u)]}
<1>0. /\ \A x \in D : f[x] \in E /\ h[f[x]] = g[x]
      /\ \A x, y \in D : f[x] = f[y] => x = y
      /\ image(D) = r
  BY DEF Renames
<1>1. ASSUME NEW u \in SUBSET D, \A x \in u : u \ {x} \in P PROVE u \in P
  <2>1. CASE u = {}
    <3>1. image(u) = {}
      BY <2>1
    <3>2. QED
      BY <2>1, <3>1, TotalsSumUp
  <2>2. ASSUME NEW x \in u PROVE u \in P
    <3>1. Totals(g)[u] = g[x] + Totals(g)[u \ {x}]
      BY TotalsAt
    <3>2. image(u) \in SUBSET E /\ f[x] \in image(u)
      BY <1>0
    <3>3. Totals(h)[image(u)] = h[f[x]] + Totals(h)[image(u) \ {f[x]}]
      <4> HIDE DEF image
      <4>1. QED
        BY <3>2, TotalsAt
    <3>4. image(u) \ {f[x]} = image(u \ {x})
      BY <1>0
    <3>5. Totals(g)[u \ {x}] = Totals(h)[image(u \ {x})]
      BY <1>1
    <3>6. h[f[x]] = g[x]
      BY <1>0
    <3> HIDE DEF image
    <3>7. Totals(g)[u] = Totals(h)[image(u)]
      BY <3>1, <3>3, <3>4, <3>5, <3>6
    <3>8. QED
      BY <3>7
  <2>3. QED
    BY <2>1, <2>2
<1> HIDE DEF P
<1>2. \A u \in SUBSET D : u \in P
  BY <1>1, SetByElements
<1>3. D \in P
  BY <1>2
<1>4. QED
  BY <1>0, <1>3 DEF P

(* What MapThenSumSet iterates exists, and its last value is the total.    *)
Iterates(h, g) ==
  h = [s \in SUBSET DOMAIN g |-> IF s = {} THEN 0 ELSE g[Pick(s)] + h[s \ {Pick(s)}]]

LEMMA IterationTotals ==
  ASSUME NEW D, IsFiniteSet(D), NEW g \in [D -> Int]
  PROVE  /\ \E h : Iterates(h, g)
         /\ \A h : Iterates(h, g) => h[D] = Totals(g)[D]
<1> DEFINE T == Totals(g)
           Body(h, s) == IF s = {} THEN 0 ELSE g[Pick(s)] + h[s \ {Pick(s)}]
<1>1. T \in [SUBSET D -> Int] /\ SumsUp(T, g) /\ DOMAIN g = D
  BY TotalsSumUp
<1> HIDE DEF T
<1>2. \A s \in SUBSET D : T[s] = Body(T, s)
  BY <1>1 DEF SumsUp
<1>3. T = [s \in SUBSET D |-> Body(T, s)]
  <2> HIDE DEF Body
  <2>1. QED
    BY <1>1, <1>2
<1>4. Iterates(T, g)
  BY <1>1, <1>3 DEF Iterates
<1>5. ASSUME NEW h, Iterates(h, g) PROVE h[D] = T[D]
  <2>1. h = [s \in SUBSET D |-> Body(h, s)]
    BY <1>1, <1>5 DEF Iterates
  <2>2. \A s \in SUBSET D : h[s] = Body(h, s)
    <3> HIDE DEF Body
    <3>1. QED
      BY <2>1
  <2>3. SumsUp(h, g)
    BY <1>1, <2>2 DEF SumsUp
  <2>4. QED
    BY <1>1, <2>3, TotalsUnique
<1>6. QED
  BY <1>4, <1>5 DEF T

-----------------------------------------------------------------------------
(* The TiFlash queue.                                                      *)
LEMMA Least ==
  ASSUME NEW S \in SUBSET Nat, S # {}
  PROVE  \E m \in S : \A x \in S : m <= x
<1> DEFINE R == {p \in Nat \X Nat : p[1] < p[2]}
<1>1. IsWellFoundedOn(R, Nat)
  BY NatLessThanWellFounded DEF OpToRel
<1> HIDE DEF R
<1>2. PICK m \in S : \A x \in S : ~ (<<x, m>> \in R)
  BY <1>1, WFMin
<1>3. ASSUME NEW x \in S PROVE m <= x
  <2>1. ~ (x < m)
    BY <1>2 DEF R
  <2>2. QED
    BY <2>1
<1>4. QED
  BY <1>3

Entry == [readyAt : Nat, ts : Nat, versions : Nat]
Versions(q) == [k \in DOMAIN q |-> q[k].versions]

(* The queue against the replica's progress, below an oracle at last.      *)
Queued(q, f, last) ==
  /\ q \in Seq(Entry)
  /\ f \in [resolvedTs : Nat, targetTs : Nat, pending : Nat, lag : Nat, mppQueries : Nat]
  /\ \A j, k \in 1..Len(q) : j < k => q[j].ts < q[k].ts
  /\ \A k \in 1..Len(q) : f.resolvedTs < q[k].ts /\ q[k].ts <= f.targetTs
  /\ f.targetTs = IF q = << >> THEN f.resolvedTs ELSE q[Len(q)].ts
  /\ f.targetTs <= last + 1
  /\ f.pending = Totals(Versions(q))[1..Len(q)]

(* What is consumed is the head of the queue.                              *)
LEMMA ConsumedIsPrefix ==
  ASSUME NEW q \in Seq(Entry), queue = q, NEW t
  PROVE  \E n \in 0..Len(q) : AppliedBy(t) = 1..n
<1> DEFINE Stop == {k \in 1..(Len(q) + 1) : k \notin AppliedBy(t)}
<1>1. DOMAIN q = 1..Len(q) /\ Len(q) \in Nat
  OBVIOUS
<1>2. AppliedBy(t) \subseteq 1..Len(q)
  BY <1>1 DEF AppliedBy, Ready
<1>3. Len(q) + 1 \in Stop
  BY <1>1, <1>2
<1>4. Stop \in SUBSET Nat
  BY <1>1
<1>5. PICK u \in Stop : \A x \in Stop : u <= x
  BY <1>3, <1>4, Least
<1>6. u - 1 \in 0..Len(q)
  BY <1>1
<1>7. ASSUME NEW k \in 1..(u - 1) PROVE k \in AppliedBy(t)
  <2>1. k \in 1..(Len(q) + 1) /\ ~ (u <= k)
    BY <1>1
  <2>2. QED
    BY <1>5, <2>1
<1>8. ASSUME NEW k \in AppliedBy(t) PROVE k \in 1..(u - 1)
  <2>1. SUFFICES ASSUME k >= u PROVE FALSE
    BY <1>1, <1>2
  <2>2. k \in 1..Len(q) /\ u \in 1..Len(q) /\ u \in 1..k
    BY <1>1, <1>2, <2>1
  <2>3. \A m \in 1..k : m \in Ready(t)
    BY DEF AppliedBy
  <2>4. u \in Ready(t) /\ \A m \in 1..u : m \in Ready(t)
    BY <1>1, <2>2, <2>3
  <2>5. u \in AppliedBy(t)
    BY <2>4 DEF AppliedBy
  <2>6. QED
    BY <2>5
<1>9. AppliedBy(t) = 1..(u - 1)
  BY <1>7, <1>8
<1>10. QED
  BY <1>6, <1>9

LEMMA SumOfVersions ==
  ASSUME NEW q, NEW S \in SUBSET DOMAIN q, IsFiniteSet(S), \A k \in S : q[k].versions \in Int
  PROVE  MapThenSumSet(LAMBDA k : q[k].versions, S) = Totals([k \in S |-> q[k].versions])[S]
<1> DEFINE g == [k \in S |-> q[k].versions]
           Sums(h) == h = [s \in SUBSET S |->
                             IF s = {} THEN 0 ELSE q[Pick(s)].versions + h[s \ {Pick(s)}]]
<1>1. \A s \in SUBSET S : s # {} => g[Pick(s)] = q[Pick(s)].versions
  BY DEF Pick
<1>2. \A h : Iterates(h, g) <=> Sums(h)
  BY <1>1 DEF Iterates
<1>3. (\E h : Sums(h))
        => \E h : Sums(h) /\ MapThenSumSet(LAMBDA k : q[k].versions, S) = h[S]
  BY Zenon DEF MapThenSumSet, MapThenFoldSet, Pick
<1> HIDE DEF Sums, g
<1>4. g \in [S -> Int]
  BY DEF g
<1>5. QED
  BY <1>2, <1>3, <1>4, IterationTotals DEF g

LEMMA VersionsTyped ==
  ASSUME NEW q \in Seq(Entry)
  PROVE  /\ Versions(q) \in [1..Len(q) -> Nat] /\ IsFiniteSet(1..Len(q)) /\ Len(q) \in Nat
         /\ Totals(Versions(q))[1..Len(q)] \in Nat
<1>1. Versions(q) \in [1..Len(q) -> Nat] /\ Len(q) \in Nat
  <2>1. \A k \in 1..Len(q) : q[k] \in Entry
    OBVIOUS
  <2>2. DOMAIN q = 1..Len(q) /\ Len(q) \in Nat
    OBVIOUS
  <2>3. \A k \in DOMAIN q : q[k].versions \in Nat
    BY <2>1, <2>2 DEF Entry
  <2>4. QED
    BY <2>2, <2>3 DEF Versions
<1>2. IsFiniteSet(1..Len(q))
  BY <1>1, FS_Interval
<1>3. QED
  BY <1>1, <1>2, TotalsNat

LEMMA VersionsAppend ==
  ASSUME NEW q \in Seq(Entry), NEW e \in Entry
  PROVE  Totals(Versions(Append(q, e)))[1..Len(Append(q, e))]
           = Totals(Versions(q))[1..Len(q)] + e.versions
<1> DEFINE a == Append(q, e)
           n == Len(q)
           id == [k \in 1..n |-> k]
<1>1. /\ a \in Seq(Entry) /\ Len(a) = n + 1 /\ n \in Nat /\ a[n + 1] = e
      /\ \A k \in 1..n : a[k] = q[k]
  OBVIOUS
<1> HIDE DEF a
<1>2. /\ Versions(q) \in [1..n -> Int] /\ Versions(a) \in [1..(n + 1) -> Int]
      /\ IsFiniteSet(1..n) /\ IsFiniteSet(1..(n + 1))
  <2>1. Versions(q) \in [1..n -> Int] /\ IsFiniteSet(1..n)
    BY VersionsTyped
  <2>2. Versions(a) \in [1..(n + 1) -> Int] /\ IsFiniteSet(1..(n + 1))
    BY <1>1, VersionsTyped
  <2>3. QED
    BY <2>1, <2>2
<1>3. /\ Versions(a)[n + 1] = e.versions /\ \A k \in 1..n : Versions(a)[k] = Versions(q)[k]
  <2>1. DOMAIN a = 1..(n + 1) /\ DOMAIN q = 1..n
    BY <1>1
  <2>2. QED
    BY <1>1, <2>1 DEF Versions
<1>4. Totals(Versions(a))[1..(n + 1)]
        = Versions(a)[n + 1] + Totals(Versions(a))[(1..(n + 1)) \ {n + 1}]
  <2>1. n + 1 \in 1..(n + 1)
    BY <1>1
  <2>2. QED
    BY <1>2, <2>1, TotalsAt
<1>5. (1..(n + 1)) \ {n + 1} = 1..n /\ 1..n \in SUBSET (1..(n + 1))
  BY <1>1
<1>6. Totals(Versions(q))[1..n] = Totals(Versions(a))[1..n]
  <2>1. Renames(id, Versions(q), 1..n, Versions(a), 1..n)
    BY <1>3 DEF Renames
  <2> HIDE DEF id
  <2> DEFINE A == 1..n
             B == 1..(n + 1)
  <2>2. /\ Versions(q) \in [A -> Int] /\ Versions(a) \in [B -> Int] /\ A \in SUBSET B
        /\ IsFiniteSet(A) /\ IsFiniteSet(B) /\ Renames(id, Versions(q), A, Versions(a), A)
    BY <1>2, <1>5, <2>1
  <2> HIDE DEF A, B
  <2>3. Totals(Versions(q))[A] = Totals(Versions(a))[A]
    BY <2>2, TotalsRenamed
  <2>4. QED
    BY <2>3 DEF A
<1>7. Totals(Versions(q))[1..n] \in Int /\ e.versions \in Int
  BY VersionsTyped DEF Entry
<1> DEFINE A == Totals(Versions(a))
           Q == Totals(Versions(q))
<1> HIDE DEF A, Q
<1>8. A[1..(n + 1)] = e.versions + Q[1..n] /\ Q[1..n] \in Int /\ e.versions \in Int
  BY <1>3, <1>4, <1>5, <1>6, <1>7 DEF A, Q
<1>9. A[1..(n + 1)] = Q[1..n] + e.versions
  BY <1>8
<1>10. QED
  BY <1>1, <1>9 DEF A, Q, a

LEMMA VersionsDrop ==
  ASSUME NEW q \in Seq(Entry), NEW n \in 0..Len(q)
  PROVE  LET r == SubSeq(q, n + 1, Len(q))
         IN  /\ r \in Seq(Entry) /\ Len(r) = Len(q) - n
             /\ \A k \in 1..(Len(q) - n) : r[k] = q[k + n]
             /\ Totals(Versions(q))[1..Len(q)]
                  = Totals([k \in 1..n |-> q[k].versions])[1..n] + Totals(Versions(r))[1..Len(r)]
<1> DEFINE r == SubSeq(q, n + 1, Len(q))
           m == Len(q)
           head == [k \in 1..n |-> q[k].versions]
           id == [k \in 1..n |-> k]
           up == [k \in 1..(m - n) |-> k + n]
<1>1. /\ r \in Seq(Entry) /\ Len(r) = m - n /\ m \in Nat /\ n \in Nat /\ n <= m
      /\ \A k \in 1..(m - n) : r[k] = q[k + n]
  OBVIOUS
<1> HIDE DEF r
<1>2. /\ Versions(q) \in [1..m -> Int] /\ Versions(r) \in [1..(m - n) -> Int]
      /\ IsFiniteSet(1..m) /\ IsFiniteSet(1..(m - n)) /\ IsFiniteSet(1..n)
  <2>1. Versions(q) \in [1..m -> Int] /\ IsFiniteSet(1..m)
    BY VersionsTyped
  <2>2. Versions(r) \in [1..(m - n) -> Int] /\ IsFiniteSet(1..(m - n))
    BY <1>1, VersionsTyped
  <2>3. IsFiniteSet(1..n)
    <3>1. n \in Int /\ 1 \in Int
      BY <1>1
    <3>2. QED
      BY <3>1, FS_Interval
  <2>4. \A k \in 1..m : Versions(q)[k] \in Int
    BY <2>1
  <2>5. QED
    BY <2>1, <2>2, <2>3, <2>4
<1>3. /\ \A k \in 1..(m - n) : Versions(r)[k] = Versions(q)[k + n]
      /\ \A k \in 1..n : Versions(q)[k] = head[k]
      /\ head \in [1..n -> Int]
  <2>1. DOMAIN r = 1..(m - n) /\ DOMAIN q = 1..m
    BY <1>1
  <2>2. \A k \in 1..m : Versions(q)[k] = q[k].versions /\ Versions(q)[k] \in Int
    BY <1>2, <2>1 DEF Versions
  <2>3. \A k \in 1..n : head[k] = q[k].versions /\ k \in 1..m
    BY <1>1
  <2>4. \A k \in 1..(m - n) : Versions(r)[k] = r[k].versions /\ k + n \in 1..m
    BY <1>1, <2>1 DEF Versions
  <2>5. head \in [1..n -> Int]
    <3>1. \A k \in 1..n : q[k].versions \in Int
      BY <2>2, <2>3
    <3>2. QED
      BY <3>1
  <2> HIDE DEF head
  <2>6. QED
    BY <1>1, <2>2, <2>3, <2>4, <2>5
<1>4. /\ 1..n \in SUBSET (1..m) /\ (n + 1)..m \in SUBSET (1..m)
      /\ (1..n) \cap ((n + 1)..m) = {} /\ (1..n) \cup ((n + 1)..m) = 1..m
  BY <1>1
<1>5. Totals(Versions(q))[1..m] = Totals(Versions(q))[1..n] + Totals(Versions(q))[(n + 1)..m]
  <2> DEFINE A == 1..n
             M == 1..m
  <2>1. A \in SUBSET M /\ M \ A = (n + 1)..m
    BY <1>1
  <2>2. Versions(q) \in [M -> Int] /\ IsFiniteSet(M)
    BY <1>2
  <2> HIDE DEF A, M
  <2>3. Totals(Versions(q))[M] = Totals(Versions(q))[A] + Totals(Versions(q))[M \ A]
    BY <2>1, <2>2, TotalsParts
  <2>4. QED
    BY <2>1, <2>3 DEF A, M
<1>6. Totals(head)[1..n] = Totals(Versions(q))[1..n]
  <2>1. Renames(id, head, 1..n, Versions(q), 1..n)
    BY <1>3 DEF Renames
  <2> HIDE DEF id, head
  <2> DEFINE A == 1..n
             B == 1..m
  <2>2. /\ head \in [A -> Int] /\ Versions(q) \in [B -> Int] /\ A \in SUBSET B
        /\ IsFiniteSet(A) /\ IsFiniteSet(B) /\ Renames(id, head, A, Versions(q), A)
    BY <1>2, <1>3, <1>4, <2>1
  <2> HIDE DEF A, B
  <2>3. Totals(head)[A] = Totals(Versions(q))[A]
    BY <2>2, TotalsRenamed
  <2>4. QED
    BY <2>3 DEF A
<1>7. Totals(Versions(r))[1..(m - n)] = Totals(Versions(q))[(n + 1)..m]
  <2>1. \A y \in (n + 1)..m : y - n \in 1..(m - n) /\ (y - n) + n = y
    BY <1>1
  <2>2. \A x \in 1..(m - n) : up[x] = x + n /\ x + n \in (n + 1)..m
    BY <1>1
  <2> HIDE DEF up
  <2>3. \A y \in (n + 1)..m : \E x \in 1..(m - n) : up[x] = y
    BY <2>1, <2>2
  <2>4. \A x, y \in 1..(m - n) : up[x] = up[y] => x = y
    BY <1>1, <2>2
  <2>5. \A x \in 1..(m - n) : Versions(q)[up[x]] = Versions(r)[x]
    BY <1>3, <2>2
  <2> DEFINE A == 1..(m - n)
             B == 1..m
             C == (n + 1)..m
  <2>6. /\ Versions(r) \in [A -> Int] /\ Versions(q) \in [B -> Int] /\ C \in SUBSET B
        /\ IsFiniteSet(A) /\ IsFiniteSet(B)
    BY <1>2, <1>4
  <2>7. \A x \in A : up[x] \in C
    BY <2>2
  <2> HIDE DEF A, B, C
  <2>8. Renames(up, Versions(r), A, Versions(q), C)
    BY <2>3, <2>4, <2>5, <2>7 DEF Renames, A, C
  <2>9. Totals(Versions(r))[A] = Totals(Versions(q))[C]
    BY <2>6, <2>8, TotalsRenamed
  <2>10. QED
    BY <2>9 DEF A, C
<1> HIDE DEF head
<1>8. Totals(Versions(q))[1..m] = Totals(head)[1..n] + Totals(Versions(r))[1..(m - n)]
  BY <1>5, <1>6, <1>7
<1>9. QED
  BY <1>1, <1>8 DEF r, head

LEMMA MaxIsLater ==
  ASSUME NEW a \in Int, NEW b \in Int, a <= b
  PROVE  Max({a, b}) = b
BY DEF Max

(* The head of a queue is taken off: what is left is queued still, behind  *)
(* a resolved timestamp that reached the last entry taken.                 *)
LEMMA QueueAppliedOK ==
  ASSUME NEW last \in Nat, Queued(queue, tiflash, last), NEW t, QueueApplied(t)
  PROVE  Queued(queue', tiflash', last)
<1> DEFINE q == queue
           f == tiflash
           m == Len(q)
<1>1. /\ q \in Seq(Entry) /\ m \in Nat /\ DOMAIN q = 1..m
      /\ f \in [resolvedTs : Nat, targetTs : Nat, pending : Nat, lag : Nat, mppQueries : Nat]
      /\ \A j, k \in 1..m : j < k => q[j].ts < q[k].ts
      /\ \A k \in 1..m : f.resolvedTs < q[k].ts /\ q[k].ts <= f.targetTs
      /\ f.targetTs = IF q = << >> THEN f.resolvedTs ELSE q[Len(q)].ts
      /\ f.targetTs <= last + 1
      /\ f.pending = Totals(Versions(q))[1..m]
      /\ \A k \in 1..m : q[k] \in Entry
  BY DEF Queued
<1>2. PICK n \in 0..m : AppliedBy(t) = 1..n
  BY <1>1, ConsumedIsPrefix
<1> DEFINE done == 1..n
           left == SubSeq(q, n + 1, m)
           taken == Totals([k \in 1..n |-> q[k].versions])[1..n]
           resolved == Max({f.resolvedTs} \cup {q[k].ts : k \in done})
           pending == Max({0, f.pending - taken})
<1>3. /\ done \in SUBSET (DOMAIN q) /\ IsFiniteSet(done) /\ Cardinality(done) = n
      /\ \A k \in done : q[k].versions \in Nat
  <2>1. IsFiniteSet(1..n) /\ Cardinality(1..n) = n
    <3>1. n \in Nat
      BY <1>1
    <3>2. QED
      BY <3>1, FS_Interval
  <2>2. \A k \in done : k \in 1..m
    BY <1>1
  <2>3. ASSUME NEW k \in done PROVE q[k].versions \in Nat
    <3>1. q[k] \in Entry
      BY <1>1, <2>2
    <3>2. QED
      BY <3>1 DEF Entry
  <2>4. QED
    BY <1>1, <2>1, <2>2, <2>3
<1>4. MapThenSumSet(LAMBDA k : q[k].versions, done) = taken
  <2>1. \A k \in done : q[k].versions \in Int
    BY <1>3
  <2> HIDE DEF done, q
  <2>2. QED
    BY <1>3, <2>1, SumOfVersions DEF done
<1>5. /\ queue' = left
      /\ tiflash' = [f EXCEPT !.resolvedTs = resolved, !.pending = pending,
                              !.lag = IF pending > 0 THEN Max({0, f.targetTs - resolved}) ELSE 0]
  <2> HIDE DEF taken
  <2>1. QED
    BY <1>2, <1>3, <1>4 DEF QueueApplied
<1>6. /\ left \in Seq(Entry) /\ Len(left) = m - n
      /\ \A k \in 1..(m - n) : left[k] = q[k + n]
      /\ f.pending = taken + Totals(Versions(left))[1..(m - n)]
  <2>1. n \in 0..Len(q)
    BY <1>1
  <2> HIDE DEF q, f, m
  <2>2. QED
    BY <1>1, <2>1, VersionsDrop DEF m
<1>7. taken \in Nat /\ Totals(Versions(left))[1..(m - n)] \in Nat
  <2>1. Totals(Versions(left))[1..(m - n)] \in Nat
    BY <1>6, VersionsTyped
  <2>2. [k \in 1..n |-> q[k].versions] \in [1..n -> Nat]
    BY <1>3
  <2> DEFINE g == [k \in 1..n |-> q[k].versions]
             D == 1..n
  <2>3. g \in [D -> Nat] /\ IsFiniteSet(D)
    BY <1>3
  <2> HIDE DEF g, D
  <2>4. Totals(g)[D] \in Nat
    BY <2>3, TotalsNat
  <2>5. QED
    BY <2>1, <2>4 DEF g, D
<1> HIDE DEF taken, left, q, f, m
<1>8. pending = Totals(Versions(left))[1..(m - n)]
  <2> DEFINE T == Totals(Versions(left))[1..(m - n)]
  <2>1. f.pending - taken = T /\ T \in Nat
    BY <1>6, <1>7
  <2> HIDE DEF T
  <2> DEFINE z == 0
  <2>2. z \in Int /\ T \in Int /\ z <= T
    BY <2>1
  <2> HIDE DEF z
  <2>3. Max({z, T}) = T
    BY <2>2, MaxIsLater
  <2>4. QED
    BY <2>1, <2>3 DEF T, z
<1>9. /\ resolved = IF n = 0 THEN f.resolvedTs ELSE q[n].ts
      /\ resolved \in Nat /\ resolved <= f.targetTs
  <2>1. CASE n = 0
    <3>1. {f.resolvedTs} \cup {q[k].ts : k \in done} = {f.resolvedTs}
      BY <2>1
    <3>2. Max({f.resolvedTs}) = f.resolvedTs /\ f.resolvedTs \in Nat
      BY <1>1 DEF Max
    <3>3. f.resolvedTs <= f.targetTs
      BY <1>1 DEF Entry, m
    <3>4. QED
      BY <2>1, <3>1, <3>2, <3>3
  <2>2. CASE n # 0
    <3> DEFINE S == {f.resolvedTs} \cup {q[k].ts : k \in done}
    <3>1. n \in done /\ n \in 1..m /\ q[n].ts \in Nat /\ f.resolvedTs < q[n].ts
          /\ f.resolvedTs \in Nat /\ q[n].ts <= f.targetTs
      BY <1>1, <2>2 DEF Entry
    <3>2. ASSUME NEW k \in done PROVE q[k].ts <= q[n].ts /\ q[k].ts \in Nat
      <4>1. k \in 1..m /\ k <= n /\ q[k] \in Entry
        BY <1>1
      <4>2. q[k].ts \in Nat
        BY <4>1 DEF Entry
      <4>3. CASE k = n
        BY <3>1, <4>3
      <4>4. CASE k < n
        BY <1>1, <3>1, <4>1, <4>2, <4>4
      <4>5. QED
        BY <4>1, <4>2, <4>3, <4>4
    <3>3. q[n].ts \in S /\ \A y \in S : y <= q[n].ts /\ y \in Nat
      BY <3>1, <3>2
    <3> HIDE DEF S
    <3>4. Max(S) = q[n].ts
      BY <3>1, <3>3 DEF Max
    <3>5. QED
      BY <2>2, <3>1, <3>4 DEF S
  <2>3. QED
    BY <2>1, <2>2
<1> HIDE DEF resolved, pending
<1>10. tiflash' \in [resolvedTs : Nat, targetTs : Nat, pending : Nat, lag : Nat, mppQueries : Nat]
       /\ tiflash'.resolvedTs = resolved /\ tiflash'.pending = pending
       /\ tiflash'.targetTs = f.targetTs
  <2> DEFINE lag == IF pending > 0 THEN Max({0, f.targetTs - resolved}) ELSE 0
  <2>1. lag \in Nat
    <3>1. f.targetTs - resolved \in Nat
      BY <1>1, <1>9
    <3>2. Max({0, f.targetTs - resolved}) \in Nat
      BY <3>1, MaxOfTwo
    <3>3. QED
      BY <3>2
  <2>2. pending \in Nat
    BY <1>7, <1>8
  <2>3. tiflash' = [f EXCEPT !.resolvedTs = resolved, !.pending = pending, !.lag = lag]
    BY <1>5
  <2> HIDE DEF lag
  <2>4. QED
    BY <1>1, <1>9, <2>1, <2>2, <2>3
<1>11. ASSUME NEW k \in 1..(m - n)
       PROVE  /\ left[k].ts = q[k + n].ts /\ resolved < left[k].ts /\ left[k].ts <= f.targetTs
              /\ \A j \in 1..(m - n) : j < k => left[j].ts < left[k].ts
  <2>1. left[k] = q[k + n] /\ k + n \in 1..m
    BY <1>1, <1>6
  <2>2. q[k + n].ts \in Nat /\ q[k + n].ts <= f.targetTs /\ f.resolvedTs < q[k + n].ts
    BY <1>1, <2>1 DEF Entry
  <2>3. resolved < q[k + n].ts
    <3>1. n # 0 => n \in 1..m /\ n < k + n
      BY <1>1
    <3>2. n # 0 => q[n].ts < q[k + n].ts
      BY <1>1, <2>1, <3>1
    <3>3. QED
      BY <1>9, <2>2, <3>2
  <2>4. ASSUME NEW j \in 1..(m - n), j < k PROVE left[j].ts < left[k].ts
    <3>1. left[j] = q[j + n] /\ j + n \in 1..m /\ j + n < k + n
      BY <1>1, <1>6, <2>4
    <3>2. QED
      BY <1>1, <2>1, <3>1
  <2>5. QED
    BY <2>1, <2>2, <2>3, <2>4
<1>12. f.targetTs = IF left = << >> THEN resolved ELSE left[Len(left)].ts
  <2>1. CASE n = m
    <3>1. Len(left) = 0
      BY <1>1, <1>6, <2>1
    <3>2. left = << >>
      BY <1>6, <3>1
    <3>3. f.targetTs = resolved
      <4>1. m = 0 <=> q = << >>
        BY <1>1 DEF m
      <4>2. QED
        BY <1>1, <1>9, <2>1, <4>1 DEF m
    <3>4. QED
      BY <3>2, <3>3
  <2>2. CASE n # m
    <3>1. m - n \in 1..(m - n) /\ Len(left) = m - n /\ m # 0 /\ (m - n) + n = m
      BY <1>1, <1>6, <2>2
    <3>2. left # << >> /\ q # << >>
      BY <3>1 DEF m
    <3>3. left[m - n] = q[m]
      BY <1>6, <3>1
    <3>4. QED
      BY <1>1, <3>1, <3>2, <3>3 DEF m
  <2>3. QED
    BY <2>1, <2>2
<1>13. Queued(left, tiflash', last)
  <2>1. Len(left) = m - n
    BY <1>6
  <2>2. \A k \in 1..Len(left) : tiflash'.resolvedTs < left[k].ts /\ left[k].ts <= tiflash'.targetTs
    BY <1>10, <1>11, <2>1
  <2>3. \A j, k \in 1..Len(left) : j < k => left[j].ts < left[k].ts
    BY <1>11, <2>1
  <2>4. tiflash'.pending = Totals(Versions(left))[1..Len(left)]
    BY <1>8, <1>10, <2>1
  <2>5. tiflash'.targetTs = IF left = << >> THEN tiflash'.resolvedTs ELSE left[Len(left)].ts
    BY <1>10, <1>12
  <2>6. tiflash'.targetTs <= last + 1
    BY <1>1, <1>10
  <2>7. QED
    BY <1>6, <1>10, <2>2, <2>3, <2>4, <2>5, <2>6 DEF Queued
<1>14. QED
  BY <1>5, <1>13

(* A commit above everything queued so far is queued behind it.            *)
LEMMA EnqueuedOK ==
  ASSUME NEW last \in Nat, Queued(queue, tiflash, last), now \in Nat,
         NEW ts \in Nat, NEW n \in Nat, ts > last + 1, ts <= n + 1,
         NEW versions \in Nat, NEW lag \in Nat, Enqueued(ts, versions, lag)
  PROVE  Queued(queue', tiflash', n)
<1> DEFINE q == queue
           f == tiflash
           m == Len(q)
           e == [readyAt |-> now + lag, ts |-> ts, versions |-> versions]
           a == Append(q, e)
<1>1. /\ q \in Seq(Entry) /\ m \in Nat
      /\ f \in [resolvedTs : Nat, targetTs : Nat, pending : Nat, lag : Nat, mppQueries : Nat]
      /\ \A j, k \in 1..m : j < k => q[j].ts < q[k].ts
      /\ \A k \in 1..m : f.resolvedTs < q[k].ts /\ q[k].ts <= f.targetTs
      /\ f.targetTs = IF q = << >> THEN f.resolvedTs ELSE q[Len(q)].ts
      /\ f.targetTs <= last + 1
      /\ f.pending = Totals(Versions(q))[1..m]
      /\ \A k \in 1..m : q[k] \in Entry
  BY DEF Queued
<1>2. e \in Entry /\ e.ts = ts /\ e.versions = versions
  BY DEF Entry
<1>3. Max({f.targetTs, ts}) = ts
  <2> DEFINE b == f.targetTs
  <2>1. b \in Int /\ ts \in Int /\ b <= ts
    BY <1>1
  <2> HIDE DEF b
  <2>2. Max({b, ts}) = ts
    BY <2>1, MaxIsLater
  <2>3. QED
    BY <2>2 DEF b
<1>4. /\ queue' = a
      /\ tiflash' = [f EXCEPT !.targetTs = ts, !.pending = f.pending + versions]
  BY <1>3 DEF Enqueued
<1>5. /\ a \in Seq(Entry) /\ Len(a) = m + 1 /\ a[m + 1] = e /\ a # << >>
      /\ \A k \in 1..m : a[k] = q[k]
  <2>1. q \in Seq(Entry) /\ e \in Entry /\ m = Len(q)
    BY <1>1, <1>2
  <2> HIDE DEF e, q, m
  <2>2. QED
    BY <2>1
<1>6. Totals(Versions(a))[1..Len(a)] = f.pending + versions
  <2> HIDE DEF e, q
  <2>1. QED
    BY <1>1, <1>2, VersionsAppend
<1> HIDE DEF e, a, q, f, m
<1>7. /\ tiflash' \in [resolvedTs : Nat, targetTs : Nat, pending : Nat, lag : Nat, mppQueries : Nat]
      /\ tiflash'.resolvedTs = f.resolvedTs /\ tiflash'.targetTs = ts
      /\ tiflash'.pending = f.pending + versions
  <2>1. f.pending + versions \in Nat
    BY <1>1
  <2>2. QED
    BY <1>1, <1>4, <2>1
<1>8. f.resolvedTs < ts /\ \A k \in 1..m : q[k].ts < ts /\ q[k].ts \in Nat
  <2>1. f.targetTs \in Nat /\ f.targetTs < ts /\ f.resolvedTs \in Nat
    BY <1>1
  <2>2. ASSUME NEW k \in 1..m PROVE q[k].ts < ts /\ q[k].ts \in Nat
    <3>1. q[k].ts \in Nat /\ q[k].ts <= f.targetTs
      BY <1>1 DEF Entry
    <3>2. QED
      BY <2>1, <3>1
  <2>3. f.resolvedTs <= f.targetTs
    <3>1. CASE m = 0
      BY <1>1, <2>1, <3>1 DEF m
    <3>2. CASE m # 0
      <4>1. 1 \in 1..m
        BY <1>1, <3>2
      <4>2. f.resolvedTs < q[1].ts /\ q[1].ts <= f.targetTs /\ q[1].ts \in Nat
        BY <1>1, <2>2, <4>1
      <4>3. QED
        BY <2>1, <4>2
    <3>3. QED
      BY <3>1, <3>2
  <2>4. QED
    BY <2>1, <2>2, <2>3
<1>9. ASSUME NEW k \in 1..(m + 1)
      PROVE  /\ f.resolvedTs < a[k].ts /\ a[k].ts <= ts
             /\ \A j \in 1..(m + 1) : j < k => a[j].ts < a[k].ts
  <2>1. CASE k = m + 1
    <3>1. a[k].ts = ts
      BY <1>2, <1>5, <2>1
    <3>2. \A j \in 1..(m + 1) : j < k => j \in 1..m
      BY <1>1, <2>1
    <3>3. QED
      BY <1>5, <1>8, <3>1, <3>2
  <2>2. CASE k # m + 1
    <3>1. k \in 1..m /\ a[k] = q[k] /\ \A j \in 1..(m + 1) : j < k => j \in 1..m
      BY <1>1, <1>5, <2>2
    <3>2. f.resolvedTs < a[k].ts /\ a[k].ts <= ts
      <4>1. q[k].ts \in Nat /\ q[k].ts < ts /\ f.resolvedTs < q[k].ts
        BY <1>1, <1>8, <3>1
      <4>2. QED
        BY <3>1, <4>1
    <3>3. ASSUME NEW j \in 1..(m + 1), j < k PROVE a[j].ts < a[k].ts
      <4>1. j \in 1..m
        BY <3>1, <3>3
      <4>2. a[j] = q[j] /\ q[j].ts < q[k].ts
        BY <1>1, <1>5, <3>1, <3>3, <4>1
      <4>3. QED
        BY <3>1, <4>2
    <3>4. QED
      BY <3>2, <3>3
  <2>3. QED
    BY <2>1, <2>2
<1>10. Queued(a, tiflash', n)
  <2>1. \A k \in 1..Len(a) : tiflash'.resolvedTs < a[k].ts /\ a[k].ts <= tiflash'.targetTs
    BY <1>5, <1>7, <1>9
  <2>2. \A j, k \in 1..Len(a) : j < k => a[j].ts < a[k].ts
    BY <1>5, <1>9
  <2>3. tiflash'.targetTs = IF a = << >> THEN tiflash'.resolvedTs ELSE a[Len(a)].ts
    BY <1>2, <1>5, <1>7
  <2>4. QED
    BY <1>5, <1>6, <1>7, <2>1, <2>2, <2>3 DEF Queued
<1>11. QED
  BY <1>4, <1>10

ReplicaInv == Queued(queue, tiflash, tso.last)

LEMMA QueuedLater ==
  ASSUME NEW q, NEW f, NEW a \in Nat, NEW b \in Nat, a <= b, Queued(q, f, a)
  PROVE  Queued(q, f, b)
<1>1. f.targetTs \in Nat /\ f.targetTs <= a + 1
  BY DEF Queued
<1>2. f.targetTs <= b + 1
  BY <1>1
<1>3. QED
  BY <1>2 DEF Queued

LEMMA WriteQueued ==
  ASSUME IInv, ReplicaInv, NEW w \in Writes, TraceWrite(w)
  PROVE  ReplicaInv'
<1>1. PICK c, ts, commitTs : \E collects \in BOOLEAN, conflicts \in {0, 1} :
        InTime(ts, commitTs) /\ End(w, c, ts, commitTs, collects, conflicts)
  BY WriteExits
<1> DEFINE n == Max({1, Len(w.ids)})
<1>2. /\ tso' = ts
      /\ IF commitTs # Unset /\ w.lag # Unset THEN Enqueued(commitTs, n, w.lag)
                                            ELSE UNCHANGED <<tiflash, queue>>
  BY <1>1, Zenon DEF End
<1>3. InTime(ts, commitTs)
  BY <1>1
<1>4. /\ StartTs \in Nat /\ StartTs > tso.last /\ tso.last \in Nat /\ now \in Nat
      /\ ts.last \in Nat /\ tso.last <= ts.last /\ n \in Nat
  BY <1>3, StartTsIsFresh, WriteTyped DEF IInv, InTime
<1> HIDE DEF n
<1>5. CASE commitTs # Unset /\ w.lag # Unset
  <2>1. Enqueued(commitTs, n, w.lag)
    BY <1>2, <1>5
  <2>2. w.lag \in Nat
    BY <1>5 DEF Writes, IInv, Scope
  <2>3. /\ commitTs \in Nat /\ commitTs > tso.last + 1 /\ commitTs <= ts.last + 1
    BY <1>3, <1>4, <1>5 DEF InTime
  <2>4. Queued(queue, tiflash, tso.last)
    BY DEF ReplicaInv
  <2>5. Queued(queue', tiflash', ts.last)
    BY <1>4, <2>1, <2>2, <2>3, <2>4, EnqueuedOK
  <2>6. QED
    BY <1>2, <2>5 DEF ReplicaInv
<1>6. CASE ~ (commitTs # Unset /\ w.lag # Unset)
  <2>1. queue' = queue /\ tiflash' = tiflash
    BY <1>2, <1>6
  <2>2. Queued(queue, tiflash, ts.last)
    BY <1>4, QueuedLater DEF ReplicaInv
  <2>3. QED
    BY <1>2, <2>1, <2>2 DEF ReplicaInv, Queued, Versions, Entry
<1>7. QED
  BY <1>5, <1>6

LEMMA ReadQueued ==
  ASSUME IInv, ReplicaInv, NEW ids, NEW path, NEW failover, TraceRead(ids, path, failover)
  PROVE  ReplicaInv'
<1>1. /\ tso' = OneTs /\ queue' = queue
      /\ tiflash' = [tiflash EXCEPT !.mppQueries = @ + (IF path = "mpp" THEN 1 ELSE 0)]
  BY DEF TraceRead
<1>2. OneTs.last \in Nat /\ tso.last \in Nat /\ tso.last <= OneTs.last
  BY StartTsIsFresh DEF IInv
<1>3. Queued(queue, tiflash, OneTs.last)
  BY <1>2, QueuedLater DEF ReplicaInv
<1>4. /\ tiflash' \in [resolvedTs : Nat, targetTs : Nat, pending : Nat, lag : Nat, mppQueries : Nat]
      /\ tiflash'.resolvedTs = tiflash.resolvedTs /\ tiflash'.targetTs = tiflash.targetTs
      /\ tiflash'.pending = tiflash.pending
  <2>1. tiflash \in [resolvedTs : Nat, targetTs : Nat, pending : Nat, lag : Nat, mppQueries : Nat]
    BY <1>3 DEF Queued
  <2>2. QED
    BY <1>1, <2>1
<1>5. Queued(queue, tiflash', OneTs.last)
  BY <1>3, <1>4 DEF Queued
<1>6. QED
  BY <1>1, <1>5 DEF ReplicaInv

LEMMA StepQueued ==
  ASSUME IInv, ReplicaInv, FixedStep
  PROVE  ReplicaInv'
<1>1. QueueApplied(now + 1)
  BY StepExits DEF Step
<1>2. tso'.last \in Nat /\ tso.last \in Nat /\ tso.last <= tso'.last
  BY StepExits DEF IInv
<1>3. Queued(queue', tiflash', tso.last)
  BY <1>1, <1>2, QueueAppliedOK DEF ReplicaInv
<1>4. Queued(queue', tiflash', tso'.last)
  BY <1>2, <1>3, QueuedLater
<1>5. QED
  BY <1>4 DEF ReplicaInv, Queued, Versions, Entry

LEMMA NextQueued ==
  ASSUME IInv, ReplicaInv, [Next]_vars
  PROVE  ReplicaInv'
<1>1. CASE UNCHANGED <<queue, tiflash, tso>>
  BY <1>1 DEF ReplicaInv, Queued, Versions, Entry
<1>2. CASE Request
  <2>1. CASE \E w \in Writes : TraceWrite(w)
    BY <2>1, WriteQueued
  <2>2. CASE \E ids \in IdLists, path \in {"leader", "follower", "mpp"}, failover \in BOOLEAN :
                TraceRead(ids, path, failover)
    BY <2>2, ReadQueued
  <2>3. CASE TraceExplain \/ TraceNowhere
    BY <1>1, <2>3 DEF TraceExplain, TraceNowhere
  <2>4. QED
    BY <1>2, <2>1, <2>2, <2>3 DEF Request
<1>3. QED
  BY <1>1, <1>2, StepQueued DEF Next, vars

LEMMA StartsEmpty == Init => ReplicaInv
<1> SUFFICES ASSUME Init PROVE ReplicaInv
  OBVIOUS
<1>1. queue = << >> /\ \E rs, last, n, T, g, mpp, counted :
        last \in Nat /\ mpp \in Nat /\ Begins(rs, last, n, T, g, mpp, counted)
  <2>1. TickTs + 2 \in Nat
    BY SimulationAssumption
  <2>2. QED
    BY <2>1, Zenon DEF Init, Fresh, AfterFailover, AfterCrossRegion, AfterLockDeadlock,
          AfterCommitProtocols, AfterGcSafePoint, AfterTiFlashMpp
<1>2. /\ tiflash \in [resolvedTs : Nat, targetTs : Nat, pending : Nat, lag : Nat, mppQueries : Nat]
      /\ tiflash.resolvedTs = 0 /\ tiflash.targetTs = 0 /\ tiflash.pending = 0
      /\ tso.last \in Nat
  BY <1>1 DEF Begins
<1>3. Totals(Versions(queue))[1..Len(queue)] = 0
  <2> DEFINE g == Versions(queue)
             D == 1..Len(queue)
  <2>1. D = {} /\ g \in [D -> Int] /\ IsFiniteSet(D)
    BY <1>1, FS_EmptySet DEF Versions
  <2> HIDE DEF g, D
  <2>2. Totals(g)[{}] = 0
    BY <2>1, TotalsSumUp
  <2>3. QED
    BY <2>1, <2>2 DEF g, D
<1>4. QED
  BY <1>1, <1>2, <1>3 DEF ReplicaInv, Queued

LEMMA QueuedWatermark == ReplicaInv => ReplicaWatermark
<1> SUFFICES ASSUME ReplicaInv PROVE ReplicaWatermark
  OBVIOUS
<1>1. /\ queue \in Seq(Entry) /\ DOMAIN queue = 1..Len(queue)
      /\ \A k \in 1..Len(queue) : /\ tiflash.resolvedTs < queue[k].ts
                                  /\ queue[k].ts <= tiflash.targetTs
      /\ tiflash.targetTs = IF queue = << >> THEN tiflash.resolvedTs ELSE queue[Len(queue)].ts
      /\ tiflash.pending = Totals(Versions(queue))[1..Len(queue)]
  BY DEF ReplicaInv, Queued
<1>2. MapThenSumSet(LAMBDA k : queue[k].versions, DOMAIN queue) = Totals(Versions(queue))[DOMAIN queue]
  <2>1. IsFiniteSet(DOMAIN queue) /\ \A k \in DOMAIN queue : queue[k].versions \in Int
    <3>1. \A k \in DOMAIN queue : queue[k] \in Entry
      BY <1>1
    <3>2. QED
      BY <1>1, <3>1, VersionsTyped DEF Entry
  <2>2. QED
    BY <2>1, SumOfVersions DEF Versions
<1>3. QED
  BY <1>1, <1>2, Zenon DEF ReplicaWatermark

LEMMA AlwaysQueued == Spec => []ReplicaInv
<1>1. IInv /\ ReplicaInv /\ [Next]_vars => ReplicaInv'
  BY NextQueued
<1>2. QED
  BY <1>1, StartsEmpty, Invariance, PTL DEF Spec

(* The resolved timestamp never passes a version still queued, and pending *)
(* is what the queue holds: replicate, setTiFlashLag and step keep the     *)
(* queue in timestamp order whatever lag each batch was given.             *)
THEOREM WatermarkHolds == Spec => []ReplicaWatermark
BY AlwaysQueued, QueuedWatermark, PTL

-----------------------------------------------------------------------------
(* What a call counts, against what the logs gained: the sums over the     *)
(* Regions touched are sums over the ids of the call's beginning.          *)
At(rs, S) == {r \in Range(rs) : r.id \in S}

LEMMA AtById ==
  ASSUME NEW rs, NEW up, Sound(rs, up), NEW S \in SUBSET Ids(rs)
  PROVE  /\ \A r \in At(rs, S) : r.id \in S /\ Get(rs, r.id) = r
         /\ \A id \in S : Get(rs, id) \in At(rs, S) /\ Get(rs, id).id = id
         /\ IsFiniteSet(S) => IsFiniteSet(At(rs, S))
<1>1. DOMAIN rs = 1..Len(rs)
  BY DEF Sound
<1>2. ASSUME NEW r \in At(rs, S)
      PROVE  r.id \in S /\ Get(rs, r.id) = r
  <2>1. PICK i \in 1..Len(rs) : r = rs[i]
    BY <1>1 DEF At, Range
  <2>2. QED
    BY <2>1, GetAt DEF At
<1>3. ASSUME NEW id \in S
      PROVE  Get(rs, id) \in At(rs, S) /\ Get(rs, id).id = id
  <2>1. PICK i \in 1..Len(rs) : rs[i].id = id /\ Get(rs, id) = rs[i]
    BY SoundAt
  <2>2. QED
    BY <1>1, <2>1 DEF At, Range
<1>4. ASSUME IsFiniteSet(S) PROVE IsFiniteSet(At(rs, S))
  <2> DEFINE g == [id \in S |-> Get(rs, id)]
             image == {g[id] : id \in S}
  <2>1. IsFiniteSet(image)
    <3>1. g \in [S -> image]
      OBVIOUS
    <3>2. g \in Surjection(S, image)
      BY <3>1 DEF Surjection
    <3>3. QED
      BY <1>4, <3>2, FS_Surjection
  <2>2. At(rs, S) \subseteq image
    BY <1>2
  <2>3. QED
    BY <2>1, <2>2, FS_Subset
<1>5. QED
  BY <1>2, <1>3, <1>4

(* Summing over Regions and over their ids is the same.                    *)
LEMMA SumOverIds ==
  ASSUME NEW rs, NEW up, Sound(rs, up), NEW I \in SUBSET Ids(rs), IsFiniteSet(I),
         NEW S \in SUBSET I, NEW g \in [At(rs, S) -> Int], NEW h \in [I -> Int],
         \A id \in I : h[id] = IF id \in S THEN g[Get(rs, id)] ELSE 0
  PROVE  Totals(g)[At(rs, S)] = Totals(h)[I]
<1> DEFINE D == At(rs, S)
           f == [r \in D |-> r.id]
<1>1. S \in SUBSET Ids(rs) /\ IsFiniteSet(S)
  BY FS_Subset
<1>2. /\ \A r \in D : r.id \in S /\ Get(rs, r.id) = r
      /\ \A id \in S : Get(rs, id) \in D /\ Get(rs, id).id = id
      /\ IsFiniteSet(D)
  BY <1>1, AtById
<1> HIDE DEF D
<1>3. Renames(f, g, D, h, S)
  <2>1. \A x \in D : f[x] \in S /\ h[f[x]] = g[x]
    BY <1>2
  <2>2. \A x, y \in D : f[x] = f[y] => x = y
    BY <1>2
  <2>3. \A y \in S : \E x \in D : f[x] = y
    BY <1>2
  <2>4. QED
    BY <2>1, <2>2, <2>3 DEF Renames
<1> HIDE DEF f
<1>4. g \in [D -> Int]
  BY DEF D
<1>5. Totals(g)[D] = Totals(h)[S]
  BY <1>2, <1>3, <1>4, TotalsRenamed
<1>6. Totals(h)[I] = Totals(h)[S]
  <2>1. \A x \in I \ S : h[x] = 0
    OBVIOUS
  <2>2. QED
    BY <2>1, TotalsZero
<1>7. QED
  BY <1>5, <1>6 DEF D

(* The sums of the engine, as totals.                                      *)
LEMMA SumOfElections ==
  ASSUME NEW S, IsFiniteSet(S)
  PROVE  /\ MapThenSumSet(Elections, S) = Totals([r \in S |-> Elections(r)])[S]
         /\ MapThenSumSet(NoOps, S) = Totals([r \in S |-> Elections(r)])[S]
<1> DEFINE g == [r \in S |-> Elections(r)]
           Sums(h) == h = [s \in SUBSET S |->
                             IF s = {} THEN 0 ELSE Elections(Pick(s)) + h[s \ {Pick(s)}]]
<1>1. \A s \in SUBSET S : s # {} => g[Pick(s)] = Elections(Pick(s))
  BY DEF Pick
<1>2. \A h : Iterates(h, g) <=> Sums(h)
  BY <1>1 DEF Iterates
<1>3. (\E h : Sums(h)) => \E h : Sums(h) /\ MapThenSumSet(Elections, S) = h[S]
  BY Zenon DEF MapThenSumSet, MapThenFoldSet, Pick
<1>4. (\E h : Sums(h)) => \E h : Sums(h) /\ MapThenSumSet(NoOps, S) = h[S]
  BY Zenon DEF MapThenSumSet, MapThenFoldSet, Pick, NoOps
<1> HIDE DEF Sums, g
<1>5. g \in [S -> Int]
  BY DEF g, Elections
<1>6. QED
  BY <1>2, <1>3, <1>4, <1>5, IterationTotals DEF g

LEMMA SumOfEntries ==
  ASSUME NEW S, IsFiniteSet(S)
  PROVE  MapThenSumSet(LAMBDA r : NoOps(r) + Commands(r), S)
           = Totals([r \in S |-> NoOps(r) + Commands(r)])[S]
<1> DEFINE g == [r \in S |-> NoOps(r) + Commands(r)]
           Sums(h) == h = [s \in SUBSET S |->
                             IF s = {} THEN 0
                             ELSE (NoOps(Pick(s)) + Commands(Pick(s))) + h[s \ {Pick(s)}]]
<1>1. \A s \in SUBSET S : s # {} => g[Pick(s)] = NoOps(Pick(s)) + Commands(Pick(s))
  BY DEF Pick
<1>2. \A h : Iterates(h, g) <=> Sums(h)
  BY <1>1 DEF Iterates
<1>3. (\E h : Sums(h)) => \E h : /\ Sums(h)
                                 /\ MapThenSumSet(LAMBDA r : NoOps(r) + Commands(r), S) = h[S]
  BY Zenon DEF MapThenSumSet, MapThenFoldSet, Pick
<1> HIDE DEF Sums
<1>5. g \in [S -> Int]
  BY DEF NoOps, Elections, Commands
<1> HIDE DEF g
<1>6. QED
  BY <1>2, <1>3, <1>5, IterationTotals DEF g

(* What the Regions gained from rs to ns.                                  *)
Entries(rs, ns, I) == [id \in I |-> Get(ns, id).commit - Get(rs, id).commit]
Terms(rs, ns, I) == [id \in I |-> Get(ns, id).term - Get(rs, id).term]

LEMMA SumOfGains ==
  ASSUME NEW rs, NEW ns, NEW I, IsFiniteSet(I),
         Entries(rs, ns, I) \in [I -> Int], Terms(rs, ns, I) \in [I -> Int]
  PROVE  /\ MapThenSumSet(LAMBDA id : Get(ns, id).commit - Get(rs, id).commit, I)
              = Totals(Entries(rs, ns, I))[I]
         /\ MapThenSumSet(LAMBDA id : Get(ns, id).term - Get(rs, id).term, I)
              = Totals(Terms(rs, ns, I))[I]
<1> DEFINE e == Entries(rs, ns, I)
           t == Terms(rs, ns, I)
           SumsE(h) == h = [s \in SUBSET I |->
                             IF s = {} THEN 0
                             ELSE (Get(ns, Pick(s)).commit - Get(rs, Pick(s)).commit) + h[s \ {Pick(s)}]]
           SumsT(h) == h = [s \in SUBSET I |->
                             IF s = {} THEN 0
                             ELSE (Get(ns, Pick(s)).term - Get(rs, Pick(s)).term) + h[s \ {Pick(s)}]]
<1>1. \A s \in SUBSET I : s # {} =>
         /\ e[Pick(s)] = Get(ns, Pick(s)).commit - Get(rs, Pick(s)).commit
         /\ t[Pick(s)] = Get(ns, Pick(s)).term - Get(rs, Pick(s)).term
  BY DEF Pick, Entries, Terms
<1>2. DOMAIN e = I /\ DOMAIN t = I
  BY DEF Entries, Terms
<1>3. (\E h : SumsE(h)) => \E h : /\ SumsE(h)
         /\ MapThenSumSet(LAMBDA id : Get(ns, id).commit - Get(rs, id).commit, I) = h[I]
  BY Zenon DEF MapThenSumSet, MapThenFoldSet, Pick
<1>4. (\E h : SumsT(h)) => \E h : /\ SumsT(h)
         /\ MapThenSumSet(LAMBDA id : Get(ns, id).term - Get(rs, id).term, I) = h[I]
  BY Zenon DEF MapThenSumSet, MapThenFoldSet, Pick
<1> HIDE DEF e, t
<1>5. \A h : (Iterates(h, e) <=> SumsE(h)) /\ (Iterates(h, t) <=> SumsT(h))
  BY <1>1, <1>2 DEF Iterates
<1> HIDE DEF SumsE, SumsT
<1>6. e \in [I -> Int] /\ t \in [I -> Int]
  BY DEF e, t
<1>7. QED
  BY <1>3, <1>4, <1>5, <1>6, IterationTotals DEF e, t

-----------------------------------------------------------------------------
(* What the operations on a few Regions add to each log.                   *)
(* What elections and commands on the Regions of S add, by id.             *)
ElectionsAt(rs, S, I) == [id \in I |-> IF id \in S THEN Elections(Get(rs, id)) ELSE 0]
EntriesAt(rs, S, I) ==
  [id \in I |-> IF id \in S THEN NoOps(Get(rs, id)) + Commands(Get(rs, id)) ELSE 0]

(* ns is rs, further by what e and t say.                                  *)
Further(rs, ns, I, e, t) ==
  /\ I \subseteq Ids(rs) /\ I \subseteq Ids(ns)
  /\ e \in [I -> Nat] /\ t \in [I -> Nat]
  /\ \A id \in I : /\ Get(ns, id).commit = Get(rs, id).commit + e[id]
                   /\ Get(ns, id).term = Get(rs, id).term + t[id]

LEMMA CountsAt ==
  ASSUME NEW rs, NEW S, NEW I
  PROVE  ElectionsAt(rs, S, I) \in [I -> Nat] /\ EntriesAt(rs, S, I) \in [I -> Nat]
BY DEF ElectionsAt, EntriesAt, Elections, NoOps, Commands

(* An array whose Regions kept their places.                               *)
LEMMA SameSpots ==
  ASSUME NEW rs, NEW up, Sound(rs, up), NEW ns, NEW vp, Sound(ns, vp), Len(ns) = Len(rs),
         NEW i \in 1..Len(rs), ns[i].id = rs[i].id
  PROVE  Get(ns, rs[i].id) = ns[i] /\ Get(rs, rs[i].id) = rs[i]
<1>1. i \in 1..Len(ns)
  OBVIOUS
<1>2. QED
  BY <1>1, GetAt

LEMMA LedFurther ==
  ASSUME NEW rs, NEW up, Sound(rs, up), NEW S, NEW I \in SUBSET Ids(rs)
  PROVE  Further(rs, Led(rs, S), I, ElectionsAt(rs, S, I), ElectionsAt(rs, S, I))
<1> DEFINE ns == Led(rs, S)
           t == ElectionsAt(rs, S, I)
<1>1. Sound(ns, up) /\ Ids(ns) = Ids(rs) /\ Len(ns) = Len(rs)
  BY LedAdds DEF Adds
<1>2. ASSUME NEW id \in I
      PROVE  /\ Get(ns, id).commit = Get(rs, id).commit + t[id]
             /\ Get(ns, id).term = Get(rs, id).term + t[id]
  <2>1. PICK i \in 1..Len(rs) : rs[i].id = id
    BY DEF Ids
  <2>2. i \in DOMAIN rs /\ rs[i] \in Region /\ GroupOK(rs[i])
    BY GetAt DEF Sound, GroupOK
  <2> DEFINE r == rs[i]
  <2>3. ns[i] = IF id \in S THEN EnsureLeader(r) ELSE r
    BY <2>1, <2>2 DEF Led
  <2> HIDE DEF r
  <2>4. /\ EnsureLeader(r).commit = r.commit + Elections(r)
        /\ EnsureLeader(r).term = r.term + Elections(r) /\ EnsureLeader(r).id = r.id
        /\ r.commit \in Nat /\ r.term \in Nat /\ r.id = id
    BY <2>1, <2>2, EnsureLeaderSteps DEF r, SameKeys, Region
  <2>5. ns[i].id = rs[i].id
    BY <2>3, <2>4 DEF r
  <2> HIDE DEF ns
  <2>6. Get(ns, id) = ns[i] /\ Get(rs, id) = r
    BY <1>1, <2>1, <2>5, SameSpots DEF r
  <2>7. t[id] = IF id \in S THEN Elections(r) ELSE 0
    BY <2>6 DEF ElectionsAt
  <2> HIDE DEF t
  <2>8. QED
    BY <2>3, <2>4, <2>6, <2>7
<1>3. QED
  BY <1>1, <1>2, CountsAt DEF Further

LEMMA ProposedFurther ==
  ASSUME NEW rs, NEW up, Sound(rs, up), NEW S, NEW I \in SUBSET Ids(rs)
  PROVE  Further(rs, Proposed(rs, S), I, EntriesAt(rs, S, I), ElectionsAt(rs, S, I))
<1> DEFINE ns == Proposed(rs, S)
           e == EntriesAt(rs, S, I)
           t == ElectionsAt(rs, S, I)
<1>1. Sound(ns, up) /\ Ids(ns) = Ids(rs) /\ Len(ns) = Len(rs)
  BY ProposedAdds DEF Adds
<1>2. ASSUME NEW id \in I
      PROVE  /\ Get(ns, id).commit = Get(rs, id).commit + e[id]
             /\ Get(ns, id).term = Get(rs, id).term + t[id]
  <2>1. PICK i \in 1..Len(rs) : rs[i].id = id
    BY DEF Ids
  <2>2. i \in DOMAIN rs /\ rs[i] \in Region /\ GroupOK(rs[i])
    BY GetAt DEF Sound, GroupOK
  <2> DEFINE r == rs[i]
  <2>3. ns[i] = IF id \in S THEN Replicate(r) ELSE r
    BY <2>1, <2>2 DEF Proposed
  <2> HIDE DEF r
  <2>4. /\ Replicate(r).commit = r.commit + (NoOps(r) + Commands(r))
        /\ Replicate(r).term = r.term + Elections(r) /\ Replicate(r).id = r.id
        /\ r.commit \in Nat /\ r.term \in Nat /\ r.id = id
    BY <2>1, <2>2, ReplicateSteps DEF r, SameKeys, Region
  <2>5. ns[i].id = rs[i].id
    BY <2>3, <2>4 DEF r
  <2> HIDE DEF ns
  <2>6. Get(ns, id) = ns[i] /\ Get(rs, id) = r
    BY <1>1, <2>1, <2>5, SameSpots DEF r
  <2>7. /\ t[id] = IF id \in S THEN Elections(r) ELSE 0
        /\ e[id] = IF id \in S THEN NoOps(r) + Commands(r) ELSE 0
    BY <2>6 DEF ElectionsAt, EntriesAt
  <2> HIDE DEF t, e
  <2>8. QED
    BY <2>3, <2>4, <2>6, <2>7
<1>3. QED
  BY <1>1, <1>2, CountsAt DEF Further

(* A read elects where it must, and catches a follower up.                 *)
LEMMA ServedFurther ==
  ASSUME NEW rs, NEW up, Sound(rs, up), NEW S, NEW policy, NEW I \in SUBSET Ids(rs)
  PROVE  Further(rs, ServedFrom(rs, S, policy), I, ElectionsAt(rs, S, I), ElectionsAt(rs, S, I))
<1> DEFINE ns == ServedFrom(rs, S, policy)
           t == ElectionsAt(rs, S, I)
<1>1. Sound(ns, up) /\ Ids(ns) = Ids(rs) /\ Len(ns) = Len(rs)
  BY ServedAdds DEF Adds
<1>2. ASSUME NEW id \in I
      PROVE  /\ Get(ns, id).commit = Get(rs, id).commit + t[id]
             /\ Get(ns, id).term = Get(rs, id).term + t[id]
  <2>1. PICK i \in 1..Len(rs) : rs[i].id = id
    BY DEF Ids
  <2>2. i \in DOMAIN rs /\ rs[i] \in Region /\ GroupOK(rs[i])
    BY GetAt DEF Sound, GroupOK
  <2> DEFINE r == rs[i]
             l == EnsureLeader(r)
             f == ReadFrom(l, policy)
  <2>3. IF id \in S THEN ns[i] \in {l, f} ELSE ns[i] = r
    BY <2>1, <2>2 DEF ServedFrom
  <2> HIDE DEF r
  <2>4. /\ l.commit = r.commit + Elections(r) /\ l \in Region /\ GroupOK(l)
        /\ l.term = r.term + Elections(r) /\ l.id = r.id
        /\ r.commit \in Nat /\ r.term \in Nat /\ r.id = id
    BY <2>1, <2>2, EnsureLeaderSteps DEF r, SameKeys, Region, GroupOK
  <2> HIDE DEF l
  <2>5. f.commit = l.commit /\ f.term = l.term /\ f.id = l.id
    BY <2>4, ReadFromSteps DEF SameKeys
  <2> HIDE DEF f
  <2>6. ns[i].id = rs[i].id
    BY <2>3, <2>4, <2>5 DEF r
  <2> HIDE DEF ns
  <2>7. Get(ns, id) = ns[i] /\ Get(rs, id) = r
    BY <1>1, <2>1, <2>6, SameSpots DEF r
  <2>8. t[id] = IF id \in S THEN Elections(r) ELSE 0
    BY <2>7 DEF ElectionsAt
  <2> HIDE DEF t
  <2>9. QED
    BY <2>3, <2>4, <2>5, <2>7, <2>8
<1>3. QED
  BY <1>1, <1>2, CountsAt DEF Further

(* A Store that stops adds nothing to any log.                             *)
LEMMA StoppedFurther ==
  ASSUME NEW up, Sound(regions, up), NEW at \in Ids(regions), NEW id \in Ids(regions)
  PROVE  LogOf(Get(StoreDown(regions, at), id)) = LogOf(Get(regions, id))
<1> DEFINE ns == StoreDown(regions, at)
           s == Get(regions, at).leader
<1>1. Sound(ns, up \ {s}) /\ Ids(ns) = Ids(regions) /\ Len(ns) = Len(regions)
  BY StoreDownAdds DEF Adds
<1>2. PICK i \in 1..Len(regions) : regions[i].id = id
  BY DEF Ids
<1>3. i \in DOMAIN regions /\ regions[i] \in Region /\ GroupOK(regions[i]) /\ s \in Store
  BY GetAt, SoundAt DEF Sound, GroupOK, Region
<1>4. ns[i] = PeerDown(regions[i], s)
  BY <1>3 DEF StoreDown
<1> HIDE DEF ns, s
<1>5. ns[i].commit = regions[i].commit /\ ns[i].term = regions[i].term /\ ns[i].id = regions[i].id
  BY <1>3, <1>4, PeerDownSteps DEF SameKeys
<1>6. Get(ns, id) = ns[i] /\ Get(regions, id) = regions[i]
  BY <1>1, <1>2, <1>5, SameSpots
<1>7. QED
  BY <1>5, <1>6 DEF LogOf, ns

LEMMA SplitFurther ==
  ASSUME NEW up, Sound(regions, up), HotRegion \in Ids(regions), Splittable(regions, HotRegion),
         NEW I, I = Ids(regions)
  PROVE  Further(regions, Split(regions, HotRegion), I,
                 EntriesAt(regions, {HotRegion}, I), ElectionsAt(regions, {HotRegion}, I))
<1> DEFINE ns == Split(regions, HotRegion)
           e == EntriesAt(regions, {HotRegion}, I)
           t == ElectionsAt(regions, {HotRegion}, I)
<1>1. /\ Ids(regions) \subseteq Ids(ns)
      /\ \A id \in Ids(regions) :
           LogOf(Get(ns, id))
             = LogOf(IF id = HotRegion THEN Replicate(Get(regions, id)) ELSE Get(regions, id))
  BY SplitAdds, Zenon
<1> HIDE DEF ns
<1>2. ASSUME NEW id \in I
      PROVE  /\ Get(ns, id).commit = Get(regions, id).commit + e[id]
             /\ Get(ns, id).term = Get(regions, id).term + t[id]
  <2> DEFINE r == Get(regions, id)
  <2>1. r \in Region /\ GroupOK(r)
    BY SoundAt
  <2>2. /\ t[id] = IF id = HotRegion THEN Elections(r) ELSE 0
        /\ e[id] = IF id = HotRegion THEN NoOps(r) + Commands(r) ELSE 0
    BY DEF ElectionsAt, EntriesAt
  <2>3. LogOf(Get(ns, id)) = LogOf(IF id = HotRegion THEN Replicate(r) ELSE r)
    BY <1>1
  <2> HIDE DEF r, e, t
  <2>4. /\ Get(ns, id).commit = (IF id = HotRegion THEN Replicate(r) ELSE r).commit
        /\ Get(ns, id).term = (IF id = HotRegion THEN Replicate(r) ELSE r).term
    BY <2>3 DEF LogOf
  <2>5. /\ Replicate(r).commit = r.commit + (NoOps(r) + Commands(r))
        /\ Replicate(r).term = r.term + Elections(r)
        /\ r.commit \in Nat /\ r.term \in Nat
    BY <2>1, ReplicateSteps DEF Region
  <2>6. QED
    BY <2>2, <2>4, <2>5 DEF r
<1>3. QED
  BY <1>1, <1>2, CountsAt DEF Further, ns

LEMMA IdsFinite ==
  ASSUME NEW rs, NEW up, Sound(rs, up)
  PROVE  IsFiniteSet(Ids(rs))
<1> DEFINE L == Len(rs)
           f == [i \in 1..L |-> rs[i].id]
<1>1. L \in Nat
  BY DEF Sound
<1>2. IsFiniteSet(1..L)
  BY <1>1, FS_Interval
<1>3. f \in Surjection(1..L, Ids(rs))
  BY DEF Surjection, Ids
<1> HIDE DEF f, L
<1>4. QED
  BY <1>2, <1>3, FS_Surjection

(* A call so far: its counters are the sums of what the Regions of its     *)
(* beginning gained.                                                       *)
Tallied(c, I) ==
  /\ I = Ids(regions)
  /\ \E up : Sound(c.rs, up)
  /\ I \subseteq Ids(c.rs) /\ Len(c.rs) >= Len(regions)
  /\ Entries(regions, c.rs, I) \in [I -> Nat] /\ Terms(regions, c.rs, I) \in [I -> Nat]
  /\ c.entries = Totals(Entries(regions, c.rs, I))[I]
  /\ c.elections = Totals(Terms(regions, c.rs, I))[I]

IsSumOf(h, f, g, D) ==
  /\ f \in [D -> Int] /\ g \in [D -> Int] /\ h \in [D -> Int]
  /\ \A x \in D : h[x] = f[x] + g[x]

LEMMA TotalsOfSum ==
  ASSUME NEW D, IsFiniteSet(D), NEW h, NEW f, NEW g, IsSumOf(h, f, g, D)
  PROVE  Totals(h)[D] = Totals(f)[D] + Totals(g)[D]
BY TotalsAdd DEF IsSumOf

LEMMA TalliedFurther ==
  ASSUME RegionsSound, NEW c, NEW I, Tallied(c, I),
         NEW d, NEW up, Sound(d.rs, up), Len(d.rs) >= Len(c.rs),
         NEW e, NEW l, Further(c.rs, d.rs, I, e, l),
         d.entries = c.entries + Totals(e)[I], d.elections = c.elections + Totals(l)[I]
  PROVE  Tallied(d, I)
<1> DEFINE e0 == Entries(regions, c.rs, I)
           e1 == Entries(regions, d.rs, I)
           l0 == Terms(regions, c.rs, I)
           l1 == Terms(regions, d.rs, I)
<1>1. /\ I = Ids(regions) /\ I \subseteq Ids(d.rs) /\ IsFiniteSet(I)
      /\ e0 \in [I -> Nat] /\ l0 \in [I -> Nat] /\ e \in [I -> Nat] /\ l \in [I -> Nat]
      /\ c.entries = Totals(e0)[I] /\ c.elections = Totals(l0)[I]
  BY IdsFinite DEF RegionsSound, Tallied, Further
<1>2. ASSUME NEW id \in I
      PROVE  /\ e1[id] = e0[id] + e[id] /\ l1[id] = l0[id] + l[id]
             /\ e1[id] \in Nat /\ l1[id] \in Nat
  <2>1. /\ Get(regions, id).commit \in Nat /\ Get(regions, id).term \in Nat
        /\ Get(c.rs, id).commit \in Nat /\ Get(c.rs, id).term \in Nat
    BY <1>1, SoundAt DEF RegionsSound, Tallied, Region
  <2>2. /\ Get(d.rs, id).commit = Get(c.rs, id).commit + e[id]
        /\ Get(d.rs, id).term = Get(c.rs, id).term + l[id]
    BY DEF Further
  <2>3. /\ e0[id] = Get(c.rs, id).commit - Get(regions, id).commit
        /\ e1[id] = Get(d.rs, id).commit - Get(regions, id).commit
        /\ l0[id] = Get(c.rs, id).term - Get(regions, id).term
        /\ l1[id] = Get(d.rs, id).term - Get(regions, id).term
    BY DEF Entries, Terms
  <2>4. e0[id] \in Nat /\ l0[id] \in Nat /\ e[id] \in Nat /\ l[id] \in Nat
    BY <1>1
  <2> HIDE DEF e0, e1, l0, l1
  <2>5. \A a, b \in Nat, x, y \in Nat : x = b - a => (b + y) - a = x + y /\ x + y \in Nat
    OBVIOUS
  <2>6. e1[id] = e0[id] + e[id] /\ e1[id] \in Nat
    <3>1. e1[id] = (Get(c.rs, id).commit + e[id]) - Get(regions, id).commit
      BY <2>2, <2>3
    <3>2. QED
      BY <2>1, <2>3, <2>4, <2>5, <3>1
  <2>7. l1[id] = l0[id] + l[id] /\ l1[id] \in Nat
    <3>1. l1[id] = (Get(c.rs, id).term + l[id]) - Get(regions, id).term
      BY <2>2, <2>3
    <3>2. QED
      BY <2>1, <2>3, <2>4, <2>5, <3>1
  <2>8. QED
    BY <2>6, <2>7
<1>3. e1 \in [I -> Nat] /\ l1 \in [I -> Nat]
  <2>1. DOMAIN e1 = I /\ DOMAIN l1 = I /\ e1 = [id \in I |-> e1[id]] /\ l1 = [id \in I |-> l1[id]]
    BY DEF Entries, Terms
  <2> HIDE DEF e0, e1, l0, l1
  <2>2. QED
    BY <1>2, <2>1
<1> HIDE DEF e0, e1, l0, l1
<1>4. IsSumOf(e1, e0, e, I) /\ IsSumOf(l1, l0, l, I)
  <2>1. /\ e0 \in [I -> Int] /\ e1 \in [I -> Int] /\ e \in [I -> Int]
        /\ l0 \in [I -> Int] /\ l1 \in [I -> Int] /\ l \in [I -> Int]
    BY <1>1, <1>3
  <2>2. (\A id \in I : e1[id] = e0[id] + e[id]) /\ (\A id \in I : l1[id] = l0[id] + l[id])
    BY <1>2
  <2>3. QED
    BY <2>1, <2>2 DEF IsSumOf
<1>5. /\ Totals(e1)[I] = Totals(e0)[I] + Totals(e)[I]
      /\ Totals(l1)[I] = Totals(l0)[I] + Totals(l)[I]
  BY <1>1, <1>4, TotalsOfSum
<1>6. Len(d.rs) >= Len(regions)
  BY SoundLen DEF RegionsSound, Tallied
<1>7. QED
  BY <1>1, <1>3, <1>5, <1>6 DEF Tallied, e0, e1, l0, l1

(* What Counted adds to the counters.                                      *)
LEMMA CountedSums ==
  ASSUME NEW rs, NEW up, Sound(rs, up), NEW I \in SUBSET Ids(rs), IsFiniteSet(I), NEW S \in SUBSET I
  PROVE  /\ MapThenSumSet(Elections, At(rs, S)) = Totals(ElectionsAt(rs, S, I))[I]
         /\ MapThenSumSet(NoOps, At(rs, S)) = Totals(ElectionsAt(rs, S, I))[I]
         /\ MapThenSumSet(LAMBDA r : NoOps(r) + Commands(r), At(rs, S))
              = Totals(EntriesAt(rs, S, I))[I]
<1> DEFINE g == [r \in At(rs, S) |-> Elections(r)]
           k == [r \in At(rs, S) |-> NoOps(r) + Commands(r)]
           h == ElectionsAt(rs, S, I)
           j == EntriesAt(rs, S, I)
<1>1. /\ IsFiniteSet(At(rs, S)) /\ \A id \in S : Get(rs, id) \in At(rs, S)
  <2>1. S \in SUBSET Ids(rs) /\ IsFiniteSet(S)
    BY FS_Subset
  <2>2. QED
    BY <2>1, AtById
<1>2. /\ g \in [At(rs, S) -> Int] /\ k \in [At(rs, S) -> Int]
  BY DEF Elections, NoOps, Commands
<1>3. h \in [I -> Int] /\ j \in [I -> Int]
  <2>1. h \in [I -> Nat] /\ j \in [I -> Nat]
    BY CountsAt
  <2> HIDE DEF h, j
  <2>2. QED
    BY <2>1
<1>4. /\ \A id \in I : h[id] = IF id \in S THEN g[Get(rs, id)] ELSE 0
      /\ \A id \in I : j[id] = IF id \in S THEN k[Get(rs, id)] ELSE 0
  BY <1>1 DEF ElectionsAt, EntriesAt
<1>5. /\ MapThenSumSet(Elections, At(rs, S)) = Totals(g)[At(rs, S)]
      /\ MapThenSumSet(NoOps, At(rs, S)) = Totals(g)[At(rs, S)]
  BY <1>1, SumOfElections
<1>6. MapThenSumSet(LAMBDA r : NoOps(r) + Commands(r), At(rs, S)) = Totals(k)[At(rs, S)]
  BY <1>1, SumOfEntries
<1> HIDE DEF g, k, h, j
<1>7. Totals(g)[At(rs, S)] = Totals(h)[I] /\ Totals(k)[At(rs, S)] = Totals(j)[I]
  BY <1>2, <1>3, <1>4, SumOverIds
<1>8. QED
  BY <1>5, <1>6, <1>7 DEF h, j

-----------------------------------------------------------------------------
(* The operations, counted.                                                *)
(* Nothing has been counted where no log moved.                            *)
LEMMA NothingTallied ==
  ASSUME NEW up, Sound(regions, up), NEW I, I = Ids(regions),
         NEW c, NEW vp, Sound(c.rs, vp), Ids(c.rs) = I, Len(c.rs) = Len(regions),
         c.entries = 0, c.elections = 0,
         \A id \in I : LogOf(Get(c.rs, id)) = LogOf(Get(regions, id))
  PROVE  Tallied(c, I)
<1> DEFINE e == Entries(regions, c.rs, I)
           l == Terms(regions, c.rs, I)
           zero == 0
           none == {}
<1>1. IsFiniteSet(I)
  BY IdsFinite
<1>2. ASSUME NEW id \in I
      PROVE  e[id] = 0 /\ l[id] = 0
  <2>1. /\ Get(regions, id).commit \in Nat /\ Get(regions, id).term \in Nat
        /\ Get(c.rs, id).commit = Get(regions, id).commit
        /\ Get(c.rs, id).term = Get(regions, id).term
    <3>1. Get(regions, id) \in Region
      BY SoundAt
    <3>2. LogOf(Get(c.rs, id)) = LogOf(Get(regions, id))
      OBVIOUS
    <3>3. /\ Get(c.rs, id).commit = Get(regions, id).commit
          /\ Get(c.rs, id).term = Get(regions, id).term
      BY <3>2 DEF LogOf
    <3>4. QED
      BY <3>1, <3>3 DEF Region
  <2>2. /\ e[id] = Get(c.rs, id).commit - Get(regions, id).commit
        /\ l[id] = Get(c.rs, id).term - Get(regions, id).term
    BY DEF Entries, Terms
  <2> HIDE DEF e, l
  <2>3. QED
    BY <2>1, <2>2
<1>3. e \in [I -> Nat] /\ l \in [I -> Nat]
  <2>1. e = [id \in I |-> e[id]] /\ l = [id \in I |-> l[id]]
    BY DEF Entries, Terms
  <2> HIDE DEF e, l
  <2>2. QED
    BY <1>2, <2>1
<1> HIDE DEF e, l
<1>4. \A g \in [I -> Int] : (\A id \in I : g[id] = 0) => Totals(g)[I] = 0
  <2> SUFFICES ASSUME NEW g \in [I -> Int], \A id \in I : g[id] = 0
               PROVE  Totals(g)[I] = 0
    OBVIOUS
  <2>1. Totals(g)[{}] = 0
    BY <1>1, TotalsSumUp
  <2>2. none \in SUBSET I /\ \A id \in I \ none : g[id] = 0
    OBVIOUS
  <2> HIDE DEF none
  <2>3. Totals(g)[I] = Totals(g)[none]
    BY <1>1, <2>2, TotalsZero
  <2>4. QED
    BY <2>1, <2>3 DEF none
<1>5. Totals(e)[I] = 0 /\ Totals(l)[I] = 0
  <2>1. e \in [I -> Int] /\ l \in [I -> Int]
    BY <1>3
  <2>2. QED
    BY <1>2, <1>4, <2>1
<1>6. Len(c.rs) >= Len(regions)
  BY SoundLen
<1>7. QED
  BY <1>3, <1>5, <1>6 DEF Tallied, e, l

LEMMA UntouchedTallied ==
  ASSUME RegionsSound
  PROVE  Tallied(Untouched, Ids(regions))
<1>1. PICK up : Sound(regions, up)
  BY DEF RegionsSound
<1>2. Untouched.rs = regions /\ Untouched.entries = 0 /\ Untouched.elections = 0
  BY DEF Untouched
<1>3. QED
  BY <1>1, <1>2, NothingTallied

LEMMA StoppedTallied ==
  ASSUME RegionsSound, NEW at \in Ids(regions)
  PROVE  Tallied([Untouched EXCEPT !.rs = StoreDown(regions, at)], Ids(regions))
<1> DEFINE c == [Untouched EXCEPT !.rs = StoreDown(regions, at)]
<1>1. PICK up : Sound(regions, up)
  BY DEF RegionsSound
<1>2. c.rs = StoreDown(regions, at) /\ c.entries = 0 /\ c.elections = 0
  BY DEF Untouched
<1>3. /\ Sound(c.rs, up \ {Get(regions, at).leader}) /\ Ids(c.rs) = Ids(regions)
      /\ Len(c.rs) = Len(regions)
  BY <1>1, <1>2, StoreDownAdds DEF Adds
<1>4. \A id \in Ids(regions) : LogOf(Get(c.rs, id)) = LogOf(Get(regions, id))
  BY <1>1, <1>2, StoppedFurther
<1> HIDE DEF c
<1>5. Tallied(c, Ids(regions))
  BY <1>1, <1>2, <1>3, <1>4, NothingTallied
<1>6. QED
  BY <1>5 DEF c

(* Every operation counts what it adds.                                    *)
LEMMA LeadTallies ==
  ASSUME RegionsSound, NEW c, NEW I, Tallied(c, I), NEW S \in SUBSET I
  PROVE  Tallied(LeadAll(c, S), I)
<1> DEFINE d == LeadAll(c, S)
           l == ElectionsAt(c.rs, S, I)
<1>1. PICK up : Sound(c.rs, up)
  BY DEF Tallied
<1>2. /\ d.rs = Led(c.rs, S)
      /\ d.entries = c.entries + MapThenSumSet(NoOps, At(c.rs, S))
      /\ d.elections = c.elections + MapThenSumSet(Elections, At(c.rs, S))
  BY Zenon DEF LeadAll, Counted, At
<1>3. I \in SUBSET Ids(c.rs) /\ IsFiniteSet(I)
  BY IdsFinite DEF Tallied, RegionsSound
<1>4. /\ MapThenSumSet(NoOps, At(c.rs, S)) = Totals(l)[I]
      /\ MapThenSumSet(Elections, At(c.rs, S)) = Totals(l)[I]
  BY <1>1, <1>3, CountedSums
<1>5. /\ d.entries = c.entries + Totals(l)[I]
      /\ d.elections = c.elections + Totals(l)[I]
  BY <1>2, <1>4, Zenon
<1>6. Further(c.rs, d.rs, I, l, l)
  BY <1>1, <1>2, <1>3, LedFurther
<1>7. Sound(d.rs, up) /\ Len(d.rs) >= Len(c.rs)
  BY <1>1, <1>2, LedAdds, SoundLen DEF Adds
<1> HIDE DEF d, l
<1>8. QED
  BY <1>5, <1>6, <1>7, TalliedFurther DEF d

LEMMA ProposeTallies ==
  ASSUME RegionsSound, NEW c, NEW I, Tallied(c, I), NEW S \in SUBSET I
  PROVE  Tallied(ProposeAll(c, S), I)
<1> DEFINE d == ProposeAll(c, S)
           e == EntriesAt(c.rs, S, I)
           l == ElectionsAt(c.rs, S, I)
<1>1. PICK up : Sound(c.rs, up)
  BY DEF Tallied
<1>2. /\ d.rs = Proposed(c.rs, S)
      /\ d.entries = c.entries + MapThenSumSet(LAMBDA r : NoOps(r) + Commands(r), At(c.rs, S))
      /\ d.elections = c.elections + MapThenSumSet(Elections, At(c.rs, S))
  BY Zenon DEF ProposeAll, Counted, At
<1>3. I \in SUBSET Ids(c.rs) /\ IsFiniteSet(I)
  BY IdsFinite DEF Tallied, RegionsSound
<1>4. /\ MapThenSumSet(LAMBDA r : NoOps(r) + Commands(r), At(c.rs, S)) = Totals(e)[I]
      /\ MapThenSumSet(Elections, At(c.rs, S)) = Totals(l)[I]
  BY <1>1, <1>3, CountedSums
<1>5. /\ d.entries = c.entries + Totals(e)[I]
      /\ d.elections = c.elections + Totals(l)[I]
  BY <1>2, <1>4, Zenon
<1>6. Further(c.rs, d.rs, I, e, l)
  BY <1>1, <1>2, <1>3, ProposedFurther
<1>7. Sound(d.rs, up) /\ Len(d.rs) >= Len(c.rs)
  <2>1. \E n : Adds(c.rs, d.rs, up, S, n)
    BY <1>1, <1>2, ProposedAdds
  <2>2. QED
    BY <1>1, <2>1, SoundLen DEF Adds
<1> HIDE DEF d, e, l
<1>8. QED
  BY <1>5, <1>6, <1>7, TalliedFurther DEF d

LEMMA ServeTallies ==
  ASSUME RegionsSound, NEW c, NEW I, Tallied(c, I), NEW S \in SUBSET I, NEW policy
  PROVE  Tallied(Counted(c, ServedFrom(c.rs, S, policy), NoOps, S), I)
<1> DEFINE d == Counted(c, ServedFrom(c.rs, S, policy), NoOps, S)
           l == ElectionsAt(c.rs, S, I)
<1>1. PICK up : Sound(c.rs, up)
  BY DEF Tallied
<1>2. /\ d.rs = ServedFrom(c.rs, S, policy)
      /\ d.entries = c.entries + MapThenSumSet(NoOps, At(c.rs, S))
      /\ d.elections = c.elections + MapThenSumSet(Elections, At(c.rs, S))
  BY Zenon DEF Counted, At
<1>3. I \in SUBSET Ids(c.rs) /\ IsFiniteSet(I)
  BY IdsFinite DEF Tallied, RegionsSound
<1>4. /\ MapThenSumSet(NoOps, At(c.rs, S)) = Totals(l)[I]
      /\ MapThenSumSet(Elections, At(c.rs, S)) = Totals(l)[I]
  BY <1>1, <1>3, CountedSums
<1>5. /\ d.entries = c.entries + Totals(l)[I]
      /\ d.elections = c.elections + Totals(l)[I]
  BY <1>2, <1>4, Zenon
<1>6. Further(c.rs, d.rs, I, l, l)
  BY <1>1, <1>2, <1>3, ServedFurther
<1>7. Sound(d.rs, up) /\ Len(d.rs) >= Len(c.rs)
  BY <1>1, <1>2, ServedAdds, SoundLen DEF Adds
<1> HIDE DEF d, l
<1>8. QED
  BY <1>5, <1>6, <1>7, TalliedFurther DEF d

LEMMA SplitTallies ==
  ASSUME RegionsSound, HotRegion \in Ids(regions), Splittable(regions, HotRegion)
  PROVE  Tallied(SplitAt(Untouched, HotRegion), Ids(regions))
<1> DEFINE I == Ids(regions)
           c == Untouched
           d == SplitAt(c, HotRegion)
           hot == {HotRegion}
           e == EntriesAt(regions, hot, I)
           l == ElectionsAt(regions, hot, I)
<1>1. PICK up : Sound(regions, up)
  BY DEF RegionsSound
<1>2. /\ d.rs = Split(regions, HotRegion)
      /\ d.entries = c.entries + MapThenSumSet(LAMBDA r : NoOps(r) + Commands(r), At(regions, hot))
      /\ d.elections = c.elections + MapThenSumSet(Elections, At(regions, hot))
  BY Zenon DEF SplitAt, Counted, At, Untouched
<1>3. I \in SUBSET Ids(regions) /\ hot \in SUBSET I /\ IsFiniteSet(I)
  BY <1>1, IdsFinite
<1>s. Sound(d.rs, up) /\ Len(d.rs) >= Len(c.rs) /\ c.rs = regions
  <2> DEFINE n == IF HasQuorum(up) THEN 1 ELSE 0
  <2>1. Sound(d.rs, up) /\ Len(d.rs) = Len(regions) + n
    BY <1>1, <1>2, SplitAdds, Zenon
  <2>2. Len(regions) \in Nat /\ n \in Nat
    BY <1>1, SoundLen
  <2>3. c.rs = regions
    BY DEF Untouched
  <2> HIDE DEF n, d, c
  <2>4. QED
    BY <2>1, <2>2, <2>3
<1>t. Tallied(c, I)
  BY UntouchedTallied
<1> HIDE DEF c, d, hot
<1>4. /\ MapThenSumSet(LAMBDA r : NoOps(r) + Commands(r), At(regions, hot)) = Totals(e)[I]
      /\ MapThenSumSet(Elections, At(regions, hot)) = Totals(l)[I]
  BY <1>1, <1>3, CountedSums
<1>5. /\ d.entries = c.entries + Totals(e)[I]
      /\ d.elections = c.elections + Totals(l)[I]
  BY <1>2, <1>4, Zenon
<1>6. Further(c.rs, d.rs, I, e, l)
  BY <1>1, <1>2, <1>s, SplitFurther DEF hot
<1> HIDE DEF e, l, I
<1>7. Tallied(d, I)
  BY <1>5, <1>6, <1>s, <1>t, TalliedFurther
<1>8. QED
  BY <1>7 DEF c, d, I

-----------------------------------------------------------------------------
(* The calls, counted.                                                     *)
Counters ==
  [statements : Nat, reads : Nat, writes : Nat, commits : Nat, rollbacks : Nat, conflicts : Nat,
   raftEntries : Nat, leaderElections : Nat, regionSplits : Nat, gcRuns : Nat]

MetricsOK == metrics \in Counters

MatchStep ==
  LET moved(id) == Get(regions', id).commit - Get(regions, id).commit
      terms(id) == Get(regions', id).term - Get(regions, id).term
  IN  /\ metrics'.raftEntries - metrics.raftEntries = MapThenSumSet(moved, RegionIds)
      /\ metrics'.leaderElections - metrics.leaderElections = MapThenSumSet(terms, RegionIds)

LEMMA TalliedCounts ==
  ASSUME RegionsSound, NEW c, NEW I, Tallied(c, I)
  PROVE  /\ c.entries \in Nat /\ c.elections \in Nat
         /\ Len(c.rs) - Len(regions) \in Nat
<1>1. IsFiniteSet(I)
  BY IdsFinite DEF Tallied, RegionsSound
<1>2. c.entries \in Nat /\ c.elections \in Nat
  <2> DEFINE e == Entries(regions, c.rs, I)
             l == Terms(regions, c.rs, I)
  <2>1. e \in [I -> Nat] /\ l \in [I -> Nat] /\ I \in SUBSET I
    BY DEF Tallied
  <2>2. c.entries = Totals(e)[I] /\ c.elections = Totals(l)[I]
    BY DEF Tallied
  <2> HIDE DEF e, l
  <2>3. Totals(e)[I] \in Nat /\ Totals(l)[I] \in Nat
    BY <1>1, <2>1, TotalsNat
  <2>4. QED
    BY <2>2, <2>3
<1>3. Len(c.rs) - Len(regions) \in Nat
  <2>1. Len(c.rs) \in Nat /\ Len(regions) \in Nat /\ Len(c.rs) >= Len(regions)
    BY SoundLen DEF Tallied, RegionsSound
  <2>2. QED
    BY <2>1
<1>4. QED
  BY <1>2, <1>3

LEMMA GainsOfCall ==
  ASSUME NEW I, IsFiniteSet(I), Entries(regions, regions', I) \in [I -> Int],
         Terms(regions, regions', I) \in [I -> Int]
  PROVE  /\ MapThenSumSet(LAMBDA id : Get(regions', id).commit - Get(regions, id).commit, I)
              = Totals(Entries(regions, regions', I))[I]
         /\ MapThenSumSet(LAMBDA id : Get(regions', id).term - Get(regions, id).term, I)
              = Totals(Terms(regions, regions', I))[I]
BY SumOfGains, Zenon

(* A call that adds its counters to the metrics has counted its logs.      *)
LEMMA TalliedMatches ==
  ASSUME RegionsSound, MetricsOK, NEW c, Tallied(c, Ids(regions)), regions' = c.rs,
         metrics'.raftEntries = metrics.raftEntries + c.entries,
         metrics'.leaderElections = metrics.leaderElections + c.elections
  PROVE  MatchStep
<1> DEFINE I == Ids(regions)
           e == Entries(regions, regions', I)
           l == Terms(regions, regions', I)
<1>1. IsFiniteSet(I) /\ RegionIds = I
  BY IdsFinite, IdsOfRegions DEF RegionsSound
<1>2. /\ e \in [I -> Nat] /\ l \in [I -> Nat]
      /\ c.entries = Totals(e)[I] /\ c.elections = Totals(l)[I]
  BY DEF Tallied
<1>3. e \in [I -> Int] /\ l \in [I -> Int]
  <2> HIDE DEF e, l
  <2>1. QED
    BY <1>2
<1> HIDE DEF I
<1>4. /\ MapThenSumSet(LAMBDA id : Get(regions', id).commit - Get(regions, id).commit, I) = Totals(e)[I]
      /\ MapThenSumSet(LAMBDA id : Get(regions', id).term - Get(regions, id).term, I) = Totals(l)[I]
  BY <1>1, <1>3, GainsOfCall
<1>5. /\ metrics'.raftEntries - metrics.raftEntries = Totals(e)[I]
      /\ metrics'.leaderElections - metrics.leaderElections = Totals(l)[I]
  <2>1. metrics.raftEntries \in Nat /\ metrics.leaderElections \in Nat
    BY DEF MetricsOK, Counters
  <2>2. c.entries \in Nat /\ c.elections \in Nat
    BY TalliedCounts
  <2> HIDE DEF e, l
  <2>3. QED
    BY <1>2, <2>1, <2>2
<1> HIDE DEF e, l
<1>6. QED
  BY <1>1, <1>4, <1>5, Zenon DEF MatchStep

LEMMA LocksTallied ==
  ASSUME RegionsSound, NEW w \in Writes
  PROVE  /\ Tallied(Routed(w), Ids(regions)) /\ Tallied(AfterLocks(w), Ids(regions))
         /\ Targets(w) \in SUBSET Ids(regions) /\ {Primary(w)} \in SUBSET Targets(w)
         /\ \A rs : Reached(rs, w.ids) \in SUBSET Ids(regions)
<1>1. /\ w.ids \in IdLists /\ RegionIds = Ids(regions)
      /\ w.split => HotRegion \in Range(w.ids) /\ Splittable(regions, HotRegion)
  BY IdsOfRegions DEF Writes
<1>2. /\ Targets(w) \in SUBSET Ids(regions) /\ {Primary(w)} \in SUBSET Targets(w)
      /\ w.split => HotRegion \in Ids(regions)
  BY <1>1, IdListOK DEF Targets, Primary
<1>3. \A rs : Reached(rs, w.ids) \in SUBSET Ids(regions)
  BY <1>2 DEF Targets, Reached, Range
<1>4. Tallied(Routed(w), Ids(regions))
  <2>1. CASE w.split
    BY <1>1, <1>2, <2>1, SplitTallies DEF Routed
  <2>2. CASE ~w.split
    BY <2>2, UntouchedTallied DEF Routed
  <2>3. QED
    BY <2>1, <2>2
<1>5. Tallied(AfterLocks(w), Ids(regions))
  BY <1>2, <1>4, LeadTallies DEF AfterLocks
<1>6. QED
  BY <1>2, <1>3, <1>4, <1>5

(* Each way a traced write ends has counted what it did.                   *)
LEMMA WriteTallies ==
  ASSUME IInv, RegionsSound, NEW w \in Writes, TraceWrite(w)
  PROVE  \E c, ts, commitTs : \E collects \in BOOLEAN, conflicts \in {0, 1} :
           Tallied(c, Ids(regions)) /\ End(w, c, ts, commitTs, collects, conflicts)
<1> DEFINE I == Ids(regions)
           l == AfterLocks(w)
<1>1. /\ Tallied(Routed(w), I) /\ Tallied(l, I)
      /\ Targets(w) \in SUBSET I /\ {Primary(w)} \in SUBSET I
      /\ \A rs : Reached(rs, w.ids) \in SUBSET I
      /\ \A S : Targets(w) \ S \in SUBSET I
  BY LocksTallied
<1> HIDE DEF I
<1>2. /\ \A c, S : Tallied(c, I) /\ S \in SUBSET I => Tallied(LeadAll(c, S), I)
      /\ \A c, S : Tallied(c, I) /\ S \in SUBSET I => Tallied(ProposeAll(c, S), I)
  BY LeadTallies, ProposeTallies
<1>3. CASE LockFails(w)
  <2> DEFINE c == LeadAll(Routed(w), Reached(Routed(w).rs, w.ids))
  <2>1. End(w, c, OneTs, Unset, FALSE, 0)
    BY <1>3, Zenon DEF LockFails
  <2>2. Tallied(c, I)
    BY <1>1, <1>2
  <2> HIDE DEF c
  <2>3. QED
    BY <2>1, <2>2 DEF I
<1>4. CASE Conflicts(w)
  <2> DEFINE c == LeadAll(l, {Primary(w)})
  <2>1. \E found \in {0, 1} : End(w, c, OneTs, Unset, FALSE, found)
    BY <1>4 DEF Conflicts
  <2>2. Tallied(c, I)
    BY <1>1, <1>2
  <2> HIDE DEF c
  <2>3. QED
    BY <2>1, <2>2 DEF I
<1>5. CASE OnePhase(w)
  <2> DEFINE c == ProposeAll(l, {Primary(w)})
  <2>1. \E commitTs : End(w, c, TwoTs, commitTs, TRUE, 0)
    BY <1>5, Zenon DEF OnePhase
  <2>2. Tallied(c, I)
    BY <1>1, <1>2
  <2> HIDE DEF c
  <2>3. QED
    BY <2>1, <2>2 DEF I
<1>6. CASE PrewriteFails(w)
  <2> DEFINE c == ProposeAll(l, Reached(l.rs, w.ids))
  <2>1. \E ts : End(w, c, ts, Unset, FALSE, 0)
    BY <1>6, Zenon DEF PrewriteFails
  <2>2. Tallied(c, I)
    BY <1>1, <1>2
  <2> HIDE DEF c
  <2>3. QED
    BY <2>1, <2>2 DEF I
<1>7. CASE AsyncCommit(w)
  <2> DEFINE b == ProposeAll(l, Targets(w))
             c == ProposeAll(b, Targets(w))
  <2>1. End(w, c, TwoTs, TwoTs.last + 1, TRUE, 0)
    BY <1>7, Zenon DEF AsyncCommit
  <2>2. Tallied(b, I)
    BY <1>1, <1>2
  <2> HIDE DEF b
  <2>3. Tallied(c, I)
    BY <1>1, <1>2, <2>2
  <2> HIDE DEF c
  <2>4. QED
    BY <2>1, <2>3 DEF I
<1>8. CASE TwoPhase(w)
  <2> DEFINE b == ProposeAll(l, Targets(w))
             d == ProposeAll(b, {Primary(w)})
             c == ProposeAll(d, Targets(w) \ {Primary(w)})
  <2>1. \/ End(w, c, TwoTs, TwoTs.last, TRUE, 0)
        \/ End(w, d, TwoTs, Unset, TRUE, 0)
    BY <1>8, Zenon DEF TwoPhase
  <2>2. Tallied(b, I)
    BY <1>1, <1>2
  <2> HIDE DEF b
  <2>3. Tallied(d, I)
    BY <1>1, <1>2, <2>2
  <2> HIDE DEF d
  <2>4. Tallied(c, I)
    BY <1>1, <1>2, <2>3
  <2> HIDE DEF c
  <2>5. QED
    BY <2>1, <2>3, <2>4 DEF I
<1>9. QED
  BY <1>3, <1>4, <1>5, <1>6, <1>7, <1>8 DEF TraceWrite

LEMMA SweptRan ==
  ASSUME NEW t, NEW life, NEW txns, NEW obsolete
  PROVE  GcAdvanced(t, life, txns, obsolete).ran \in {0, 1}
<1> DEFINE ran(safe) == IF safe > gc.safePoint /\ obsolete > 0 THEN 1 ELSE 0
<1>1. \E safe : GcAdvanced(t, life, txns, obsolete).ran = ran(safe)
  BY Zenon DEF GcAdvanced
<1>2. QED
  BY <1>1

(* A traced write counts itself once, committed or rolled back.            *)
LEMMA EndMatches ==
  ASSUME RegionsSound, MetricsOK, NEW w, NEW c, Tallied(c, Ids(regions)), NEW ts, NEW commitTs,
         NEW collects \in BOOLEAN, NEW conflicts \in {0, 1},
         End(w, c, ts, commitTs, collects, conflicts)
  PROVE  MetricsOK' /\ MatchStep
<1> DEFINE done == IF commitTs # Unset THEN 1 ELSE 0
           lost == IF commitTs # Unset THEN 0 ELSE 1
           more == Len(c.rs) - Len(regions)
<1>1. /\ regions' = c.rs
      /\ \E ran \in {0, 1} :
           metrics' = [metrics EXCEPT
             !.statements = @ + 1, !.writes = @ + 1, !.commits = @ + done,
             !.rollbacks = @ + lost, !.conflicts = @ + conflicts,
             !.raftEntries = @ + c.entries, !.leaderElections = @ + c.elections,
             !.regionSplits = @ + more, !.gcRuns = @ + ran]
  <2>1. regions' = c.rs
    BY Zenon DEF End
  <2>2. \E txns, obsolete :
          metrics' = [metrics EXCEPT
             !.statements = @ + 1, !.writes = @ + 1, !.commits = @ + done,
             !.rollbacks = @ + lost, !.conflicts = @ + conflicts,
             !.raftEntries = @ + c.entries, !.leaderElections = @ + c.elections,
             !.regionSplits = @ + more,
             !.gcRuns = @ + (IF collects THEN GcAdvanced(now, w.life, txns, obsolete)
                                        ELSE [gc |-> gc, ran |-> 0]).ran]
    BY Zenon DEF End
  <2> HIDE DEF done, lost, more
  <2>3. \A txns, obsolete :
          (IF collects THEN GcAdvanced(now, w.life, txns, obsolete)
                       ELSE [gc |-> gc, ran |-> 0]).ran \in {0, 1}
    BY SweptRan
  <2>4. QED
    BY <2>1, <2>2, <2>3
<1>2. /\ c.entries \in Nat /\ c.elections \in Nat /\ more \in Nat
      /\ done \in Nat /\ lost \in Nat /\ conflicts \in Nat
  BY TalliedCounts
<1> HIDE DEF done, lost, more
<1>3. PICK ran \in {0, 1} :
           metrics' = [metrics EXCEPT
             !.statements = @ + 1, !.writes = @ + 1, !.commits = @ + done,
             !.rollbacks = @ + lost, !.conflicts = @ + conflicts,
             !.raftEntries = @ + c.entries, !.leaderElections = @ + c.elections,
             !.regionSplits = @ + more, !.gcRuns = @ + ran]
  BY <1>1
<1>4. MetricsOK'
  <2> DEFINE n1 == metrics.statements + 1
             n2 == metrics.writes + 1
             n3 == metrics.commits + done
             n4 == metrics.rollbacks + lost
             n5 == metrics.conflicts + conflicts
             n6 == metrics.raftEntries + c.entries
             n7 == metrics.leaderElections + c.elections
             n8 == metrics.regionSplits + more
             n9 == metrics.gcRuns + ran
  <2>1. metrics' = [metrics EXCEPT !.statements = n1, !.writes = n2, !.commits = n3,
                                   !.rollbacks = n4, !.conflicts = n5, !.raftEntries = n6,
                                   !.leaderElections = n7, !.regionSplits = n8, !.gcRuns = n9]
    BY <1>3
  <2>2. /\ n1 \in Nat /\ n2 \in Nat /\ n3 \in Nat /\ n4 \in Nat /\ n5 \in Nat
        /\ n6 \in Nat /\ n7 \in Nat /\ n8 \in Nat /\ n9 \in Nat
    BY <1>2 DEF MetricsOK, Counters
  <2> HIDE DEF n1, n2, n3, n4, n5, n6, n7, n8, n9
  <2>3. QED
    BY <2>1, <2>2 DEF MetricsOK, Counters
<1>5. /\ metrics'.raftEntries = metrics.raftEntries + c.entries
      /\ metrics'.leaderElections = metrics.leaderElections + c.elections
  BY <1>3 DEF MetricsOK, Counters
<1>6. QED
  BY <1>1, <1>4, <1>5, TalliedMatches

LEMMA ReadMatches ==
  ASSUME RegionsSound, MetricsOK, NEW ids \in IdLists, NEW path, NEW failover,
         TraceRead(ids, path, failover)
  PROVE  MetricsOK' /\ MatchStep
<1> DEFINE I == Ids(regions)
           rs == IF failover THEN StoreDown(regions, ids[1]) ELSE regions
           c == [Untouched EXCEPT !.rs = rs]
           led == LeadAll(c, Range(ids))
           read == Counted(c, ServedFrom(rs, Range(ids), path), NoOps, Range(ids))
           done == IF path = "mpp" THEN led ELSE read
<1>1. /\ regions' = done.rs
      /\ metrics' = [metrics EXCEPT !.statements = @ + 1, !.reads = @ + 1,
                                    !.raftEntries = @ + done.entries,
                                    !.leaderElections = @ + done.elections]
  BY Zenon DEF TraceRead
<1>2. Range(ids) \in SUBSET I /\ ids[1] \in I
  BY IdListOK, IdsOfRegions
<1>3. Tallied(c, I)
  <2>1. CASE failover
    BY <1>2, <2>1, StoppedTallied
  <2>2. CASE ~failover
    <3>1. c = Untouched
      BY <2>2 DEF Untouched
    <3>2. QED
      BY <3>1, UntouchedTallied
  <2>3. QED
    BY <2>1, <2>2
<1>4. Tallied(led, I)
  <2> HIDE DEF c, rs, I
  <2>1. QED
    BY <1>2, <1>3, LeadTallies
<1>5. Tallied(read, I)
  <2>1. c.rs = rs
    BY DEF Untouched
  <2> DEFINE served == Counted(c, ServedFrom(c.rs, Range(ids), path), NoOps, Range(ids))
  <2>2. served = read
    BY <2>1
  <2> HIDE DEF c, rs, I, read
  <2>3. Tallied(served, I)
    BY <1>2, <1>3, ServeTallies
  <2> HIDE DEF served
  <2>4. QED
    BY <2>2, <2>3
<1> HIDE DEF led, read, c, rs
<1>6. Tallied(done, I)
  BY <1>4, <1>5
<1> HIDE DEF done
<1>7. done.entries \in Nat /\ done.elections \in Nat
  BY <1>6, TalliedCounts
<1>8. MetricsOK'
  <2> DEFINE n1 == metrics.statements + 1
             n2 == metrics.reads + 1
             n3 == metrics.raftEntries + done.entries
             n4 == metrics.leaderElections + done.elections
  <2>1. metrics' = [metrics EXCEPT !.statements = n1, !.reads = n2, !.raftEntries = n3,
                                   !.leaderElections = n4]
    BY <1>1
  <2>2. n1 \in Nat /\ n2 \in Nat /\ n3 \in Nat /\ n4 \in Nat
    BY <1>7 DEF MetricsOK, Counters
  <2> HIDE DEF n1, n2, n3, n4
  <2>3. QED
    BY <2>1, <2>2 DEF MetricsOK, Counters
<1>9. /\ metrics'.raftEntries = metrics.raftEntries + done.entries
      /\ metrics'.leaderElections = metrics.leaderElections + done.elections
  BY <1>1 DEF MetricsOK, Counters
<1>10. QED
  BY <1>1, <1>6, <1>8, <1>9, TalliedMatches

(* A call that touches no Region counts no entry.                          *)
LEMMA UntouchedMatches ==
  ASSUME RegionsSound, MetricsOK, regions' = regions,
         metrics'.raftEntries = metrics.raftEntries,
         metrics'.leaderElections = metrics.leaderElections
  PROVE  MatchStep
<1> DEFINE c == Untouched
<1>1. Tallied(c, Ids(regions))
  BY UntouchedTallied
<1>2. c.rs = regions /\ c.entries = 0 /\ c.elections = 0
  BY DEF Untouched
<1>3. metrics.raftEntries \in Nat /\ metrics.leaderElections \in Nat
  BY DEF MetricsOK, Counters
<1> HIDE DEF c
<1>4. /\ metrics'.raftEntries = metrics.raftEntries + c.entries
      /\ metrics'.leaderElections = metrics.leaderElections + c.elections
  BY <1>2, <1>3
<1>5. QED
  BY <1>1, <1>2, <1>4, TalliedMatches

LEMMA StepMatches ==
  ASSUME RegionsSound, MetricsOK, FixedStep
  PROVE  MetricsOK' /\ MatchStep
<1>1. PICK life \in scope.lifetimes :
        \/ IdleStep(life) \/ BackgroundRead(life)
        \/ \E id \in RegionIds : BackgroundWrite(life, id)
  BY DEF FixedStep
<1>2. \A obsolete : Swept(life, obsolete) \in {0, 1}
  BY SweptRan, Zenon DEF Swept
<1>3. CASE IdleStep(life)
  <2>1. /\ regions' = regions
        /\ metrics' = [metrics EXCEPT !.gcRuns = @ + Swept(life, gc.obsolete)]
    BY <1>3, Zenon DEF IdleStep
  <2>2. MetricsOK' /\ metrics'.raftEntries = metrics.raftEntries
        /\ metrics'.leaderElections = metrics.leaderElections
    BY <1>2, <2>1 DEF MetricsOK, Counters
  <2>3. QED
    BY <2>1, <2>2, UntouchedMatches
<1>4. CASE BackgroundRead(life)
  <2>1. /\ regions' = regions
        /\ metrics' = [metrics EXCEPT !.statements = @ + 1, !.reads = @ + 1,
                                      !.gcRuns = @ + Swept(life, gc.obsolete)]
    BY <1>4, Zenon DEF BackgroundRead
  <2>2. /\ metrics'.raftEntries = metrics.raftEntries
        /\ metrics'.leaderElections = metrics.leaderElections
    BY <2>1 DEF MetricsOK, Counters
  <2>3. MetricsOK'
    <3> DEFINE n1 == metrics.statements + 1
               n2 == metrics.reads + 1
               n3 == metrics.gcRuns + Swept(life, gc.obsolete)
    <3>1. metrics' = [metrics EXCEPT !.statements = n1, !.reads = n2, !.gcRuns = n3]
      BY <2>1
    <3>2. n1 \in Nat /\ n2 \in Nat /\ n3 \in Nat
      BY <1>2 DEF MetricsOK, Counters
    <3> HIDE DEF n1, n2, n3
    <3>3. QED
      BY <3>1, <3>2 DEF MetricsOK, Counters
  <2>4. QED
    BY <2>1, <2>2, <2>3, UntouchedMatches
<1>5. CASE \E id \in RegionIds : BackgroundWrite(life, id)
  <2>1. PICK id \in RegionIds : BackgroundWrite(life, id)
    BY <1>5
  <2> DEFINE c == ProposeAll(Untouched, {id})
             committed == IF LeaderAvailable(Get(regions, id)) THEN 1 ELSE 0
             lost == 1 - committed
             ran == Swept(life, gc.obsolete + committed)
  <2>2. /\ regions' = c.rs
        /\ metrics' = [metrics EXCEPT !.statements = @ + 1, !.writes = @ + 1,
                                      !.commits = @ + committed, !.rollbacks = @ + lost,
                                      !.raftEntries = @ + c.entries,
                                      !.leaderElections = @ + c.elections,
                                      !.gcRuns = @ + ran]
    BY <2>1, Zenon DEF BackgroundWrite
  <2>3. Tallied(c, Ids(regions))
    <3>1. {id} \in SUBSET Ids(regions)
      BY IdsOfRegions
    <3>2. QED
      BY <3>1, UntouchedTallied, ProposeTallies
  <2>4. committed \in Nat /\ lost \in Nat /\ ran \in Nat
    <3>1. ran \in {0, 1}
      BY <1>2
    <3> HIDE DEF ran
    <3>2. QED
      BY <3>1
  <2> HIDE DEF c, committed, lost, ran
  <2>5. c.entries \in Nat /\ c.elections \in Nat
    BY <2>3, TalliedCounts
  <2>6. MetricsOK'
    <3> DEFINE n1 == metrics.statements + 1
               n2 == metrics.writes + 1
               n3 == metrics.commits + committed
               n4 == metrics.rollbacks + lost
               n5 == metrics.raftEntries + c.entries
               n6 == metrics.leaderElections + c.elections
               n7 == metrics.gcRuns + ran
    <3>1. metrics' = [metrics EXCEPT !.statements = n1, !.writes = n2, !.commits = n3,
                                     !.rollbacks = n4, !.raftEntries = n5, !.leaderElections = n6,
                                     !.gcRuns = n7]
      BY <2>2
    <3>2. /\ n1 \in Nat /\ n2 \in Nat /\ n3 \in Nat /\ n4 \in Nat /\ n5 \in Nat
          /\ n6 \in Nat /\ n7 \in Nat
      BY <2>4, <2>5 DEF MetricsOK, Counters
    <3> HIDE DEF n1, n2, n3, n4, n5, n6, n7
    <3>3. QED
      BY <3>1, <3>2 DEF MetricsOK, Counters
  <2>7. /\ metrics'.raftEntries = metrics.raftEntries + c.entries
        /\ metrics'.leaderElections = metrics.leaderElections + c.elections
    BY <2>2 DEF MetricsOK, Counters
  <2>8. QED
    BY <2>2, <2>3, <2>6, <2>7, TalliedMatches
<1>6. QED
  BY <1>1, <1>3, <1>4, <1>5

LEMMA NextMatches ==
  ASSUME IInv, RegionsSound, MetricsOK, [Next]_vars
  PROVE  MetricsOK' /\ [MatchStep]_vars
<1>1. CASE UNCHANGED vars
  BY <1>1 DEF vars, MetricsOK
<1>2. CASE FixedStep
  BY <1>2, StepMatches
<1>3. CASE Request
  <2>1. CASE \E w \in Writes : TraceWrite(w)
    BY <2>1, WriteTallies, EndMatches
  <2>2. CASE \E ids \in IdLists, path \in {"leader", "follower", "mpp"}, failover \in BOOLEAN :
                TraceRead(ids, path, failover)
    BY <2>2, ReadMatches
  <2>3. CASE TraceExplain
    <3>1. regions' = regions /\ metrics' = [metrics EXCEPT !.statements = @ + 1]
      BY <2>3 DEF TraceExplain
    <3>2. MetricsOK' /\ metrics'.raftEntries = metrics.raftEntries
          /\ metrics'.leaderElections = metrics.leaderElections
      BY <3>1 DEF MetricsOK, Counters
    <3>3. QED
      BY <3>1, <3>2, UntouchedMatches
  <2>4. CASE TraceNowhere
    <3>1. regions' = regions /\ metrics' = metrics
      BY <2>4 DEF TraceNowhere
    <3>2. QED
      BY <3>1, UntouchedMatches DEF MetricsOK
  <2>5. QED
    BY <1>3, <2>1, <2>2, <2>3, <2>4 DEF Request
<1>4. QED
  BY <1>1, <1>2, <1>3 DEF Next

LEMMA MetricsBegin == Init => MetricsOK
<1>1. NoMetrics \in Counters
  BY DEF NoMetrics, Counters
<1>2. ASSUME NEW x \in Counters, NEW a \in Nat, NEW b \in Nat, NEW c \in Nat, NEW d \in Nat,
             NEW e \in Nat
      PROVE  /\ [x EXCEPT !.gcRuns = a] \in Counters
             /\ [x EXCEPT !.statements = a, !.reads = b] \in Counters
             /\ [x EXCEPT !.statements = a, !.reads = b, !.raftEntries = c, !.leaderElections = d]
                  \in Counters
             /\ [x EXCEPT !.statements = a, !.writes = b, !.commits = c, !.raftEntries = d]
                  \in Counters
             /\ [x EXCEPT !.statements = a, !.writes = b, !.commits = c, !.rollbacks = d,
                         !.conflicts = e] \in Counters
  <2>1. [x EXCEPT !.gcRuns = a] \in Counters
    BY DEF Counters
  <2>2. [x EXCEPT !.statements = a, !.reads = b] \in Counters
    BY DEF Counters
  <2>3. [x EXCEPT !.statements = a, !.reads = b, !.raftEntries = c, !.leaderElections = d] \in Counters
    BY DEF Counters
  <2>4. [x EXCEPT !.statements = a, !.writes = b, !.commits = c, !.raftEntries = d] \in Counters
    BY DEF Counters
  <2>5. [x EXCEPT !.statements = a, !.writes = b, !.commits = c, !.rollbacks = d, !.conflicts = e]
          \in Counters
    BY DEF Counters
  <2>6. QED
    BY <2>1, <2>2, <2>3, <2>4, <2>5
<1>4. Fresh => metrics \in Counters
  BY <1>1, Zenon DEF Fresh, Begins
<1>5. ASSUME AfterFailover
      PROVE  metrics \in Counters
  <2>1. metrics = [NoMetrics EXCEPT !.statements = 1, !.reads = 1,
                                    !.raftEntries = 1, !.leaderElections = 1]
    BY <1>5, Zenon DEF AfterFailover, Begins
  <2>2. QED
    BY <1>1, <1>2, <2>1
<1>6. ASSUME NEW i, NEW j, AfterCrossRegion(i, j)
      PROVE  metrics \in Counters
  <2>1. metrics = [NoMetrics EXCEPT !.statements = 1, !.writes = 1, !.commits = 1,
                                    !.raftEntries = 4]
    BY <1>6, Zenon DEF AfterCrossRegion, Begins
  <2>2. QED
    BY <1>1, <1>2, <2>1
<1>7. ASSUME NEW i, NEW j, AfterLockDeadlock(i, j)
      PROVE  metrics \in Counters
  <2>1. metrics = [NoMetrics EXCEPT !.statements = 3, !.writes = 3, !.commits = 2,
                                    !.rollbacks = 1, !.conflicts = 1]
    BY <1>7, Zenon DEF AfterLockDeadlock, Begins
  <2>2. QED
    BY <1>1, <1>2, <2>1
<1>8. ASSUME AfterCommitProtocols
      PROVE  metrics \in Counters
  <2>1. metrics = [NoMetrics EXCEPT !.statements = 3, !.writes = 3,
                                    !.commits = 3, !.raftEntries = 9]
    BY <1>8, Zenon DEF AfterCommitProtocols, Begins
  <2>2. QED
    BY <1>1, <1>2, <2>1
<1>9. ASSUME AfterGcSafePoint
      PROVE  metrics \in Counters
  <2>1. metrics = [NoMetrics EXCEPT !.gcRuns = 2]
    BY <1>9, Zenon DEF AfterGcSafePoint, Begins
  <2>2. QED
    BY <1>1, <1>2, <2>1
<1>10. ASSUME AfterTiFlashMpp
      PROVE  metrics \in Counters
  <2>1. metrics = [NoMetrics EXCEPT !.statements = 1, !.reads = 1]
    BY <1>10, Zenon DEF AfterTiFlashMpp, Begins
  <2>2. QED
    BY <1>1, <1>2, <2>1
<1>11. QED
  BY <1>4, <1>5, <1>6, <1>7, <1>8, <1>9, <1>10 DEF Init, MetricsOK

LEMMA MetricsTyped == MetricsOK => metrics \in [DOMAIN NoMetrics -> Nat]
BY DEF MetricsOK, Counters, NoMetrics

LEMMA AlwaysCounted == Spec => []MetricsOK
<1>1. IInv /\ RegionsSound /\ MetricsOK /\ [Next]_vars => MetricsOK'
  BY NextMatches
<1>2. QED
  BY <1>1, MetricsBegin, Invariance, AlwaysSound, PTL DEF Spec

(* The counters the engine shows are the logs': every index a Region       *)
(* commits is counted once and every term it enters is one election, on    *)
(* every exit of a traced write, through a failover and through a split.   *)
THEOREM MetricsCountLogs == Spec => RaftMetricsMatchLogs
<1>1. IInv /\ RegionsSound /\ MetricsOK /\ [Next]_vars => [MatchStep]_vars
  BY NextMatches
<1>2. RaftMetricsMatchLogs <=> [][MatchStep]_vars
  BY PTL DEF RaftMetricsMatchLogs, MatchStep
<1>3. QED
  BY <1>1, <1>2, Invariance, AlwaysSound, AlwaysCounted, PTL DEF Spec

-----------------------------------------------------------------------------
(* What is left to type: the oracle, the recorded transactions, the        *)
(* collector and the receipt of the last call.                             *)
OracleState == [last : Nat, allocations : Nat]
GcState == [safePoint : Nat, blockedByStartTs : Timestamps, obsolete : Nat,
            collected : Nat, backlog : Nat]

Typed ==
  /\ tso \in OracleState
  /\ transactions \in Seq(Transaction)
  /\ gc \in GcState
  /\ calls \in Nat
  /\ lastTrace \in Receipt \cup {Unset}

LEMMA OracleTyped ==
  ASSUME IInv, Typed, NEW n \in Nat, NEW last \in Nat
  PROVE  Allocated(n, last) \in OracleState
<1>1. tso.allocations + n \in Nat
  BY DEF Typed, OracleState
<1>2. QED
  BY <1>1 DEF Allocated, OracleState

(* advanceGc builds the collector anew; its numbers are known already.     *)
LEMMA CollectorTyped ==
  ASSUME NEW t, NEW life, NEW T, NEW obsolete, NEW last, NEW u,
         Behind(GcAdvanced(t, life, T, obsolete).gc, u, last)
  PROVE  GcAdvanced(t, life, T, obsolete).gc \in GcState
<1> DEFINE g == GcAdvanced(t, life, T, obsolete).gc
<1>1. \E s, o, x, y : g = [safePoint |-> s, blockedByStartTs |-> o, obsolete |-> x,
                           collected |-> y, backlog |-> x]
  BY Zenon DEF GcAdvanced
<1>2. /\ g.safePoint \in Nat /\ g.obsolete \in Nat /\ g.collected \in Nat
      /\ g.blockedByStartTs = Unset
  BY DEF Behind
<1> HIDE DEF g
<1>3. g \in GcState
  BY <1>1, <1>2 DEF GcState, Timestamps
<1>4. QED
  BY <1>3 DEF g

(* trimTransactions keeps transactions, and the entry is closed in place.  *)
LEMMA TransactionsTyped ==
  ASSUME NEW T, NEW last, Recorded(T, last), T \in Seq(Transaction), Len(T) <= MaxTransactions,
         NEW b \in Transaction, NEW e \in Transaction
  PROVE  LET kept == Trimmed(Append(T, b))
         IN  [kept EXCEPT ![Len(kept)] = e] \in Seq(Transaction)
<1> DEFINE B == Append(T, b)
           kept == Trimmed(B)
<1>1. /\ B \in Seq(Transaction) /\ Len(B) = Len(T) + 1 /\ Len(T) \in Nat
      /\ \A k \in 1..Len(T) : B[k] = T[k] /\ IsClosed(T[k])
  BY DEF Recorded
<1> HIDE DEF B
<1>2. Trimmed(B) = IF Len(B) <= MaxTransactions THEN B ELSE Tail(B)
  <2>1. \A k \in 1..Len(B) : k < Len(B) => IsClosed(B[k])
    BY <1>1
  <2>2. Len(B) <= MaxTransactions + 1
    BY <1>1, SimulationAssumption
  <2>3. QED
    BY <1>1, <2>1, <2>2, TrimmedOK
<1>3. kept \in Seq(Transaction)
  <2>1. Tail(B) \in Seq(Transaction)
    BY <1>1
  <2>2. QED
    BY <1>1, <1>2, <2>1
<1> HIDE DEF kept
<1>4. [kept EXCEPT ![Len(kept)] = e] \in Seq(Transaction)
  <2>1. PICK n \in Nat : kept \in [1..n -> Transaction]
    BY <1>3, SeqDef
  <2> DEFINE l == Len(kept)
  <2> HIDE DEF l
  <2>2. [kept EXCEPT ![l] = e] \in [1..n -> Transaction]
    BY <2>1
  <2>3. QED
    BY <2>1, <2>2, SeqDef DEF l
<1>5. QED
  BY <1>4 DEF kept, B

LEMMA IdListTyped ==
  ASSUME RegionsSound, NEW ids \in IdLists
  PROVE  ids \in Seq(Nat)
<1>1. RegionIds \subseteq Nat
  <2>1. PICK up : Sound(regions, up)
    BY DEF RegionsSound
  <2>2. \A i \in DOMAIN regions : regions[i] \in Region
    BY <2>1 DEF Sound
  <2>3. QED
    BY <2>2 DEF RegionIds, Region
<1>2. PICK n \in 1..2 : ids \in [1..n -> RegionIds]
  BY DEF IdLists
<1>3. ids \in [1..n -> Nat]
  <2> DEFINE D == 1..n
             R == RegionIds
  <2>1. R \subseteq Nat /\ ids \in [D -> R]
    BY <1>1, <1>2
  <2> HIDE DEF D, R
  <2>2. ids \in [D -> Nat]
    BY <2>1
  <2>3. QED
    BY <2>2 DEF D
<1>4. n \in Nat
  OBVIOUS
<1>5. QED
  BY <1>3, <1>4, SeqDef

(* Every exit of a traced write records a transaction and answers with it. *)
LEMMA WriteKeepsTypes ==
  ASSUME IInv, IInv', RegionsSound, Typed, NEW w \in Writes, TraceWrite(w)
  PROVE  Typed'
<1>1. PICK c, ts, commitTs : \E collects \in BOOLEAN, conflicts \in {0, 1} :
        InTime(ts, commitTs) /\ End(w, c, ts, commitTs, collects, conflicts)
  BY WriteExits
<1>2. PICK collects \in BOOLEAN, conflicts \in {0, 1} :
        InTime(ts, commitTs) /\ End(w, c, ts, commitTs, collects, conflicts)
  BY <1>1
<1> DEFINE begun == [startTs |-> StartTs, commitTs |-> Unset, ids |-> w.ids, phase |-> "active"]
           closed == [begun EXCEPT !.phase = EndPhase(commitTs), !.commitTs = commitTs]
           kept == Trimmed(Append(transactions, begun))
           receipt == [outcome |-> EndPhase(commitTs), startTs |-> StartTs,
                       commitTs |-> commitTs, ids |-> w.ids]
<1>3. /\ tso' = ts /\ transactions' = [kept EXCEPT ![Len(kept)] = closed]
      /\ calls' = calls + 1 /\ lastTrace' = receipt
      /\ \/ gc' = gc
         \/ \E T, obsolete : gc' = GcAdvanced(now, w.life, T, obsolete).gc
  <2>1. /\ tso' = ts /\ transactions' = [kept EXCEPT ![Len(kept)] = closed]
        /\ calls' = calls + 1 /\ lastTrace' = receipt
    BY <1>2, Zenon DEF End
  <2>2. \E T, obsolete : gc' = (IF collects THEN GcAdvanced(now, w.life, T, obsolete)
                                            ELSE [gc |-> gc, ran |-> 0]).gc
    BY <1>2, Zenon DEF End
  <2>3. QED
    BY <2>1, <2>2
<1>4. /\ StartTs \in Nat /\ commitTs \in Timestamps /\ w.ids \in Seq(Nat)
      /\ EndPhase(commitTs) \in {"committed", "rolled_back"}
  <2>1. w.ids \in IdLists
    BY DEF Writes
  <2>2. QED
    BY <1>2, <2>1, StartTsIsFresh, IdListTyped DEF InTime, Timestamps, EndPhase
<1>5. begun \in Transaction /\ closed \in Transaction /\ receipt \in Receipt
  BY <1>4 DEF Transaction, Receipt, Timestamps, Phases, Outcomes
<1> HIDE DEF begun, closed, receipt
<1>6. transactions' \in Seq(Transaction)
  BY <1>3, <1>5, TransactionsTyped DEF IInv, Typed
<1>7. tso' \in OracleState
  <2>1. OneTs \in OracleState /\ TwoTs \in OracleState
    <3>1. StartTs \in Nat /\ NextTs(now, StartTs) \in Nat
      BY <1>4, NextTsType DEF IInv
    <3>2. QED
      BY <3>1, OracleTyped DEF OneTs, TwoTs
  <2>2. QED
    BY <1>2, <1>3, <2>1 DEF InTime
<1>8. gc' \in GcState
  BY <1>3, CollectorTyped DEF IInv, Typed
<1>9. calls' \in Nat
  BY <1>3 DEF Typed
<1>10. QED
  BY <1>3, <1>5, <1>6, <1>7, <1>8, <1>9 DEF Typed

LEMMA ReadKeepsTypes ==
  ASSUME IInv, RegionsSound, Typed, NEW ids \in IdLists, NEW path, NEW failover,
         TraceRead(ids, path, failover)
  PROVE  Typed'
<1>1. /\ tso' = OneTs /\ calls' = calls + 1
      /\ transactions' = transactions /\ gc' = gc
      /\ \E outcome \in {"succeeded", "failed"} : lastTrace' = Answer(outcome, StartTs, ids)
  BY Zenon DEF TraceRead
<1>2. StartTs \in Nat /\ ids \in Seq(Nat)
  BY StartTsIsFresh, IdListTyped
<1>3. tso' \in OracleState
  BY <1>1, <1>2, OracleTyped DEF OneTs
<1>4. lastTrace' \in Receipt
  BY <1>1, <1>2 DEF Answer, Receipt, Timestamps, Outcomes
<1>5. QED
  BY <1>1, <1>3, <1>4 DEF Typed

LEMMA StepKeepsTypes ==
  ASSUME IInv, IInv', Typed, FixedStep
  PROVE  Typed'
<1>1. /\ \E life \in scope.lifetimes, obsolete \in Nat : Step(life, obsolete)
      /\ \/ tso' = tso
         \/ tso' = Allocated(2, NextTs(now + 1, NextTs(now + 1, tso.last)))
      /\ tso'.last \in Nat
  BY StepExits
<1>2. /\ \E T, life, obsolete : gc' = GcAdvanced(now + 1, life, T, obsolete).gc
      /\ transactions' = transactions /\ calls' = calls /\ lastTrace' = lastTrace
  BY <1>1, Zenon DEF Step
<1>3. tso' \in OracleState
  <2>1. now + 1 \in Nat /\ tso.last \in Nat
    BY DEF IInv
  <2>2. NextTs(now + 1, NextTs(now + 1, tso.last)) \in Nat
    BY <2>1, NextTsType
  <2>3. QED
    BY <1>1, <2>2, OracleTyped DEF Typed
<1>4. gc' \in GcState
  BY <1>2, CollectorTyped DEF IInv
<1>5. QED
  BY <1>2, <1>3, <1>4 DEF Typed

LEMMA NextKeepsTypes ==
  ASSUME IInv, RegionsSound, Typed, [Next]_vars
  PROVE  Typed'
<1> USE DEF Request
<1>1. CASE UNCHANGED vars
  BY <1>1 DEF vars, Typed
<1>2. IInv'
  BY NextOK
<1>3. CASE FixedStep
  BY <1>2, <1>3, StepKeepsTypes
<1>4. CASE \E w \in Writes : TraceWrite(w)
  BY <1>2, <1>4, WriteKeepsTypes
<1>5. CASE \E ids \in IdLists, path \in {"leader", "follower", "mpp"}, failover \in BOOLEAN :
             TraceRead(ids, path, failover)
  BY <1>5, ReadKeepsTypes
<1>6. ASSUME NEW outcome \in {"succeeded", "failed"},
             lastTrace' = Answer(outcome, Unset, << >>), calls' = calls + 1,
             UNCHANGED <<tso, transactions, gc>>
      PROVE  Typed'
  <2>1. << >> \in Seq(Nat)
    OBVIOUS
  <2>2. lastTrace' \in Receipt
    BY <1>6, <2>1 DEF Answer, Receipt, Timestamps, Outcomes
  <2>3. QED
    BY <1>6, <2>2 DEF Typed
<1>7. CASE TraceExplain
  BY <1>6, <1>7, Zenon DEF TraceExplain
<1>8. CASE TraceNowhere
  BY <1>6, <1>8, Zenon DEF TraceNowhere
<1>9. QED
  BY <1>1, <1>3, <1>4, <1>5, <1>7, <1>8 DEF Next

LEMMA BeginsTyped ==
  ASSUME NEW rs, NEW last \in Nat, NEW n \in Nat, NEW T \in Seq(Transaction), NEW g \in GcState,
         NEW mpp, NEW counted, Begins(rs, last, n, T, g, mpp, counted),
         Recorded(T, last), Len(T) <= 3
  PROVE  /\ tso \in OracleState /\ transactions \in Seq(Transaction) /\ gc \in GcState
<1>1. tso = [last |-> last, allocations |-> n] /\ transactions = Trimmed(T) /\ gc = g
  BY DEF Begins
<1>2. Trimmed(T) = IF Len(T) <= MaxTransactions THEN T ELSE Tail(T)
  <2>1. \A k \in 1..Len(T) : k < Len(T) => IsClosed(T[k])
    BY DEF Recorded
  <2>2. Len(T) <= MaxTransactions + 1
    BY SimulationAssumption
  <2>3. QED
    BY <2>1, <2>2, TrimmedOK
<1>3. Trimmed(T) \in Seq(Transaction)
  <2>1. Len(T) > MaxTransactions => Tail(T) \in Seq(Transaction)
    BY SimulationAssumption
  <2>2. Len(T) \in Nat /\ MaxTransactions \in Nat
    BY SimulationAssumption
  <2>3. QED
    BY <1>2, <2>1, <2>2
<1>4. QED
  BY <1>1, <1>3 DEF OracleState

LEMMA HistoryTyped ==
  /\ << >> \in Seq(Transaction)
  /\ \A ids \in Seq(Nat) :
       /\ <<Committed(1, 2, ids)>> \in Seq(Transaction)
       /\ <<Committed(1, 3, ids),
            [startTs |-> 2, commitTs |-> Unset, ids |-> ids, phase |-> "rolled_back"],
            Committed(4, 5, ids)>> \in Seq(Transaction)
  /\ \A x, y \in Seq(Nat) :
       <<Committed(2, 5, x), Committed(6, 9, y), Committed(10, 14, y)>> \in Seq(Transaction)
<1>1. ASSUME NEW s \in Nat, NEW t \in Nat, NEW ids \in Seq(Nat)
      PROVE  Committed(s, t, ids) \in Transaction
  BY DEF Committed, Transaction, Timestamps, Phases
<1>2. ASSUME NEW ids \in Seq(Nat)
      PROVE  [startTs |-> 2, commitTs |-> Unset, ids |-> ids, phase |-> "rolled_back"]
               \in Transaction
  BY DEF Transaction, Timestamps, Phases
<1>3. ASSUME NEW a \in Transaction, NEW b \in Transaction, NEW c \in Transaction
      PROVE  << >> \in Seq(Transaction) /\ <<a>> \in Seq(Transaction)
             /\ <<a, b, c>> \in Seq(Transaction)
  OBVIOUS
<1>4. << >> \in Seq(Transaction)
  OBVIOUS
<1>5. ASSUME NEW ids \in Seq(Nat)
      PROVE  /\ <<Committed(1, 2, ids)>> \in Seq(Transaction)
             /\ <<Committed(1, 3, ids),
                  [startTs |-> 2, commitTs |-> Unset, ids |-> ids, phase |-> "rolled_back"],
                  Committed(4, 5, ids)>> \in Seq(Transaction)
  <2> DEFINE a == Committed(1, 2, ids)
             b == Committed(1, 3, ids)
             c == Committed(4, 5, ids)
             v == [startTs |-> 2, commitTs |-> Unset, ids |-> ids, phase |-> "rolled_back"]
  <2>1. a \in Transaction /\ b \in Transaction /\ c \in Transaction /\ v \in Transaction
    BY <1>1, <1>2
  <2> HIDE DEF a, b, c, v
  <2>2. <<a>> \in Seq(Transaction) /\ <<b, v, c>> \in Seq(Transaction)
    BY <1>3, <2>1
  <2>3. QED
    BY <2>2 DEF a, b, c, v
<1>6. ASSUME NEW x \in Seq(Nat), NEW y \in Seq(Nat)
      PROVE  <<Committed(2, 5, x), Committed(6, 9, y), Committed(10, 14, y)>> \in Seq(Transaction)
  <2> DEFINE a == Committed(2, 5, x)
             b == Committed(6, 9, y)
             c == Committed(10, 14, y)
  <2>1. a \in Transaction /\ b \in Transaction /\ c \in Transaction
    BY <1>1
  <2> HIDE DEF a, b, c
  <2>2. <<a, b, c>> \in Seq(Transaction)
    BY <1>3, <2>1
  <2>3. QED
    BY <2>2 DEF a, b, c
<1>7. QED
  BY <1>4, <1>5, <1>6

(* Only the collector's own numbers differ between the starts.             *)
LEMMA CollectorsTyped ==
  /\ NoGc \in GcState
  /\ \A n \in Nat : Obsolete(n) \in GcState
  /\ [NoGc EXCEPT !.safePoint = TickTs - 1, !.collected = 6] \in GcState
<1>1. NoGc \in GcState
  BY DEF NoGc, GcState, Timestamps
<1>2. ASSUME NEW g \in GcState, NEW a \in Nat, NEW b \in Nat
      PROVE  /\ [g EXCEPT !.obsolete = a, !.backlog = b] \in GcState
             /\ [g EXCEPT !.safePoint = a, !.collected = b] \in GcState
  BY DEF GcState
<1>3. TickTs - 1 \in Nat /\ 6 \in Nat
  BY SimulationAssumption
<1>4. QED
  BY <1>1, <1>2, <1>3 DEF Obsolete

LEMMA BeginTyped == Init => Typed
<1> SUFFICES ASSUME Init PROVE Typed
  OBVIOUS
<1> DEFINE Kept == tso \in OracleState /\ transactions \in Seq(Transaction) /\ gc \in GcState
<1>1. TickTs \in Nat /\ TickTs >= 1 /\ Len(<< >>) = 0
  BY SimulationAssumption
<1>2. ASSUME NEW i \in 1..InitialRegions, NEW j \in 1..InitialRegions
      PROVE  <<i - 1, j - 1>> \in Seq(Nat)
  <2>1. i - 1 \in Nat /\ j - 1 \in Nat
    BY SimulationAssumption
  <2>2. QED
    BY <2>1
<1>4. ASSUME Fresh PROVE Kept
  <2> DEFINE T == << >>
  <2>1. Recorded(T, 0) /\ Len(T) <= 3 /\ T \in Seq(Transaction)
    BY <1>1, HistoryOK, HistoryTyped
  <2> HIDE DEF T
  <2>2. \E rs, counted : Begins(rs, 0, 0, T, NoGc, 0, counted)
    BY <1>4, Zenon DEF Fresh, T
  <2>3. QED
    BY <2>1, <2>2, CollectorsTyped, BeginsTyped
<1>5. ASSUME AfterFailover PROVE Kept
  <2> DEFINE T == << >>
  <2>1. Recorded(T, 1) /\ Len(T) <= 3 /\ T \in Seq(Transaction)
    BY <1>1, HistoryOK, HistoryTyped
  <2> HIDE DEF T
  <2>2. \E rs, counted : Begins(rs, 1, 1, T, NoGc, 0, counted)
    BY <1>5, Zenon DEF AfterFailover, T
  <2>3. QED
    BY <2>1, <2>2, CollectorsTyped, BeginsTyped
<1>6. ASSUME \E i, j \in 1..InitialRegions : AfterCrossRegion(i, j) PROVE Kept
  <2>1. PICK i \in 1..InitialRegions, j \in 1..InitialRegions : AfterCrossRegion(i, j)
    BY <1>6
  <2> DEFINE T == <<Committed(1, 2, <<i - 1, j - 1>>)>>
  <2>2. Recorded(T, 2) /\ Len(T) <= 3
    BY HistoryOK
  <2>3. T \in Seq(Transaction)
    BY <1>2, HistoryTyped
  <2> HIDE DEF T
  <2>4. \E rs, counted : Begins(rs, 2, 2, T, Obsolete(2), 0, counted)
    BY <2>1, Zenon DEF AfterCrossRegion, T
  <2>5. QED
    BY <2>2, <2>3, <2>4, CollectorsTyped, BeginsTyped
<1>7. ASSUME \E i, j \in 1..InitialRegions : AfterLockDeadlock(i, j) PROVE Kept
  <2>1. PICK i \in 1..InitialRegions, j \in 1..InitialRegions : AfterLockDeadlock(i, j)
    BY <1>7
  <2> DEFINE ids == <<i - 1, j - 1>>
             T == <<Committed(1, 3, ids),
                    [startTs |-> 2, commitTs |-> Unset, ids |-> ids, phase |-> "rolled_back"],
                    Committed(4, 5, ids)>>
  <2>2. Recorded(T, 5) /\ Len(T) <= 3
    BY HistoryOK
  <2>3. T \in Seq(Transaction)
    BY <1>2, HistoryTyped
  <2> HIDE DEF T
  <2>4. \E rs, counted : Begins(rs, 5, 5, T, NoGc, 0, counted)
    BY <2>1, Zenon DEF AfterLockDeadlock, T
  <2>5. QED
    BY <2>2, <2>3, <2>4, CollectorsTyped, BeginsTyped
<1>8. ASSUME AfterCommitProtocols PROVE Kept
  <2> DEFINE T == <<Committed(2, 5, <<0>>), Committed(6, 9, <<0, 1>>),
                    Committed(10, 14, <<0, 1>>)>>
  <2>1. Recorded(T, 14) /\ Len(T) <= 3
    BY HistoryOK
  <2>2. T \in Seq(Transaction)
    <3>1. <<0>> \in Seq(Nat) /\ <<0, 1>> \in Seq(Nat)
      OBVIOUS
    <3>2. QED
      BY <3>1, HistoryTyped, Zenon
  <2> HIDE DEF T
  <2>3. \E rs, counted : Begins(rs, 14, 7, T, Obsolete(5), 0, counted)
    BY <1>8, Zenon DEF AfterCommitProtocols, T
  <2>4. QED
    BY <2>1, <2>2, <2>3, CollectorsTyped, BeginsTyped
<1>9. ASSUME AfterGcSafePoint PROVE Kept
  <2> DEFINE g == [NoGc EXCEPT !.safePoint = TickTs - 1, !.collected = 6]
             T == << >>
  <2>1. g \in GcState
    BY CollectorsTyped
  <2>2. Recorded(T, TickTs + 2) /\ Len(T) <= 3 /\ T \in Seq(Transaction)
    BY <1>1, HistoryOK, HistoryTyped
  <2> HIDE DEF g, T
  <2>3. \E rs, counted : Begins(rs, TickTs + 2, 0, T, g, 0, counted)
    BY <1>9, Zenon DEF AfterGcSafePoint, g, T
  <2>4. TickTs + 2 \in Nat
    BY <1>1
  <2>5. QED
    BY <2>1, <2>2, <2>3, <2>4, BeginsTyped
<1>10. ASSUME AfterTiFlashMpp PROVE Kept
  <2> DEFINE T == << >>
  <2>1. Recorded(T, 1) /\ Len(T) <= 3 /\ T \in Seq(Transaction)
    BY <1>1, HistoryOK, HistoryTyped
  <2> HIDE DEF T
  <2>2. \E rs, counted : Begins(rs, 1, 1, T, NoGc, 1, counted)
    BY <1>10, Zenon DEF AfterTiFlashMpp, T
  <2>3. QED
    BY <2>1, <2>2, CollectorsTyped, BeginsTyped
<1>11. Kept
  BY <1>4, <1>5, <1>6, <1>7, <1>8, <1>9, <1>10 DEF Init
<1>12. calls \in Nat /\ lastTrace \in Receipt \cup {Unset}
  <2>1. Answer("succeeded", Unset, << >>) \in Receipt
    <3>1. << >> \in Seq(Nat)
      OBVIOUS
    <3>2. QED
      BY <3>1 DEF Answer, Receipt, Timestamps, Outcomes
  <2>2. \/ calls = 0 /\ lastTrace = Unset
        \/ calls = 1 /\ lastTrace = Answer("succeeded", Unset, << >>)
    BY Zenon DEF Init
  <2>3. QED
    BY <2>1, <2>2
<1>13. QED
  BY <1>11, <1>12 DEF Typed

LEMMA AlwaysTyped == Spec => []Typed
<1>1. IInv /\ RegionsSound /\ Typed /\ [Next]_vars => Typed'
  BY NextKeepsTypes
<1>2. QED
  BY <1>1, BeginTyped, Invariance, AlwaysSound, PTL DEF Spec

(* Between any two calls the engine is well-formed and nothing is left     *)
(* open: every Region, timestamp, queued batch, counter and receipt is of  *)
(* its type, every transaction closed, and the history within its bound.   *)
THEOREM EngineStaysValid == Spec => []EngineValid
<1>1. IInv /\ RegionsSound /\ ReplicaInv /\ MetricsOK /\ Typed => TypeOK
  <2> SUFFICES ASSUME IInv, RegionsSound, ReplicaInv, MetricsOK, Typed
               PROVE  TypeOK
    OBVIOUS
  <2>1. regions \in Seq(Region)
    BY DEF RegionsSound, Sound
  <2>2. /\ tiflash \in [resolvedTs : Nat, targetTs : Nat, pending : Nat, lag : Nat, mppQueries : Nat]
        /\ queue \in Seq([readyAt : Nat, ts : Nat, versions : Nat])
    BY DEF ReplicaInv, Queued, Entry
  <2>3. now \in Nat /\ metrics \in [DOMAIN NoMetrics -> Nat]
    BY MetricsTyped DEF IInv
  <2>4. QED
    BY <2>1, <2>2, <2>3 DEF TypeOK, Typed, OracleState, GcState
<1>2. QED
  BY <1>1, Invariance, AlwaysSound, AlwaysQueued, AlwaysCounted, AlwaysTyped,
     CallsCloseTransactions, PTL DEF EngineValid
=============================================================================

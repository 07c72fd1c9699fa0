---------------------------- MODULE RegionLookup ----------------------------
(***************************************************************************)
(* regionForKey of src/tidb/model/topology.ts: a bisection of the Region   *)
(* array for the Region that holds a key, probe by probe.  Background work *)
(* looks one key up per statement; between two lookups the hot Region may  *)
(* split.  By KeyspacePartition of RegionRaft a Region ends where the next *)
(* one starts, so the start keys are all there is to the array.            *)
(***************************************************************************)
EXTENDS Integers, Sequences

CONSTANTS InitialRegions,  \* 36 in the code
          RegionWidth,     \* keys per initial Region: 1 000 000 in the code
          HotRegion,       \* the one Region traceWrite splits: 35 in the code
          MaxRegions       \* bound: splits stop at this many Regions

ASSUME RegionLookupAssumption ==
  /\ InitialRegions \in Nat \ {0}
  /\ RegionWidth \in Nat \ {0}
  /\ HotRegion \in 0..(InitialRegions - 1)
  /\ MaxRegions \in Nat

VARIABLES starts,      \* the Regions' start keys, in array order
          key,         \* the key of the last lookup
          low, high,   \* the positions still in question
          searching,   \* a lookup is under way
          region       \* the position it returned, 0 for none

lookup == <<starts, key, low, high, searching, region>>

KeyspaceEnd == InitialRegions * RegionWidth
Keys == 0..(KeyspaceEnd - 1)

StartKey(i) == starts[i]
EndKey(i) == IF i < Len(starts) THEN starts[i + 1] ELSE KeyspaceEnd

(* Mutant: the end key counts as part of the Region.                       *)
PastEnd(i) == key > EndKey(i)
Above(i) == key >= EndKey(i)
Below(i) == key < StartKey(i)

-----------------------------------------------------------------------------
LookupInit ==
  /\ starts = [i \in 1..InitialRegions |-> (i - 1) * RegionWidth]
  /\ key = 0 /\ low = 1 /\ high = 0
  /\ searching = FALSE /\ region = 0

(* splitRegion: the lower half becomes a Region of its own before the hot  *)
(* one, which keeps the upper half and so its distance from the end.       *)
HotPosition == Len(starts) - (InitialRegions - 1 - HotRegion)
Midpoint(i) == (StartKey(i) + EndKey(i)) \div 2

Spliced(h) ==
  [i \in 1..(Len(starts) + 1) |->
     IF i <= h THEN starts[i] ELSE IF i = h + 1 THEN Midpoint(h) ELSE starts[i - 1]]

Split ==
  /\ ~searching /\ Len(starts) < MaxRegions
  /\ Midpoint(HotPosition) > StartKey(HotPosition)
  /\ starts' = Spliced(HotPosition)
  /\ region' = 0
  /\ UNCHANGED <<key, low, high, searching>>

LookUp(k) ==
  /\ ~searching
  /\ searching' = TRUE /\ key' = k
  /\ low' = 1 /\ high' = Len(starts) /\ region' = 0
  /\ UNCHANGED starts

Middle == (low + high) \div 2

GoLeft ==
  /\ searching /\ low <= high
  /\ Below(Middle)
  /\ high' = Middle - 1
  /\ UNCHANGED <<starts, key, low, searching, region>>

GoRight ==
  /\ searching /\ low <= high
  /\ ~Below(Middle) /\ Above(Middle)
  /\ low' = Middle + 1
  /\ UNCHANGED <<starts, key, high, searching, region>>

\* When no position is left the code returns the first or the last Region.
Fallback == IF key < StartKey(1) THEN 1 ELSE Len(starts)

Return ==
  /\ searching
  /\ low > high \/ (~Below(Middle) /\ ~Above(Middle))
  /\ region' = IF low > high THEN Fallback ELSE Middle
  /\ searching' = FALSE
  /\ UNCHANGED <<starts, key, low, high>>

LookupNext == Split \/ (\E k \in Keys : LookUp(k)) \/ GoLeft \/ GoRight \/ Return

LookupSpec == LookupInit /\ [][LookupNext]_lookup
-----------------------------------------------------------------------------
(* The array a lookup works on: start keys that grow from 0.               *)
Sorted ==
  /\ starts \in Seq(Keys) /\ Len(starts) >= InitialRegions
  /\ starts[1] = 0
  /\ \A i, j \in 1..Len(starts) : i < j => starts[i] < starts[j]

Covers(i) == StartKey(i) <= key /\ key < EndKey(i)

LookupTypeOK ==
  /\ Sorted
  /\ key \in Keys /\ low \in 1..(Len(starts) + 1) /\ high \in 0..Len(starts)
  /\ searching \in BOOLEAN /\ region \in 0..Len(starts)

(* However often the hot Region has split, a lookup returns the Region     *)
(* that holds the key: it never rules that Region out, so it never runs    *)
(* out of positions and never takes the fallback of the code's last line,  *)
(* which would quietly charge the work to the first or the last Region.    *)
LookupIsExact ==
  /\ searching => low <= high
  /\ region # 0 => Covers(region)
=============================================================================

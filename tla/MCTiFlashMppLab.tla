-------------------------- MODULE MCTiFlashMppLab --------------------------
(* The fixture: two stores, Regions 24 and 26 on the first and 25 on the   *)
(* second.  Only the learner of Region 24 has a safe timestamp level with  *)
(* its leader's, so a snapshot is below, between or above the two.         *)
EXTENDS TiFlashMppLab

MCRegionsOf == [s \in Stores |-> IF s = "tiflash-1" THEN {24, 26} ELSE {25}]
MCLeaders == [r \in Regions |-> [leader |-> 3, self |-> IF r = 24 THEN 3 ELSE 1]]
MCCommits == [r \in Regions |-> IF r = 26 THEN 1 ELSE 0]
=============================================================================

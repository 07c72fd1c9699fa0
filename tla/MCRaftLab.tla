----------------------------- MODULE MCRaftLab -----------------------------
(* RaftLab on three stores whose logs are caught up, behind, longer with   *)
(* uncommitted entries, shorter with a newer term, or of a later term.     *)
EXTENDS RaftLab

Log(i, ts, c, a, now) ==
  [lastIndex |-> i, lastTerm |-> ts, commit |-> c, applied |-> a, term |-> now]

MCStores == 1..3
MCDefinitions ==
  {Log(2, 1, 2, 1, 1), Log(0, 0, 0, 0, 1), Log(1, 1, 1, 1, 1), Log(3, 1, 1, 1, 1), Log(2, 2, 1, 1, 2),
   Log(2, 1, 1, 1, 3)}
=============================================================================

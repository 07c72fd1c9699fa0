---------------------------- MODULE MCSimulation ----------------------------
(* Simulation on two Regions of two keys, the second one hot.              *)
EXTENDS Simulation

(* The clock, the lag and the GC lifetime move between two requests.       *)
Moving ==
  [starts |-> {"reset", "lock-deadlock", "commit-protocols", "gc-safe-point", "tiflash-mpp"},
   modes |-> {"optimistic"}, requested |-> {"auto", "2pc"},
   lags |-> {0, 2}, lifetimes |-> {1, 2}, busy |-> {2},
   ticks |-> 3, calls |-> 2, regions |-> 2]

(* Stores are down or a Region has split when the requests come.           *)
Degraded ==
  [starts |-> {"tikv-failover", "cross-region-transaction"},
   modes |-> {"optimistic", "pessimistic"}, requested |-> {"auto", "1pc", "2pc"},
   lags |-> {}, lifetimes |-> {1}, busy |-> {1},
   ticks |-> 1, calls |-> 3, regions |-> 3]

MCScopes == {Moving, Degraded}
=============================================================================

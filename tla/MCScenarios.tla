----------------------------- MODULE MCScenarios -----------------------------
EXTENDS LabViews

MCReadings ==
  [s \in {"tikv-failover", "tiflash-mpp"} |-> {"built", "model clock", "teaching clock"}]
  @@ [s \in {"commit-protocols", "gc-safe-point"} |->
        {"built", "fenced", "model clock", "teaching clock"}]
  @@ ("lock-deadlock" :> {"built", "teaching clock"})
  @@ ("cross-region-transaction" :> {"built", "causal", "teaching clock"})

MCHops == {<<60>>, <<293, 60, 0>>}
=============================================================================

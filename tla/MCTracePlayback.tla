--------------------------- MODULE MCTracePlayback ---------------------------
EXTENDS TracePlayback

Event(at, dur, hop, status, deps) ==
  [at |-> at, dur |-> dur, hop |-> hop, status |-> status, deps |-> deps]

\* One failed event: the longer hold.
FailedCall == <<Event(0, 8, 60, "failed", {})>>

\* The overlap of trace-flows.test.ts:116: two writes, 20 ms apart.
Overlap == <<Event(0, 100, 200, "success", {}), Event(20, 100, 200, "success", {})>>

\* Two branches of one parent whose routes differ in length, and their join.
Branches ==
  <<Event(0, 10, 100, "success", {}),
    Event(10, 20, 200, "success", {1}), Event(10, 20, 230, "success", {1}),
    Event(30, 10, 80, "success", {2}), Event(30, 10, 80, "success", {3}),
    Event(40, 10, 60, "success", {4, 5})>>

\* The start of the failover scenario (simulation.ts:2662-2841): the transport
\* error and its backoff beside the election timeout of a surviving store.
Failover ==
  <<Event(0, 12, 0, "failed", {}), Event(12, 12, 293, "warning", {1}),
    Event(24, 80, 0, "warning", {2}), Event(12, 130, 0, "warning", {1}),
    Event(142, 12, 0, "success", {4})>>

\* The receipts whose steps the tests of trace-flows.ts are about.
SteppedReceipts == {Overlap, Branches}

Shapes == {FailedCall, Overlap, Branches, Failover}

(***************************************************************************)
(* Every receipt of three events that the builder can add with explicit    *)
(* dependencies: an event starts when its dependencies, and the event it   *)
(* is fenced behind, have ended.                                           *)
(***************************************************************************)
EndsBy(r, s) == Max({0} \cup {ModelEnd(r[i]) : i \in s})

Extensions(r) ==
  {Append(r, Event(EndsBy(r, deps \cup fence), dur, hop, "success", deps)) :
     deps \in SUBSET DOMAIN r,
     fence \in {{}} \cup {{i} : i \in DOMAIN r},
     dur \in {8, 100}, hop \in {60, 200}}

BuiltFrom(rs) == UNION {Extensions(r) : r \in rs}
Built == BuiltFrom(BuiltFrom(BuiltFrom({<<>>})))

All == Shapes \cup Built
=============================================================================

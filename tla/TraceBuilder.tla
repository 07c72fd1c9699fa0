----------------------------- MODULE TraceBuilder -----------------------------
(***************************************************************************)
(* class TraceBuilder of src/tidb/model/simulation.ts: the events of a     *)
(* receipt, in the order they are added.  An event names the earlier       *)
(* events it depends on, at most one event it is only fenced behind        *)
(* (presentationAfter), and the deltas its snapshot has absorbed; add      *)
(* derives its model start from the ends of all of them.                   *)
(*                                                                         *)
(* An event is named by what it is and, where a scenario has one per       *)
(* Region, store or tunnel, by a number (0 elsewhere).                     *)
(***************************************************************************)
EXTENDS TraceSchedule

CONSTANT None   \* JavaScript's null

Networked == 0   \* stands for a duration that is left to the network latency

Event(name, number, deltas) ==
  [id |-> <<name, number>>, deps |-> {}, after |-> {}, dur |-> Networked,
   status |-> "success", deltas |-> deltas]

Plain(name) == Event(name, 0, <<>>)
Step1(name, delta) == Event(name, 0, <<delta>>)

Warning(e) == [e EXCEPT !.status = "warning"]
Failed(e) == [e EXCEPT !.status = "failed"]
Lasting(ms, e) == [e EXCEPT !.dur = ms]
Fenced(fence, e) == [e EXCEPT !.after = fence]
Joining(parents, e) == [e EXCEPT !.deps = parents]

\* Each event depends on the one before it, the first on parents.
Chain(parents, es) ==
  [i \in DOMAIN es |-> [es[i] EXCEPT !.deps = IF i = 1 THEN parents ELSE {es[i - 1].id}]]

\* All events depend on parents; only the fence keeps them in order.
Fan(parents, es) ==
  [i \in DOMAIN es |-> [es[i] EXCEPT !.deps = parents,
                                     !.after = IF i = 1 THEN {} ELSE {es[i - 1].id}]]

-----------------------------------------------------------------------------
Named(es, ids) == {i \in DOMAIN es : es[i].id \in ids}

\* add throws on a dependency or a fence that is not in the receipt yet.
WellBuilt(es) ==
  \A i \in DOMAIN es :
    /\ es[i].deps \cup es[i].after \subseteq {es[j].id : j \in 1..(i - 1)}
    /\ Cardinality(Named(es, {es[i].id})) = 1

DurationOf(e, latency) == IF e.dur = Networked THEN Max({8, latency}) ELSE e.dur

\* The start of each event.  Mutant: fences are not waited for.
StartsUnfenced(es, latency) ==
  LET first[n \in 0..Len(es)] ==
        IF n = 0 THEN <<>>
        ELSE LET before == first[n - 1]
             IN  Append(before, Max({0} \cup
                   {before[j] + DurationOf(es[j], latency) : j \in Named(es, es[n].deps)}))
  IN  first[Len(es)]

StartTimes(es, latency) ==
  LET first[n \in 0..Len(es)] ==
        IF n = 0 THEN <<>>
        ELSE LET before == first[n - 1]
             IN  Append(before, Max({0} \cup
                   {before[j] + DurationOf(es[j], latency) :
                      j \in Named(es, es[n].deps \cup es[n].after)}))
  IN  first[Len(es)]

\* The receipt as TraceSchedule reads it, with each event's fence and deltas.
Receipt(es, latency, hop) ==
  LET at == StartTimes(es, latency)
      Built(i) == [at |-> at[i], dur |-> DurationOf(es[i], latency), hop |-> hop[(i % Len(hop)) + 1],
                   status |-> es[i].status, deps |-> Named(es, es[i].deps),
                   after |-> Named(es, es[i].after), id |-> es[i].id, deltas |-> es[i].deltas]
  IN  Evaluated([i \in DOMAIN es |-> Built(i)])
=============================================================================

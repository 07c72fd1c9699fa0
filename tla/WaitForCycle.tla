---------------------------- MODULE WaitForCycle ----------------------------
(***************************************************************************)
(* The deadlock detector of src/tidb/model/lock-lab.ts: edges are          *)
(* registered and removed one at a time, and detectWaitForCycle searches   *)
(* the graph for a cycle through the edge just registered.  Transaction    *)
(* ids are numbers in their lexical order.                                 *)
(***************************************************************************)
EXTENDS Integers, Sequences, FiniteSets, FiniteSetsExt

CONSTANTS Waiters   \* transaction ids, numbers in lexical order

ASSUME DetectorAssumption == Waiters \subseteq Int /\ IsFiniteSet(Waiters)

VARIABLES edges,    \* registered waiter -> holder pairs
          found,    \* what detectWaitForCycle returned for the last edge
          reported  \* a cycle was reported since the graph last had none

detector == <<edges, found, reported>>

Edges == {e \in Waiters \X Waiters : e[1] # e[2]}
NoCycle == << >>

-----------------------------------------------------------------------------
Neighbours(g, t) == {h \in Waiters : <<t, h>> \in g}

(***************************************************************************)
(* The depth-first search.  Its outcome is the path found and the visited  *)
(* set, which the closure shares between branches.  try maps a call, the   *)
(* neighbours that are left and what was visited before, to its outcome.   *)
(***************************************************************************)
Calls == [todo : SUBSET Waiters, visited : SUBSET Waiters]

Call(todo, visited) == [todo |-> todo, visited |-> visited]

NoPath(visited) == [path |-> NoCycle, visited |-> visited]

(* visit(t).                                                               *)
Visit(g, target, try, t, visited) ==
  IF t = target THEN [path |-> <<t>>, visited |-> visited]
  ELSE IF t \in visited THEN NoPath(visited)
  ELSE LET rest == try[Call(Neighbours(g, t), visited \cup {t})]
       IN  IF rest.path = NoCycle THEN rest
           ELSE [rest EXCEPT !.path = <<t>> \o @]

(* Mutant: a neighbour that leads nowhere ends the search.                 *)
VisitFirst(g, target, try, call) ==
  IF call.todo = {} THEN NoPath(call.visited)
  ELSE Visit(g, target, try, Min(call.todo), call.visited)

(* The loop over the neighbours, in the order of their ids.                *)
VisitAny(g, target, try, call) ==
  IF call.todo = {} THEN NoPath(call.visited)
  ELSE LET t == Min(call.todo)
           first == Visit(g, target, try, t, call.visited)
       IN  IF first.path # NoCycle THEN first
           ELSE try[Call(call.todo \ {t}, first.visited)]

Search(g, target) ==
  LET try[call \in Calls] == VisitAny(g, target, try, call) IN try

DetectWaitForCycle(g, closing) ==
  LET path == Visit(g, closing[1], Search(g, closing[1]), closing[2], {}).path
  IN  IF path = NoCycle THEN NoCycle ELSE <<closing[1]>> \o path

-----------------------------------------------------------------------------
(* Every non-empty set of transactions has one that waits for none of them. *)
Acyclic(g) ==
  \A S \in (SUBSET Waiters) \ {{}} : \E t \in S : \A h \in S : <<t, h>> \notin g

DetectorInit == edges = {} /\ found = NoCycle /\ reported = FALSE

Register(e) ==
  /\ e \notin edges
  /\ edges' = edges \cup {e}
  /\ found' = DetectWaitForCycle(edges', e)
  /\ reported' = (reported \/ found' # NoCycle)

Unregister(e) ==
  /\ edges' = edges \ {e}
  /\ found' = NoCycle
  /\ reported' = (reported /\ ~Acyclic(edges'))

DetectorNext == (\E e \in Edges : Register(e)) \/ (\E e \in edges : Unregister(e))

DetectorSpec == DetectorInit /\ [][DetectorNext]_detector
-----------------------------------------------------------------------------
(* A reported sequence is a cycle of registered edges: it starts and ends  *)
(* with the waiter that closed it, which becomes the victim, and visits no *)
(* transaction twice.                                                      *)
CycleIsReal ==
  found # NoCycle =>
    /\ Len(found) >= 3
    /\ found[1] = found[Len(found)]
    /\ \A k \in 1..(Len(found) - 1) : <<found[k], found[k + 1]>> \in edges
    /\ \A j, k \in 1..(Len(found) - 1) : found[j] = found[k] => j = k

(* No deadlock goes unseen: although each search only looks through the    *)
(* newest edge and stops at its first path, a graph with a cycle in it has *)
(* had one reported since it last was free of cycles.                      *)
NoDeadlockUnseen == Acyclic(edges) \/ reported

(* detectWaitForCycle reports a deadlock when there is one and only then.  *)
DetectorIsExact == CycleIsReal /\ NoDeadlockUnseen
=============================================================================

------------------------------ MODULE MCGcLab ------------------------------
EXTENDS GcLab, TLC

CONSTANTS s1, s2, s3

(* Chain a takes every shape of puts, deletes and locks; chain b is the    *)
(* one the gc-safe-point scenario deletes and writes again.                *)
MCFixtures ==
  LET at(types, times) == [i \in DOMAIN types |-> [ts |-> times[i], type |-> types[i]]]
      b == at(<<"put", "delete", "put">>, <<1, 3, 6>>)
      lock == [l1 |-> [region |-> 8, startTs |-> 2, primary |-> "committed"],
               l2 |-> [region |-> 20, startTs |-> 4, primary |-> "rolled_back"]]
      Build(types) ==
        [chains |-> [a |-> at(types, <<2, 3, 4, 5>>), b |-> b], region |-> [a |-> 8, b |-> 8],
         lock |-> lock, dropTs |-> [r1 |-> 3], initial |-> 1, blockerTs |-> 4]
  IN  {Build(types) : types \in [1..4 -> {"put", "delete", "lock"}]}

Interchangeable == Permutations({s1, s2, s3})
=============================================================================

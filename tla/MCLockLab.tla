----------------------------- MODULE MCLockLab -----------------------------
(* LockLab on two resources.  Transactions are interchangeable names.      *)
EXTENDS LockLab, TLC

Interchangeable == Permutations(Transactions) \cup Permutations(Resources)
=============================================================================

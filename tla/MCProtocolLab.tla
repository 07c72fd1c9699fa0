--------------------------- MODULE MCProtocolLab ---------------------------
(* ProtocolLab; the voters of a Region are interchangeable.                *)
EXTENDS ProtocolLab, TLC

Interchangeable == Permutations(Voters)
=============================================================================

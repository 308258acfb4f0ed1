----------------------------- MODULE MCTransport -----------------------------
(* Instances of Transport for TLC.                                         *)
EXTENDS Transport, TLC

\* Callers and hosts are interchangeable in the safety properties.
Symmetry == Permutations(Callers) \cup Permutations(Hosts)
=============================================================================

---------------------------- MODULE MCCacheSync ----------------------------
(* An instance of CacheSync for TLC: the energy counter and the unit of    *)
(* etc/specs/power_dist_board.yaml in one group, unit first, with a second *)
(* metric on the counter's EPC.                                            *)
EXTENDS CacheSync

CONSTANTS counter, unit, g1

OneGroup == [g \in {g1} |-> <<unit, counter, counter>>]
Multiplied == [e \in EPCs |-> IF e = counter THEN unit ELSE Nil]
=============================================================================

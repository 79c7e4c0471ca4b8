-------------------------- MODULE MCMetadataFetch --------------------------
(* Small instances of MetadataFetch: ledgers with none, one and two         *)
(* transactions, one of which is required.                                  *)
EXTENDS MetadataFetch

MCTxOf == [l \in Ledgers |-> CASE l = 1 -> {0, 1} [] l = 2 -> {0} [] OTHER -> {}]
MCRequired == [l \in Ledgers |-> IF l = 1 THEN {1} ELSE {}]
=============================================================================

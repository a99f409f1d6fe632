---------------------------- MODULE MCConsensus ----------------------------
(***************************************************************************)
(* The transactions and validators of MCState with a producer: alone with  *)
(* all keys, or next to peers that hold the same keys and import blocks.   *)
(***************************************************************************)
EXTENDS Consensus, MCState
=============================================================================

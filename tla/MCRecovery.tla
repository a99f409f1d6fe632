----------------------------- MODULE MCRecovery -----------------------------
(***************************************************************************)
(* Two rival blocks and one that creates a contract; a snapshot is due     *)
(* after every block but the first.                                        *)
(***************************************************************************)
EXTENDS Recovery

CONSTANT c1

mcBlocks == {[id |-> 1, creates |-> NoContract], [id |-> 2, creates |-> NoContract],
             [id |-> 3, creates |-> c1]}
=============================================================================

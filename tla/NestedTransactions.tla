------------------------ MODULE NestedTransactions ------------------------
(***************************************************************************)
(* What nested calls promise, whatever the world is: a call works on the   *)
(* world of its caller.  If it succeeds its changes stay; if it fails, it  *)
(* leaves the world as it was when the call began, and then its caller     *)
(* goes on or fails too.  Nothing changes outside a call.                  *)
(***************************************************************************)
EXTENDS Naturals, Sequences

VARIABLES world,
          saved,        \* the world at the start of every open call
          failing       \* the innermost open call is failing

Begin == ~failing /\ saved' = Append(saved, world) /\ failing' \in BOOLEAN /\ UNCHANGED world
Write == saved # <<>> /\ UNCHANGED <<saved, failing>>
Fail == saved # <<>> /\ ~failing /\ failing' = TRUE /\ UNCHANGED <<world, saved>>
End == saved # <<>> /\ saved' = SubSeq(saved, 1, Len(saved) - 1)
Commit == ~failing /\ End /\ UNCHANGED <<world, failing>>
Abort ==
    /\ failing /\ End
    /\ world' = saved[Len(saved)]
    /\ failing' \in IF Len(saved) = 1 THEN {FALSE} ELSE BOOLEAN

Init == saved = <<>> /\ failing = FALSE
Next == Begin \/ Write \/ Fail \/ Commit \/ Abort
Spec == Init /\ [][Next]_<<world, saved, failing>>
=============================================================================

------------------------- MODULE MCExecutionContext -------------------------
(***************************************************************************)
(* Instances of ExecutionContext: a user, the ContractManager, an EVM      *)
(* contract e, a C++ contract c and addresses x, y, z, w and s that        *)
(* creations derive.  The contracts have nonce 1, as creation leaves it.   *)
(***************************************************************************)
EXTENDS ExecutionContext

CONSTANTS e, c, x, y, z, w, s

MCCells ==
    [k \in Cells |->
        CASE k = EvmCode -> 1
          [] k[1] = "balance" -> IF k[2] \in {User, e, c} THEN 1 ELSE 0
          [] k[1] = "nonce" -> IF k[2] \in {e, c} THEN 1 ELSE 0
          [] k[1] = "code" -> IF k[2] = e THEN 1 ELSE 0
          [] k[1] = "type" -> (CASE k[2] = e -> EVM [] k[2] \in {c, Manager} -> CPP [] OTHER -> NOT_A_CONTRACT)
          [] k[1] = "contract" -> IF k[2] \in {c, Manager} THEN 1 ELSE Absent
          [] OTHER -> Absent]
(* No code of this hash is known yet.                                      *)
MCNewCode == [MCCells EXCEPT ![EvmCode] = Absent]
(* e has created the C++ contract x in an earlier transaction.             *)
MCTaken == [MCCells EXCEPT ![Cell("nonce", x)] = 1, ![Cell("type", x)] = CPP, ![Cell("contract", x)] = 1]

(* Distinct creators derive distinct addresses, one each.                  *)
First(from) == InitCells[Cell("nonce", from)]
MCDerive(from, nonce) ==
    CASE from = e /\ nonce = First(e) -> x
      [] from = c /\ nonce = First(c) -> y
      [] from = User /\ nonce = First(User) -> z
      [] from = z /\ nonce = 0 -> w
      [] OTHER -> NoAddr
MCNoSalt(from) == NoAddr
MCSalted(from) == IF from = e THEN s ELSE NoAddr
MCAccounts == {User, Manager, e, c}
MCTakenAccounts == MCAccounts \cup {x}

(* A simulation differs from an execution only in how the host ends: its   *)
(* code takes one step less.                                               *)
mcNext == Next /\ (simulate => steps' < MaxSteps)
mcSpec == Init /\ [][mcNext]_vars
=============================================================================

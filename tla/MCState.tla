------------------------------ MODULE MCState ------------------------------
(***************************************************************************)
(* A node that follows the chain of three validators held by other nodes.  *)
(* Alice has 7 coins and two rival transactions of nonce 0 and two of      *)
(* nonce 1; Bob's account exists only once a transaction has paid it.      *)
(***************************************************************************)
EXTENDS State, FiniteSetsExt, TLC

CONSTANTS alice, bob, v1, v2, v3, s1, s2

mcAddr == {alice, bob}
mcTx(from, to, n, value, gas, used, ok) ==
    [from |-> from, to |-> to, nonce |-> n, value |-> value, gas |-> gas, used |-> used,
     ok |-> ok, fee |-> gas]
pay0 == mcTx(alice, bob, 0, 4, 2, 1, TRUE)
fail0 == mcTx(alice, bob, 0, 5, 1, 1, FALSE)
more1 == mcTx(alice, bob, 1, 2, 1, 1, TRUE)
self1 == mcTx(alice, alice, 1, 1, 1, 1, TRUE)
back0 == mcTx(bob, alice, 0, 1, 1, 0, TRUE)
mcTxs == {pay0, fail0, more1, self1, back0}
mcGenesisBalance == [a \in {alice} |-> 7]
mcGenesis == [prev |-> [genesis |-> TRUE], height |-> 0, ts |-> 0, creator |-> v1,
              vtxs |-> <<>>, txs |-> <<>>]
mcTxSeqs == {<<>>} \cup {<<t>> : t \in mcTxs} \cup {<<pay0, fail0>>, <<pay0, back0>>, <<back0, self1>>}
mcShuffle == [r \in Randomness |-> IF r = <<>> THEN <<v1, v2, v3>>
                                   ELSE IF r = <<s1>> THEN <<v2, v3, v1>> ELSE <<v3, v1, v2>>]
mcNetVTxs == {VTx(v2, "randomHash", s1, h) : h \in {1, 2}}
mcCommitteeVTxs == {VTx(v, f, s, 1) : v \in {v2, v3}, f \in Functors, s \in {s1, s2}}
                   \cup {VTx(v3, "randomHash", s1, h) : h \in {2, 3}}
mcEmptySeq == {<<>>}
mcSharedSeqs == {<<>>, <<pay0>>}
mcUnrivalled == mcTxs \ {fail0, more1}

(* The account that the stored chain determines: a nonce counts the        *)
(* sender's transactions; a balance is the genesis balance plus what was   *)
(* received, less what was sent and what was charged.                      *)
ChainTxs == UNION {Range(blocksDb[h].txs) : h \in DOMAIN blocksDb}
Total(S, amount(_)) == MapThenSumSet(amount, S)
(* Accounts are exactly what the stored chain says, whatever was validated *)
(* or rejected in between: no transaction is half applied, lost or applied *)
(* twice (unless an aborted block has torn the state).                     *)
LedgerMatchesChain ==
    Unlocked /\ ~torn => \A a \in Addr :
       LET sent == {t \in ChainTxs : t.from = a}
           value(t) == t.value
           used(t) == t.used
       IN  /\ nonce[a] = Cardinality(sent)
           /\ balance[a] = (IF a \in DOMAIN GenesisBalance THEN GenesisBalance[a] ELSE 0)
                 + Total({t \in ChainTxs : t.to = a /\ t.ok}, value)
                 - Total({t \in sent : t.ok}, value) - Total(sent, used)
=============================================================================

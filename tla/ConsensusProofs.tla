-------------------------- MODULE ConsensusProofs ---------------------------
(***************************************************************************)
(* The node with its producer loop keeps SInv: theorems for every set of   *)
(* validators, transactions and threads.                                   *)
(***************************************************************************)
EXTENDS Consensus, StateProofs

(* The producer only adds that the blocks it holds are well formed.        *)
ProdInv ==
    /\ BlockOK(prod.base)
    /\ BlockOK(prod.block)

LEMMA BuildBlockOK ==
  ASSUME SInv, ProdInv, BuildBlock
  PROVE  BlockOK(prod'.block) /\ prod'.base = prod.base
<1>1. PICK txs \in FilteredMempool, now \in 0..MaxTime, r \in [Members -> Seeds] :
         prod' = Prod("try", prod.base, <<>>,
              NewBlock(BlockHash(prod.base), prod.base.height + 1, BlockTime(now), txs,
                  prod.list[1], CommitteeTxs(prod.list, prod.base.height + 1, r, r)))
  BY Zenon DEF BuildBlock
<1>2. /\ prod'.base = prod.base
      /\ prod'.block.height = prod.base.height + 1 /\ prod'.block.ts = BlockTime(now)
      /\ prod'.block.txs = txs
      /\ prod'.block.vtxs = CommitteeTxs(prod.list, prod.base.height + 1, r, r)
  BY <1>1, Zenon DEF Prod, NewBlock
<1>3. txs \in Seq(Tx)
  <2>1. PICK n \in 0..Cardinality(mempool) : txs \in [1..n -> mempool]
    BY DEF FilteredMempool
  <2>2. n \in Nat /\ mempool \subseteq Tx
    BY DEF SInv, TypeOK
  <2> QED
    BY <2>1, <2>2
<1>4. BlockTime(now) \in Nat
  BY DEF BlockTime, ProdInv, BlockOK
<1>5. BlockRandomness(prod'.block) \in Randomness
  BY <1>2, CommitteeRandomness
<1>6. prod.base.height + 1 \in Nat
  BY DEF BlockOK, ProdInv
<1> QED
  BY <1>2, <1>3, <1>4, <1>5, <1>6, Zenon DEF BlockOK

LEMMA ProducerStepInv ==
  ASSUME SInv, ProdInv, ProducerStep
  PROVE  SInv' /\ ProdInv'
<1>1. CASE TryProcess
  BY <1>1, BeginBlockInv DEF TryProcess, Goto, Prod, ProdInv
<1>2. CASE ~TryProcess
  <2>1. SInv'
    <3>1. UNCHANGED allStateVars
      BY <1>2 DEF ProducerStep, OnlyProducer, allStateVars, ReadLatest, ReadRandomList,
                  WaitMempool, MempoolEmpty, LookAgain, BuildBlock, TryProcessInvalid,
                  CheckAndBroadcast, WaitNextHeight, ProducerReturns
    <3> QED
      BY <3>1, StateStepInv, Zenon
  <2>2. CASE BuildBlock
    BY <2>1, <2>2, BuildBlockOK, Zenon DEF ProdInv
  <2>3. CASE ~BuildBlock
    <3>1. /\ prod'.base \in {prod.base, latest, Genesis}
          /\ prod'.block \in {prod.block, Genesis}
      BY <1>2, <2>3, SMTT(30) DEF ProducerStep, ReadLatest, ReadRandomList, WaitMempool, Goto,
                  MempoolEmpty, LookAgain, TryProcessInvalid, CheckAndBroadcast,
                  WaitNextHeight, ProducerReturns, Prod
    <3> QED
      BY <2>1, <3>1, GenesisOK, Zenon DEF ProdInv, SInv, TypeOK
  <2> QED
    BY <2>2, <2>3
<1> QED
  BY <1>1, <1>2

LEMMA Invariance == Spec => [](SInv /\ ProdInv)
<1>1. Init => SInv /\ ProdInv
  BY InitSInv, GenesisOK DEF Init, Prod, ProdInv
<1>2. SInv /\ ProdInv /\ [Next]_vars => (SInv /\ ProdInv)'
  <2> SUFFICES ASSUME SInv, ProdInv, [Next]_vars PROVE SInv' /\ ProdInv'
    OBVIOUS
  <2>1. CASE StateStep /\ UNCHANGED producerVars
    BY <2>1, StateStepInv DEF producerVars, ProdInv
  <2>2. CASE ProducerStep
    BY <2>2, ProducerStepInv
  <2>3. CASE Stop \/ UNCHANGED vars
    <3>1. UNCHANGED allStateVars /\ prod' = prod
      BY <2>3 DEF Stop, vars, allStateVars
    <3> QED
      BY <3>1, StateStepInv DEF ProdInv
  <2> QED
    BY <2>1, <2>2, <2>3 DEF Next
<1> QED
  BY <1>1, <1>2, PTL DEF Spec

(* Every state of a node with a producer is well typed: balances never go  *)
(* below zero and every processed block yields a validator order.          *)
THEOREM TypeCorrect == Spec => []TypeOK
BY Invariance, SInvImplies, PTL

(* The store holds one hash-linked chain from genesis and every block of   *)
(* it was sealed by the creator and committee its parent draws.            *)
THEOREM ChainCorrect == Spec => [](ChainLinked /\ ChainSealed)
BY Invariance, SInvImplies, PTL

(* No transaction is executed twice, aborted blocks included.              *)
THEOREM ReplayProtection == Spec => []NoReplay
BY Invariance, SInvImplies, PTL

(* The random list of an unlocked node is determined by its last block.    *)
THEOREM RandomListDetermined == Spec => []RandomListFollowsLatest
BY Invariance, SInvImplies, PTL

(* The validator mempool stays within two transactions per committee       *)
(* member, all for the next height.                                        *)
THEOREM ValidatorMempoolLimit == Spec => []ValidatorMempoolBounded
BY Invariance, SInvImplies, PTL

(* Only an insert that a block has overtaken, or a block that throws half  *)
(* way, leaves transactions in the mempool that cannot be executed.        *)
THEOREM MempoolStaysAdmissible == Spec => []MempoolAdmissible
BY Invariance, SInvImplies, PTL

(* A stored block is never replaced.                                       *)
THEOREM BlocksAreFinal == Spec => StoredForever
<1> DEFINE Kept == \A h \in DOMAIN blocksDb : h \in DOMAIN blocksDb' /\ blocksDb'[h] = blocksDb[h]
<1>1. SInv /\ [Next]_vars => [Kept]_vars
  <2> SUFFICES ASSUME SInv, Next PROVE Kept
    OBVIOUS
  <2>1. CASE WriteBlock
    BY <2>1, WriteBlockDb
  <2>2. CASE ~WriteBlock
    <3>1. blocksDb' = blocksDb
      BY <2>2, Zenon DEF Next, StateStep, AddTxValidate, AddTxInsert, addValidatorTx, ImportBlock,
         BeginBlock, processTransaction, processTransactionThrows, FinishTxs, PublishBlock,
         PushLatest, storageVars, ProducerStep, OnlyProducer, ReadLatest, ReadRandomList,
         WaitMempool, MempoolEmpty, LookAgain, BuildBlock, TryProcess, TryProcessInvalid,
         CheckAndBroadcast, WaitNextHeight, ProducerReturns, Stop
    <3> QED
      BY <3>1
  <2> QED
    BY <2>1, <2>2
<1> QED
  BY <1>1, Invariance, PTL DEF Spec, StoredForever
=============================================================================

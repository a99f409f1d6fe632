------------------------------- MODULE State -------------------------------
(***************************************************************************)
(* The state of a node (core/state.cpp): accounts, transaction mempool and *)
(* the processing of blocks, over the rdPoS contract and the block store.  *)
(*                                                                         *)
(* A transaction is a record [from, to, nonce, value, gas, used, ok, fee]: *)
(* gas is gasLimit * maxFeePerGas, used what its execution charges of it,  *)
(* ok whether the execution succeeds, fee the maxFeePerGas.                *)
(*                                                                         *)
(* tryProcessNextBlock holds stateMutex_ uniquely; its steps are separate  *)
(* actions because it may throw between them and because latest_ is read   *)
(* without the lock.  The lock is free exactly when cur.pc = "idle".       *)
(***************************************************************************)
EXTENDS RdPoS

CONSTANTS Addr, Tx,
          GenesisBalance,   \* address -> balance, for the genesis accounts
          PeerKeys,         \* validators whose keys other nodes hold
          NetVTxs,          \* validator transactions that the network delivers
          NetTxSeqs,        \* transaction lists of the blocks it delivers
          Adders,           \* threads that run addTx (RPC and P2P handlers)
          NoTx, MaxHeight, MaxTime

VARIABLES balance, nonce, known,    \* accounts_: known is its set of keys
          mempool,                  \* mempool_
          globals,                  \* the block ContractGlobals describe
          cur,                      \* the running tryProcessNextBlock
          adding,                   \* thread -> transaction validated and not yet inserted
          ownCall,                  \* what the producer's tryProcessNextBlock returned
          torn,                     \* history: a block that passed validation threw
          overtaken                 \* history: addTx inserted what was not valid any more

accountVars == <<balance, nonce, known>>
stateVars == <<balance, nonce, known, mempool, globals, cur, adding, ownCall, torn, overtaken>>
allStateVars == <<storageVars, rdposVars, stateVars>>

TxRecord == [from : Addr, to : Addr, nonce : Nat, value : Nat, gas : Nat, used : Nat,
             ok : BOOLEAN, fee : Nat]

(* The execution never charges more than the gas limit, and value plus     *)
(* gas of a transaction fits uint256_t (checked: an overflow throws).       *)
ASSUME StateAssumption ==
    /\ Tx \subseteq TxRecord
    /\ \A t \in Tx : t.used <= t.gas
    /\ NoTx \notin Tx
    /\ DOMAIN GenesisBalance \subseteq Addr
    /\ \A a \in DOMAIN GenesisBalance : GenesisBalance[a] \in Nat
    /\ NetTxSeqs \subseteq Seq(Tx)
    /\ PeerKeys \subseteq Validators
    /\ MaxHeight \in Nat /\ MaxTime \in Nat

Call(pc, block, next, owner) == [pc |-> pc, block |-> block, next |-> next, owner |-> owner]
Idle == Call("idle", Genesis, 1, "net")

StateInit ==
    /\ StorageInit
    /\ RdPoSInit
    /\ balance = [a \in Addr |-> IF a \in DOMAIN GenesisBalance THEN GenesisBalance[a] ELSE 0]
    /\ nonce = [a \in Addr |-> 0]
    /\ known = DOMAIN GenesisBalance
    /\ mempool = {}
    /\ globals = Genesis
    /\ cur = Idle
    /\ adding = [a \in Adders |-> NoTx]
    /\ ownCall = "none"
    /\ torn = FALSE /\ overtaken = FALSE

Unlocked == cur.pc = "idle"
Cost_ValueOnly(t) == t.value
Cost(t) == t.value + t.gas

(* The account rules of validateTransactionInternal, as its last three     *)
(* returns apply them in this order.                                       *)
AccountStatus(t) ==
    IF t.from \notin known \/ Cost(t) > balance[t.from] THEN "InvalidBalance"
    ELSE IF nonce[t.from] # t.nonce THEN "InvalidNonce"
    ELSE "ValidNew"

validateTransactionInternal(t) ==
    IF t \in mempool THEN "ValidExisting" ELSE AccountStatus(t)

isTxStatusValid(s) == s \in {"ValidNew", "ValidExisting"}

FollowsLatest_AnyTime(b) == b.prev = BlockHash(latest)
FollowsLatest(b) == b.prev = BlockHash(latest) /\ latest.ts <= b.ts

validateNextBlockInternal(b) ==
    IF b.height # latest.height + 1 THEN "invalidWrongHeight"
    ELSE IF /\ FollowsLatest(b)
            /\ validateBlock(b)
            /\ \A i \in DOMAIN b.txs : isTxStatusValid(validateTransactionInternal(b.txs[i]))
    THEN "valid"
    ELSE "invalidErroneous"

-----------------------------------------------------------------------------
(* addTx validates under the shared lock ...                               *)
AddTxValidate(a, t) ==
    /\ Unlocked
    /\ adding[a] = NoTx
    /\ validateTransactionInternal(t) = "ValidNew"
    /\ adding' = [adding EXCEPT ![a] = t]
    /\ UNCHANGED <<storageVars, rdposVars, accountVars, mempool, globals, cur, ownCall, torn, overtaken>>

(* ... and inserts later, under the unique lock, without a second look.    *)
AddTxInsert(a) ==
    /\ Unlocked
    /\ adding[a] # NoTx
    /\ mempool' = mempool \cup {adding[a]}
    /\ adding' = [adding EXCEPT ![a] = NoTx]
    /\ overtaken' = (overtaken \/ AccountStatus(adding[a]) # "ValidNew")
    /\ UNCHANGED <<storageVars, rdposVars, accountVars, globals, cur, ownCall, torn>>

addValidatorTx(tx) ==
    /\ Unlocked
    /\ addValidatorTxStatus(tx) = "ValidNew"
    /\ validatorMempool' = validatorMempool \cup {tx}
    /\ UNCHANGED <<storageVars, randomList, stateVars>>

(* tryProcessNextBlock: the sanity check and the contract globals.         *)
BeginBlock(b, owner) ==
    /\ Unlocked
    /\ validateNextBlockInternal(b) = "valid"
    /\ cur' = Call("txs", b, 1, owner)
    /\ globals' = b
    /\ ownCall' = IF owner = "producer" THEN "running" ELSE ownCall
    /\ UNCHANGED <<storageVars, rdposVars, accountVars, mempool, adding, torn, overtaken>>

Execute_FailureKeepsNonce(t) ==
    /\ nonce' = IF t.ok THEN [nonce EXCEPT ![t.from] = @ + 1] ELSE nonce
    /\ balance' = [balance EXCEPT ![t.from] = @ - t.used]
    /\ known' = known \cup {t.from, t.to}

Execute_FailureKeepsTransfer(t) ==
    /\ nonce' = [nonce EXCEPT ![t.from] = @ + 1]
    /\ balance' = [balance EXCEPT ![t.from] = @ - t.value - t.used, ![t.to] = @ + t.value]
    /\ known' = known \cup {t.from, t.to}

(* The effect of a call that completes: the contract host keeps or         *)
(* reverts the transfer, the nonce and the gas charge always stand, and    *)
(* the looked-up recipient stays in accounts_ either way.                  *)
Execute(t) ==
    LET paid == [balance EXCEPT ![t.from] = @ - t.value]
        moved == IF t.ok THEN [paid EXCEPT ![t.to] = @ + t.value] ELSE balance
    IN  /\ nonce' = [nonce EXCEPT ![t.from] = @ + 1]
        /\ balance' = [moved EXCEPT ![t.from] = @ - t.used]
        /\ known' = known \cup {t.from, t.to}

ThisTx == cur.block.txs[cur.next]

processTransaction ==
    /\ cur.pc = "txs" /\ cur.next <= Len(cur.block.txs)
    /\ Cost(ThisTx) <= balance[ThisTx.from]
    /\ nonce[ThisTx.from] = ThisTx.nonce
    /\ Execute(ThisTx)
    /\ cur' = Call("txs", cur.block, cur.next + 1, cur.owner)
    /\ UNCHANGED <<storageVars, rdposVars, mempool, globals, adding, ownCall, torn, overtaken>>

(* processTransaction throws out of tryProcessNextBlock; the transactions  *)
(* before it stay applied.                                                 *)
processTransactionThrows ==
    /\ cur.pc = "txs" /\ cur.next <= Len(cur.block.txs)
    /\ \/ Cost(ThisTx) > balance[ThisTx.from]
       \/ nonce[ThisTx.from] # ThisTx.nonce
    /\ known' = known \cup {ThisTx.from}
    /\ cur' = Idle
    /\ ownCall' = IF cur.owner = "producer" THEN "threw" ELSE ownCall
    /\ torn' = TRUE
    /\ UNCHANGED <<storageVars, rdposVars, balance, nonce, mempool, globals, adding, overtaken>>

refreshMempool_OnlyOwnTxs(b) ==
    mempool' = {t \in mempool : \A i \in DOMAIN b.txs : b.txs[i] # t}

refreshMempool(b) ==
    mempool' = {t \in mempool : (\A i \in DOMAIN b.txs : b.txs[i] # t)
                                /\ isTxStatusValid(AccountStatus(t))}

FinishTxs ==
    /\ cur.pc = "txs" /\ cur.next > Len(cur.block.txs)
    /\ processBlock(cur.block)
    /\ refreshMempool(cur.block)
    /\ cur' = Call("push", cur.block, cur.next, cur.owner)
    /\ UNCHANGED <<storageVars, accountVars, globals, adding, ownCall, torn, overtaken>>

PublishBlock ==
    /\ cur.pc = "push"
    /\ PushLatest(cur.block)
    /\ cur' = Call("store", cur.block, cur.next, cur.owner)
    /\ UNCHANGED <<rdposVars, accountVars, mempool, globals, adding, ownCall, torn, overtaken>>

WriteBlock ==
    /\ cur.pc = "store"
    /\ StoreBlock(cur.block)
    /\ cur' = Idle
    /\ ownCall' = IF cur.owner = "producer" THEN "valid" ELSE ownCall
    /\ UNCHANGED <<rdposVars, accountVars, mempool, globals, adding, torn, overtaken>>

-----------------------------------------------------------------------------
VTx(from, functor, data, height) ==
    [from |-> from, functor |-> functor, size |-> 36, data |-> data, height |-> height]

(* The validator transactions that the committee of list commits with the  *)
(* seeds c and reveals with the seeds r: honest when c = r.                *)
CommitteeTxs(list, height, c, r) ==
    [i \in 1..(2 * MinValidators) |->
        IF i \in Members THEN VTx(list[i + 1], "randomHash", Sha3(c[i]), height)
        ELSE VTx(list[i - MinValidators + 1], "randomSeed", r[i - MinValidators],
                 height)]

(* Blocks that arrive from other nodes: well formed over a list of         *)
(* transactions, or wrong in one of committed seeds, parent, height,       *)
(* creator, and height and committee of the validator transactions.  A     *)
(* wrong time and wrong transactions are among the well formed ones.       *)
NewBlock(prev, height, ts, txs, creator, vtxs) ==
    [prev |-> prev, height |-> height, ts |-> ts, txs |-> txs, creator |-> creator,
     vtxs |-> vtxs]

PeerBlocks(txs, ts, r) ==
    LET next == latest.height + 1
        Peer(prev, height, creator, list, h, c) ==
            NewBlock(prev, height, ts, txs, creator, CommitteeTxs(list, h, c, r))
        Parent == BlockHash(latest)
        Proposer == randomList[1]
    IN  {Peer(Parent, next, Proposer, randomList, next, c) : c \in [Members -> Seeds]}
        \cup {Peer(BlockHash(Genesis), next, Proposer, randomList, next, r),
              Peer(Parent, next + 1, Proposer, randomList, next, r),
              Peer(Parent, next, Proposer, randomList, latest.height, r)}
        \cup {Peer(Parent, next, v, randomList, next, r) : v \in PeerKeys}
        \cup {Peer(Parent, next, Proposer, [i \in DOMAIN randomList |-> v], next, r) :
                 v \in PeerKeys}

(* A block that the node has stored may be delivered once more: two        *)
(* handlers can pass the unlocked check of the Broadcaster with it.        *)
StoredBlocks == {blocksDb[h] : h \in DOMAIN blocksDb}

SignedByPeers(b) ==
    b.creator \in PeerKeys /\ \A i \in DOMAIN b.vtxs : b.vtxs[i].from \in PeerKeys

ImportBlock ==
    /\ Unlocked /\ latest.height < MaxHeight
    /\ \E txs \in NetTxSeqs, ts \in 0..MaxTime, r \in [Members -> Seeds] :
          \E b \in {p \in PeerBlocks(txs, ts, r) : SignedByPeers(p)} \cup StoredBlocks :
             BeginBlock(b, "net")

StateStep ==
    \/ \E a \in Adders, t \in Tx : AddTxValidate(a, t)
    \/ \E a \in Adders : AddTxInsert(a)
    \/ \E tx \in NetVTxs : addValidatorTx(tx)
    \/ ImportBlock
    \/ processTransaction
    \/ processTransactionThrows
    \/ FinishTxs
    \/ PublishBlock
    \/ WriteBlock

StateSpec == StateInit /\ [][StateStep]_allStateVars
-----------------------------------------------------------------------------
BlockOK(b) ==
    /\ b.height \in Nat /\ b.ts \in Nat
    /\ b.txs \in Seq(Tx)
    /\ BlockRandomness(b) \in Randomness

(* Every variable of the node stays in its domain; in particular no        *)
(* balance goes below zero when a transaction is charged, and a processed  *)
(* block always has randomness that orders the validators.                 *)
TypeOK ==
    /\ BlockOK(latest)
    /\ \A h \in DOMAIN blocksDb : h \in Nat /\ BlockOK(blocksDb[h])
    /\ randomList \in Orders
    /\ validatorMempool \subseteq NetVTxs
    /\ balance \in [Addr -> Nat] /\ nonce \in [Addr -> Nat] /\ known \subseteq Addr
    /\ mempool \subseteq Tx
    /\ BlockOK(globals)
    /\ cur.pc \in {"idle", "txs", "push", "store"} /\ BlockOK(cur.block)
    /\ cur.next \in 1..(Len(cur.block.txs) + 1) /\ cur.owner \in {"net", "producer"}
    /\ adding \in [Adders -> Tx \cup {NoTx}]
    /\ ownCall \in {"none", "running", "valid", "threw"}
    /\ torn \in BOOLEAN /\ overtaken \in BOOLEAN

(* The database is one chain from genesis: no height is missing, every     *)
(* block names its predecessor's hash and is not older than it (the same   *)
(* time is accepted), and latest_ is the last block or the one pushBlock   *)
(* is about to write.                                                      *)
ChainLinked ==
    /\ DOMAIN blocksDb = 0..(IF cur.pc = "store" THEN latest.height - 1 ELSE latest.height)
    /\ cur.pc # "store" => latest = blocksDb[latest.height]
    /\ blocksDb[0] = Genesis
    /\ \A h \in DOMAIN blocksDb \ {0} :
          /\ blocksDb[h].height = h
          /\ blocksDb[h].prev = BlockHash(blocksDb[h - 1])
          /\ blocksDb[h - 1].ts <= blocksDb[h].ts

(* Every stored block was created by the first validator of the order that *)
(* its parent's randomness draws, and holds the commitment and the         *)
(* matching seed of each of the next MinValidators: what the node accepted *)
(* under its volatile random list can be audited from the chain alone.     *)
SealedBy(list, b) ==
    /\ b.creator = list[1]
    /\ \A i \in Members :
          /\ b.vtxs[i].from = list[i + 1] /\ b.vtxs[i + MinValidators].from = list[i + 1]
          /\ b.vtxs[i].data = Sha3(b.vtxs[i + MinValidators].data)
          /\ b.vtxs[i].height = b.height /\ b.vtxs[i + MinValidators].height = b.height
ChainSealed ==
    \A h \in DOMAIN blocksDb \ {0} :
        SealedBy(ShuffleOf[BlockRandomness(blocksDb[h - 1])], blocksDb[h])

(* No transaction is executed twice: two transactions of the chain differ  *)
(* in their sender or nonce, and the sender's account has moved past them, *)
(* even after a block was aborted half way.                                *)
NoReplay ==
    /\ \A h \in DOMAIN blocksDb : \A i \in DOMAIN blocksDb[h].txs :
          blocksDb[h].txs[i].nonce < nonce[blocksDb[h].txs[i].from]
    /\ \A g, h \in DOMAIN blocksDb :
          \A i \in DOMAIN blocksDb[g].txs, j \in DOMAIN blocksDb[h].txs :
             /\ blocksDb[g].txs[i].from = blocksDb[h].txs[j].from
             /\ blocksDb[g].txs[i].nonce = blocksDb[h].txs[j].nonce
             => g = h /\ i = j

(* The random list is a function of the last block alone, so a node that   *)
(* restarts from its database draws the same creator and committee.        *)
RandomListFollowsLatest ==
    Unlocked => randomList = ShuffleOf[BlockRandomness(latest)]

(* The validator mempool serves only the next block: nothing in it is for  *)
(* another height or from outside the committee, and a member has at most  *)
(* one transaction per functor and two in all.                             *)
ValidatorMempoolBounded ==
    Unlocked =>
      /\ \A t \in validatorMempool :
            t.height = latest.height + 1 /\ \E i \in Members : t.from = randomList[i + 1]
      /\ \A t, u \in validatorMempool :
            t.from = u.from /\ t.functor = u.functor => t = u
      /\ \A t, u, v \in validatorMempool :
            t.from = u.from /\ u.from = v.from => t = u \/ u = v \/ t = v

(* A block must be younger than its parent: "Block nTimestamp must be      *)
(* higher than latest block", says the comment of                          *)
(* validateNextBlockInternal.                                              *)
TimestampsIncrease ==
    \A h \in DOMAIN blocksDb \ {0} : blocksDb[h - 1].ts < blocksDb[h].ts

(* What waits in the mempool can be executed on the accounts, whatever     *)
(* blocks were processed since it was validated, unless addTx inserted a   *)
(* transaction after a block had made it invalid, or an exception left a   *)
(* block half executed: there is no third way for stale transactions.      *)
MempoolAdmissible ==
    Unlocked /\ ~overtaken /\ ~torn => \A t \in mempool : AccountStatus(t) = "ValidNew"

(* A block that passes the sanity check of tryProcessNextBlock is          *)
(* processed (the comment above that check).                               *)
ValidBlockIsProcessed == ~torn
=============================================================================

--------------------------- MODULE StateTxProofs ----------------------------
(***************************************************************************)
(* SInv, the inductive invariant of the State of a node, holds initially   *)
(* and is kept by the transactions that enter the mempools and by the      *)
(* transactions of a block.                                                *)
(***************************************************************************)
EXTENDS State, TLAPS

(* What the block in progress owes to the latest block.                    *)
Extends(b, parent) ==
    /\ b.height = parent.height + 1
    /\ b.prev = BlockHash(parent)
    /\ parent.ts <= b.ts
    /\ SealedBy(ShuffleOf[BlockRandomness(parent)], b)

CurInv ==
    /\ cur.pc \in {"txs", "push"} => Extends(cur.block, latest)
    /\ cur.pc = "store" => /\ cur.block = latest
                           /\ latest.height # 0
                           /\ Extends(latest, blocksDb[latest.height - 1])
    /\ cur.pc \in {"push", "store"} => cur.next = Len(cur.block.txs) + 1

ListInv ==
    randomList = ShuffleOf[BlockRandomness(IF cur.pc \in {"push", "store"} THEN cur.block
                                           ELSE latest)]

(* The validator mempool outlives an aborted block.                        *)
VMempoolInv ==
    /\ \A t \in validatorMempool :
          t.height = latest.height + 1 /\ \E i \in Members : t.from = randomList[i + 1]
    /\ \A t, u \in validatorMempool : t.from = u.from /\ t.functor = u.functor => t = u
    /\ \A t, u, v \in validatorMempool :
          t.from = u.from /\ u.from = v.from => t = u \/ u = v \/ t = v
    /\ cur.pc \in {"push", "store"} => validatorMempool = {}

(* The transactions of the block in progress that were executed so far.    *)
Done == IF cur.pc = "idle" THEN {} ELSE 1..(cur.next - 1)
SameSlot(t, u) == t.from = u.from /\ t.nonce = u.nonce
DoneInv ==
    /\ \A i \in Done : cur.block.txs[i].nonce < nonce[cur.block.txs[i].from]
    /\ \A i, j \in Done : SameSlot(cur.block.txs[i], cur.block.txs[j]) => i = j
    /\ \A i \in Done : \A h \in DOMAIN blocksDb : \A j \in DOMAIN blocksDb[h].txs :
          ~SameSlot(cur.block.txs[i], blocksDb[h].txs[j])

(* The mempool is admissible between two blocks, and again from the        *)
(* refresh of a block on.                                                  *)
MempoolInv ==
    ~overtaken /\ ~torn /\ cur.pc # "txs" => \A t \in mempool : AccountStatus(t) = "ValidNew"

SInv ==
    /\ TypeOK
    /\ ChainLinked
    /\ ChainSealed
    /\ NoReplay
    /\ CurInv
    /\ ListInv
    /\ VMempoolInv
    /\ DoneInv
    /\ MempoolInv

LEMMA SInvImplies ==
  SInv => /\ TypeOK /\ ChainLinked /\ ChainSealed /\ NoReplay
          /\ RandomListFollowsLatest /\ ValidatorMempoolBounded /\ MempoolAdmissible
BY DEF SInv, RandomListFollowsLatest, ListInv, ValidatorMempoolBounded, VMempoolInv, Unlocked,
       MempoolAdmissible, MempoolInv

LEMMA GenesisOK == BlockOK(Genesis)
BY GenesisAssumption DEF BlockOK, BlockRandomness, Randomness

LEMMA InitSInv == StateInit => SInv
<1> SUFFICES ASSUME StateInit PROVE SInv
  OBVIOUS
<1> USE DEF StateInit, StorageInit, RdPoSInit, Idle, Call
<1>0. /\ cur.pc = "idle" /\ latest = Genesis /\ DOMAIN blocksDb = {0} /\ blocksDb[0] = Genesis
      /\ Genesis.height = 0 /\ Genesis.txs = <<>> /\ mempool = {} /\ validatorMempool = {}
  BY GenesisAssumption
<1>1. TypeOK
  <2>1. randomList \in Orders
    BY GenesisOK, RdPoSAssumption DEF BlockOK
  <2>2. /\ balance \in [Addr -> Nat] /\ nonce \in [Addr -> Nat] /\ known \subseteq Addr
        /\ adding \in [Adders -> Tx \cup {NoTx}]
    BY StateAssumption
  <2>3. cur.next \in 1..(Len(cur.block.txs) + 1)
    BY <1>0
  <2>5. torn \in BOOLEAN /\ overtaken \in BOOLEAN /\ ownCall \in {"none", "running", "valid", "threw"}
    BY Zenon
  <2>6. cur.owner \in {"net", "producer"} /\ BlockOK(cur.block) /\ BlockOK(globals)
    BY GenesisOK
  <2>7. /\ \A h \in DOMAIN blocksDb : h \in Nat /\ BlockOK(blocksDb[h])
        /\ cur.pc \in {"idle", "txs", "push", "store"} /\ BlockOK(latest)
        /\ mempool \subseteq Tx /\ validatorMempool \subseteq NetVTxs
    BY <1>0, GenesisOK
  <2> HIDE DEF StateInit, Idle, Call
  <2> QED
    BY <2>1, <2>2, <2>3, <2>5, <2>6, <2>7 DEF TypeOK
<1>2. ChainLinked
  BY <1>0 DEF ChainLinked
<1>3. ChainSealed
  BY <1>0 DEF ChainSealed
<1>4. NoReplay
  BY <1>0 DEF NoReplay
<1>5. CurInv /\ ListInv /\ VMempoolInv /\ DoneInv /\ MempoolInv
  BY <1>0 DEF CurInv, ListInv, VMempoolInv, DoneInv, Done, MempoolInv
<1> QED
  BY <1>1, <1>2, <1>3, <1>4, <1>5 DEF SInv

-----------------------------------------------------------------------------
(* The conjuncts that do not mention mempool, adding or validatorMempool.  *)
LEMMA ChainUnchanged ==
  ASSUME SInv, UNCHANGED <<latest, blocksDb, cur, nonce, randomList>>
  PROVE  (ChainLinked /\ ChainSealed /\ NoReplay /\ CurInv /\ ListInv /\ DoneInv)'
BY SMTT(30) DEF SInv, ChainLinked, ChainSealed, NoReplay, CurInv, ListInv, DoneInv, Done

(* Between two blocks the mempool stays admissible if nothing is inserted. *)
LEMMA SameMempool ==
  ASSUME SInv, cur.pc # "txs", UNCHANGED <<balance, nonce, known, mempool, torn, overtaken>>
  PROVE  MempoolInv'
BY DEF SInv, MempoolInv, AccountStatus

LEMMA AddTxValidateInv ==
  ASSUME SInv, NEW a \in Adders, NEW t \in Tx, AddTxValidate(a, t)
  PROVE  SInv'
<1>0. /\ UNCHANGED <<latest, blocksDb, randomList, validatorMempool, balance, nonce, known,
                     mempool, globals, cur, ownCall, torn, overtaken>>
      /\ adding' = [adding EXCEPT ![a] = t] /\ cur.pc = "idle"
  BY DEF AddTxValidate, storageVars, rdposVars, accountVars, Unlocked
<1>1. TypeOK'
  BY <1>0 DEF SInv, TypeOK
<1>2. (ChainLinked /\ ChainSealed /\ NoReplay /\ CurInv /\ ListInv /\ DoneInv)'
  BY <1>0, ChainUnchanged
<1>3. VMempoolInv'
  BY <1>0 DEF SInv, VMempoolInv
<1>4. MempoolInv'
  BY <1>0, SameMempool
<1> QED
  BY <1>1, <1>2, <1>3, <1>4 DEF SInv

LEMMA AddTxInsertInv ==
  ASSUME SInv, NEW a \in Adders, AddTxInsert(a)
  PROVE  SInv'
<1>0. /\ UNCHANGED <<latest, blocksDb, randomList, validatorMempool, balance, nonce, known,
                     globals, cur, ownCall, torn>>
      /\ adding' = [adding EXCEPT ![a] = NoTx] /\ cur.pc = "idle"
      /\ overtaken' = (overtaken \/ AccountStatus(adding[a]) # "ValidNew")
      /\ mempool' = mempool \cup {adding[a]} /\ adding[a] # NoTx
  BY DEF AddTxInsert, storageVars, rdposVars, accountVars, Unlocked
<1>1. TypeOK'
  BY <1>0 DEF SInv, TypeOK
<1>2. (ChainLinked /\ ChainSealed /\ NoReplay /\ CurInv /\ ListInv /\ DoneInv)'
  BY <1>0, ChainUnchanged
<1>3. VMempoolInv'
  BY <1>0 DEF SInv, VMempoolInv
<1>4. MempoolInv'
  <2>1. \A t : AccountStatus(t)' = AccountStatus(t)
    BY <1>0 DEF AccountStatus
  <2> QED
    BY <1>0, <2>1, Zenon DEF SInv, MempoolInv
<1> QED
  BY <1>1, <1>2, <1>3, <1>4 DEF SInv

LEMMA addValidatorTxInv ==
  ASSUME SInv, NEW tx \in NetVTxs, addValidatorTx(tx)
  PROVE  SInv'
<1>0. /\ UNCHANGED <<latest, blocksDb, randomList, balance, nonce, known, mempool, globals, cur,
                     adding, ownCall, torn, overtaken>>
      /\ validatorMempool' = validatorMempool \cup {tx} /\ cur.pc = "idle"
      /\ addValidatorTxStatus(tx) = "ValidNew"
  BY DEF addValidatorTx, storageVars, stateVars, Unlocked
<1>1. TypeOK'
  BY <1>0 DEF SInv, TypeOK
<1>2. (ChainLinked /\ ChainSealed /\ NoReplay /\ CurInv /\ ListInv /\ DoneInv)'
  BY <1>0, ChainUnchanged
<1>3. MempoolInv'
  BY <1>0, SameMempool
<1>4. VMempoolInv'
  <2> DEFINE own == {t \in validatorMempool : t.from = tx.from}
  <2>1. /\ tx.height = latest.height + 1
        /\ \E i \in Members : tx.from = randomList[i + 1]
        /\ own = {} \/ \E t \in own : own = {t} /\ t.functor # tx.functor
    BY <1>0 DEF addValidatorTxStatus
  <2>2. \A t, u \in own : t = u /\ t.functor # tx.functor
    BY <2>1
  <2> QED
    BY <1>0, <2>1, <2>2 DEF SInv, VMempoolInv
<1> QED
  BY <1>1, <1>2, <1>3, <1>4 DEF SInv

LEMMA BeginBlockInv ==
  ASSUME SInv, NEW b, BlockOK(b), NEW owner \in {"net", "producer"}, BeginBlock(b, owner)
  PROVE  SInv'
<1>0. /\ cur.pc = "idle" /\ cur'.pc = "txs" /\ cur'.block = b /\ cur'.next = 1 /\ cur'.owner = owner
      /\ UNCHANGED <<latest, blocksDb, randomList, validatorMempool, balance, nonce, known,
                     mempool, adding, torn, overtaken>>
      /\ globals' = b /\ ownCall' \in {ownCall, "running"}
  BY DEF BeginBlock, storageVars, rdposVars, accountVars, Unlocked, Call
<1>1. b.height = latest.height + 1 /\ FollowsLatest(b) /\ validateBlock(b)
  BY DEF BeginBlock, validateNextBlockInternal
<1>2. TypeOK'
  <2>1. cur'.next \in 1..(Len(cur'.block.txs) + 1)
    BY <1>0 DEF BlockOK
  <2> QED
    BY <1>0, <2>1 DEF SInv, TypeOK
<1>3. ChainLinked'
  BY <1>0 DEF SInv, ChainLinked
<1>4. ChainSealed' /\ NoReplay'
  BY <1>0 DEF SInv, ChainSealed, NoReplay
<1>5. ListInv' /\ VMempoolInv'
  BY <1>0 DEF SInv, ListInv, VMempoolInv
<1>6. MempoolInv' /\ DoneInv'
  <2>1. Done' = {}
    BY <1>0 DEF Done
  <2> QED
    BY <1>0, <2>1 DEF MempoolInv, DoneInv
<1>7. CurInv'
  <2>1. SealedBy(randomList, b)
    <3>1. ASSUME NEW i \in Members
          PROVE  i \in DOMAIN b.vtxs /\ i + MinValidators \in DOMAIN b.vtxs
      BY <1>1, RdPoSAssumption DEF validateBlock, Members
    <3> QED
      BY <1>1, <3>1 DEF validateBlock, SealedBy, validateBlockTxSanityCheck
  <2>2. randomList = ShuffleOf[BlockRandomness(latest)]
    BY <1>0 DEF SInv, ListInv
  <2> QED
    BY <1>0, <1>1, <2>1, <2>2 DEF CurInv, Extends, FollowsLatest
<1> QED
  BY <1>2, <1>3, <1>4, <1>5, <1>6, <1>7 DEF SInv

LEMMA SeqElement ==
  ASSUME NEW s \in Seq(Tx), NEW i \in 1..Len(s)
  PROVE  /\ s[i] \in Tx /\ Len(s) \in Nat /\ DOMAIN s = 1..Len(s)
         /\ s[i].from \in Addr /\ s[i].to \in Addr /\ s[i].nonce \in Nat
         /\ s[i].value \in Nat /\ s[i].gas \in Nat /\ s[i].used \in Nat
         /\ s[i].used <= s[i].gas
<1>1. s[i] \in Tx /\ Len(s) \in Nat /\ DOMAIN s = 1..Len(s)
  OBVIOUS
<1>2. s[i] \in TxRecord /\ s[i].used <= s[i].gas
  BY <1>1, StateAssumption
<1> QED
  BY <1>1, <1>2 DEF TxRecord

(* What processTransaction checked before the execution covers the charge  *)
(* after it, whether or not the value was moved, even to the sender.       *)
LEMMA ChargeOnly ==
  ASSUME NEW bal \in [Addr -> Nat], NEW a \in Addr, NEW v \in Nat, NEW g \in Nat, NEW u \in Nat,
         u <= g, v + g <= bal[a]
  PROVE  [bal EXCEPT ![a] = @ - u] \in [Addr -> Nat]
<1>1. bal[a] \in Nat /\ bal[a] - u \in Nat
  OBVIOUS
<1> QED
  BY <1>1

LEMMA ChargeTransfer ==
  ASSUME NEW bal \in [Addr -> Nat], NEW a \in Addr, NEW b \in Addr,
         NEW v \in Nat, NEW g \in Nat, NEW u \in Nat, u <= g, v + g <= bal[a]
  PROVE  [[[bal EXCEPT ![a] = @ - v] EXCEPT ![b] = @ + v] EXCEPT ![a] = @ - u] \in [Addr -> Nat]
<1> DEFINE paid == [bal EXCEPT ![a] = @ - v]
           moved == [paid EXCEPT ![b] = @ + v]
<1>1. bal[a] - v \in Nat /\ u <= bal[a] - v
  OBVIOUS
<1>2. paid \in [Addr -> Nat] /\ u <= paid[a]
  BY <1>1
<1> HIDE DEF paid
<1>3. moved \in [Addr -> Nat] /\ 0 + u <= moved[a]
  BY <1>2
<1> HIDE DEF moved
<1>4. [moved EXCEPT ![a] = @ - u] \in [Addr -> Nat]
  BY <1>3, ChargeOnly
<1> QED
  BY <1>4 DEF moved, paid

LEMMA processTransactionInv ==
  ASSUME SInv, processTransaction
  PROVE  SInv'
<1> DEFINE t == ThisTx
           n == cur.next
           txs == cur.block.txs
<1>0. /\ cur.pc = "txs" /\ cur'.pc = "txs" /\ cur'.block = cur.block /\ cur'.next = n + 1
      /\ cur'.owner = cur.owner
      /\ UNCHANGED <<latest, blocksDb, randomList, validatorMempool, mempool, globals, adding,
                     ownCall, torn, overtaken>>
  BY DEF processTransaction, storageVars, rdposVars, Call
<1>1. /\ txs \in Seq(Tx) /\ Len(txs) \in Nat /\ n \in 1..Len(txs) /\ t = txs[n]
      /\ n \in Nat /\ n + 1 \in 1..(Len(txs) + 1)
  <2>1. txs \in Seq(Tx) /\ n \in 1..(Len(txs) + 1) /\ n <= Len(txs)
    BY DEF SInv, TypeOK, BlockOK, processTransaction
  <2>2. Len(txs) \in Nat
    BY <2>1
  <2>3. t = txs[n]
    BY DEF ThisTx
  <2> HIDE DEF txs, n, t
  <2> QED
    BY <2>1, <2>2, <2>3
<1>2. /\ t.from \in Addr /\ t.to \in Addr /\ t.value \in Nat /\ t.gas \in Nat /\ t.used \in Nat
      /\ t.used <= t.gas /\ t.nonce \in Nat /\ t \in Tx
  <2> HIDE DEF txs, n, t
  <2> QED
    BY <1>1, SeqElement, Zenon
<1>3. t.value + t.gas <= balance[t.from] /\ nonce[t.from] = t.nonce
  BY DEF processTransaction, Cost
<1>4. /\ nonce \in [Addr -> Nat] /\ balance \in [Addr -> Nat] /\ known \subseteq Addr
      /\ nonce' = [nonce EXCEPT ![t.from] = @ + 1] /\ known' = known \cup {t.from, t.to}
      /\ t.ok => balance' = [[[balance EXCEPT ![t.from] = @ - t.value]
                                EXCEPT ![t.to] = @ + t.value] EXCEPT ![t.from] = @ - t.used]
      /\ ~t.ok => balance' = [balance EXCEPT ![t.from] = @ - t.used]
  <2>1. nonce \in [Addr -> Nat] /\ balance \in [Addr -> Nat] /\ known \subseteq Addr
    BY DEF SInv, TypeOK
  <2>2. nonce' = [nonce EXCEPT ![t.from] = @ + 1] /\ known' = known \cup {t.from, t.to}
    BY Zenon DEF processTransaction, Execute
  <2>3. t.ok => balance' = [[[balance EXCEPT ![t.from] = @ - t.value]
                                EXCEPT ![t.to] = @ + t.value] EXCEPT ![t.from] = @ - t.used]
    BY Zenon DEF processTransaction, Execute
  <2>4. ~t.ok => balance' = [balance EXCEPT ![t.from] = @ - t.used]
    BY Zenon DEF processTransaction, Execute
  <2> QED
    BY <2>1, <2>2, <2>3, <2>4, Zenon
<1> HIDE DEF t
<1>5. balance' \in [Addr -> Nat]
  <2>1. CASE t.ok
    <3>1. [[[balance EXCEPT ![t.from] = @ - t.value] EXCEPT ![t.to] = @ + t.value]
              EXCEPT ![t.from] = @ - t.used] \in [Addr -> Nat]
      BY <1>2, <1>3, <1>4, ChargeTransfer, Zenon
    <3> QED
      BY <1>4, <2>1, <3>1, Zenon
  <2>2. CASE ~t.ok
    <3>1. [balance EXCEPT ![t.from] = @ - t.used] \in [Addr -> Nat]
      BY <1>2, <1>3, <1>4, ChargeOnly, Zenon
    <3> QED
      BY <1>4, <2>2, <3>1, Zenon
  <2> QED
    BY <2>1, <2>2
<1>6. TypeOK'
  <2>1. nonce' \in [Addr -> Nat] /\ known' \subseteq Addr
    BY <1>2, <1>4
  <2>2. cur'.next \in 1..(Len(cur'.block.txs) + 1)
    BY <1>0, <1>1
  <2> QED
    BY <1>0, <1>5, <2>1, <2>2 DEF SInv, TypeOK
<1>7. ASSUME NEW u \in Tx
      PROVE  /\ u.nonce < nonce[u.from] => u.nonce < nonce'[u.from] /\ ~SameSlot(t, u)
             /\ t.nonce < nonce'[t.from]
  <2>1. u \in TxRecord
    BY StateAssumption, Zenon
  <2>2. u.from \in Addr /\ u.nonce \in Nat
    BY <2>1 DEF TxRecord
  <2> QED
    BY <1>2, <1>3, <1>4, <2>2 DEF SameSlot
<1>8. ASSUME NEW h \in DOMAIN blocksDb, NEW j \in DOMAIN blocksDb[h].txs
      PROVE  /\ blocksDb[h].txs[j] \in Tx
             /\ blocksDb[h].txs[j].nonce < nonce[blocksDb[h].txs[j].from]
  <2>1. blocksDb[h].txs \in Seq(Tx)
    BY DEF SInv, TypeOK, BlockOK
  <2>2. blocksDb[h].txs[j] \in Tx
    BY <2>1
  <2> QED
    BY <2>2 DEF SInv, NoReplay
<1>9. ChainLinked' /\ ChainSealed'
  BY <1>0 DEF SInv, ChainLinked, ChainSealed
<1>10. CurInv' /\ ListInv' /\ VMempoolInv' /\ MempoolInv'
  BY <1>0, SMTT(30) DEF SInv, CurInv, ListInv, VMempoolInv, MempoolInv
<1>11. NoReplay'
  <2>1. \A h \in DOMAIN blocksDb : \A j \in DOMAIN blocksDb[h].txs :
           blocksDb[h].txs[j].nonce < nonce'[blocksDb[h].txs[j].from]
    BY <1>7, <1>8, Zenon
  <2> QED
    BY <1>0, <2>1 DEF SInv, NoReplay
<1>12. DoneInv'
  <2>1. Done = 1..(n - 1) /\ \A i \in Done' : i \in Done \/ i = n
    BY <1>0, <1>1 DEF Done
  <2>2. ASSUME NEW i \in Done
        PROVE  txs[i] \in Tx /\ txs[i].nonce < nonce[txs[i].from] /\ ~SameSlot(t, txs[i])
    <3>1. i \in 1..Len(txs)
      BY <1>1, <2>1
    <3>2. txs[i] \in Tx
      BY <1>1, <3>1
    <3>3. txs[i].nonce < nonce[txs[i].from]
      BY DEF SInv, DoneInv
    <3> QED
      BY <1>7, <3>2, <3>3, Zenon
  <2> HIDE DEF txs, n
  <2>3. ASSUME NEW i \in Done'
        PROVE  txs[i].nonce < nonce'[txs[i].from]
    BY <1>1, <1>2, <1>7, <2>1, <2>2, Zenon
  <2>4. ASSUME NEW i \in Done', NEW j \in Done', SameSlot(txs[i], txs[j])
        PROVE  i = j
    <3>1. \A k, l \in Done : SameSlot(txs[k], txs[l]) => k = l
      BY Zenon DEF SInv, DoneInv, txs
    <3>2. \A k \in Done : ~SameSlot(txs[n], txs[k]) /\ ~SameSlot(txs[k], txs[n])
      BY <1>1, <2>2, Zenon DEF SameSlot
    <3> QED
      BY <2>1, <2>4, <3>1, <3>2, Zenon
  <2>5. ASSUME NEW i \in Done', NEW h \in DOMAIN blocksDb, NEW j \in DOMAIN blocksDb[h].txs
        PROVE  ~SameSlot(txs[i], blocksDb[h].txs[j])
    <3>1. CASE i \in Done
      BY <3>1, Zenon DEF SInv, DoneInv, txs
    <3>2. CASE i = n
      BY <1>1, <1>7, <1>8, <3>2, Zenon
    <3> QED
      BY <2>1, <3>1, <3>2, Zenon
  <2>6. cur'.block.txs = txs /\ blocksDb' = blocksDb
    BY <1>0 DEF txs
  <2> QED
    BY <2>3, <2>4, <2>5, <2>6, Zenon DEF DoneInv
<1> QED
  BY <1>6, <1>9, <1>10, <1>11, <1>12 DEF SInv

LEMMA processTransactionThrowsInv ==
  ASSUME SInv, processTransactionThrows
  PROVE  SInv'
<1>0. /\ cur.pc = "txs" /\ cur'.pc = "idle" /\ cur'.block = Genesis /\ cur'.next = 1
      /\ cur'.owner = "net" /\ known' = known \cup {ThisTx.from} /\ torn' = TRUE /\ overtaken' = overtaken
      /\ ownCall' \in {ownCall, "threw"}
      /\ UNCHANGED <<latest, blocksDb, randomList, validatorMempool, balance, nonce, mempool,
                     globals, adding>>
  BY DEF processTransactionThrows, storageVars, rdposVars, Idle, Call
<1>1. TypeOK'
  <2>1. ThisTx.from \in Addr
    <3>1. cur.block.txs \in Seq(Tx) /\ cur.next \in 1..Len(cur.block.txs)
      BY DEF SInv, TypeOK, BlockOK, processTransactionThrows
    <3> QED
      BY <3>1, SeqElement, Zenon DEF ThisTx
  <2>2. cur'.next \in 1..(Len(cur'.block.txs) + 1)
    BY <1>0, GenesisAssumption
  <2> QED
    BY <1>0, <2>1, <2>2, GenesisOK DEF SInv, TypeOK
<1>2. ChainLinked'
  BY <1>0 DEF SInv, ChainLinked
<1>3. ChainSealed' /\ NoReplay'
  BY <1>0 DEF SInv, ChainSealed, NoReplay
<1>4. CurInv' /\ ListInv' /\ VMempoolInv'
  BY <1>0 DEF SInv, CurInv, ListInv, VMempoolInv
<1>5. DoneInv' /\ MempoolInv'
  BY <1>0 DEF DoneInv, Done, MempoolInv
<1> QED
  BY <1>1, <1>2, <1>3, <1>4, <1>5 DEF SInv
=============================================================================

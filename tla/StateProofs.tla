---------------------------- MODULE StateProofs -----------------------------
(***************************************************************************)
(* SInv is kept by the steps that publish a block and by the blocks that   *)
(* arrive from peers, hence by every step of the State.                    *)
(***************************************************************************)
EXTENDS StateTxProofs

LEMMA FinishTxsInv ==
  ASSUME SInv, FinishTxs
  PROVE  SInv'
<1>0. /\ cur.pc = "txs" /\ cur'.pc = "push" /\ cur'.block = cur.block /\ cur'.next = cur.next
      /\ cur'.owner = cur.owner
      /\ randomList' = ShuffleOf[BlockRandomness(cur.block)] /\ validatorMempool' = {}
      /\ UNCHANGED <<latest, blocksDb, balance, nonce, known, globals, adding, ownCall, torn, overtaken>>
  BY DEF FinishTxs, storageVars, accountVars, processBlock, Call
<1>1. mempool' \subseteq mempool /\ \A t \in mempool' : isTxStatusValid(AccountStatus(t))
  BY Zenon DEF FinishTxs, refreshMempool
<1>2. TypeOK'
  <2>1. randomList' \in Orders
    BY <1>0, RdPoSAssumption DEF SInv, TypeOK, BlockOK
  <2> QED
    BY <1>0, <1>1, <2>1 DEF SInv, TypeOK
<1>3. cur.next = Len(cur.block.txs) + 1
  <2>1. cur.block.txs \in Seq(Tx) /\ cur.next \in 1..(Len(cur.block.txs) + 1)
    BY DEF SInv, TypeOK, BlockOK
  <2>2. cur.next > Len(cur.block.txs)
    BY DEF FinishTxs
  <2> QED
    BY <2>1, <2>2
<1>4. ChainLinked'
  BY <1>0 DEF SInv, ChainLinked
<1>5. ChainSealed' /\ NoReplay'
  BY <1>0 DEF SInv, ChainSealed, NoReplay
<1>6. CurInv' /\ ListInv' /\ VMempoolInv'
  BY <1>0, <1>3 DEF SInv, CurInv, ListInv, VMempoolInv
<1>7. DoneInv'
  BY <1>0 DEF SInv, DoneInv, Done
<1>8. MempoolInv'
  <2>1. \A t : AccountStatus(t)' = AccountStatus(t)
    BY <1>0 DEF AccountStatus
  <2> QED
    BY <1>1, <2>1 DEF MempoolInv, isTxStatusValid, AccountStatus
<1> QED
  BY <1>2, <1>4, <1>5, <1>6, <1>7, <1>8 DEF SInv

LEMMA PublishBlockInv ==
  ASSUME SInv, PublishBlock
  PROVE  SInv'
<1>0. /\ cur.pc = "push" /\ cur'.pc = "store" /\ cur'.block = cur.block /\ cur'.next = cur.next
      /\ cur'.owner = cur.owner /\ latest' = cur.block
      /\ UNCHANGED <<blocksDb, randomList, validatorMempool, balance, nonce, known, mempool,
                     globals, adding, ownCall, torn, overtaken>>
  BY DEF PublishBlock, rdposVars, accountVars, PushLatest, Call
<1>1. TypeOK'
  BY <1>0 DEF SInv, TypeOK
<1>2. latest.height \in Nat /\ latest'.height = latest.height + 1
      /\ blocksDb[latest.height] = latest /\ latest'.height - 1 = latest.height
  <2>1. latest.height \in Nat
    BY DEF SInv, TypeOK, BlockOK
  <2>2. latest'.height = latest.height + 1
    BY <1>0 DEF SInv, CurInv, Extends
  <2>3. blocksDb[latest.height] = latest
    BY <1>0 DEF SInv, ChainLinked
  <2> QED
    BY <2>1, <2>2, <2>3
<1>3. ChainLinked'
  BY <1>0, <1>2 DEF SInv, ChainLinked
<1>4. ChainSealed' /\ NoReplay'
  BY <1>0 DEF SInv, ChainSealed, NoReplay
<1>5. CurInv'
  BY <1>0, <1>2 DEF SInv, CurInv, Extends
<1>6. ListInv' /\ VMempoolInv' /\ DoneInv'
  BY <1>0 DEF SInv, ListInv, VMempoolInv, DoneInv, Done
<1>7. MempoolInv'
  BY <1>0, SameMempool
<1> QED
  BY <1>1, <1>3, <1>4, <1>5, <1>6, <1>7 DEF SInv

(* The height that pushBlock writes is the first one missing.              *)
LEMMA WriteBlockDb ==
  ASSUME SInv, WriteBlock
  PROVE  /\ latest.height \in Nat \ {0} /\ cur.block = latest
         /\ DOMAIN blocksDb = 0..(latest.height - 1)
         /\ DOMAIN blocksDb' = 0..latest.height
         /\ blocksDb'[latest.height] = latest
         /\ \A h \in DOMAIN blocksDb : h # latest.height /\ blocksDb'[h] = blocksDb[h]
<1>1. cur.pc = "store" /\ cur.block = latest /\ latest.height \in Nat \ {0}
      /\ DOMAIN blocksDb = 0..(latest.height - 1)
  BY DEF SInv, WriteBlock, CurInv, TypeOK, BlockOK, ChainLinked
<1>2. DOMAIN blocksDb \cup {latest.height} = 0..latest.height
  BY <1>1
<1> QED
  BY <1>1, <1>2 DEF WriteBlock, StoreBlock

LEMMA WriteBlockInv ==
  ASSUME SInv, WriteBlock
  PROVE  SInv'
<1> DEFINE H == latest.height
<1>0. /\ cur.pc = "store" /\ cur'.pc = "idle" /\ cur'.block = Genesis /\ cur'.next = 1
      /\ cur'.owner = "net" /\ ownCall' \in {ownCall, "valid"}
      /\ UNCHANGED <<latest, randomList, validatorMempool, balance, nonce, known, mempool,
                     globals, adding, torn, overtaken>>
  BY DEF WriteBlock, rdposVars, accountVars, Idle, Call, StoreBlock
<1>1. \A h \in DOMAIN blocksDb' : h \in Nat /\ (h \in DOMAIN blocksDb \/ h = H)
  BY WriteBlockDb
<1>2. TypeOK'
  <2>1. cur'.next \in 1..(Len(cur'.block.txs) + 1)
    BY <1>0, GenesisAssumption
  <2>2. \A h \in DOMAIN blocksDb' : h \in Nat /\ BlockOK(blocksDb'[h])
    BY <1>1, WriteBlockDb, Zenon DEF SInv, TypeOK
  <2> QED
    BY <1>0, <2>1, <2>2, GenesisOK DEF SInv, TypeOK
<1>3. ChainLinked' /\ ChainSealed'
  <2>1. ASSUME NEW h \in DOMAIN blocksDb' \ {0}
        PROVE  Extends(blocksDb'[h], blocksDb'[h - 1]) /\ blocksDb'[h].height = h
    <3>1. CASE h = H
      <4>1. H - 1 \in DOMAIN blocksDb
        BY WriteBlockDb
      <4> QED
        BY <1>0, <3>1, <4>1, WriteBlockDb, Zenon DEF SInv, CurInv
    <3>2. CASE h # H
      <4>1. h \in DOMAIN blocksDb \ {0} /\ h - 1 \in DOMAIN blocksDb /\ h \in Nat
        BY <3>2, WriteBlockDb
      <4>2. blocksDb[h].height = h /\ blocksDb[h - 1].height = h - 1
        <5>1. CASE h = 1
          BY <4>1, <5>1, GenesisAssumption DEF SInv, ChainLinked
        <5>2. CASE h # 1
          BY <4>1, <5>2 DEF SInv, ChainLinked
        <5> QED
          BY <5>1, <5>2
      <4>3. Extends(blocksDb[h], blocksDb[h - 1])
        BY <4>1, <4>2 DEF SInv, ChainLinked, ChainSealed, Extends
      <4> QED
        BY <4>1, <4>2, <4>3, WriteBlockDb, Zenon
    <3> QED
      BY <3>1, <3>2
  <2>2. DOMAIN blocksDb' = 0..latest'.height /\ blocksDb'[latest'.height] = latest'
    BY <1>0, WriteBlockDb
  <2>3. blocksDb'[0] = Genesis
    BY WriteBlockDb DEF SInv, ChainLinked
  <2> QED
    BY <1>0, <2>1, <2>2, <2>3, SMTT(30) DEF ChainLinked, ChainSealed, Extends
<1>4. NoReplay'
  <2>1. DOMAIN latest.txs = Done /\ cur.block.txs = latest.txs
    <3>1. cur.block.txs = latest.txs
      BY <1>0, WriteBlockDb DEF SInv, CurInv
    <3>2. cur.block.txs \in Seq(Tx) /\ cur.next = Len(cur.block.txs) + 1
      BY <1>0 DEF SInv, CurInv, TypeOK, BlockOK
    <3> QED
      BY <1>0, <3>1, <3>2 DEF Done
  <2>2. /\ \A i \in DOMAIN latest.txs : latest.txs[i].nonce < nonce[latest.txs[i].from]
        /\ \A i, j \in DOMAIN latest.txs : SameSlot(latest.txs[i], latest.txs[j]) => i = j
    BY <2>1, Zenon DEF SInv, DoneInv
  <2>3. ASSUME NEW i \in DOMAIN latest.txs, NEW h \in DOMAIN blocksDb,
               NEW j \in DOMAIN blocksDb[h].txs
        PROVE  /\ ~SameSlot(latest.txs[i], blocksDb[h].txs[j])
               /\ ~SameSlot(blocksDb[h].txs[j], latest.txs[i])
    <3>1. ~SameSlot(cur.block.txs[i], blocksDb[h].txs[j])
      BY <2>1, Zenon DEF SInv, DoneInv
    <3> QED
      BY <2>1, <3>1, Zenon DEF SameSlot
  <2>4. ASSUME NEW h \in DOMAIN blocksDb', NEW i \in DOMAIN blocksDb'[h].txs
        PROVE  blocksDb'[h].txs[i].nonce < nonce[blocksDb'[h].txs[i].from]
    <3>1. CASE h = H
      BY <2>2, <3>1, WriteBlockDb, Zenon
    <3>2. CASE h \in DOMAIN blocksDb
      BY <3>2, WriteBlockDb, Zenon DEF SInv, NoReplay
    <3> QED
      BY <1>1, <3>1, <3>2, Zenon
  <2>5. ASSUME NEW g \in DOMAIN blocksDb', NEW h \in DOMAIN blocksDb',
               NEW i \in DOMAIN blocksDb'[g].txs, NEW j \in DOMAIN blocksDb'[h].txs,
               SameSlot(blocksDb'[g].txs[i], blocksDb'[h].txs[j])
        PROVE  g = h /\ i = j
    <3>1. CASE g = H /\ h = H
      BY <2>2, <2>5, <3>1, WriteBlockDb, Zenon
    <3>2. CASE g = H /\ h \in DOMAIN blocksDb
      BY <2>3, <2>5, <3>2, WriteBlockDb, Zenon
    <3>3. CASE g \in DOMAIN blocksDb /\ h = H
      BY <2>3, <2>5, <3>3, WriteBlockDb, Zenon
    <3>4. CASE g \in DOMAIN blocksDb /\ h \in DOMAIN blocksDb
      <4>1. \A x \in DOMAIN blocksDb[g].txs, y \in DOMAIN blocksDb[h].txs :
               SameSlot(blocksDb[g].txs[x], blocksDb[h].txs[y]) => g = h /\ x = y
        BY <3>4, Zenon DEF SInv, NoReplay, SameSlot
      <4> QED
        BY <2>5, <3>4, <4>1, WriteBlockDb, Zenon
    <3> QED
      BY <1>1, <3>1, <3>2, <3>3, <3>4, Zenon
  <2> QED
    BY <1>0, <2>4, <2>5, Zenon DEF NoReplay, SameSlot
<1>5. CurInv' /\ VMempoolInv'
  BY <1>0 DEF SInv, CurInv, VMempoolInv
<1>6. ListInv'
  BY <1>0, WriteBlockDb DEF SInv, ListInv
<1>7. DoneInv' /\ MempoolInv'
  BY <1>0, SameMempool DEF DoneInv, Done
<1> QED
  BY <1>2, <1>3, <1>4, <1>5, <1>6, <1>7 DEF SInv

-----------------------------------------------------------------------------
(* Committee transactions carry the revealed seeds as their randomness.    *)
LEMMA CommitteeRandomness ==
  ASSUME NEW b, NEW list, NEW h, NEW c, NEW r \in [Members -> Seeds],
         NEW vtxs, vtxs = CommitteeTxs(list, h, c, r), b.vtxs = vtxs
  PROVE  BlockRandomness(b) \in Randomness
<1>1. /\ DOMAIN vtxs = 1..(2 * MinValidators) /\ MinValidators \in Nat \ {0}
      /\ b.vtxs # <<>>
  <2>1. MinValidators \in Nat \ {0}
    BY RdPoSAssumption
  <2>2. DOMAIN vtxs = 1..(2 * MinValidators)
    BY Zenon DEF CommitteeTxs
  <2>3. 1 \in DOMAIN vtxs
    BY <2>1, <2>2
  <2> QED
    BY <2>1, <2>2, <2>3
<1>2. ASSUME NEW i \in Members
      PROVE  b.vtxs[i + MinValidators].data = r[i]
  <2>1. /\ i + MinValidators \in 1..(2 * MinValidators) /\ i + MinValidators \notin Members
        /\ i + MinValidators - MinValidators = i
    BY <1>1 DEF Members
  <2>2. ASSUME NEW k \in 1..(2 * MinValidators), k \notin Members
        PROVE  vtxs[k].data = r[k - MinValidators]
    <3>1. vtxs[k] = VTx(list[k - MinValidators + 1], "randomSeed", r[k - MinValidators], h)
      BY <2>2, Zenon DEF CommitteeTxs
    <3> QED
      BY <3>1 DEF VTx
  <2>3. vtxs[i + MinValidators].data = r[i]
    <3> DEFINE k == i + MinValidators
    <3>1. k \in 1..(2 * MinValidators) /\ k \notin Members /\ k - MinValidators = i
      BY <1>1 DEF Members
    <3> HIDE DEF k
    <3>2. vtxs[k].data = r[i]
      BY <2>2, <3>1
    <3> QED
      BY <3>2 DEF k
  <2> QED
    BY <1>1, <2>1, <2>3
<1>3. BlockRandomness(b) = [i \in Members |-> r[i]]
  BY <1>1, <1>2 DEF BlockRandomness
<1> QED
  BY <1>3 DEF Randomness

LEMMA PeerBlockShape ==
  ASSUME NEW txs, NEW ts, NEW r \in [Members -> Seeds], NEW b \in PeerBlocks(txs, ts, r)
  PROVE  \E prev, k, creator, list, h, c :
            /\ k \in {latest.height + 1, latest.height + 1 + 1}
            /\ b = NewBlock(prev, k, ts, txs, creator, CommitteeTxs(list, h, c, r))
BY DEF PeerBlocks

LEMMA ImportBlockInv ==
  ASSUME SInv, ImportBlock
  PROVE  SInv'
<1>1. PICK txs \in NetTxSeqs, ts \in 0..MaxTime, r \in [Members -> Seeds] :
         \E b \in PeerBlocks(txs, ts, r) \cup StoredBlocks : BeginBlock(b, "net")
  BY Zenon DEF ImportBlock
<1>2. PICK b \in PeerBlocks(txs, ts, r) \cup StoredBlocks : BeginBlock(b, "net")
  BY <1>1
<1>3. CASE b \in StoredBlocks
  <2>1. BlockOK(b)
    BY <1>3, Zenon DEF StoredBlocks, SInv, TypeOK
  <2> QED
    BY <1>2, <2>1, BeginBlockInv
<1>4. CASE b \in PeerBlocks(txs, ts, r)
  <2>1. PICK prev, k, creator, list, h, c :
           /\ k \in {latest.height + 1, latest.height + 1 + 1}
           /\ b = NewBlock(prev, k, ts, txs, creator, CommitteeTxs(list, h, c, r))
    BY <1>4, PeerBlockShape
  <2>2. /\ b.height = k /\ b.ts = ts /\ b.txs = txs
        /\ b.vtxs = CommitteeTxs(list, h, c, r)
    BY <2>1 DEF NewBlock
  <2>3. k \in Nat
    BY <2>1 DEF SInv, TypeOK, BlockOK
  <2>4. txs \in Seq(Tx) /\ ts \in Nat
    BY StateAssumption
  <2>5. BlockRandomness(b) \in Randomness
    BY <2>2, CommitteeRandomness
  <2> QED
    BY <1>2, <2>2, <2>3, <2>4, <2>5, BeginBlockInv DEF BlockOK
<1> QED
  BY <1>2, <1>3, <1>4

LEMMA StateStepInv ==
  ASSUME SInv, [StateStep]_allStateVars
  PROVE  SInv'
<1>1. CASE UNCHANGED allStateVars
  <2>1. (ChainLinked /\ ChainSealed /\ NoReplay /\ CurInv /\ ListInv /\ DoneInv)'
    BY <1>1, ChainUnchanged, Zenon DEF allStateVars, storageVars, rdposVars, stateVars
  <2>2. TypeOK' /\ VMempoolInv' /\ MempoolInv'
    <3>1. TypeOK'
      BY <1>1, SMTT(30) DEF SInv, TypeOK, allStateVars, storageVars, rdposVars, stateVars
    <3>2. VMempoolInv' /\ MempoolInv'
      BY <1>1, SMTT(30) DEF SInv, VMempoolInv, MempoolInv, AccountStatus,
                  allStateVars, storageVars, rdposVars, stateVars
    <3> QED
      BY <3>1, <3>2
  <2> QED
    BY <2>1, <2>2 DEF SInv
<1> QED
  BY <1>1, AddTxValidateInv, AddTxInsertInv, addValidatorTxInv, ImportBlockInv,
     processTransactionInv, processTransactionThrowsInv, FinishTxsInv, PublishBlockInv,
     WriteBlockInv DEF StateStep
=============================================================================

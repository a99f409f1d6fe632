----------------------------- MODULE Consensus -----------------------------
(***************************************************************************)
(* The block producer of a node (Consensus::validatorLoop of               *)
(* core/consensus.cpp) over its State: a thread that holds the keys of     *)
(* MyKeys and, again and again, reads the latest block without a lock,     *)
(* then the random list, waits for a transaction, builds a block from a    *)
(* copy of the mempool and has the State process it.  An exception ends    *)
(* the thread ("threw"), a stop request ends it at its next check          *)
(* ("returned").                                                           *)
(***************************************************************************)
EXTENDS State

CONSTANT MyKeys             \* validators whose keys this node holds

ASSUME ConsensusAssumption == MyKeys \subseteq Validators

VARIABLES prod,             \* the thread: pc and the locals base, list, block
          stopConsensus     \* Consensus::stopConsensus_

producerVars == <<prod, stopConsensus>>
vars == <<storageVars, rdposVars, stateVars, prod, stopConsensus>>

Prod(pc, base, list, block) == [pc |-> pc, base |-> base, list |-> list, block |-> block]

(* Without extra validators validatorLoop returns at once.                 *)
Init ==
    /\ StateInit
    /\ prod = Prod(IF Cardinality(MyKeys) > 1 THEN "loop" ELSE "returned", Genesis, <<>>, Genesis)
    /\ stopConsensus = FALSE

Goto(pc) == prod' = Prod(pc, prod.base, prod.list, prod.block)
OnlyProducer == UNCHANGED <<storageVars, rdposVars, stateVars, stopConsensus>>

(* The head of the loop: storage_.latest() takes no lock.                  *)
ReadLatest ==
    /\ prod.pc = "loop" /\ ~stopConsensus
    /\ prod' = Prod("list", latest, <<>>, Genesis)
    /\ OnlyProducer

(* rdposGetRandomList takes the shared lock; the creator's and the         *)
(* committee's keys must be this node's.                                   *)
ReadRandomList ==
    /\ prod.pc = "list" /\ Unlocked
    /\ IF \A i \in 1..(MinValidators + 1) : randomList[i] \in MyKeys
       THEN prod' = Prod("mempool", prod.base, randomList, Genesis)
       ELSE Goto("threw")
    /\ OnlyProducer

WaitMempool_Two ==
    /\ prod.pc = "mempool" /\ Unlocked
    /\ Cardinality(mempool) > 1
    /\ Goto("build")
    /\ OnlyProducer

WaitMempool ==
    /\ prod.pc = "mempool" /\ Unlocked
    /\ mempool # {}
    /\ Goto("build")
    /\ OnlyProducer

(* The loop that waits for a transaction looks at stopConsensus_ only      *)
(* after it has found the mempool empty.                                   *)
MempoolEmpty ==
    /\ prod.pc = "mempool" /\ Unlocked
    /\ mempool = {}
    /\ Goto("empty")
    /\ OnlyProducer

LookAgain ==
    /\ prod.pc = "empty" /\ ~stopConsensus
    /\ Goto("mempool")
    /\ OnlyProducer

(* One transaction per sender, one with the greatest fee, in any order:    *)
(* the filter iterates over an unordered map.                              *)
FilteredMempool ==
    {s \in UNION {[1..n -> mempool] : n \in 0..Cardinality(mempool)} :
        /\ \A t \in mempool : \E i \in DOMAIN s : s[i].from = t.from
        /\ \A i, j \in DOMAIN s : s[i].from = s[j].from => i = j
        /\ \A i \in DOMAIN s : \A t \in mempool : t.from = s[i].from => t.fee <= s[i].fee}

BlockTime_Clock(now) == now
BlockTime(now) == IF now > prod.base.ts THEN now ELSE prod.base.ts

(* getMempool (shared lock), the clock, which may say anything, and        *)
(* createNewValidBlock with fresh seeds.                                   *)
BuildBlock ==
    /\ prod.pc = "build" /\ Unlocked
    /\ \E txs \in FilteredMempool, now \in 0..MaxTime, r \in [Members -> Seeds] :
          prod' = Prod("try", prod.base, <<>>,
              NewBlock(BlockHash(prod.base), prod.base.height + 1, BlockTime(now), txs,
                  prod.list[1], CommitteeTxs(prod.list, prod.base.height + 1, r, r)))
    /\ OnlyProducer

TryProcess ==
    /\ prod.pc = "try"
    /\ BeginBlock(prod.block, "producer")
    /\ Goto("running")
    /\ UNCHANGED stopConsensus

TryProcessInvalid ==
    /\ prod.pc = "try" /\ Unlocked
    /\ validateNextBlockInternal(prod.block) # "valid"
    /\ Goto("threw")
    /\ OnlyProducer

(* tryProcessNextBlock returned or threw; the block must be the latest one *)
(* and is broadcast.                                                       *)
CheckAndBroadcast ==
    /\ prod.pc = "running" /\ ownCall \in {"valid", "threw"}
    /\ \/ ownCall = "threw" /\ Goto("threw")
       \/ ownCall = "valid" /\ ~stopConsensus /\ BlockHash(latest) # BlockHash(prod.block)
          /\ Goto("threw")
       \/ ownCall = "valid" /\ ~stopConsensus /\ BlockHash(latest) = BlockHash(prod.block)
          /\ prod' = Prod("wait", prod.base, <<>>, Genesis)
    /\ OnlyProducer

WaitNextHeight ==
    /\ prod.pc = "wait"
    /\ latest.height # prod.base.height
    /\ prod' = Prod("loop", Genesis, <<>>, Genesis)
    /\ OnlyProducer

(* The checks of stopConsensus_ in the loops and around the broadcast.     *)
ProducerReturns ==
    /\ stopConsensus
    /\ \/ prod.pc \in {"loop", "empty", "wait"}
       \/ prod.pc = "running" /\ ownCall = "valid"
    /\ Goto("returned")
    /\ OnlyProducer

Stop ==
    /\ ~stopConsensus
    /\ stopConsensus' = TRUE
    /\ UNCHANGED <<storageVars, rdposVars, stateVars, prod>>

ProducerStep ==
    \/ ReadLatest
    \/ ReadRandomList
    \/ WaitMempool
    \/ MempoolEmpty
    \/ LookAgain
    \/ BuildBlock
    \/ TryProcess
    \/ TryProcessInvalid
    \/ CheckAndBroadcast
    \/ WaitNextHeight
    \/ ProducerReturns

ProcessingStep ==
    processTransaction \/ processTransactionThrows \/ FinishTxs \/ PublishBlock \/ WriteBlock

Next ==
    \/ StateStep /\ UNCHANGED producerVars
    \/ ProducerStep
    \/ Stop

Spec == Init /\ [][Next]_vars

(* The thread that holds the lock runs on, and so does the producer unless *)
(* it waits for a transaction; the environment need not do anything.       *)
FairSpec ==
    /\ Spec
    /\ WF_vars(ProcessingStep /\ UNCHANGED producerVars)
    /\ WF_vars(ProducerStep)

-----------------------------------------------------------------------------
(* A stored block is never replaced or removed, whichever of the producer  *)
(* and the importers wins the race for a height.                           *)
StoredForever ==
    [][\A h \in DOMAIN blocksDb : h \in DOMAIN blocksDb' /\ blocksDb'[h] = blocksDb[h]]_vars

(* The filter of one transaction per sender is there because otherwise "we *)
(* will have a nonce mismatch": the block that the producer builds from    *)
(* its mempool is processed, and the thread survives.                      *)
ProducerNeverThrows == prod.pc # "threw"

(* A producer with all keys, whose node gets no block from elsewhere, is   *)
(* ended only by its own addTx: when that inserted a transaction after a   *)
(* block had made it invalid.  Rival transactions, the clock, several      *)
(* threads in addTx and a stop request do not end it otherwise.            *)
ThrowsOnlyWhenOvertaken == prod.pc = "threw" => overtaken

(* A transaction of the mempool is eventually executed or dropped, unless  *)
(* the producer was told to stop or addTx inserted a transaction after a   *)
(* block had made it invalid: nothing else leaves it waiting forever.      *)
MempoolDrains == \A t \in Tx : t \in mempool ~> (t \notin mempool \/ stopConsensus \/ overtaken)
=============================================================================

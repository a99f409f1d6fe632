------------------------------ MODULE Storage ------------------------------
(***************************************************************************)
(* The block store of a node (core/storage.cpp) and the blocks it holds    *)
(* (utils/finalizedblock.cpp).                                             *)
(*                                                                         *)
(* A block is a record [prev, height, ts, creator, vtxs, txs]; its Merkle  *)
(* roots and randomness are functions of vtxs and txs.  sha3 is collision  *)
(* free: the hash of a block is the header it is computed from, which does *)
(* not include the creator's signature.                                    *)
(***************************************************************************)
EXTENDS Integers, Sequences

CONSTANT Genesis            \* the genesis block of Options

VARIABLES latest,           \* Storage::latest_, an atomic pointer read without any lock
          blocksDb          \* Storage::blocksDb_, height -> block

storageVars == <<latest, blocksDb>>

BlockHash(b) ==
    [prev |-> b.prev, vtxs |-> b.vtxs, txs |-> b.txs, ts |-> b.ts, height |-> b.height]

ASSUME GenesisAssumption ==
    /\ Genesis.height = 0 /\ Genesis.ts \in Nat
    /\ Genesis.vtxs = <<>> /\ Genesis.txs = <<>>

StorageInit ==
    /\ latest = Genesis
    /\ blocksDb = [h \in {0} |-> Genesis]

(* pushBlock publishes the block in latest_ first ...                      *)
PushLatest(b) ==
    /\ BlockHash(latest) = b.prev
    /\ latest' = b
    /\ UNCHANGED blocksDb

StoreBlock_PreviousHeight(b) ==
    /\ blocksDb' = [blocksDb EXCEPT ![b.height - 1] = b]
    /\ UNCHANGED latest

(* ... and writes it to the database afterwards.                           *)
StoreBlock(b) ==
    /\ blocksDb' = [h \in DOMAIN blocksDb \cup {b.height} |->
                       IF h = b.height THEN b ELSE blocksDb[h]]
    /\ UNCHANGED latest
=============================================================================

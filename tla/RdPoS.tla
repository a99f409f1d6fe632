------------------------------- MODULE RdPoS -------------------------------
(***************************************************************************)
(* The rdPoS contract of a node (core/rdpos.cpp): the random list that     *)
(* names the creator of the next block and its committee, the mempool of   *)
(* validator transactions, and the rdPoS part of block validation.         *)
(*                                                                         *)
(* A validator transaction is a record [from, functor, size, data, height] *)
(* where size is the length of its calldata and data the seed, or the sha3 *)
(* of a seed, that follows the functor.  RandomGen::shuffle of the sorted  *)
(* validators is the constant function ShuffleOf of the block randomness.  *)
(***************************************************************************)
EXTENDS Storage, FiniteSets

CONSTANTS Validators, Seeds, MinValidators,
          ShuffleOf         \* randomness -> order of the validators

VARIABLES randomList,       \* rdPoS::randomList_; [0] of the code is [1] here
          validatorMempool  \* rdPoS::validatorMempool_

rdposVars == <<randomList, validatorMempool>>

Members == 1..MinValidators
Sha3(s) == [preimage |-> s]
Functors == {"randomHash", "randomSeed", "other"}
Randomness == {<<>>} \cup [Members -> Seeds]
Orders == {l \in [1..Cardinality(Validators) -> Validators] :
              \A v \in Validators : \E i \in DOMAIN l : l[i] = v}

ASSUME RdPoSAssumption ==
    /\ IsFiniteSet(Validators)
    /\ MinValidators \in Nat \ {0}
    /\ MinValidators < Cardinality(Validators)
    /\ ShuffleOf \in [Randomness -> Orders]

(* The seeds that the committee reveals, hashed in committee order; a      *)
(* block without validator transactions (genesis) has the zero randomness. *)
BlockRandomness(b) ==
    IF b.vtxs = <<>> THEN <<>> ELSE [i \in Members |-> b.vtxs[i + MinValidators].data]

RdPoSInit ==
    /\ randomList = ShuffleOf[BlockRandomness(Genesis)]
    /\ validatorMempool = {}

getTxValidatorFunction(tx) ==
    IF tx.size # 36 \/ tx.functor = "other" THEN "INVALID" ELSE tx.functor

SanityCheck_AnySeed(hashTx, seedTx) ==
    /\ getTxValidatorFunction(hashTx) = "randomHash"
    /\ getTxValidatorFunction(seedTx) = "randomSeed"

validateBlockTxSanityCheck(hashTx, seedTx) ==
    /\ getTxValidatorFunction(hashTx) = "randomHash"
    /\ getTxValidatorFunction(seedTx) = "randomSeed"
    /\ hashTx.from = seedTx.from
    /\ hashTx.data = Sha3(seedTx.data)

validateBlock(b) ==
    /\ b.creator = randomList[1]
    /\ Len(b.vtxs) = 2 * MinValidators
    /\ \A i \in DOMAIN b.vtxs : b.vtxs[i].height = b.height
    /\ \A i \in Members :
          /\ b.vtxs[i].from = randomList[i + 1]
          /\ b.vtxs[i + MinValidators].from = randomList[i + 1]
    /\ \A i \in Members : validateBlockTxSanityCheck(b.vtxs[i], b.vtxs[i + MinValidators])

processBlock_StaleSeed(b) ==
    /\ validatorMempool' = {}
    /\ randomList' = ShuffleOf[BlockRandomness(latest)]

processBlock(b) ==
    /\ validatorMempool' = {}
    /\ randomList' = ShuffleOf[BlockRandomness(b)]

addValidatorTxStatus_AnyFunctor(tx) ==
    IF \/ tx \in validatorMempool \/ tx.height # latest.height + 1
       \/ \A i \in Members : tx.from # randomList[i + 1]
       \/ Cardinality({t \in validatorMempool : t.from = tx.from}) > 1
    THEN "InvalidUnexpected" ELSE "ValidNew"

(* One transaction per functor and two per committee member, for the next  *)
(* height only.                                                            *)
addValidatorTxStatus(tx) ==
    LET own == {t \in validatorMempool : t.from = tx.from}
    IN  IF tx \in validatorMempool THEN "ValidExisting"
        ELSE IF \/ tx.height # latest.height + 1
                \/ \A i \in Members : tx.from # randomList[i + 1] THEN "InvalidUnexpected"
        ELSE IF own = {} \/ (\E t \in own : own = {t} /\ t.functor # tx.functor) THEN "ValidNew"
        ELSE "InvalidRedundant"
=============================================================================

------------------------------ MODULE RpcView -------------------------------
(***************************************************************************)
(* What the indexer (indexer/kv_indexer.go) and the JSON-RPC backend       *)
(* (rpc/backend) make of the results of a block, composed with the block   *)
(* that produced them: they see the events and codes of the results, never *)
(* the transient store, and count and sum again.                           *)
(***************************************************************************)
EXTENDS BlockFlow

Positions == 1..Len(results)

(* Mutant: a transaction that failed is taken for one that was dropped.    *)
TxWasDropped_AnyFailure(r) == ~r.ok

(* TxWasDroppedPreAnteHandleDueToBlockGasExcess: failed, and no event of   *)
(* the ante handler.                                                       *)
TxWasDropped(r) == ~r.ok /\ r.index = NoIndex

(* EthMsgsFromCometBFTBlock and IndexBlock go over these transactions.     *)
Included(p) == ~TxWasDropped(results[p]) /\ results[p].eth

(* IndexBlock counts the Ethereum transactions it does not skip.           *)
EthTxIndex(p) == Cardinality({q \in 1..(p - 1) : Included(q)})

(* The flag Failed it stores: the code, or else what ParseTxResult found.  *)
Failed(p) == ~results[p].ok \/ ~results[p].receipt.ok

(* Mutant: a transaction without a receipt is reported with no gas.        *)
GasUsed_FailedIsFree(p) ==
    IF results[p].receipt = NoReceipt THEN 0 ELSE results[p].receipt.gasUsed

(* TxReceiptFromEvent finds no receipt if the message failed; the gas used *)
(* is then the gas limit of the transaction.                               *)
GasUsed(p) ==
    IF results[p].receipt = NoReceipt THEN results[p].tx.gas ELSE results[p].receipt.gasUsed

SumGasUsed(P) == Total([i \in 0..(Len(results) - 1) |-> IF i + 1 \in P THEN GasUsed(i + 1) ELSE 0],
                       Len(results))

(* EthBlockFromCometBFT sums over the receipts it has built so far.        *)
BlockCumulativeGas(p) ==
    IF results[p].receipt # NoReceipt THEN results[p].receipt.cumulative
    ELSE results[p].tx.gas + SumGasUsed({q \in 1..(p - 1) : Included(q)})

(* GetTransactionReceipt sums over all Ethereum transactions before p.     *)
ReceiptCumulativeGas(p) ==
    IF results[p].receipt # NoReceipt THEN results[p].receipt.cumulative
    ELSE results[p].tx.gas + IF EthTxIndex(p) > 0
                             THEN SumGasUsed({q \in 1..(p - 1) : results[q].eth})
                             ELSE 0

-----------------------------------------------------------------------------
(* The position the indexer counts for a transaction is the index its ante *)
(* handler emitted and its receipt is stored under; its failure flag       *)
(* agrees with that receipt; and the gas and cumulative gas in the block's *)
(* receipts are the ones the block recorded, the base of what the senders  *)
(* paid.                                                                   *)
ViewAgrees ==
    pc = "idle" => \A p \in Positions : Included(p) =>
        /\ results[p].index = EthTxIndex(p)
        /\ Failed(p) <=> ~fin.receipts[EthTxIndex(p)].ok
        /\ GasUsed(p) = fin.gas[EthTxIndex(p)]
        /\ BlockCumulativeGas(p) = Total(fin.gas, EthTxIndex(p) + 1)

(* The receipt of a failed transaction: "compute cumulative gas used" by   *)
(* adding the "gas used of previous txs" (rpc/backend/tx_info.go).         *)
ReceiptGasReported ==
    pc = "idle" => \A p \in Positions : Included(p) =>
        ReceiptCumulativeGas(p) = Total(fin.gas, EthTxIndex(p) + 1)

=============================================================================

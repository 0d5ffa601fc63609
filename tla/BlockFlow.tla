----------------------------- MODULE BlockFlow ------------------------------
(***************************************************************************)
(* How a block executes Ethereum transactions (app/antedl, x/evm/keeper).  *)
(* The SDK's runTx runs the ante handler in a cache of the block's state   *)
(* and writes it if the handler passes; it then runs the message in a      *)
(* second cache, which is written only if the message succeeds and the     *)
(* block has gas left for it.  Each decorator that changes state is an     *)
(* action, and so is each stage of the message; decorators that only look  *)
(* at the transaction are one action that lets it pass or not.             *)
(*                                                                         *)
(* A transaction is a record: its price fields are a fee cap and a tip, a  *)
(* legacy transaction being one with tip = cap.                            *)
(***************************************************************************)
EXTENDS FeeMarket, Sequences, FiniteSets

CONSTANTS
    Senders,      \* externally owned accounts
    Txs,          \* Ethereum transactions that may be in a block
    Genesis,      \* initial ledgers
    Proposals,    \* fee market parameters that governance may set
    CosmosFees, CosmosGas,   \* fees of Cosmos transactions, and the gas they consume
    MaxTxs,       \* transactions in a block
    MaxLogs,      \* logs of one transaction
    MaxSeq,       \* bound: sequence at which an account stops Cosmos transactions
    NoReceipt, NoTx

\* Indexes of the Ethereum transactions of a block, and no index.
Idx == 0..(MaxTxs - 1)
NoIndex == -1

Tx == [from : Senders, to : Senders, nonce : Nat, gas : Nat \ {0},
       cap : Nat, tip : Nat, value : Nat]
Receipt == [ok : BOOLEAN, cumulative : Nat]
EventReceipt == [ok : BOOLEAN, cumulative : Nat, gasUsed : Nat]

(* What a cache holds: accounts (seq is 0 until known), the coins of the   *)
(* senders and of the fee collector, and the transient store of x/evm.     *)
Ledger ==
    [known : SUBSET Senders, seq : [Senders -> Nat], bal : [Senders -> Nat], pool : Nat,
     count : 0..MaxTxs, gas : [Idx -> Nat], logs : [Idx -> Nat],
     receipts : [Idx -> Receipt \cup {NoReceipt}],
     nonceFlag : BOOLEAN, paidFlag : BOOLEAN]

(* The transient store is empty when a block begins.                       *)
FreshBlock(s) ==
    [s EXCEPT !.count = 0, !.gas = [i \in Idx |-> 0], !.logs = [i \in Idx |-> 0],
              !.receipts = [i \in Idx |-> NoReceipt],
              !.nonceFlag = FALSE, !.paidFlag = FALSE]

ASSUME BlockFlowAssumption ==
    /\ Txs \subseteq Tx
    /\ CosmosFees \subseteq Nat \ {0} /\ CosmosGas \subseteq Nat
    /\ Proposals \subseteq [baseFee : Int, minGasPrice : Int]
    /\ MaxTxs \in Nat \ {0} /\ MaxLogs \in Nat /\ MaxSeq \in Nat
    /\ NoTx \notin Tx /\ NoReceipt \notin Receipt \cup EventReceipt
    /\ \A s \in Genesis : s \in Ledger /\ s = FreshBlock(s)

VARIABLES
    fin,       \* finalizeBlockState: what every later transaction of the block sees
    ctx,       \* the cache of the running ante handler or message
    pc,        \* where runTx is
    tx,        \* the running transaction
    index,     \* the index its ante handler emitted
    used,      \* the gas its execution used
    blockGas,  \* consumed by the block gas meter
    results,   \* of the transactions of this block, as CometBFT stores them
    accepted,  \* history: transactions of each sender that passed the ante handler
    owed       \* history: the balance each sender should have

runVars == <<fin, ctx, pc, tx, index, used>>
vars == <<runVars, blockGas, results, accepted, owed, params>>

-----------------------------------------------------------------------------
(* EthTxEffectiveGasPrice, and the gas price of tx.AsMessage.              *)
EffectiveGasPrice(t) == IF t.tip + baseFee < t.cap THEN t.tip + baseFee ELSE t.cap
EthTxEffectiveFee(t) == t.gas * EffectiveGasPrice(t)

getMinGasPricesAllowed == AtLeast(baseFee, params.minGasPrice)

(* GetTxCountTransient reads an unset counter as 1.                        *)
GetTxCountTransient(s) == AtLeast(s.count, 1)
CurrentIdx(s) == GetTxCountTransient(s) - 1

(* The loops over the values stored for the first n transactions.          *)
Total(f, n) ==
    LET sum[i \in 0..n] == IF i = 0 THEN 0 ELSE sum[i - 1] + f[i - 1]
    IN  sum[n]

GetCumulativeLogCountTransient(s) == Total(s.logs, GetTxCountTransient(s))

Result(t, eth, ok, i, receipt) ==
    [tx |-> t, eth |-> eth, ok |-> ok, index |-> i, receipt |-> receipt]

(* The transaction ends: its cache is dropped and its result is recorded.  *)
EndTx(ok, i, receipt) ==
    /\ results' = Append(results, Result(tx, TRUE, ok, i, receipt))
    /\ pc' = "idle" /\ tx' = NoTx /\ index' = NoIndex /\ used' = 0
    /\ ctx' = fin'

(* The sender owes what the gas recorded for it costs.                     *)
Settle(bal) ==
    owed' = [bal EXCEPT ![tx.from] = @ - fin'.gas[index] * EffectiveGasPrice(tx)]

-----------------------------------------------------------------------------
(* The ante handler.                                                       *)

BlockOutOfGas == MaxGas > 0 /\ blockGas >= MaxGas

(* runTx with a full block: the transaction fails before its ante handler. *)
DropTx(t) ==
    /\ pc = "idle" /\ Len(results) < MaxTxs /\ BlockOutOfGas
    /\ results' = Append(results, Result(t, TRUE, FALSE, NoIndex, NoReceipt))
    /\ UNCHANGED <<runVars, blockGas, accepted, owed, params>>

(* DLSetupContextDecorator clears what an earlier transaction left.        *)
SetupContext(t) ==
    /\ pc = "idle" /\ Len(results) < MaxTxs /\ ~BlockOutOfGas
    /\ tx' = t
    /\ ctx' = [fin EXCEPT !.nonceFlag = FALSE, !.paidFlag = FALSE]
    /\ pc' = "validate"
    /\ UNCHANGED <<fin, index, used, blockGas, results, accepted, owed, params>>

(* An error or a panic in the ante handler leaves no event and no trace.   *)
RejectTx ==
    /\ UNCHANGED <<fin, blockGas, accepted, owed, params>>
    /\ EndTx(FALSE, NoIndex, NoReceipt)

Advance(next) ==
    /\ pc' = next
    /\ UNCHANGED <<fin, tx, index, used, blockGas, results, accepted, owed, params>>

(* The decorators that only read: extension options, ValidateBasic, EOA,   *)
(* timeout height, memo.  The fee a transaction declares must be one coin. *)
ValidateBasic ==
    /\ pc = "validate"
    /\ \/ RejectTx
       \/ tx.cap > 0 /\ Advance("fee") /\ UNCHANGED ctx

(* DLDeductFeeDecorator and the SDK's decorator behind it.  An effective   *)
(* fee of zero is an empty coin set, on which getTxPriority panics.        *)
FeeRefused ==
    \/ EffectiveGasPrice(tx) = 0
    \/ EffectiveGasPrice(tx) < getMinGasPricesAllowed
    \/ tx.from \notin ctx.known
    \/ ctx.bal[tx.from] < EthTxEffectiveFee(tx)

DeductFee ==
    /\ pc = "fee"
    /\ \/ FeeRefused /\ RejectTx
       \/ /\ ~FeeRefused /\ Advance("signature")
          /\ ctx' = [ctx EXCEPT !.paidFlag = TRUE,
                                !.bal[tx.from] = @ - EthTxEffectiveFee(tx),
                                !.pool = @ + EthTxEffectiveFee(tx)]

(* DLSigVerificationDecorator: the signature, then the nonce.  It panics   *)
(* if the sender has no account.                                           *)
SigVerification ==
    /\ pc = "signature"
    /\ \/ RejectTx
       \/ /\ tx.from \in ctx.known /\ tx.nonce = ctx.seq[tx.from]
          /\ Advance("sequence") /\ UNCHANGED ctx

(* Mutant: the flag for EthereumTx is not set.                             *)
IncrementSequence_NoFlag ==
    /\ pc = "sequence"
    /\ Advance("setup")
    /\ ctx' = [ctx EXCEPT !.seq[tx.from] = @ + 1]

(* DLIncrementSequenceDecorator.                                           *)
IncrementSequence ==
    /\ pc = "sequence"
    /\ Advance("setup")
    /\ ctx' = [ctx EXCEPT !.seq[tx.from] = @ + 1, !.nonceFlag = TRUE]

(* Mutant: the gas of a failed transaction is not assumed.                 *)
SetupExecutionContext_NoGas ==
    /\ pc = "setup"
    /\ Advance("emit")
    /\ LET counted == [ctx EXCEPT !.count = @ + 1]
       IN  ctx' = [counted EXCEPT !.receipts[CurrentIdx(counted)] =
                       [ok |-> FALSE, cumulative |-> GetCumulativeLogCountTransient(counted)]]

(* SetupExecutionContext assumes that the transaction fails and takes all  *)
(* of its gas.  Its receipt gets the number of logs as cumulative gas.     *)
SetupExecutionContext ==
    /\ pc = "setup"
    /\ Advance("emit")
    /\ LET counted == [ctx EXCEPT !.count = @ + 1]
           i == CurrentIdx(counted)
       IN  ctx' = [counted EXCEPT !.gas[i] = tx.gas,
                                  !.receipts[i] = [ok |-> FALSE,
                                       cumulative |-> GetCumulativeLogCountTransient(counted)]]

(* ELEmitEventDecorator is the last one; runTx writes the cache.           *)
EmitEvent ==
    /\ pc = "emit"
    /\ index' = CurrentIdx(ctx)
    /\ fin' = ctx
    /\ pc' = "message"
    /\ accepted' = [accepted EXCEPT ![tx.from] = @ + 1]
    /\ UNCHANGED <<ctx, tx, used, blockGas, results, owed, params>>

-----------------------------------------------------------------------------
(* The message.                                                            *)

(* It fails: its cache is dropped, the failure the ante handler assumed    *)
(* stays, and the block pays for the gas on the meter of the transaction.  *)
FailMessage(gas) ==
    /\ blockGas' = blockGas + gas
    /\ UNCHANGED <<fin, accepted, params>>
    /\ Settle(owed)
    /\ EndTx(FALSE, index, NoReceipt)

(* EthereumTx takes back the increment of the ante handler.  It panics on  *)
(* an account that is missing or was not raised by one.                    *)
RestorePanics ==
    ctx.nonceFlag /\ (tx.from \notin ctx.known \/ ctx.seq[tx.from] # tx.nonce + 1)

RestoreNonce ==
    /\ pc = "message"
    /\ IF RestorePanics THEN FailMessage(0)
       ELSE /\ Advance("execute")
            /\ ctx' = IF ctx.nonceFlag
                      THEN [ctx EXCEPT !.seq[tx.from] = @ - 1, !.nonceFlag = FALSE]
                      ELSE ctx

(* StateTransition.preCheck.                                               *)
preCheck == ctx.seq[tx.from] = tx.nonce /\ tx.cap >= baseFee

(* A core error takes all gas: preCheck, intrinsic gas, the value of the   *)
(* call, or an error of the commit.                                        *)
CoreError == pc = "execute" /\ FailMessage(tx.gas)

(* A panic leaves nothing on the meter: its gas configuration is zero.     *)
ExecutionPanics == pc = "execute" /\ FailMessage(0)

Moved(bal) == [[bal EXCEPT ![tx.from] = @ - tx.value] EXCEPT ![tx.to] = @ + tx.value]

(* refundGas pays for the gas that is left, to a sender who paid.          *)
refundGas(s, gas) ==
    IF s.paidFlag
    THEN [s EXCEPT !.bal[tx.from] = @ + (tx.gas - gas) * EffectiveGasPrice(tx)]
    ELSE s

(* Mutant: the nonce EthereumTx took back is not raised again.             *)
TransitionDb_NonceLost(gas, ok) ==
    refundGas(IF ok /\ tx.value > 0
              THEN [ctx EXCEPT !.bal = Moved(@), !.known = @ \cup {tx.to}] ELSE ctx, gas)

(* The EVM runs with gas used and n logs; ok is false for an EVM error,    *)
(* which undoes the call but not the nonce, and is no error of the message.*)
TransitionDb(gas, ok) ==
    LET raised == [ctx EXCEPT !.seq[tx.from] = tx.nonce + 1]
        called == IF ok /\ tx.value > 0
                  THEN [raised EXCEPT !.bal = Moved(@), !.known = @ \cup {tx.to}]
                  ELSE raised
    IN  refundGas(called, gas)

(* Mutant: the cumulative gas includes the assumed gas of the transaction. *)
ApplyMessage_CountsItself(gas, n, ok) ==
    /\ preCheck /\ ctx.bal[tx.from] >= tx.value
    /\ LET s == TransitionDb(gas, ok)
           i == CurrentIdx(s)
       IN  ctx' = [s EXCEPT !.logs[i] = n, !.gas[i] = gas,
                            !.receipts[i] = [ok |-> ok, cumulative |-> Total(s.gas, i + 1)]]
    /\ pc' = "consume" /\ used' = gas
    /\ UNCHANGED <<fin, tx, index, blockGas, results, accepted, owed, params>>

(* ApplyMessageWithConfig records the result over the assumed one.         *)
ApplyMessage(gas, n, ok) ==
    /\ preCheck /\ ctx.bal[tx.from] >= tx.value
    /\ LET s == TransitionDb(gas, ok)
           i == CurrentIdx(s)
       IN  ctx' = [s EXCEPT !.logs[i] = n, !.gas[i] = gas,
                            !.receipts[i] = [ok |-> ok, cumulative |-> gas + Total(s.gas, i)]]
    /\ pc' = "consume" /\ used' = gas
    /\ UNCHANGED <<fin, tx, index, blockGas, results, accepted, owed, params>>

(* Mutant: the cache is written before the block gas is consumed.          *)
ConsumeBlockGas_WritesFirst ==
    /\ pc = "consume"
    /\ blockGas' = blockGas + used
    /\ fin' = ctx
    /\ Settle(IF ctx.receipts[index].ok THEN Moved(owed) ELSE owed)
    /\ EndTx(TRUE, index,
             [ok |-> ctx.receipts[index].ok, gasUsed |-> used,
              cumulative |-> ctx.receipts[index].cumulative])
    /\ UNCHANGED <<accepted, params>>

(* runTx consumes the block gas first and writes the cache of the message  *)
(* only if the block had that much gas left.                               *)
ConsumeBlockGas ==
    /\ pc = "consume"
    /\ \/ MaxGas > 0 /\ blockGas + used > MaxGas /\ FailMessage(used)
       \/ /\ MaxGas > 0 => blockGas + used <= MaxGas
          /\ blockGas' = blockGas + used
          /\ fin' = ctx
          /\ Settle(IF ctx.receipts[index].ok THEN Moved(owed) ELSE owed)
          /\ EndTx(TRUE, index,
                   [ok |-> ctx.receipts[index].ok, gasUsed |-> used,
                    cumulative |-> ctx.receipts[index].cumulative])
          /\ UNCHANGED <<accepted, params>>

-----------------------------------------------------------------------------
(* A transaction of the Cosmos lane: the SDK's decorators take the fee and *)
(* raise the sequence, and leave the transient store of x/evm alone.  It   *)
(* uses gas whether it passes or not.                                      *)
CosmosTx(a, fee, gas) ==
    /\ pc = "idle" /\ Len(results) < MaxTxs /\ ~BlockOutOfGas
    /\ blockGas' = blockGas + gas
    /\ \/ /\ results' = Append(results, Result(NoTx, FALSE, FALSE, NoIndex, NoReceipt))
          /\ UNCHANGED <<fin, ctx, accepted, owed>>
       \/ /\ a \in fin.known /\ fin.bal[a] >= fee /\ fin.seq[a] < MaxSeq
          /\ fin' = [fin EXCEPT !.seq[a] = @ + 1, !.bal[a] = @ - fee, !.pool = @ + fee]
          /\ ctx' = fin'
          /\ accepted' = [accepted EXCEPT ![a] = @ + 1]
          /\ owed' = [owed EXCEPT ![a] = @ - fee]
          /\ \E ok \in BOOLEAN :
                results' = Append(results, Result(NoTx, FALSE, ok, NoIndex, NoReceipt))
    /\ UNCHANGED <<pc, tx, index, used, params>>

(* GetTxReceiptsTransient panics in EndBlock if a receipt is missing.      *)
ReceiptsPresent == \A i \in 0..(fin.count - 1) : fin.receipts[i] # NoReceipt

(* The block ends: governance, bloom of the receipts, base fee; the next   *)
(* one begins with an empty transient store and an empty block gas meter.      *)
EndBlock ==
    /\ pc = "idle" /\ ReceiptsPresent
    /\ \E passed \in {<<>>} \cup {<<p>> : p \in Proposals} : EndBlockers(blockGas, passed)
    /\ fin' = FreshBlock(fin) /\ ctx' = fin'
    /\ blockGas' = 0 /\ results' = <<>>
    /\ UNCHANGED <<pc, tx, index, used, accepted, owed>>

Init ==
    /\ fin \in Genesis /\ ctx = fin
    /\ pc = "idle" /\ tx = NoTx /\ index = NoIndex /\ used = 0
    /\ blockGas = 0 /\ results = <<>>
    /\ accepted = fin.seq /\ owed = fin.bal
    /\ params \in InitParams

AnteHandler ==
    \/ \E t \in Txs : DropTx(t) \/ SetupContext(t)
    \/ ValidateBasic \/ DeductFee \/ SigVerification
    \/ IncrementSequence \/ SetupExecutionContext \/ EmitEvent

EthereumTx ==
    \/ RestoreNonce \/ CoreError \/ ExecutionPanics
    \/ /\ pc = "execute"
       /\ \E gas \in 1..tx.gas, n \in 0..MaxLogs, ok \in BOOLEAN :
            (n > 0 => ok) /\ ApplyMessage(gas, n, ok)
    \/ ConsumeBlockGas

Next ==
    \/ AnteHandler \/ EthereumTx
    \/ \E a \in Senders, fee \in CosmosFees, gas \in CosmosGas : CosmosTx(a, fee, gas)
    \/ EndBlock

Spec == Init /\ [][Next]_vars

-----------------------------------------------------------------------------
(* The increment of the ante handler, its undoing by EthereumTx and the    *)
(* increment of the EVM add up: in the block's state a sequence is the     *)
(* number of transactions that passed, whatever became of their messages.  *)
NonceCountsAccepted == fin.seq = accepted

(* What the ante handler lets pass meets every expectation of what runs    *)
(* after it: the panics on a missing account (SigVerification, Increment-  *)
(* Sequence, EthereumTx) and on a nonce that was not raised by one         *)
(* (EthereumTx) are unreachable, and preCheck never fails.                 *)
AnteSuffices ==
    /\ pc \in {"sequence", "setup", "emit", "message"} => tx.from \in ctx.known
    /\ pc = "message" => ctx.nonceFlag /\ ctx.seq[tx.from] = tx.nonce + 1
    /\ pc = "execute" => preCheck /\ ctx.paidFlag

(* "there is one and only one, validated before" says getTxPriority of the *)
(* fee coin it reads (app/antedl/duallane/07_deduct_fee.go).               *)
FeeCoinExists == pc = "fee" => EthTxEffectiveFee(tx) > 0

(* Between transactions a sender has paid for exactly the gas that is      *)
(* recorded for its transactions at their effective price: the gas limit   *)
(* if the message failed, the gas used otherwise.                          *)
FeesMatchGas == pc = "idle" => fin.bal = owed

(* Between transactions every counted transaction has a receipt, so that   *)
(* EndBlock does not panic, with the status of its outcome; the cumulative *)
(* gas of an executed one is the gas recorded up to it.                    *)
ReceiptsTellOutcome ==
    pc = "idle" =>
        /\ ReceiptsPresent
        /\ \A r \in {results[p] : p \in 1..Len(results)} : r.index # NoIndex =>
            LET receipt == fin.receipts[r.index]
            IN  /\ r.index < fin.count
                /\ receipt.ok <=> r.receipt # NoReceipt /\ r.receipt.ok
                /\ r.receipt # NoReceipt => receipt.cumulative = Total(fin.gas, r.index + 1)

(* Executions whose effects are written fit in the gas limit of the block. *)
WrittenGasFits ==
    MaxGas > 0 =>
        Total([i \in 0..(Len(results) - 1) |->
                  IF results[i + 1].receipt = NoReceipt THEN 0 ELSE results[i + 1].receipt.gasUsed],
              Len(results)) <= MaxGas

=============================================================================

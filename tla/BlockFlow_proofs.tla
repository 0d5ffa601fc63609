-------------------------- MODULE BlockFlow_proofs --------------------------
(***************************************************************************)
(* Nonces and fees, for any transactions, senders, fees and number of      *)
(* transactions in a block.  The ante handler, EthereumTx and the EVM each *)
(* write the sequence and the coins of the sender, in caches that are kept *)
(* or dropped apart.                                                       *)
(***************************************************************************)
EXTENDS BlockFlow, TLAPS

(* A ledger, as far as the argument looks at it.                           *)
IsLedger(s) ==
    /\ s = [known |-> s.known, seq |-> s.seq, bal |-> s.bal, pool |-> s.pool,
            count |-> s.count, gas |-> s.gas, logs |-> s.logs, receipts |-> s.receipts,
            nonceFlag |-> s.nonceFlag, paidFlag |-> s.paidFlag]
    /\ s.known \subseteq Senders /\ s.seq \in [Senders -> Nat]

Stages == {"idle", "validate", "fee", "signature", "sequence", "setup", "emit",
           "message", "execute", "consume"}

Shapes ==
    /\ IsLedger(fin) /\ IsLedger(ctx)
    /\ params \in Params /\ blockGas \in Nat /\ used \in Nat
    /\ pc \in Stages /\ (pc # "idle" => tx \in Tx)

(* The block's state: it is not touched between the two caches, and the    *)
(* sequence in it is one ahead of the nonce once the ante handler is done. *)
Settled == fin.seq = accepted

(* The cache of the running transaction, stage by stage: the sequence as   *)
(* the ante handler found it, raised, taken back for the EVM, raised again.*)
Raised == [fin.seq EXCEPT ![tx.from] = tx.nonce + 1]
CacheRight ==
    /\ pc \in {"validate", "fee", "signature", "sequence", "message", "consume"} => ctx.seq = fin.seq
    /\ pc \in {"sequence", "setup", "emit"} => fin.seq[tx.from] = tx.nonce
    /\ pc \in {"setup", "emit"} => ctx.seq = Raised
    /\ pc \in {"message", "execute", "consume"} => fin.seq[tx.from] = tx.nonce + 1
    /\ pc = "execute" => ctx.seq = [fin.seq EXCEPT ![tx.from] = tx.nonce]

(* What the ante handler has made sure of by now.                          *)
Checked ==
    /\ pc \in {"signature", "sequence", "setup", "emit", "message", "execute"} =>
            ctx.paidFlag /\ tx.cap >= baseFee
    /\ pc \in {"sequence", "setup", "emit", "message"} => tx.from \in ctx.known
    /\ pc \in {"setup", "emit", "message"} => ctx.nonceFlag

NInv == Shapes /\ Settled /\ CacheRight /\ Checked

(* A transaction that ends leaves a block's state as it finds it, or one   *)
(* with the same sequences.                                                *)
LEMMA EndTxRight ==
    ASSUME NInv, NEW ok, NEW i, NEW receipt, EndTx(ok, i, receipt),
           IsLedger(fin'), fin'.seq = fin.seq, UNCHANGED <<accepted, params>>, blockGas' \in Nat
    PROVE  NInv'
<1>1. ctx' = fin' /\ pc' = "idle" /\ used' = 0
  BY DEF EndTx
<1> QED
  BY <1>1 DEF NInv, Shapes, Settled, CacheRight, Checked, Stages, IsLedger

LEMMA RejectRight ==
    ASSUME NInv, RejectTx
    PROVE  NInv'
  BY EndTxRight, ZenonT(60) DEF RejectTx, NInv, Shapes

LEMMA FailRight ==
    ASSUME NInv, NEW gas \in Nat, FailMessage(gas)
    PROVE  NInv'
<1>1. blockGas' \in Nat
  BY DEF FailMessage, NInv, Shapes
<1> QED
  BY <1>1, EndTxRight, ZenonT(60) DEF FailMessage, NInv, Shapes

LEMMA TxFields ==
    ASSUME NEW t \in Tx
    PROVE  /\ t.from \in Senders /\ t.to \in Senders /\ t.nonce \in Nat /\ t.gas \in Nat
           /\ t.cap \in Nat /\ t.tip \in Nat /\ t.value \in Nat
  BY DEF Tx

(* What a decorator that lets the transaction pass leaves alone.           *)
LEMMA AdvanceKeeps ==
    ASSUME NInv, NEW next \in Stages, Advance(next), pc # "idle", IsLedger(ctx')
    PROVE  Shapes' /\ Settled' /\ UNCHANGED <<fin, tx, params>> /\ pc' = next
  BY DEF Advance, NInv, Shapes, Settled, IsLedger

(* The decorators.                                                         *)
LEMMA SetupContextRight ==
    ASSUME NInv, NEW t \in Txs, SetupContext(t)
    PROVE  NInv'
<1>1. t \in Tx
  BY BlockFlowAssumption
<1>2. IsLedger(ctx') /\ ctx'.seq = fin.seq
  BY ZenonT(60) DEF SetupContext, NInv, Shapes, IsLedger
<1> QED
  BY <1>1, <1>2 DEF SetupContext, NInv, Shapes, Settled, CacheRight, Checked, Stages, IsLedger

LEMMA ValidateBasicRight ==
    ASSUME NInv, ValidateBasic
    PROVE  NInv'
<1>1. CASE RejectTx
  BY <1>1, RejectRight
<1>2. CASE Advance("fee") /\ UNCHANGED ctx
  <2>1. Shapes' /\ Settled' /\ UNCHANGED <<fin, tx, params>> /\ pc' = "fee"
    BY <1>2, AdvanceKeeps DEF ValidateBasic, NInv, Shapes, Stages
  <2> QED
    BY <1>2, <2>1 DEF ValidateBasic, NInv, CacheRight, Checked
<1> QED
  BY <1>1, <1>2 DEF ValidateBasic

(* The effective price is no less than the base fee and no more than the   *)
(* cap, so preCheck will find the cap high enough.                         *)
LEMMA DeductFeeRight ==
    ASSUME NInv, DeductFee
    PROVE  NInv'
<1>1. CASE RejectTx
  BY <1>1, RejectRight
<1>2. CASE ~FeeRefused /\ Advance("signature")
            /\ ctx' = [ctx EXCEPT !.paidFlag = TRUE,
                                  !.bal[tx.from] = @ - EthTxEffectiveFee(tx),
                                  !.pool = @ + EthTxEffectiveFee(tx)]
  <2>1. IsLedger(ctx') /\ ctx'.seq = ctx.seq /\ ctx'.paidFlag = TRUE
    BY <1>2, ZenonT(60) DEF NInv, Shapes, IsLedger
  <2>2. Shapes' /\ Settled' /\ UNCHANGED <<fin, tx, params>> /\ pc' = "signature"
    BY <1>2, <2>1, AdvanceKeeps DEF DeductFee, Stages
  <2>3. tx \in Tx /\ params \in Params
    BY DEF DeductFee, NInv, Shapes
  <2>4. tx.cap \in Nat /\ tx.tip \in Nat /\ baseFee \in Nat /\ params.minGasPrice \in Nat
    BY <2>3, TxFields DEF Params, baseFee
  <2>5. ~(EffectiveGasPrice(tx) < getMinGasPricesAllowed)
    BY <1>2 DEF FeeRefused
  <2>6. tx.cap >= baseFee
    BY <2>4, <2>5 DEF EffectiveGasPrice, getMinGasPricesAllowed, AtLeast
  <2>7. baseFee' = baseFee
    BY <2>2 DEF baseFee
  <2> QED
    BY <2>1, <2>2, <2>6, <2>7 DEF DeductFee, NInv, CacheRight, Checked
<1> QED
  BY <1>1, <1>2 DEF DeductFee

LEMMA SigVerificationRight ==
    ASSUME NInv, SigVerification
    PROVE  NInv'
<1>1. CASE RejectTx
  BY <1>1, RejectRight
<1>2. CASE tx.from \in ctx.known /\ tx.nonce = ctx.seq[tx.from] /\ Advance("sequence") /\ UNCHANGED ctx
  <2>1. Shapes' /\ Settled' /\ UNCHANGED <<fin, tx, params>> /\ pc' = "sequence"
    BY <1>2, AdvanceKeeps DEF SigVerification, NInv, Shapes, Stages
  <2>2. baseFee' = baseFee
    BY <2>1 DEF baseFee
  <2> QED
    BY <1>2, <2>1, <2>2 DEF SigVerification, NInv, CacheRight, Checked
<1> QED
  BY <1>1, <1>2 DEF SigVerification

LEMMA IncrementSequenceRight ==
    ASSUME NInv, IncrementSequence
    PROVE  NInv'
<1>1. pc = "sequence" /\ tx \in Tx /\ tx.from \in Senders /\ tx.nonce \in Nat
  BY TxFields DEF IncrementSequence, NInv, Shapes
<1>2. ctx' = [ctx EXCEPT !.seq[tx.from] = @ + 1, !.nonceFlag = TRUE] /\ Advance("setup")
  BY DEF IncrementSequence
<1>3. /\ IsLedger(ctx') /\ ctx'.seq = [ctx.seq EXCEPT ![tx.from] = ctx.seq[tx.from] + 1]
      /\ ctx'.nonceFlag = TRUE /\ ctx'.known = ctx.known /\ ctx'.paidFlag = ctx.paidFlag
  <2> DEFINE seq == [ctx.seq EXCEPT ![tx.from] = ctx.seq[tx.from] + 1]
  <2>1. seq \in [Senders -> Nat]
    BY <1>1 DEF NInv, Shapes, IsLedger
  <2>2. ctx' = [[ctx EXCEPT !.seq = seq] EXCEPT !.nonceFlag = TRUE]
    BY <1>2
  <2> HIDE DEF seq
  <2>3. IsLedger(ctx') /\ ctx'.seq = seq /\ ctx'.nonceFlag = TRUE
        /\ ctx'.known = ctx.known /\ ctx'.paidFlag = ctx.paidFlag
    BY <2>1, <2>2, ZenonT(60) DEF NInv, Shapes, IsLedger
  <2> QED
    BY <2>3 DEF seq
<1>4. Shapes' /\ Settled' /\ UNCHANGED <<fin, tx, params>> /\ pc' = "setup"
  BY <1>1, <1>2, <1>3, AdvanceKeeps, SMTT(60) DEF Stages
<1>5. ctx'.seq = Raised' /\ fin'.seq[tx'.from] = tx'.nonce
  BY <1>1, <1>3, <1>4 DEF NInv, CacheRight, Raised
<1>6. baseFee' = baseFee
  BY <1>4 DEF baseFee
<1> QED
  BY <1>1, <1>3, <1>4, <1>5, <1>6, SMTT(60) DEF NInv, CacheRight, Checked

LEMMA SetupExecutionContextRight ==
    ASSUME NInv, SetupExecutionContext
    PROVE  NInv'
<1>1. pc = "setup" /\ Advance("emit")
  BY DEF SetupExecutionContext
<1>2. /\ IsLedger(ctx') /\ ctx'.seq = ctx.seq /\ ctx'.nonceFlag = ctx.nonceFlag
      /\ ctx'.known = ctx.known /\ ctx'.paidFlag = ctx.paidFlag
  <2>1. PICK n, g, r : ctx' = [[ctx EXCEPT !.count = n] EXCEPT !.gas = g, !.receipts = r]
    BY ZenonT(60) DEF SetupExecutionContext, NInv, Shapes, IsLedger
  <2> QED
    BY <2>1, ZenonT(60) DEF NInv, Shapes, IsLedger
<1>3. Shapes' /\ Settled' /\ UNCHANGED <<fin, tx, params>> /\ pc' = "emit"
  BY <1>1, <1>2, AdvanceKeeps DEF Stages
<1>4. Raised' = Raised /\ baseFee' = baseFee
  BY <1>3 DEF Raised, baseFee
<1> QED
  BY <1>1, <1>2, <1>3, <1>4 DEF NInv, CacheRight, Checked

(* runTx writes the cache of the ante handler: one more was accepted.      *)
LEMMA EmitEventRight ==
    ASSUME NInv, EmitEvent
    PROVE  NInv'
<1>1. pc = "emit" /\ tx \in Tx /\ tx.from \in Senders /\ tx.nonce \in Nat
  BY TxFields DEF EmitEvent, NInv, Shapes
<1>2. /\ fin' = ctx /\ pc' = "message" /\ UNCHANGED <<ctx, tx, params, used, blockGas>>
      /\ accepted' = [accepted EXCEPT ![tx.from] = @ + 1]
  BY DEF EmitEvent
<1>3. ctx.seq = Raised /\ fin.seq[tx.from] = tx.nonce /\ fin.seq = accepted
      /\ fin.seq \in [Senders -> Nat]
  BY <1>1 DEF NInv, CacheRight, Settled, Shapes, IsLedger
<1>4. Settled' /\ fin'.seq[tx'.from] = tx'.nonce + 1
  BY <1>1, <1>2, <1>3, ZenonT(60) DEF Settled, Raised
<1>5. Shapes'
  BY <1>1, <1>2 DEF NInv, Shapes, IsLedger, Stages
<1>6. baseFee' = baseFee
  BY <1>2 DEF baseFee
<1> QED
  BY <1>1, <1>2, <1>4, <1>5, <1>6, SMTT(60) DEF NInv, CacheRight, Checked

(***************************************************************************)
(* The message.                                                            *)
(***************************************************************************)

(* The panics are out of reach; the sequence goes back to the nonce.       *)
LEMMA RestoreNonceRight ==
    ASSUME NInv, RestoreNonce
    PROVE  NInv'
<1>1. pc = "message" /\ tx \in Tx /\ tx.from \in Senders /\ tx.nonce \in Nat
  BY TxFields DEF RestoreNonce, NInv, Shapes
<1>2. ctx.nonceFlag /\ ctx.seq = fin.seq /\ fin.seq[tx.from] = tx.nonce + 1
  BY <1>1 DEF NInv, CacheRight, Checked
<1>3. CASE FailMessage(0)
  BY <1>3, FailRight
<1>4. CASE Advance("execute")
            /\ ctx' = [ctx EXCEPT !.seq[tx.from] = @ - 1, !.nonceFlag = FALSE]
  <2> DEFINE seq == [ctx.seq EXCEPT ![tx.from] = ctx.seq[tx.from] - 1]
  <2>1. seq \in [Senders -> Nat] /\ seq = [fin.seq EXCEPT ![tx.from] = tx.nonce]
    BY <1>1, <1>2 DEF NInv, Shapes, IsLedger
  <2>2. ctx' = [[ctx EXCEPT !.seq = seq] EXCEPT !.nonceFlag = FALSE]
    BY <1>4
  <2> HIDE DEF seq
  <2>3. IsLedger(ctx') /\ ctx'.seq = seq /\ ctx'.paidFlag = ctx.paidFlag
    BY <2>1, <2>2, ZenonT(60) DEF NInv, Shapes, IsLedger
  <2>4. Shapes' /\ Settled' /\ UNCHANGED <<fin, tx, params>> /\ pc' = "execute"
    BY <1>1, <1>4, <2>3, AdvanceKeeps DEF Stages
  <2>5. baseFee' = baseFee
    BY <2>4 DEF baseFee
  <2> QED
    BY <1>1, <1>2, <2>1, <2>3, <2>4, <2>5, SMTT(60) DEF NInv, CacheRight, Checked
<1> QED
  BY <1>2, <1>3, <1>4 DEF RestoreNonce

(* The EVM raises the nonce, whether the call fails or not.                *)
LEMMA TransitionDbRaises ==
    ASSUME NInv, pc = "execute", NEW gas, NEW ok
    PROVE  IsLedger(TransitionDb(gas, ok)) /\ TransitionDb(gas, ok).seq = fin.seq
<1> DEFINE seq == [ctx.seq EXCEPT ![tx.from] = tx.nonce + 1]
           raised == [ctx EXCEPT !.seq = seq]
           called == IF ok /\ tx.value > 0
                     THEN [raised EXCEPT !.bal = Moved(@), !.known = @ \cup {tx.to}]
                     ELSE raised
<1>1. tx \in Tx /\ tx.from \in Senders /\ tx.to \in Senders /\ tx.nonce \in Nat
  BY TxFields DEF NInv, Shapes
<1>2. seq = fin.seq /\ seq \in [Senders -> Nat]
  BY <1>1 DEF NInv, CacheRight, Shapes, IsLedger
<1>3. TransitionDb(gas, ok) = refundGas(called, gas)
  BY DEF TransitionDb
<1> HIDE DEF seq
<1>4. IsLedger(raised) /\ raised.seq = seq
  BY <1>2 DEF NInv, Shapes, IsLedger
<1> HIDE DEF raised
<1>5. IsLedger(called) /\ called.seq = seq
  BY <1>1, <1>4, ZenonT(60) DEF IsLedger
<1> HIDE DEF called
<1>6. IsLedger(refundGas(called, gas)) /\ refundGas(called, gas).seq = seq
  BY <1>5 DEF IsLedger, refundGas
<1> QED
  BY <1>2, <1>3, <1>6

LEMMA ApplyMessageRight ==
    ASSUME NInv, pc = "execute", NEW gas \in 1..tx.gas, NEW n, NEW ok, ApplyMessage(gas, n, ok)
    PROVE  NInv'
<1> DEFINE s == TransitionDb(gas, ok)
<1>1. IsLedger(s) /\ s.seq = fin.seq
  BY TransitionDbRaises
<1>2. PICK l, g, r : ctx' = [[s EXCEPT !.logs = l] EXCEPT !.gas = g, !.receipts = r]
  BY <1>1, ZenonT(60) DEF ApplyMessage, IsLedger
<1> HIDE DEF s
<1>3. IsLedger(ctx') /\ ctx'.seq = fin.seq
  BY <1>1, <1>2, ZenonT(60) DEF IsLedger
<1>4. tx \in Tx /\ gas \in Nat
  BY TxFields DEF NInv, Shapes
<1>5. /\ pc' = "consume" /\ used' = gas
      /\ UNCHANGED <<fin, tx, blockGas, accepted, params>>
  BY DEF ApplyMessage
<1>6. Shapes'
  BY <1>3, <1>4, <1>5 DEF NInv, Shapes, IsLedger, Stages
<1> QED
  BY <1>3, <1>5, <1>6 DEF NInv, Settled, CacheRight, Checked

LEMMA ConsumeBlockGasRight ==
    ASSUME NInv, ConsumeBlockGas
    PROVE  NInv'
<1>1. pc = "consume" /\ ctx.seq = fin.seq /\ used \in Nat /\ blockGas \in Nat
  BY DEF ConsumeBlockGas, NInv, CacheRight, Shapes
<1>2. CASE FailMessage(used)
  BY <1>1, <1>2, FailRight
<1>3. CASE ~FailMessage(used)
  <2>1. /\ blockGas' = blockGas + used /\ fin' = ctx /\ UNCHANGED <<accepted, params>>
        /\ \E receipt : EndTx(TRUE, index, receipt)
    BY <1>3, ZenonT(60) DEF ConsumeBlockGas
  <2>2. IsLedger(fin') /\ fin'.seq = fin.seq /\ blockGas' \in Nat
    BY <1>1, <2>1 DEF NInv, Shapes
  <2> QED
    BY <2>1, <2>2, EndTxRight, ZenonT(60)
<1> QED
  BY <1>2, <1>3

(***************************************************************************)
(* The rest of the block.                                                  *)
(***************************************************************************)
LEMMA CosmosTxRight ==
    ASSUME NInv, NEW a \in Senders, NEW fee \in CosmosFees, NEW gas \in CosmosGas,
           CosmosTx(a, fee, gas)
    PROVE  NInv'
<1>1. pc = "idle" /\ UNCHANGED <<pc, tx, index, used, params>> /\ blockGas' \in Nat
  BY BlockFlowAssumption DEF CosmosTx, NInv, Shapes
<1>2. CASE UNCHANGED <<fin, ctx, accepted>>
  BY <1>1, <1>2 DEF NInv, Shapes, Settled, CacheRight, Checked, IsLedger
<1>3. CASE /\ fin' = [fin EXCEPT !.seq[a] = @ + 1, !.bal[a] = @ - fee, !.pool = @ + fee]
           /\ ctx' = fin' /\ accepted' = [accepted EXCEPT ![a] = @ + 1]
  <2> DEFINE seq == [fin.seq EXCEPT ![a] = fin.seq[a] + 1]
  <2>1. seq \in [Senders -> Nat]
    BY DEF NInv, Shapes, IsLedger
  <2>2. PICK b, q : fin' = [[fin EXCEPT !.seq = seq] EXCEPT !.bal = b, !.pool = q]
    BY <1>3, ZenonT(60) DEF NInv, Shapes, IsLedger
  <2>3. accepted' = seq
    BY <1>3 DEF NInv, Settled
  <2> HIDE DEF seq
  <2>4. IsLedger(fin') /\ fin'.seq = seq
    BY <2>1, <2>2, ZenonT(60) DEF NInv, Shapes, IsLedger
  <2> QED
    BY <1>1, <1>3, <2>3, <2>4 DEF NInv, Shapes, Settled, CacheRight, Checked
<1> QED
  BY <1>2, <1>3, ZenonT(60) DEF CosmosTx

(* The fee market: the parameters stay numbers, whatever governance sets.  *)
LEMMA GovernanceNone ==
    ASSUME NEW p
    PROVE  Governance(p, <<>>) = p
<1> DEFINE F(g) == g = [i \in 0..0 |-> IF i = 0 THEN p ELSE UpdateParams(g[i - 1], <<>>[i])]
<1>1. Governance(p, <<>>) = (CHOOSE g : F(g))[0]
  BY DEF Governance
<1>2. F([i \in 0..0 |-> p])
  OBVIOUS
<1>3. F(CHOOSE g : F(g))
  BY ONLY <1>2
<1> QED
  BY <1>1, <1>3

LEMMA GovernanceOne ==
    ASSUME NEW p, NEW new
    PROVE  Governance(p, <<new>>) = UpdateParams(p, new)
<1> DEFINE passed == <<new>>
           F(g) == g = [i \in 0..1 |-> IF i = 0 THEN p ELSE UpdateParams(g[i - 1], passed[i])]
<1>1. Governance(p, passed) = (CHOOSE g : F(g))[1]
  BY DEF Governance
<1>2. F([i \in 0..1 |-> IF i = 0 THEN p ELSE UpdateParams(p, new)])
  OBVIOUS
<1>3. F(CHOOSE g : F(g))
  BY ONLY <1>2
<1> DEFINE after == CHOOSE g : F(g)
<1>4. after = [i \in 0..1 |-> IF i = 0 THEN p ELSE UpdateParams(after[i - 1], passed[i])]
  BY <1>3
<1> HIDE DEF after
<1>5. after[0] = p /\ after[1] = UpdateParams(after[0], passed[1])
  BY <1>4
<1> QED
  BY <1>1, <1>5 DEF after

LEMMA ParamsStayValid ==
    ASSUME MaxGas > 1, params \in Params, NEW consumed \in Nat,
           NEW passed \in {<<>>} \cup {<<p>> : p \in Proposals}, EndBlockers(consumed, passed)
    PROVE  params' \in Params
<1> DEFINE decided == Governance(params, passed)
           gas == GasConsumedToLimit(consumed)
           next == CalcBaseFee(MaxGas, gas, decided.baseFee)
<1>1. decided \in Params
  <2>1. ASSUME NEW p \in Proposals PROVE UpdateParams(params, p) \in Params
    BY BlockFlowAssumption DEF UpdateParams, Validate, Params
  <2> QED
    BY <2>1, GovernanceNone, GovernanceOne
<1>2. params' = updateBaseFeeForNextBlock(consumed, decided)
  BY DEF EndBlockers
<1> HIDE DEF decided
<1>3. MaxGas \in Nat /\ gas \in Nat
  BY FeeMarketAssumption DEF GasConsumedToLimit
<1>4. params' = [decided EXCEPT !.baseFee = AtLeast(next, decided.minGasPrice)]
  BY <1>2, <1>3 DEF updateBaseFeeForNextBlock, CalculateBaseFee
<1>5. decided.baseFee \in Nat /\ decided.minGasPrice \in Nat
  BY <1>1 DEF Params
<1>6. next \in Int
  <2> DEFINE target == MaxGas \div ElasticityMultiplier
             share(gap) == (decided.baseFee * gap) \div target
             change(gap) == share(gap) \div BaseFeeChangeDenominator
  <2>1. target \in Nat \ {0}
    BY <1>3 DEF ElasticityMultiplier
  <2>2. next = CASE gas = target -> decided.baseFee
                 [] gas > target -> decided.baseFee + AtLeast(change(gas - target), 1)
                 [] gas < target -> AtLeast(decided.baseFee - change(target - gas), 0)
    BY DEF CalcBaseFee
  <2> HIDE DEF target, gas, next
  <2>3. ASSUME NEW gap \in Int PROVE change(gap) \in Int
    <3>1. PICK x \in Int : x = decided.baseFee * gap
      BY <1>5
    <3>2. share(gap) \in Int
      BY <2>1, <3>1
    <3> HIDE DEF share
    <3> QED
      BY <3>2 DEF BaseFeeChangeDenominator
  <2> HIDE DEF change
  <2>4. change(gas - target) \in Int /\ change(target - gas) \in Int
    BY <1>3, <2>1, <2>3
  <2> QED
    BY <1>3, <1>5, <2>1, <2>2, <2>4 DEF AtLeast
<1> HIDE DEF next
<1>7. AtLeast(next, decided.minGasPrice) \in Nat
  BY <1>5, <1>6 DEF AtLeast
<1> QED
  BY <1>1, <1>4, <1>7 DEF Params

LEMMA EndBlockRight ==
    ASSUME MaxGas > 1, NInv, EndBlock
    PROVE  NInv'
<1>1. /\ pc = "idle" /\ fin' = FreshBlock(fin) /\ ctx' = fin' /\ blockGas' = 0
      /\ UNCHANGED <<pc, tx, used, accepted>>
  BY DEF EndBlock
<1>2. params' \in Params
  <2>1. PICK passed \in {<<>>} \cup {<<p>> : p \in Proposals} : EndBlockers(blockGas, passed)
    BY DEF EndBlock
  <2>2. params \in Params /\ blockGas \in Nat
    BY DEF NInv, Shapes
  <2> QED
    BY <2>1, <2>2, ParamsStayValid
<1>3. IsLedger(fin') /\ fin'.seq = fin.seq
  BY <1>1, ZenonT(60) DEF FreshBlock, NInv, Shapes, IsLedger
<1> QED
  BY <1>1, <1>2, <1>3 DEF NInv, Shapes, Settled, CacheRight, Checked

LEMMA InitRight == Init => NInv
<1> SUFFICES ASSUME Init PROVE NInv
  OBVIOUS
<1>1. fin \in Ledger /\ params \in Params
  BY BlockFlowAssumption, FeeMarketAssumption DEF Init
<1>2. IsLedger(fin)
  BY <1>1 DEF Ledger, IsLedger
<1> QED
  BY <1>1, <1>2 DEF Init, NInv, Shapes, Settled, CacheRight, Checked, Stages

LEMMA NextRight ==
    ASSUME MaxGas > 1, NInv, [Next]_vars
    PROVE  NInv'
<1>1. CASE AnteHandler
  <2>1. ASSUME NEW t \in Txs, DropTx(t) PROVE NInv'
    BY <2>1 DEF DropTx, runVars, NInv, Shapes, Settled, CacheRight, Checked, IsLedger, Raised, baseFee
  <2> QED
    BY <1>1, <2>1, SetupContextRight, ValidateBasicRight, DeductFeeRight, SigVerificationRight,
       IncrementSequenceRight, SetupExecutionContextRight, EmitEventRight, SMTT(60) DEF AnteHandler
<1>2. CASE EthereumTx
  <2>1. CASE CoreError
    <3>1. tx.gas \in Nat
      BY <2>1, TxFields DEF CoreError, NInv, Shapes
    <3> QED
      BY <2>1, <3>1, FailRight DEF CoreError
  <2>2. CASE ExecutionPanics
    BY <2>2, FailRight DEF ExecutionPanics
  <2> QED
    BY <1>2, <2>1, <2>2, RestoreNonceRight, ApplyMessageRight, ConsumeBlockGasRight, SMTT(60) DEF EthereumTx
<1>3. CASE UNCHANGED vars
  BY <1>3 DEF vars, runVars, NInv, Shapes, Settled, CacheRight, Checked, IsLedger, Raised, baseFee
<1> QED
  BY <1>1, <1>2, <1>3, CosmosTxRight, EndBlockRight, SMTT(60) DEF Next

LEMMA Inductive ==
    ASSUME MaxGas > 1
    PROVE  Spec => []NInv
<1>1. NInv /\ [Next]_vars => NInv'
  BY NextRight
<1> QED
  BY <1>1, InitRight, PTL DEF Spec

(* The three writes of a nonce add up, whichever caches are dropped: the   *)
(* sequence of an account is the number of its transactions that passed    *)
(* the ante handler.                                                       *)
THEOREM NoncesRight ==
    ASSUME MaxGas > 1
    PROVE  Spec => []NonceCountsAccepted
<1>1. NInv => NonceCountsAccepted
  BY DEF NInv, Settled, NonceCountsAccepted
<1> QED
  BY <1>1, Inductive, PTL

(* The panics of SigVerification, IncrementSequence and EthereumTx and the *)
(* errors of preCheck are unreachable behind the ante handler.             *)
THEOREM AnteSound ==
    ASSUME MaxGas > 1
    PROVE  Spec => []AnteSuffices
<1>1. NInv => AnteSuffices
  <2> SUFFICES ASSUME NInv PROVE AnteSuffices
    OBVIOUS
  <2>1. pc = "message" => ctx.seq[tx.from] = tx.nonce + 1
    BY DEF NInv, CacheRight
  <2>2. pc = "execute" => ctx.seq[tx.from] = tx.nonce
    BY TxFields DEF NInv, CacheRight, Shapes, IsLedger
  <2> QED
    BY <2>1, <2>2 DEF NInv, Checked, AnteSuffices, preCheck
<1> QED
  BY <1>1, Inductive, PTL

(***************************************************************************)
(* Fees.  The gas limit is paid for in the ante handler, what is left is   *)
(* paid back by the EVM's side, and the gas on record decides what was     *)
(* owed.                                                                   *)
(***************************************************************************)
Price == EffectiveGasPrice(tx)
Charged(bal, gas) == [bal EXCEPT ![tx.from] = @ - gas * Price]

(* The fields of a ledger the argument about fees looks at.                *)
HasBooks(s) ==
    /\ s.bal \in [Senders -> Int] /\ s.gas \in [Idx -> Nat] /\ s.count \in Nat
    /\ s.receipts = [i \in Idx |-> s.receipts[i]]

Books ==
    /\ HasBooks(fin) /\ HasBooks(ctx) /\ owed \in [Senders -> Int]
    /\ \E S : results \in Seq(S)

(* A counted transaction has an index of its own among those of the block. *)
Counts ==
    /\ pc # "idle" => Len(results) < MaxTxs
    /\ pc \in Stages \ {"message", "execute", "consume"} => fin.count <= Len(results)
    /\ pc \in {"validate", "fee", "signature", "sequence", "setup"} => ctx.count = fin.count
    /\ pc = "emit" => ctx.count = fin.count + 1
    /\ pc \in {"message", "execute", "consume"} =>
            ctx.count = fin.count /\ index = fin.count - 1 /\ index \in Idx /\ fin.count <= Len(results) + 1

(* Where the fee is, stage by stage.                                       *)
Balances ==
    /\ pc \in {"idle", "validate", "fee", "signature", "sequence", "setup", "emit"} => fin.bal = owed
    /\ pc \in {"validate", "fee"} => ctx.bal = owed
    /\ pc \in {"signature", "sequence", "setup", "emit"} => ctx.bal = Charged(owed, tx.gas)
    /\ pc = "emit" => ctx.gas[ctx.count - 1] = tx.gas
    /\ pc \in {"message", "execute", "consume"} =>
            fin.bal = Charged(owed, tx.gas) /\ fin.gas[index] = tx.gas
    /\ pc \in {"message", "execute"} => ctx.bal = fin.bal
    /\ pc = "consume" =>
            /\ ctx.gas[index] = used
            /\ ctx.bal = Charged(IF ctx.receipts[index].ok THEN Moved(owed) ELSE owed, used)

FInv == Books /\ Counts /\ Balances

(* The index of a counted transaction.                                     *)
LEMMA IndexFacts ==
    ASSUME NEW s, s.count \in Nat
    PROVE  /\ s.count >= 1 => CurrentIdx(s) = s.count - 1
           /\ s.count >= 1 /\ s.count <= MaxTxs => s.count - 1 \in Idx
  BY BlockFlowAssumption DEF CurrentIdx, GetTxCountTransient, AtLeast, Idx

LEMMA PriceFacts ==
    ASSUME NInv, pc # "idle"
    PROVE  /\ Price \in Nat /\ tx \in Tx /\ tx.from \in Senders /\ tx.gas \in Nat
           /\ UNCHANGED <<tx, params>> => Price' = Price
<1>1. tx \in Tx /\ params.baseFee \in Nat
  BY DEF NInv, Shapes, Params
<1> QED
  BY <1>1, TxFields DEF Price, EffectiveGasPrice, baseFee

(* One more result.                                                        *)
LEMMA ResultsGrow ==
    ASSUME NEW S, results \in Seq(S), NEW r, results' = Append(results, r)
    PROVE  (\E T : results' \in Seq(T)) /\ Len(results') = Len(results) + 1 /\ Len(results) \in Nat
<1>1. results \in Seq(S \cup {r})
  OBVIOUS
<1> QED
  BY <1>1

(* A transaction that ends: the balances are those it leaves.              *)
LEMMA EndTxBooks ==
    ASSUME NInv, FInv, pc # "idle", NEW ok, NEW i, NEW receipt, EndTx(ok, i, receipt),
           HasBooks(fin'), fin'.bal = owed', owed' \in [Senders -> Int],
           fin'.count <= Len(results) + 1
    PROVE  FInv'
<1>1. /\ ctx' = fin' /\ pc' = "idle"
      /\ results' = Append(results, Result(tx, TRUE, ok, i, receipt))
  BY DEF EndTx
<1>2. (\E T : results' \in Seq(T)) /\ Len(results') = Len(results) + 1
  BY <1>1, ResultsGrow, ZenonT(60) DEF FInv, Books
<1>3. Books'
  BY <1>1, <1>2, ZenonT(60) DEF Books, HasBooks
<1>4. Counts' /\ Balances'
  BY <1>1, <1>2 DEF Counts, Balances, Stages
<1> QED
  BY <1>3, <1>4 DEF FInv

LEMMA RejectBooks ==
    ASSUME NInv, FInv, RejectTx, pc \in {"validate", "fee", "signature"}
    PROVE  FInv'
<1>1. /\ UNCHANGED <<fin, owed>> /\ EndTx(FALSE, NoIndex, NoReceipt)
  BY ZenonT(60) DEF RejectTx
<1>2. fin.bal = owed /\ owed \in [Senders -> Int] /\ fin.count <= Len(results) /\ fin.count \in Nat
      /\ Len(results) \in Nat /\ HasBooks(fin)
  BY DEF FInv, Books, HasBooks, Counts, Balances, Stages
<1>3. HasBooks(fin') /\ fin'.count <= Len(results) + 1
  BY <1>1, <1>2 DEF HasBooks
<1> QED
  BY <1>1, <1>2, <1>3, EndTxBooks, ZenonT(60)

(* A message that fails: the gas limit the ante handler recorded is owed.  *)
LEMMA FailBooks ==
    ASSUME NInv, FInv, NEW gas, FailMessage(gas), pc \in {"message", "execute", "consume"}
    PROVE  FInv'
<1>1. /\ UNCHANGED fin /\ Settle(owed) /\ EndTx(FALSE, index, NoReceipt)
  BY ZenonT(60) DEF FailMessage
<1>2. fin.bal = Charged(owed, tx.gas) /\ fin.gas[index] = tx.gas
      /\ owed \in [Senders -> Int] /\ HasBooks(fin) /\ fin.count <= Len(results) + 1
  BY DEF FInv, Books, Counts, Balances
<1>3. owed' = [owed EXCEPT ![tx.from] = @ - tx.gas * Price]
  BY <1>1, <1>2 DEF Settle, Price
<1>4. owed' = fin'.bal /\ HasBooks(fin') /\ fin'.count <= Len(results) + 1
  BY <1>1, <1>2, <1>3, SMTT(60) DEF Charged, HasBooks
<1>5. owed' \in [Senders -> Int]
  BY <1>2, <1>3, PriceFacts, SMTT(60)
<1> QED
  BY <1>1, <1>4, <1>5, EndTxBooks, ZenonT(60)

(* A decorator that touches neither coins, gas nor count.                  *)
LEMMA AdvanceBooks ==
    ASSUME NInv, FInv, NEW next, Advance(next), HasBooks(ctx'), UNCHANGED <<fin, tx, params>>,
           ctx'.bal = ctx.bal, ctx'.count = ctx.count,
           <<pc, next>> \in {<<"validate", "fee">>, <<"signature", "sequence">>,
                             <<"sequence", "setup">>, <<"message", "execute">>}
    PROVE  FInv'
<1>1. pc' = next /\ UNCHANGED <<fin, tx, index, used, results, owed, params>>
  BY DEF Advance
<1>2. pc # "idle" /\ Price' = Price
  BY <1>1, PriceFacts, SMTT(60)
<1>3. Books'
  BY <1>1 DEF FInv, Books, HasBooks
<1>4. Counts'
  BY <1>1, SMTT(60) DEF FInv, Counts, Stages
<1>5. Balances'
  BY <1>1, <1>2 DEF FInv, Balances, Charged
<1> QED
  BY <1>3, <1>4, <1>5, SMTT(60) DEF FInv

LEMMA SetupContextBooks ==
    ASSUME NInv, FInv, NEW t \in Txs, SetupContext(t)
    PROVE  FInv'
<1>1. /\ pc = "idle" /\ Len(results) < MaxTxs /\ pc' = "validate"
      /\ ctx' = [fin EXCEPT !.nonceFlag = FALSE, !.paidFlag = FALSE]
      /\ UNCHANGED <<fin, index, used, results, owed>>
  BY DEF SetupContext
<1>2. HasBooks(ctx') /\ ctx'.bal = fin.bal /\ ctx'.count = fin.count
  BY <1>1 DEF NInv, Shapes, IsLedger, FInv, Books, HasBooks
<1>3. Books'
  BY <1>1, <1>2 DEF FInv, Books, HasBooks
<1>4. Counts'
  BY <1>1, <1>2 DEF FInv, Counts, Stages
<1>5. Balances'
  BY <1>1, <1>2 DEF FInv, Balances
<1> QED
  BY <1>3, <1>4, <1>5 DEF FInv

LEMMA ValidateBasicBooks ==
    ASSUME NInv, FInv, ValidateBasic
    PROVE  FInv'
<1>1. CASE RejectTx
  BY <1>1, RejectBooks DEF ValidateBasic
<1>2. CASE Advance("fee") /\ UNCHANGED ctx
  <2>1. HasBooks(ctx') /\ UNCHANGED <<fin, tx, params>> /\ pc = "validate"
    BY <1>2 DEF ValidateBasic, Advance, FInv, Books, HasBooks
  <2> QED
    BY <1>2, <2>1, AdvanceBooks, SMTT(60)
<1> QED
  BY <1>1, <1>2 DEF ValidateBasic

(* The whole gas limit is charged at the effective price.                  *)
LEMMA DeductFeeBooks ==
    ASSUME NInv, FInv, DeductFee
    PROVE  FInv'
<1>1. CASE RejectTx
  BY <1>1, RejectBooks DEF DeductFee
<1>2. CASE Advance("signature")
            /\ ctx' = [ctx EXCEPT !.paidFlag = TRUE,
                                  !.bal[tx.from] = @ - EthTxEffectiveFee(tx),
                                  !.pool = @ + EthTxEffectiveFee(tx)]
  <2> DEFINE bal == [ctx.bal EXCEPT ![tx.from] = @ - tx.gas * Price]
  <2>1. pc = "fee" /\ ctx.bal = owed /\ owed \in [Senders -> Int] /\ HasBooks(ctx)
    BY DEF DeductFee, FInv, Balances, Books
  <2>2. bal \in [Senders -> Int] /\ bal = Charged(owed, tx.gas)
    BY <2>1, PriceFacts DEF Charged
  <2>3. PICK q : ctx' = [ctx EXCEPT !.paidFlag = TRUE, !.bal = bal, !.pool = q]
    BY <1>2, ZenonT(60) DEF EthTxEffectiveFee, Price
  <2> HIDE DEF bal
  <2>4. /\ ctx'.bal = bal /\ ctx'.gas = ctx.gas /\ ctx'.count = ctx.count
        /\ ctx'.receipts = ctx.receipts
    BY <2>3 DEF NInv, Shapes, IsLedger
  <2>5. HasBooks(ctx')
    BY <2>1, <2>2, <2>4, SMTT(60) DEF HasBooks
  <2>6. pc' = "signature" /\ UNCHANGED <<fin, tx, index, used, results, owed, params>>
    BY <1>2 DEF Advance
  <2>7. Price' = Price
    BY <2>1, <2>6, PriceFacts, SMTT(60)
  <2>8. Books'
    BY <2>5, <2>6, SMTT(60) DEF FInv, Books, HasBooks
  <2>9. Counts'
    BY <2>1, <2>4, <2>6, SMTT(60) DEF FInv, Counts, Stages
  <2>10. Balances'
    BY <2>1, <2>2, <2>4, <2>6, <2>7, SMTT(60) DEF FInv, Balances, Charged
  <2> QED
    BY <2>8, <2>9, <2>10, SMTT(60) DEF FInv
<1> QED
  BY <1>1, <1>2 DEF DeductFee

LEMMA SigVerificationBooks ==
    ASSUME NInv, FInv, SigVerification
    PROVE  FInv'
<1>1. CASE RejectTx
  BY <1>1, RejectBooks DEF SigVerification
<1>2. CASE Advance("sequence") /\ UNCHANGED ctx
  <2>1. HasBooks(ctx') /\ UNCHANGED <<fin, tx, params>> /\ pc = "signature"
    BY <1>2 DEF SigVerification, Advance, FInv, Books, HasBooks
  <2> QED
    BY <1>2, <2>1, AdvanceBooks, SMTT(60)
<1> QED
  BY <1>1, <1>2 DEF SigVerification

LEMMA IncrementSequenceBooks ==
    ASSUME NInv, FInv, IncrementSequence
    PROVE  FInv'
<1>1. PICK q : ctx' = [ctx EXCEPT !.seq = q, !.nonceFlag = TRUE]
  BY ZenonT(60) DEF IncrementSequence
<1>2. /\ ctx'.bal = ctx.bal /\ ctx'.gas = ctx.gas /\ ctx'.count = ctx.count
      /\ ctx'.receipts = ctx.receipts
  BY <1>1 DEF NInv, Shapes, IsLedger
<1>3. HasBooks(ctx')
  BY <1>2 DEF FInv, Books, HasBooks
<1>4. pc = "sequence" /\ Advance("setup") /\ UNCHANGED <<fin, tx, params>>
  BY SMTT(60) DEF IncrementSequence, Advance
<1> QED
  BY <1>2, <1>3, <1>4, AdvanceBooks, SMTT(60)

(* The transaction is counted, and its gas limit recorded at its index.    *)
LEMMA SetupExecutionContextBooks ==
    ASSUME NInv, FInv, SetupExecutionContext
    PROVE  FInv'
<1> DEFINE i == fin.count
<1>1. /\ pc = "setup" /\ pc' = "emit" /\ UNCHANGED <<fin, tx, index, used, results, owed, params>>
  BY DEF SetupExecutionContext, Advance
<1>2. /\ ctx.count = i /\ i \in Nat /\ HasBooks(ctx) /\ Len(results) \in Nat
      /\ i <= Len(results) /\ Len(results) < MaxTxs /\ MaxTxs \in Nat
  BY <1>1, BlockFlowAssumption, SMTT(60) DEF FInv, Books, HasBooks, Counts, Stages
<1>3. i \in Idx
  BY ONLY <1>2 DEF Idx
<1> DEFINE counted == [ctx EXCEPT !.count = @ + 1]
<1>4. counted.count = i + 1 /\ CurrentIdx(counted) = i
  <2>1. counted.count = i + 1
    BY <1>2 DEF NInv, Shapes, IsLedger
  <2> HIDE DEF counted
  <2> QED
    BY <1>2, <2>1, IndexFacts, SMTT(60)
<1>5. PICK r : ctx' = [counted EXCEPT !.gas[i] = tx.gas, !.receipts[i] = r]
  BY <1>4, ZenonT(60) DEF SetupExecutionContext
<1>6. /\ ctx'.bal = ctx.bal /\ ctx'.gas = [ctx.gas EXCEPT ![i] = tx.gas]
      /\ ctx'.count = i + 1 /\ ctx'.receipts = [ctx.receipts EXCEPT ![i] = r]
  BY <1>2, <1>5 DEF NInv, Shapes, IsLedger
<1>7. HasBooks(ctx') /\ ctx'.gas[i] = tx.gas
  <2>1. tx.gas \in Nat
    BY <1>1, PriceFacts, SMTT(60)
  <2>2. ctx'.gas \in [Idx -> Nat] /\ ctx'.gas[i] = tx.gas
    BY ONLY <1>2, <1>3, <1>6, <2>1, SMTT(60) DEF HasBooks
  <2>3. ctx'.receipts = [j \in Idx |-> ctx'.receipts[j]]
    BY ONLY <1>2, <1>6 DEF HasBooks
  <2>4. ctx'.bal \in [Senders -> Int] /\ ctx'.count \in Nat
    BY ONLY <1>2, <1>6 DEF HasBooks
  <2> QED
    BY ONLY <2>2, <2>3, <2>4, SMTT(60) DEF HasBooks
<1>8. Price' = Price
  BY <1>1, PriceFacts, SMTT(60)
<1>9. Books'
  BY <1>1, <1>7, SMTT(60) DEF FInv, Books, HasBooks
<1>10. Counts'
  BY <1>1, <1>2, <1>6, SMTT(60) DEF FInv, Counts, Stages
<1>11. Balances'
  <2>1. ctx'.gas[ctx'.count - 1] = tx'.gas
    BY <1>1, <1>2, <1>6, <1>7, SMTT(60)
  <2> QED
    BY <1>1, <1>6, <1>8, <2>1, SMTT(60) DEF FInv, Balances, Charged
<1> QED
  BY <1>9, <1>10, <1>11, SMTT(60) DEF FInv

LEMMA EmitEventBooks ==
    ASSUME NInv, FInv, EmitEvent
    PROVE  FInv'
<1>1. /\ pc = "emit" /\ pc' = "message" /\ fin' = ctx /\ index' = CurrentIdx(ctx)
      /\ UNCHANGED <<ctx, tx, used, results, owed, params>>
  BY DEF EmitEvent
<1>2. /\ ctx.count = fin.count + 1 /\ fin.count \in Nat /\ ctx.count \in Nat /\ Len(results) \in Nat
      /\ fin.count <= Len(results) /\ Len(results) < MaxTxs /\ MaxTxs \in Nat
  BY <1>1, BlockFlowAssumption DEF FInv, Books, HasBooks, Counts, Stages
<1>3. index' = ctx.count - 1 /\ ctx.count - 1 \in Idx
  BY <1>1, <1>2, IndexFacts, SMTT(60)
<1>4. Price' = Price
  BY <1>1, PriceFacts, SMTT(60)
<1>5. Books'
  BY <1>1 DEF FInv, Books, HasBooks
<1>6. Counts'
  BY <1>1, <1>2, <1>3, SMTT(60) DEF FInv, Counts, Stages
<1>7. Balances'
  BY <1>1, <1>3, <1>4 DEF FInv, Balances, Charged
<1> QED
  BY <1>5, <1>6, <1>7, SMTT(60) DEF FInv

LEMMA RestoreNonceBooks ==
    ASSUME NInv, FInv, RestoreNonce
    PROVE  FInv'
<1>1. CASE FailMessage(0)
  BY <1>1, FailBooks DEF RestoreNonce
<1>2. CASE /\ Advance("execute")
           /\ ctx' = IF ctx.nonceFlag
                     THEN [ctx EXCEPT !.seq[tx.from] = @ - 1, !.nonceFlag = FALSE]
                     ELSE ctx
  <2>1. PICK q, b : ctx' = [ctx EXCEPT !.seq = q, !.nonceFlag = b] \/ ctx' = ctx
    BY <1>2, ZenonT(60)
  <2>2. /\ ctx'.bal = ctx.bal /\ ctx'.gas = ctx.gas /\ ctx'.count = ctx.count
        /\ ctx'.receipts = ctx.receipts
    BY <2>1, ZenonT(60) DEF NInv, Shapes, IsLedger
  <2>3. HasBooks(ctx')
    BY <2>2 DEF FInv, Books, HasBooks
  <2>4. pc = "message" /\ UNCHANGED <<fin, tx, params>>
    BY <1>2 DEF RestoreNonce, Advance
  <2> QED
    BY <1>2, <2>2, <2>3, <2>4, AdvanceBooks, SMTT(60)
<1> QED
  BY <1>1, <1>2 DEF RestoreNonce

LEMMA MovedFacts ==
    ASSUME NEW bal \in [Senders -> Int], NEW gas \in Nat, Price \in Nat, tx \in Tx
    PROVE  /\ Moved(bal) \in [Senders -> Int]
           /\ tx.value = 0 => Moved(bal) = bal
           /\ Moved(Charged(bal, gas)) = Charged(Moved(bal), gas)
<1>1. tx.from \in Senders /\ tx.to \in Senders /\ tx.value \in Nat
  BY TxFields
<1>2. PICK x \in Int : x = gas * Price
  OBVIOUS
<1>3. Moved(bal) \in [Senders -> Int] /\ (tx.value = 0 => Moved(bal) = bal)
  BY <1>1 DEF Moved
<1> DEFINE left == Moved([bal EXCEPT ![tx.from] = @ - x])
           right == [Moved(bal) EXCEPT ![tx.from] = @ - x]
<1>4. left = right
  <2>1. left \in [Senders -> Int] /\ right \in [Senders -> Int]
    BY <1>1 DEF Moved
  <2>2. ASSUME NEW a \in Senders PROVE left[a] = right[a]
    <3>1. bal[a] \in Int
      OBVIOUS
    <3>2. CASE a = tx.from /\ a = tx.to
      <4>1. left[a] = bal[a] - x - tx.value + tx.value /\ right[a] = bal[a] - tx.value + tx.value - x
        BY <1>1, <3>2, SMTT(60) DEF Moved
      <4> QED
        BY ONLY <1>1, <1>2, <3>1, <4>1, SMTT(60)
    <3>3. CASE a = tx.from /\ a # tx.to
      <4>1. left[a] = bal[a] - x - tx.value /\ right[a] = bal[a] - tx.value - x
        BY <1>1, <3>3, SMTT(60) DEF Moved
      <4> QED
        BY ONLY <1>1, <1>2, <3>1, <4>1, SMTT(60)
    <3>4. CASE a # tx.from
      BY <1>1, <3>4, SMTT(60) DEF Moved
    <3> QED
      BY <3>2, <3>3, <3>4, SMTT(60)
  <2> QED
    BY ONLY <2>1, <2>2, ZenonT(60)
<1> QED
  BY <1>2, <1>3, <1>4, SMTT(60) DEF Charged

(* The balances after the EVM has run.                                     *)
LEMMA TransitionDbPays ==
    ASSUME NInv, FInv, pc = "execute", NEW gas \in 1..tx.gas, NEW ok \in BOOLEAN
    PROVE  LET s == TransitionDb(gas, ok)
           IN  /\ s.bal = Charged(IF ok THEN Moved(owed) ELSE owed, gas)
               /\ s.count = ctx.count /\ s.gas = ctx.gas /\ s.receipts = ctx.receipts /\ s.logs = ctx.logs
               /\ IsLedger(s)
<1> DEFINE raised == [ctx EXCEPT !.seq[tx.from] = tx.nonce + 1]
           moves == ok /\ tx.value > 0
           called == IF moves
                     THEN [raised EXCEPT !.bal = Moved(@), !.known = @ \cup {tx.to}]
                     ELSE raised
<1>1. /\ tx \in Tx /\ Price \in Nat /\ tx.from \in Senders /\ tx.to \in Senders
      /\ tx.gas \in Nat /\ tx.value \in Nat /\ tx.nonce \in Nat /\ gas \in Nat
  BY PriceFacts, TxFields, SMTT(60)
<1>2. ctx.bal = Charged(owed, tx.gas) /\ owed \in [Senders -> Int] /\ ctx.paidFlag
  BY DEF FInv, Books, Balances, NInv, Checked
<1> DEFINE to == IF ok THEN Moved(owed) ELSE owed
<1>3. to \in [Senders -> Int] /\ (IF moves THEN Moved(ctx.bal) ELSE ctx.bal) = Charged(to, tx.gas)
  BY <1>1, <1>2, MovedFacts, SMTT(60)
<1>4. /\ IsLedger(called) /\ called.paidFlag /\ called.bal = Charged(to, tx.gas)
      /\ called.count = ctx.count /\ called.gas = ctx.gas /\ called.receipts = ctx.receipts /\ called.logs = ctx.logs
  <2>1. /\ IsLedger(raised) /\ raised.bal = ctx.bal /\ raised.paidFlag = ctx.paidFlag
        /\ raised.known = ctx.known
        /\ raised.count = ctx.count /\ raised.gas = ctx.gas /\ raised.receipts = ctx.receipts /\ raised.logs = ctx.logs
    BY <1>1 DEF NInv, Shapes, IsLedger
  <2> HIDE DEF raised
  <2>2. CASE moves
    <3>1. PICK b, k : b = Moved(raised.bal) /\ k = raised.known \cup {tx.to}
      BY ZenonT(60)
    <3>2. called = [raised EXCEPT !.bal = b, !.known = k] /\ k \subseteq Senders
      BY <1>1, <2>1, <2>2, <3>1, SMTT(60) DEF NInv, Shapes, IsLedger
    <3>3. /\ IsLedger(called) /\ called.paidFlag = ctx.paidFlag /\ called.bal = b
          /\ called.count = ctx.count /\ called.gas = ctx.gas /\ called.receipts = ctx.receipts /\ called.logs = ctx.logs
      BY ONLY <2>1, <3>2, ZenonT(60) DEF IsLedger
    <3> QED
      BY ONLY <1>2, <1>3, <2>1, <2>2, <3>1, <3>3, ZenonT(60)
  <2>3. CASE ~moves
    BY <1>2, <1>3, <2>1, <2>3, ZenonT(60)
  <2> QED
    BY <2>2, <2>3
<1> DEFINE s == TransitionDb(gas, ok)
<1>5. s = [called EXCEPT !.bal[tx.from] = @ + (tx.gas - gas) * Price]
  BY <1>4 DEF TransitionDb, refundGas, Price
<1> HIDE DEF called, s
<1>6. PICK b : b = [called.bal EXCEPT ![tx.from] = @ + (tx.gas - gas) * Price]
  BY ZenonT(60)
<1>7. s = [called EXCEPT !.bal = b]
  BY <1>5, <1>6
<1>8. /\ s.bal = b /\ IsLedger(s)
      /\ s.count = ctx.count /\ s.gas = ctx.gas /\ s.receipts = ctx.receipts /\ s.logs = ctx.logs
  BY ONLY <1>4, <1>7 DEF IsLedger
(* What is paid back makes the charge for the gas limit one for the gas used. *)
<1>9. b = Charged(to, gas)
  <2> HIDE DEF to
  <2>1. to \in [Senders -> Int]
    BY <1>3
  <2>2. called.bal = [to EXCEPT ![tx.from] = @ - tx.gas * Price]
    BY <1>4 DEF Charged
  <2>3. b = [[to EXCEPT ![tx.from] = @ - tx.gas * Price]
                EXCEPT ![tx.from] = @ + (tx.gas - gas) * Price]
    BY ONLY <1>6, <2>2
  <2>4. PICK l \in Nat, g \in Nat, p \in Nat : l = tx.gas /\ g = gas /\ p = Price
    BY <1>1
  <2>5. PICK x \in Int, y \in Int : x = l * p /\ y = g * p
    BY <2>4
  <2>6. (l - g) * p = x - y
    BY ONLY <2>4, <2>5
  <2>7. b = [[to EXCEPT ![tx.from] = @ - x] EXCEPT ![tx.from] = @ + (x - y)]
    BY ONLY <2>3, <2>4, <2>5, <2>6, ZenonT(60)
  <2>8. b = [to EXCEPT ![tx.from] = @ - y]
    <3>1. x \in Int /\ y \in Int /\ tx.from \in Senders /\ to[tx.from] \in Int
      BY <1>1, <2>1, <2>5, SMTT(60)
    <3>2. (to[tx.from] - x) + (x - y) = to[tx.from] - y
      BY ONLY <3>1
    <3> QED
      BY ONLY <2>1, <2>7, <3>1, <3>2, ZenonT(60)
  <2> QED
    BY <2>4, <2>5, <2>8, SMTT(60) DEF Charged
<1> QED
  BY <1>8, <1>9, SMTT(60) DEF s

LEMMA ApplyMessageBooks ==
    ASSUME NInv, FInv, pc = "execute", NEW gas \in 1..tx.gas, NEW n, NEW ok \in BOOLEAN,
           ApplyMessage(gas, n, ok)
    PROVE  FInv'
<1> DEFINE s == TransitionDb(gas, ok)
<1>1. /\ s.bal = Charged(IF ok THEN Moved(owed) ELSE owed, gas)
      /\ s.count = ctx.count /\ s.gas = ctx.gas /\ s.receipts = ctx.receipts /\ IsLedger(s)
  BY TransitionDbPays
<1>2. PICK r, l : /\ r.ok = ok
                 /\ ctx' = [s EXCEPT !.logs = l, !.gas[CurrentIdx(s)] = gas,
                                     !.receipts[CurrentIdx(s)] = r]
  BY ZenonT(60) DEF ApplyMessage
<1>3. /\ pc' = "consume" /\ used' = gas
      /\ UNCHANGED <<fin, tx, index, results, owed, params>>
  BY DEF ApplyMessage
<1> HIDE DEF s
<1>4. /\ ctx.count = fin.count /\ index = fin.count - 1 /\ index \in Idx /\ HasBooks(ctx)
      /\ fin.count \in Nat /\ fin.count <= Len(results) + 1
  BY DEF FInv, Books, HasBooks, Counts
<1>5. CurrentIdx(s) = index
  <2>1. fin.count >= 1
    BY <1>4, BlockFlowAssumption DEF Idx
  <2> QED
    BY <1>1, <1>4, <2>1, IndexFacts, SMTT(60)
<1>6. /\ ctx'.bal = s.bal /\ ctx'.count = ctx.count
      /\ ctx'.gas = [ctx.gas EXCEPT ![index] = gas]
      /\ ctx'.receipts = [ctx.receipts EXCEPT ![index] = r]
  <2>1. PICK g, q : g = [s.gas EXCEPT ![index] = gas] /\ q = [s.receipts EXCEPT ![index] = r]
    BY ZenonT(60)
  <2>2. ctx' = [s EXCEPT !.logs = l, !.gas = g, !.receipts = q]
    BY ONLY <1>2, <1>5, <2>1, SMTT(60)
  <2> QED
    BY ONLY <1>1, <2>1, <2>2 DEF IsLedger
<1>7. gas \in Nat /\ Price \in Nat /\ tx.from \in Senders /\ Price' = Price
  BY <1>3, PriceFacts, SMTT(60)
<1>8. (IF ok THEN Moved(owed) ELSE owed) \in [Senders -> Int] /\ owed \in [Senders -> Int]
  BY PriceFacts, MovedFacts, SMTT(60) DEF FInv, Books
<1>9. HasBooks(ctx') /\ ctx'.gas[index] = gas /\ ctx'.receipts[index].ok = ok
  <2>1. ctx'.bal \in [Senders -> Int]
    BY <1>1, <1>6, <1>7, <1>8, SMTT(60) DEF Charged
  <2>2. ctx'.gas \in [Idx -> Nat] /\ ctx'.gas[index] = gas
    BY ONLY <1>4, <1>6, <1>7, SMTT(60) DEF HasBooks
  <2>3. ctx'.receipts = [i \in Idx |-> ctx'.receipts[i]] /\ ctx'.receipts[index] = r
    BY ONLY <1>4, <1>6, SMTT(60) DEF HasBooks
  <2> QED
    BY ONLY <1>2, <1>4, <1>6, <2>1, <2>2, <2>3, SMTT(60) DEF HasBooks
<1>10. Books'
  BY <1>3, <1>9, SMTT(60) DEF FInv, Books, HasBooks
<1>11. Counts'
  BY <1>3, <1>4, <1>6, SMTT(60) DEF FInv, Counts, Stages
<1>12. Balances'
  <2>1. fin'.bal = Charged(owed, tx.gas)' /\ fin'.gas[index'] = tx'.gas
    BY <1>3, <1>7, SMTT(60) DEF FInv, Balances, Charged
  <2>2. ctx'.bal = Charged(IF ctx.receipts[index].ok THEN Moved(owed) ELSE owed, used)'
    <3>1. Moved(owed)' = Moved(owed)
      BY <1>3 DEF Moved
    <3>2. ctx'.bal = Charged(IF ok THEN Moved(owed) ELSE owed, gas)
      BY <1>1, <1>6, SMTT(60)
    <3>3. ctx'.receipts[index'].ok = ok
      BY <1>3, <1>9, SMTT(60)
    <3> DEFINE to == IF ok THEN Moved(owed) ELSE owed
    <3>4. (IF ctx.receipts[index].ok THEN Moved(owed) ELSE owed)' = to
      BY <1>3, <3>1, <3>3, SMTT(60)
    <3>5. ctx'.bal = [to EXCEPT ![tx.from] = @ - gas * Price]
      BY <3>2, SMTT(60) DEF Charged
    <3> HIDE DEF to
    <3> QED
      BY <1>3, <1>7, <3>4, <3>5, SMTT(60) DEF Charged
  <2>3. ctx'.gas[index'] = used'
    BY <1>3, <1>9
  <2> QED
    BY <1>3, <2>1, <2>2, <2>3, SMTT(60) DEF Balances
<1> QED
  BY <1>10, <1>11, <1>12, SMTT(60) DEF FInv

LEMMA ConsumeBlockGasBooks ==
    ASSUME NInv, FInv, ConsumeBlockGas
    PROVE  FInv'
<1>1. pc = "consume"
  BY DEF ConsumeBlockGas
<1>2. CASE FailMessage(used)
  BY <1>1, <1>2, FailBooks, SMTT(60)
<1>3. CASE /\ fin' = ctx
           /\ Settle(IF ctx.receipts[index].ok THEN Moved(owed) ELSE owed)
           /\ EndTx(TRUE, index,
                    [ok |-> ctx.receipts[index].ok, gasUsed |-> used,
                     cumulative |-> ctx.receipts[index].cumulative])
  <2> DEFINE to == IF ctx.receipts[index].ok THEN Moved(owed) ELSE owed
  <2>1. /\ ctx.gas[index] = used /\ ctx.bal = Charged(to, used) /\ HasBooks(ctx)
        /\ ctx.count = fin.count /\ fin.count <= Len(results) + 1
    BY <1>1, SMTT(60) DEF FInv, Books, Counts, Balances
  <2> HIDE DEF to
  <2>2. owed' = [to EXCEPT ![tx.from] = @ - used * Price]
    BY <1>3, <2>1, SMTT(60) DEF Settle, Price, to
  <2>3. fin'.bal = owed' /\ owed' \in [Senders -> Int]
    <3>1. ctx.bal = owed'
      BY ONLY <2>1, <2>2, SMTT(60) DEF Charged
    <3> QED
      BY ONLY <1>3, <2>1, <3>1, SMTT(60) DEF HasBooks
  <2>4. HasBooks(fin') /\ fin'.count <= Len(results) + 1
    BY ONLY <1>3, <2>1, SMTT(60) DEF HasBooks
  <2> QED
    BY <1>1, <1>3, <2>3, <2>4, EndTxBooks, ZenonT(60)
<1> QED
  BY <1>2, <1>3, ZenonT(60) DEF ConsumeBlockGas

(* Between transactions of the Ethereum lane.                              *)
LEMMA IdleBooks ==
    ASSUME HasBooks(fin'), ctx' = fin', pc' = "idle", fin'.bal = owed', owed' \in [Senders -> Int],
           \E S : results' \in Seq(S), fin'.count <= Len(results')
    PROVE  FInv'
<1>1. Books'
  BY DEF Books, HasBooks
<1>2. Counts' /\ Balances'
  BY DEF Counts, Balances, Stages
<1> QED
  BY <1>1, <1>2, SMTT(60) DEF FInv

LEMMA CosmosTxBooks ==
    ASSUME NInv, FInv, NEW a \in Senders, NEW fee \in CosmosFees, NEW gas, CosmosTx(a, fee, gas)
    PROVE  FInv'
<1>1. /\ pc = "idle" /\ pc' = "idle" /\ Len(results) < MaxTxs
      /\ \E r : results' = Append(results, r)
      /\ \/ UNCHANGED <<fin, ctx, owed>>
         \/ /\ fin' = [fin EXCEPT !.seq[a] = @ + 1, !.bal[a] = @ - fee, !.pool = @ + fee]
            /\ ctx' = fin' /\ owed' = [owed EXCEPT ![a] = @ - fee]
  BY ZenonT(60) DEF CosmosTx
<1>2. /\ fin.bal = owed /\ owed \in [Senders -> Int] /\ HasBooks(fin) /\ fin.count <= Len(results)
  BY <1>1 DEF FInv, Books, Counts, Balances, Stages
<1>3. (\E T : results' \in Seq(T)) /\ Len(results') = Len(results) + 1 /\ Len(results) \in Nat
  BY <1>1, ResultsGrow, SMTT(60) DEF FInv, Books
<1>4. fin.count <= Len(results')
  BY <1>2, <1>3 DEF HasBooks
<1>5. CASE UNCHANGED <<fin, ctx, owed>>
  <2>1. Books'
    BY <1>3, <1>5 DEF FInv, Books, HasBooks
  <2>3. Counts' /\ Balances'
    BY <1>1, <1>2, <1>4, <1>5, SMTT(60) DEF Counts, Balances, Stages
  <2> QED
    BY <2>1, <2>3, SMTT(60) DEF FInv
<1>6. CASE /\ fin' = [fin EXCEPT !.seq[a] = @ + 1, !.bal[a] = @ - fee, !.pool = @ + fee]
           /\ ctx' = fin' /\ owed' = [owed EXCEPT ![a] = @ - fee]
  <2> DEFINE b == [fin.bal EXCEPT ![a] = fin.bal[a] - fee]
  <2>1. PICK q, p : fin' = [[fin EXCEPT !.bal = b] EXCEPT !.seq = q, !.pool = p]
    BY <1>6, ZenonT(60) DEF NInv, Shapes, IsLedger
  <2>2. owed' = b /\ b \in [Senders -> Int]
    <3>1. fee \in Nat
      BY BlockFlowAssumption
    <3> QED
      BY <1>2, <1>6, <3>1
  <2> HIDE DEF b
  <2>3. fin'.bal = b /\ fin'.gas = fin.gas /\ fin'.count = fin.count /\ fin'.receipts = fin.receipts
    BY <2>1, SMTT(60) DEF NInv, Shapes, IsLedger
  <2>4. HasBooks(fin')
    BY <1>2, <2>2, <2>3, SMTT(60) DEF HasBooks
  <2> QED
    BY <1>1, <1>3, <1>4, <1>6, <2>2, <2>3, <2>4, IdleBooks, ZenonT(60)
<1> QED
  BY <1>1, <1>5, <1>6, SMTT(60)

LEMMA DropTxBooks ==
    ASSUME NInv, FInv, NEW t, DropTx(t)
    PROVE  FInv'
<1>1. /\ pc = "idle" /\ pc' = "idle" /\ UNCHANGED <<fin, ctx, owed>>
      /\ \E r : results' = Append(results, r)
  BY ZenonT(60) DEF DropTx, runVars
<1>2. /\ fin.bal = owed /\ HasBooks(fin) /\ fin.count <= Len(results)
  BY <1>1 DEF FInv, Books, Counts, Balances, Stages
<1>3. (\E T : results' \in Seq(T)) /\ Len(results') = Len(results) + 1 /\ Len(results) \in Nat
  BY <1>1, ResultsGrow DEF FInv, Books
<1>4. fin.count <= Len(results')
  BY <1>2, <1>3, SMTT(60) DEF HasBooks
<1>5. Books'
  BY <1>1, <1>3, SMTT(60) DEF FInv, Books, HasBooks
<1>6. Counts' /\ Balances'
  BY <1>1, <1>2, <1>4, SMTT(60) DEF Counts, Balances, Stages
<1> QED
  BY <1>5, <1>6 DEF FInv

LEMMA EndBlockBooks ==
    ASSUME NInv, FInv, EndBlock
    PROVE  FInv'
<1>1. /\ pc = "idle" /\ pc' = "idle" /\ fin' = FreshBlock(fin) /\ ctx' = fin'
      /\ results' = <<>> /\ owed' = owed
  BY DEF EndBlock
<1>2. fin.bal = owed /\ owed \in [Senders -> Int]
  BY <1>1 DEF FInv, Books, Balances
<1>3. /\ fin'.bal = fin.bal /\ fin'.count = 0 /\ fin'.gas = [i \in Idx |-> 0]
      /\ fin'.receipts = [i \in Idx |-> NoReceipt]
  BY <1>1 DEF FreshBlock, NInv, Shapes, IsLedger
<1>4. HasBooks(fin')
  BY <1>2, <1>3 DEF HasBooks
<1>5. results' \in Seq({}) /\ Len(results') = 0
  BY <1>1
<1> QED
  BY <1>1, <1>2, <1>3, <1>4, <1>5, IdleBooks, SMTT(60)

LEMMA InitBooks == Init => FInv
<1> SUFFICES ASSUME Init PROVE FInv
  OBVIOUS
<1>1. fin \in Ledger /\ fin = FreshBlock(fin) /\ ctx = fin /\ pc = "idle" /\ owed = fin.bal
      /\ results = <<>>
  BY BlockFlowAssumption DEF Init
<1>2. /\ fin.bal \in [Senders -> Nat] /\ fin.gas \in [Idx -> Nat] /\ fin.count \in 0..MaxTxs
      /\ fin.receipts = [i \in Idx |-> fin.receipts[i]]
  BY <1>1 DEF Ledger
<1>3. fin.count = 0
  BY <1>1, ZenonT(60) DEF FreshBlock, Ledger
<1>4. HasBooks(fin)
  BY <1>2, <1>3 DEF HasBooks
<1>5. results \in Seq({}) /\ Len(results) = 0
  BY <1>1, SMTT(60)
<1>6. Books
  BY <1>1, <1>2, <1>4, <1>5, SMTT(60) DEF Books
<1>7. Counts /\ Balances
  BY <1>1, <1>3, <1>5 DEF Counts, Balances, Stages
<1> QED
  BY <1>6, <1>7 DEF FInv

LEMMA NextBooks ==
    ASSUME NInv, FInv, [Next]_vars
    PROVE  FInv'
<1>1. CASE AnteHandler
  BY <1>1, DropTxBooks, SetupContextBooks, ValidateBasicBooks, DeductFeeBooks, SigVerificationBooks,
     IncrementSequenceBooks, SetupExecutionContextBooks, EmitEventBooks, SMTT(60) DEF AnteHandler
<1>2. CASE EthereumTx
  <2>1. CASE CoreError
    BY <2>1, FailBooks DEF CoreError
  <2>2. CASE ExecutionPanics
    BY <2>2, FailBooks DEF ExecutionPanics
  <2> QED
    BY <1>2, <2>1, <2>2, RestoreNonceBooks, ApplyMessageBooks, ConsumeBlockGasBooks, SMTT(60) DEF EthereumTx
<1>3. CASE UNCHANGED vars
  <2>1. UNCHANGED <<fin, ctx, pc, tx, index, used, results, owed, params>>
    BY <1>3 DEF vars, runVars
  <2>2. Price' = Price
    BY <2>1 DEF Price, EffectiveGasPrice, baseFee
  <2>3. Moved(owed)' = Moved(owed)
    BY <2>1 DEF Moved
  <2>4. Books'
    BY <2>1 DEF FInv, Books, HasBooks
  <2>5. Counts'
    BY <2>1 DEF FInv, Counts, Stages
  <2>6. Charged(owed, tx.gas)' = Charged(owed, tx.gas)
    BY <2>1, <2>2 DEF Charged
  <2>7. Charged(IF ctx.receipts[index].ok THEN Moved(owed) ELSE owed, used)'
          = Charged(IF ctx.receipts[index].ok THEN Moved(owed) ELSE owed, used)
    <3> DEFINE to == IF ctx.receipts[index].ok THEN Moved(owed) ELSE owed
    <3>1. to' = to
      BY <2>1, <2>3
    <3> HIDE DEF to
    <3>2. Charged(to, used)' = Charged(to, used)
      BY <2>1, <2>2, <3>1, SMTT(60) DEF Charged
    <3> QED
      BY <3>2 DEF to
  <2>8. Balances'
    BY <2>1, <2>6, <2>7 DEF FInv, Balances
  <2> QED
    BY <2>4, <2>5, <2>8, SMTT(60) DEF FInv
<1> QED
  BY <1>1, <1>2, <1>3, CosmosTxBooks, EndBlockBooks, SMTT(60) DEF Next

(* Between transactions a sender has paid for exactly the gas on record:   *)
(* the charge of the ante handler and the refund of the EVM are written    *)
(* or dropped together with the record they belong to.                     *)
THEOREM FeesRight ==
    ASSUME MaxGas > 1
    PROVE  Spec => []FeesMatchGas
<1>1. NInv /\ FInv /\ [Next]_vars => FInv'
  BY NextBooks
<1>2. FInv => FeesMatchGas
  BY DEF FInv, Balances, FeesMatchGas
<1> QED
  BY <1>1, <1>2, InitBooks, Inductive, PTL DEF Spec

=============================================================================

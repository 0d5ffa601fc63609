----------------------------- MODULE FeeMarket ------------------------------
(***************************************************************************)
(* x/feemarket: its parameters, of which one is the base fee.  It is       *)
(* computed at the end of a block, for the next one, from the gas that the *)
(* block consumed; a proposal of governance replaces all parameters.       *)
(* Amounts are integers: the code's big.Int and sdkmath.Int do not wrap.   *)
(***************************************************************************)
EXTENDS Integers, Sequences

CONSTANTS
    MaxGas,       \* consensus parameter Block.MaxGas; -1 means unlimited
    InitParams    \* parameters a chain may start with

\* MinGasPrice is a decimal, read truncated to an integer.
Params == [baseFee : Nat, minGasPrice : Nat]

\* MaxGas 0 or 1 gives CalcBaseFee a gas target of zero, which it divides by.
ASSUME FeeMarketAssumption ==
    /\ MaxGas \in Int /\ (MaxGas = -1 \/ MaxGas > 1)
    /\ InitParams \subseteq Params

VARIABLE
    params        \* under ParamsKey

baseFee == params.baseFee

BiggestGas == 2^64 - 1

\* Parameters of EIP-1559 in go-ethereum.
ElasticityMultiplier == 2
BaseFeeChangeDenominator == 8

AtLeast(a, b) == IF a < b THEN b ELSE a

(* misc.CalcBaseFee of go-ethereum, for a parent with the given gas limit, *)
(* gas used and base fee.                                                  *)
CalcBaseFee(limit, used, fee) ==
    LET target == limit \div ElasticityMultiplier
        change(gap) == ((fee * gap) \div target) \div BaseFeeChangeDenominator
    IN  CASE used = target -> fee
          [] used > target -> fee + AtLeast(change(used - target), 1)
          [] used < target -> AtLeast(fee - change(target - used), 0)

(* Mutant: what was consumed past the limit counts.                        *)
GasConsumedToLimit_Uncapped(consumed) == consumed

(* The block gas meter reports its consumption capped at its limit.        *)
GasConsumedToLimit(consumed) ==
    IF MaxGas > 0 /\ consumed > MaxGas THEN MaxGas ELSE consumed

(* Mutant: the floor is left out.                                          *)
CalculateBaseFee_NoFloor(consumed, p) ==
    CalcBaseFee(IF MaxGas > -1 THEN MaxGas ELSE BiggestGas,
                GasConsumedToLimit(consumed), p.baseFee)

CalculateBaseFee(consumed, p) ==
    LET limit == IF MaxGas > -1 THEN MaxGas ELSE BiggestGas
    IN  AtLeast(CalcBaseFee(limit, GasConsumedToLimit(consumed), p.baseFee), p.minGasPrice)

(* Params.Validate: what is negative is refused.                           *)
Validate(p) == p.baseFee >= 0 /\ p.minGasPrice >= 0

(* UpdateParams: the message of a proposal that passed has every parameter,*)
(* the base fee as whoever wrote it put it there.  An error drops it.      *)
UpdateParams(p, new) == IF Validate(new) THEN new ELSE p

(* Keeper.EndBlock: the fee of the next block replaces the current one.    *)
updateBaseFeeForNextBlock(consumed, p) == [p EXCEPT !.baseFee = CalculateBaseFee(consumed, p)]

(* The end blocker of governance runs the proposals that passed, in turn.  *)
Governance(p, passed) ==
    LET after[i \in 0..Len(passed)] == IF i = 0 THEN p ELSE UpdateParams(after[i - 1], passed[i])
    IN  after[Len(passed)]

(* Mutant: the fee market runs before governance.                          *)
EndBlockers_GovLast(consumed, passed) ==
    params' = Governance(updateBaseFeeForNextBlock(consumed, params), passed)

(* orderEndBlockers: governance runs before the fee market.                *)
EndBlockers(consumed, passed) ==
    params' = updateBaseFeeForNextBlock(consumed, Governance(params, passed))

=============================================================================
